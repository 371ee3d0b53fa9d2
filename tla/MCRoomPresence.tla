--------------------------- MODULE MCRoomPresence ---------------------------
(***************************************************************************)
(* Instances of RoomPresence for TLC.                                      *)
(***************************************************************************)
EXTENDS RoomPresence, TLC

TwoAndOne == "a1" :> "A" @@ "a2" :> "A" @@ "b1" :> "B"
=============================================================================
