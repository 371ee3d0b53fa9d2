------------------------ MODULE MembershipLifecycle ------------------------
(***************************************************************************)
(* What the groups module of the API promises about one group, whatever    *)
(* happens inside its request handlers: every user has one standing in the *)
(* group, and only the moves below are possible.  The detailed             *)
(* specification, GroupMembership, implements this one.                    *)
(*                                                                         *)
(*      out --Enter--> member <--SetRank--> moderator                      *)
(*       ^               |                     |                           *)
(*       +-----Exit------+----------Exit-------+                           *)
(*       |               +----------Ban--------+----> banned               *)
(*       +-----------------------Lift------------------+                   *)
(*                                                                         *)
(* The owner's standing changes only when the whole group is dissolved.    *)
(***************************************************************************)
CONSTANT Users, NoUser

VARIABLES stage,     \* of the group: not created yet, live, or deleted
          owner,     \* the user who created it
          standing   \* of each user

vars == <<stage, owner, standing>>

Standings == {"out", "member", "moderator", "owner", "banned"}

Init ==
  /\ stage = "absent"
  /\ owner = NoUser
  /\ standing = [u \in Users |-> "out"]

Create(u) ==
  /\ stage = "absent"
  /\ stage' = "live"
  /\ owner' = u
  /\ standing' = [standing EXCEPT ![u] = "owner"]

\* One user of a live group moves from a standing in `from` to `to`.
Move(u, from, to) ==
  /\ stage = "live"
  /\ standing[u] \in from
  /\ standing' = [standing EXCEPT ![u] = to]
  /\ UNCHANGED <<stage, owner>>

Enter(u)   == Move(u, {"out"}, "member")
Exit(u)    == Move(u, {"member", "moderator"}, "out")
Ban(u)     == Move(u, {"member", "moderator"}, "banned")
Lift(u)    == Move(u, {"banned"}, "out")
SetRank(u) == \E r \in {"member", "moderator"} : Move(u, {"member", "moderator"}, r)

Dissolve ==
  /\ stage = "live"
  /\ stage' = "deleted"
  /\ owner' = NoUser
  /\ standing' = [u \in Users |-> "out"]

Next ==
  \/ Dissolve
  \/ \E u \in Users : Create(u) \/ Enter(u) \/ Exit(u) \/ Ban(u) \/ Lift(u) \/ SetRank(u)

Spec == Init /\ [][Next]_vars
============================================================================
