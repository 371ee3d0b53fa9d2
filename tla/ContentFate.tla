---------------------------- MODULE ContentFate ----------------------------
(***************************************************************************)
(* What becomes of a text: a direct message is held as a request or        *)
(* delivered, a message of a group is delivered at once; a held one is     *)
(* delivered at most once or dropped, and nothing brings back what was     *)
(* deleted, declined, replaced or refused.  A deleted group takes its      *)
(* messages along.  DirectMessages and GroupMessages implement this one.   *)
(*                                                                         *)
(*      unsent ----> held ----> delivered ----> deleted                    *)
(*        |            |           |               |                       *)
(*        +------------+---> gone <+---------------+                       *)
(*                                                                         *)
(* (unsent ----> delivered as well)                                        *)
(***************************************************************************)
CONSTANT Contents

VARIABLE fate   \* of each text

Fates == {"unsent", "held", "delivered", "deleted", "gone"}

Moves == {<<"unsent", "held">>, <<"unsent", "delivered">>, <<"unsent", "gone">>,
          <<"held", "delivered">>, <<"held", "gone">>,
          <<"delivered", "deleted">>, <<"delivered", "gone">>, <<"deleted", "gone">>}

Init == fate = [c \in Contents |-> "unsent"]

\* One step may move several texts: a new one can take the place of an old one.
Next ==
  /\ fate' \in [Contents -> Fates]
  /\ \A c \in Contents : fate'[c] # fate[c] => <<fate[c], fate'[c]>> \in Moves

Spec == Init /\ [][Next]_fate
============================================================================
