-------------------------- MODULE MCReadSummaries --------------------------
(* The instances of ReadSummaries that TLC checks. *)
EXTENDS ReadSummaries, TLC

CONSTANTS d1, d2

\* The inbox treats all devices alike; a group tells the one that marked.
OneAndTwo == [dm |-> {d1}, group |-> {d1, d2}]

\* No definition names a message or a handler.
Symmetric == Permutations(Ids) \cup Permutations(Procs)
=============================================================================
