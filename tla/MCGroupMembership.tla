------------------------- MODULE MCGroupMembership -------------------------
(***************************************************************************)
(* Instances of GroupMembership for TLC.                                   *)
(***************************************************************************)
EXTENDS GroupMembership, TLC

CONSTANT MaxDrift   \* how far member_count may drift before TLC stops looking

\* The ids of requests and handlers are interchangeable, and so are users: no
\* definition names one.
Symmetric == Permutations(Users) \cup Permutations(Procs) \cup Permutations(RequestIds)

BoundedDrift == Live => Drift \in -MaxDrift..MaxDrift
============================================================================
