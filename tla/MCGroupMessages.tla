-------------------------- MODULE MCGroupMessages --------------------------
(***************************************************************************)
(* Instances of GroupMessages for TLC.                                     *)
(***************************************************************************)
EXTENDS GroupMessages, TLC

\* No definition names a user, handler or text.
Symmetric ==
  Permutations(Users) \cup Permutations(Procs) \cup Permutations(Contents)
=============================================================================
