-------------------------- MODULE MCDirectMessages --------------------------
(***************************************************************************)
(* Instances of DirectMessages for TLC.                                    *)
(***************************************************************************)
EXTENDS DirectMessages, TLC

\* No definition names a user, handler or text.
Symmetric ==
  Permutations(Users) \cup Permutations(Procs) \cup Permutations(Contents)
=============================================================================
