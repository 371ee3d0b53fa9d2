--------------------------- MODULE MCUserAccounts ---------------------------
(***************************************************************************)
(* Instances of UserAccounts for TLC.                                      *)
(***************************************************************************)
EXTENDS UserAccounts, TLC

\* No definition names an account, user, installation, place or handler.
Symmetric ==
  Permutations(Accounts) \cup Permutations(Ids) \cup Permutations(Installations)
    \cup Permutations(Places) \cup Permutations(Procs)
=============================================================================
