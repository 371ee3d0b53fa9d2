---------------------------- MODULE MCListPaging ----------------------------
(***************************************************************************)
(* Instances of ListPaging for TLC.                                        *)
(***************************************************************************)
EXTENDS ListPaging, Sequences

\* Two milliseconds of two microseconds each.
TwoMilliseconds == 0..3

\* A conversation has no message or one, so that others move it by sending or deleting one.
OneMessage == {{}} \cup {{t} : t \in Times}

\* Four names.  SQL and JavaScript lower the first two alike; JavaScript makes a later
\* name of the third than SQL does, an earlier one of the last.
SqlRanks == [name \in Times |-> <<0, 1, 0, 2>>[name + 1]]
JavaScriptRanks == [name \in Times |-> <<0, 1, 1, 0>>[name + 1]]
=============================================================================
