SPECIFICATION Spec
CONSTANTS
  Recipients = {r1, r2}
  Messages = {m1, m2, m3}
  MaxSnippets = 2
  StaleAfter = 0
  MaxTime = 1
  Failures = TRUE
  None = None
INVARIANTS TypeOK EveryMessageCounted NothingComesBack FirstRings
PROPERTY LeftOutForAReason
SYMMETRY Symmetric
