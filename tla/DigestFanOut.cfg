SPECIFICATION FairSpec
CONSTANTS
  Recipients = {r1, r2}
  Messages = {m1, m2}
  MaxSnippets = 1
  StaleAfter = 0
  MaxTime = 1
  Failures = TRUE
  None = None
PROPERTY EveryFanOutEnds
