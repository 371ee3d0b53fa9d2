SPECIFICATION Spec
CONSTANTS
  Ids = {m1, m2}
  d1 = d1
  d2 = d2
  Devices = {d1, d2}
  Watchers <- OneAndTwo
  Procs = {p1, p2}
  MaxTime = 2
  None = None
SYMMETRY Symmetric
INVARIANTS TypeOK
PROPERTIES UnreadMovesForAReason OutOfDateForAReason ReceiptsFollow
