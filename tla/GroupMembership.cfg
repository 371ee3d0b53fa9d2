SPECIFICATION Spec
CONSTANTS
  Users = {u1, u2, u3}
  Procs = {p1, p2}
  RequestIds = {r1}
  Failures = TRUE
  None = None
  MaxDrift = 1
SYMMETRY Symmetric
CONSTRAINT BoundedDrift
INVARIANTS TypeOK OwnerStands
PROPERTY DriftOnlyByMiscounting
