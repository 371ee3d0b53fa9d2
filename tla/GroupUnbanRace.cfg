SPECIFICATION Spec
CONSTANTS
  Users = {u1, u2}
  Procs = {p1, p2}
  RequestIds = {r1}
  Failures = FALSE
  None = None
  MaxDrift = 1
SYMMETRY Symmetric
CONSTRAINT BoundedDrift
PROPERTY UnbanSparesActive
