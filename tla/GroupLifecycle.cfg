SPECIFICATION Spec
CONSTANTS
  Users = {u1, u2}
  Procs = {p1, p2}
  RequestIds = {r1, r2}
  Failures = TRUE
  None = None
  MaxDrift = 1
SYMMETRY Symmetric
CONSTRAINT BoundedDrift
INVARIANT OnePendingRequest
PROPERTY FollowsLifecycle
