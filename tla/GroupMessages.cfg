SPECIFICATION Spec
CONSTANTS
  Users = {u1, u2}
  Procs = {p1, p2}
  Contents = {c1, c2}
  Permissions = {"admin_only", "members_in_radius"}
  Failures = TRUE
  None = None
SYMMETRY Symmetric
INVARIANTS TypeOK DeletionsAreReal RoomSeesHistory
PROPERTIES Rightful FollowsFate
