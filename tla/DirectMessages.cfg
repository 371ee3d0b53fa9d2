SPECIFICATION Spec
CONSTANTS
  Users = {u1, u2}
  Procs = {p1, p2}
  Contents = {c1, c2}
  Failures = TRUE
  None = None
SYMMETRY Symmetric
INVARIANTS TypeOK OnePlace LeftAlone ConversationsOpened
PROPERTIES OwnExceptionsOnly FollowsFate
