SPECIFICATION Spec
CONSTANTS
  Accounts = {a1}
  Ids = {i1, i2}
  Installations = {d1}
  Places = {g1, g2}
  DmPermissions = {"members", "nobody"}
  Procs = {p1, p2}
  Failures = TRUE
  None = None
SYMMETRY Symmetric
INVARIANTS TypeOK OneUserPerAccount DisabledStaysSilent
PROPERTY UndoneInWindowOnly
