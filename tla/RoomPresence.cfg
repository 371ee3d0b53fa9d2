SPECIFICATION Spec
CONSTANTS
  Sockets = {"a1", "a2", "b1"}
  Servers = {"A", "B"}
  Home <- TwoAndOne
  PeerSockets = {"a1", "b1"}
  Crashes = TRUE
  MaxInFlight = 2
  None = None
INVARIANTS TypeOK QuietIsRight
PROPERTIES ComesToRest
