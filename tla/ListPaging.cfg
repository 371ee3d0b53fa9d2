SPECIFICATION Spec
CONSTANTS
  Ids = {1, 2, 3}
  Times <- TwoMilliseconds
  PerMs = 2
  Joins = {1}
  Conversations <- OneMessage
  Lower <- SqlRanks
  ToLowerCase <- JavaScriptRanks
  Limits = {1, 2}
  MaxLive = 2
  MaxTouched = 1
  None = None
INVARIANTS TypeOK LeftOutAtEdgesOnly
PROPERTIES RepeatsAtEdgesOnly CursorAdvances WalksEnd
CHECK_DEADLOCK FALSE
