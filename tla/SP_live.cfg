SPECIFICATION FairSpec
CONSTANTS
  r1 = r1
  r2 = r2
  r3 = r3
  id1 = id1
  id2 = id2
  id3 = id3
  Reqs = {r1, r2}
  Ids = {id1, id2, id3}
  IdOf <- OwnIds
  Unsendable = {}
  AutoReconnect = TRUE
  MaxAttempts = 1
  AppCalls = {}
  Kinds = {"reply"}
  MaxChunk = 2
  MaxSockets = 4
  MaxFailures = 2
  MaxCalls = 0
PROPERTIES RequestsSettle ReconnectEnds
CHECK_DEADLOCK FALSE
