SPECIFICATION FairSpec
CONSTANTS
  r1 = r1
  r2 = r2
  r3 = r3
  id1 = id1
  id2 = id2
  id3 = id3
  Reqs = {r1}
  Ids = {id1, id2, id3}
  IdOf <- OneId
  Unsendable = {}
  AutoReconnect = TRUE
  MaxAttempts = 1
  AppCalls = {"requestWhenDown"}
  Kinds = {"reply"}
  MaxChunk = 1
  MaxSockets = 4
  MaxFailures = 1
  MaxCalls = 0
PROPERTIES RequestsSettle
CHECK_DEADLOCK FALSE
