SPECIFICATION Spec
CONSTANTS
  r1 = r1
  r2 = r2
  r3 = r3
  id1 = id1
  id2 = id2
  id3 = id3
  Reqs = {r1, r2, r3}
  Ids = {id1, id2, id3}
  IdOf <- SharedId
  Unsendable = {r3}
  AutoReconnect = FALSE
  MaxAttempts = 1
  AppCalls = {"disconnect", "requestWhenDown"}
  Kinds = {"reply", "malformed", "stray", "notification"}
  MaxChunk = 2
  MaxSockets = 2
  MaxFailures = 1
  MaxCalls = 1
PROPERTIES AnsweredByOwnReply
CHECK_DEADLOCK FALSE
