SPECIFICATION Spec
CONSTANTS
  r1 = r1
  r2 = r2
  r3 = r3
  id1 = id1
  id2 = id2
  id3 = id3
  Reqs = {r1, r2}
  Ids = {r1, r2}
  IdOf <- SelfIds
  Unsendable = {}
  AutoReconnect = TRUE
  MaxAttempts = 1
  AppCalls = {"connect", "disconnect", "reset", "requestWhenDown"}
  Kinds = {"reply"}
  MaxChunk = 1
  MaxSockets = 3
  MaxFailures = 1
  MaxCalls = 2
SYMMETRY Exchange
INVARIANTS TypeOK QueuesHoldWaiting OneReconnectTimer ListensToCurrent
PROPERTIES SettledForever ImplementsLifecycle StaysDisconnected
CHECK_DEADLOCK FALSE
