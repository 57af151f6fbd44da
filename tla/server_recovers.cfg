SPECIFICATION Spec
CONSTANTS
  c1 = c1
  c2 = c2
  k1 = k1
  k2 = k2
  w = w
  junk = junk
  NoEntry = NoEntry
  NoRequest = NoRequest
  Keys = {k1, k2}
  Words = {w, junk}
  MaxInt = 2
  TimeMod = 8
  Clients = {c1, c2}
  Requests <- CounterRequests
  Calls <- OwnCounters
  Scrambled <- Unmangled
  FrameSize = 1
  Failures = {"kill", "stop"}
  Limits = FALSE
  MaxCalls = 2
  MaxTime = 1
  MaxCrashes = 2
INVARIANTS ClientOrder
PROPERTIES RecoversMemory
CHECK_DEADLOCK FALSE
