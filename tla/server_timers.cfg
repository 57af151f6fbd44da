SPECIFICATION Spec
CONSTANTS
  c1 = c1
  c2 = c2
  k1 = k1
  k2 = k2
  w = w
  junk = junk
  NoEntry = NoEntry
  NoRequest = NoRequest
  Keys = {k1, k2}
  Words = {w, junk}
  MaxInt = 2
  TimeMod = 8
  Clients = {c1}
  Requests <- TimerRequests
  Calls <- OwnTimers
  Scrambled <- Unmangled
  FrameSize = 1
  Failures = {"kill", "torn", "stop"}
  Limits = FALSE
  MaxCalls = 4
  MaxTime = 4
  MaxCrashes = 1
INVARIANTS AckedLogged
PROPERTIES RecoversLive
CHECK_DEADLOCK FALSE
