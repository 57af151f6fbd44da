SPECIFICATION Spec
CONSTANTS
  c1 = c1
  c2 = c2
  k1 = k1
  k2 = k2
  w = w
  junk = junk
  NoEntry = NoEntry
  NoRequest = NoRequest
  Keys = {k1, k2}
  Words = {w, junk}
  MaxInt = 2
  TimeMod = 8
  Clients = {c1}
  Requests <- Rewrites
  Calls <- SameKey
  Scrambled <- Unmangled
  FrameSize = 1
  Failures = {"stop"}
  Limits = FALSE
  MaxCalls = 2
  MaxTime = 1
  MaxCrashes = 1
INVARIANTS StopKeepsAnswers
CHECK_DEADLOCK FALSE
