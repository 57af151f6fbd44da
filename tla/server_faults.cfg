SPECIFICATION FairSpec
CONSTANTS
  c1 = c1
  c2 = c2
  k1 = k1
  k2 = k2
  w = w
  junk = junk
  NoEntry = NoEntry
  NoRequest = NoRequest
  Keys = {k1, k2}
  Words = {w, junk}
  MaxInt = 2
  TimeMod = 8
  Clients = {c1}
  Requests <- Mixed
  Calls <- SameMix
  Scrambled <- Mangled
  FrameSize = 2
  Failures = {"torn", "power"}
  Limits = TRUE
  MaxCalls = 3
  MaxTime = 1
  MaxCrashes = 3
INVARIANTS TypeOK ClientOrder NothingInvented
 
CHECK_DEADLOCK FALSE
