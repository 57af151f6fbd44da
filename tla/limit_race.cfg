SPECIFICATION Spec
CONSTANTS
  c1 = c1
  c2 = c2
  k1 = k1
  k2 = k2
  w = w
  long = long
  NoEntry = NoEntry
  NoRequest = NoRequest
  Keys = {k1, k2}
  Words = {w, long}
  MaxInt = 1
  TimeMod = 8
  Clients = {c1, c2}
  Requests <- ShortCalls
  NumShards = 2
  ShardOf <- TwoShards
  KeyCost <- Costs
  StrLen <- Lengths
  SSO = 1
  SizeMod = 64
  MemLimits = {4}
  SweepBatch = 2
  MaxCalls = 2
  MaxTime = 1
PROPERTIES LimitEnforced
