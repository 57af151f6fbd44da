SPECIFICATION FairSpec
CONSTANTS
  c1 = c1
  c2 = c2
  k1 = k1
  k2 = k2
  w = w
  long = long
  NoEntry = NoEntry
  NoRequest = NoRequest
  Keys = {k1, k2}
  Words = {w, long}
  MaxInt = 1
  TimeMod = 8
  Clients = {c1, c2}
  Requests <- MemoryCalls
  NumShards = 1
  ShardOf <- OneShard
  KeyCost <- Costs
  StrLen <- Lengths
  SSO = 1
  SizeMod = 64
  MemLimits = {4, 9}
  SweepBatch = 2
  MaxCalls = 3
  MaxTime = 1
INVARIANTS TypeOK MutexInv NoLostUpdate
PROPERTIES ImplementsKVStore DriftOnlyByReplacing EveryCallReturns
