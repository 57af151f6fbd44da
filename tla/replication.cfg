SPECIFICATION FairSpec
CONSTANTS
  Chars <- Alphabet
  MaxNumber = 1
  History <- Lines
  IsCommand <- Executed
  Failures = {"drop", "replica", "kill", "torn", "power"}
  ReadSize = 5
  MaxFaults = 2
INVARIANTS NoGap MemoryIsReplay
PROPERTIES ImplementsMirror FileConverges
CHECK_DEADLOCK FALSE
