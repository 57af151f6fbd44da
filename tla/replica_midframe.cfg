SPECIFICATION FairSpec
CONSTANTS
  Chars <- Alphabet
  MaxNumber = 1
  History <- BulkLine
  IsCommand <- Executed
  ReadSize = 5
  Failures = {"drop"}
  MaxFaults = 1
PROPERTIES MemoryConverges
CHECK_DEADLOCK FALSE
