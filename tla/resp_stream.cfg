SPECIFICATION Spec
CONSTANTS
  Chars <- Alphabet
  MaxNumber = 4
  Units <- Sent
  MaxUnits = 2
  MaxRead = 8
  Serialize <- serialize
INVARIANTS AnsweredInOrder NothingHeldBack LogReplays
 
CHECK_DEADLOCK FALSE
