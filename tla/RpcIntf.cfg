SPECIFICATION FairSpec
CONSTANTS
  Clients = {c1, c2}
  LastCmd = 2
  Known <- TwoOfThree
  MaxLost = 1
  MaxDuplicated = 1
  MaxCorrupted = 1
INVARIANTS
  AnswersInStep
  RepliesToAsker
  RunsBounded
PROPERTIES
  Finishes
CHECK_DEADLOCK FALSE
