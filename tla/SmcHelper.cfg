SPECIFICATION Spec
CONSTANTS
  Clients = {c1, c2, c3}
  Block = 2
  MaxCalls = 5
SYMMETRY ClientSymmetry
INVARIANTS
  PrintsOwn
  TakenOnce
  EmptyMeansTaken
CHECK_DEADLOCK FALSE
