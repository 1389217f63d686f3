SPECIFICATION FairSpec
CONSTANTS
  N = 3
  NR_CPUS = 4
  Word = 16
  Users = {u1}
  Requests <- AllCpusRequested
  InitialMasks <- AllOnline
  MaxWrites = 1
  MaxFails = 0
  MaxAdminOps = 1
PROPERTIES
  ReachesRange
