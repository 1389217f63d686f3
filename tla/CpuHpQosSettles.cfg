SPECIFICATION FairSpec
CONSTANTS
  N = 3
  NR_CPUS = 4
  Word = 16
  Users = {u1, u2}
  Requests <- FewMeetableRequests
  InitialMasks <- ContiguousMasks
  MaxWrites = 2
  MaxFails = 1
  MaxAdminOps = 0
INVARIANTS
  Contiguous
  CallsHaveEffect
PROPERTIES
  Settles
