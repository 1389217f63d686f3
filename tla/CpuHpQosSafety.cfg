SPECIFICATION Spec
CONSTANTS
  N = 3
  NR_CPUS = 4
  Word = 16
  Users = {u1, u2}
  Requests <- AnyRequests
  InitialMasks <- AnyMask
  MaxWrites = 2
  MaxFails = 1
  MaxAdminOps = 1
SYMMETRY UserSymmetry
INVARIANTS
  TypeOK
  NoLostWakeup
  OnlineCount
  NeverTorn
  OnlyImpossibleMinKillsThread
