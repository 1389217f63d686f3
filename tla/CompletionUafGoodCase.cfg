SPECIFICATION FairSpec
CONSTANTS
  r1 = r1
  r2 = r2
  r3 = r3
  shared = shared
  single = single
  a1 = a1
  a2 = a2
  Readers <- TheReaders
  Procs <- TheProcs
  ProcOf <- TheProcOf
  Addrs <- TheAddrs
INVARIANTS
  NoUseAfterFree
CHECK_DEADLOCK FALSE
