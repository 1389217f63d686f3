CONSTANTS
    TimerCpus = {c0, c1}
    TimerReaders = {r0, r1}
    MaxReads = 3
    SdeiCpus = 2
    SdeiReaders = {r0, r1}
    MaxSdeiReads = 3
    num_work = 3
    WorkCpus = 2
    MaxCpuUps = 2
    ListedWorks = 5
    UbCpus = {c0, c1}
    MaxCpuOps = 2
    CpufreqUsers = {h0, h1}
    MaxPolicy = 3
    DevfreqUsers = {h0, h1}
    MaxDfWrites = 2
SPECIFICATION Spec
INVARIANTS
    RearmingEnds
    OkIsOwnUnlessLate
    FreedEntryIsQuiet
    ListingMissesOnePerFullRead
    OnlyProbeRequeues
    PinnedPolicyIsSafe
    OwnLimitsUnlessMixed
PROPERTY LocksReleased
CHECK_DEADLOCK FALSE
