SPECIFICATION ServerSpec
CONSTANTS
    k1 = k1
    r1 = r1
    r2 = r2
    t1 = t1
    t2 = t2
    alice = alice
    bob = bob
    Tokens <- MCTokens
    Requests <- MCRequests
    TicksPerSecond = 2
    IdleTimeout = 2
    RememberMeDuration = 2
    MaxTime = 3
    NoRow = NoRow
    Goroutines <- MCRequests
    Threads <- MCThreads
    Users <- MCUsers
    Root = root
    None = none
    NoGroups = noGroups
    Refusable = {"uid", "groups", "getgroups"}
    MaxRefused = 1
    GroupScopes = {"thread", "process"}
    Configurations <- MCConfigurations
SYMMETRY MCSymmetry
INVARIANTS
    ServerTypeOK
    ActsAsCaller
    PoolThreadsAreRoot
    QuiescentGroupsAreRoot
    AdmittedInTime
PROPERTIES
    GoneForGood
