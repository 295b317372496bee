SPECIFICATION AsSpec
CONSTANTS
    g1 = g1
    g2 = g2
    g3 = g3
    t1 = t1
    t2 = t2
    alice = alice
    bob = bob
    Goroutines <- MCGoroutines
    Threads <- MCThreads
    Users <- MCUsers
    Root = root
    None = none
    NoGroups = noGroups
    Refusable = {}
    MaxRefused = 0
    GroupScopes = {"process"}
SYMMETRY MCSymmetry
INVARIANT
    GroupsOfCaller
