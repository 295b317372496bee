SPECIFICATION FairSpec
CONSTANTS
    f1 = f1
    f2 = f2
    i1 = i1
    i2 = i2
    i3 = i3
    ticker = ticker
    request = request
    s1 = s1
    Files <- MCFiles
    Slots <- MCSlots
    Rebuilders <- MCRebuilders
    Ticker = ticker
    Searchers = {s1}
    Stats <- MCStats
    Identities <- MCIdentities
    Queries <- MCQueries
    BatchSize = 2
    maxResults = 1
    Absent = Absent
    NoIndex = NoIndex
INVARIANTS
    TypeOK
    NoIndexLeaks
PROPERTIES
    NoHalfBuiltIndex
    StableFilesFound
    ResultsGranted
    FewMatchesAllShown
