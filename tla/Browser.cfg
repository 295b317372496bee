SPECIFICATION Spec
CONSTANTS
    docs = docs
    pics = pics
    f1 = f1
    f2 = f2
    l1 = l1
    l2 = l2
    o1 = o1
    c1 = c1
    nothing = nothing
    ts = ts
    py = py
    other = other
    Extensions <- MCExtensions
    NoExtension <- other
    TypeNames <- MCNames
    NoName <- nothing
    Dirs <- MCDirs
    Home <- docs
    Names <- MCNames
    Files <- MCFiles
    Listings <- MCListings
    Operations <- MCOperations
    CsrfTokens <- MCCsrfTokens
    None <- nothing
INVARIANTS
    TypeOK
    QuietIsTrue
    NotLockedOut
    LoadingIsAwaited
PROPERTIES
    OnlyShownChanged
SYMMETRY Alike
