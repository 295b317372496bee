SPECIFICATION Spec
CONSTANTS
    u1 = u1
    u2 = u2
    r1 = r1
    r2 = r2
    Users = {u1, u2}
    Requests = {r1, r2}
    Stats <- MCStats
    TicksPerSecond = 2
    MaxVersion = 3
    Torn = Torn
    None = None
SYMMETRY MCSymmetry
INVARIANTS
    TypeOK
    FreshForItsStamp
    ReadersOnly
