SPECIFICATION Spec
CONSTANTS
    u1 = u1
    u2 = u2
    t1 = t1
    t2 = t2
    c1 = c1
    r1 = r1
    Users = {u1, u2}
    Tokens = {t1, t2}
    Clients = {c1}
    Requests = {r1}
    Hours = {0, 1}
    HourTicks = 1
    TicksPerSecond = 2
    DurationBound = 4
    StartTime = 2
    MaxTime = 5
    MaxRestarts = 1
    None = None
SYMMETRY MCSymmetry
INVARIANTS
    TypeOK
    ServedOnlyWhileShared
    PasswordGate
    PasswordAskedOnce
    RevokedByOwner
