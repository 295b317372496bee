SPECIFICATION Spec
CONSTANTS
    l1 = l1
    l2 = l2
    Logins <- MCLogins
    maxLoginAttemptsPerMinute = 2
    Minute = 3
    TicksPerSecond = 2
    MaxTime = 5
    MaxAttempts = 4
SYMMETRY MCSymmetry
INVARIANTS
    TypeOK
    FailuresBounded
    RefusedForCause
