SPECIFICATION Spec
CONSTANTS
    c1 = c1
    p1 = p1
    p2 = p2
    k1 = k1
    k2 = k2
    Challenges <- MCOneChallenge
    Polls <- MCPolls
    Clients <- MCClients
    DeviceCodeTTL = 1
    MaxVerifyAttempts = 2
    MaxTime = 3
    NoChallenge = NoChallenge
INVARIANT
    SingleUse
