CONSTANTS
    k1 = k1
    k2 = k2
    c1 = c1
    c2 = c2
    p1 = p1
    p2 = p2
    s1 = s1
    NoSecret = NoSecret
    NoCode = NoCode
    NoToken = NoToken
    Server = Server
    Secrets = {k1, k2}
    Codes = {c1}
    Commands = {p1, p2}
    MaxRequests = 1
    MaxAttempts = 2
    Window = 3
    LockoutBase = 3
    LockoutCap = 4
    MaxLevel = 2
    Tokens = {s1}
    TTL = 1
    MaxBusy = 2
    MaxTime = 11
SPECIFICATION Spec
INVARIANT TypeOK
INVARIANT FailuresPerWindow
PROPERTY LockoutsHonoured
INVARIANT BackupCodeOnce
INVARIANT EnrolmentStands
INVARIANT SessionsHold
SYMMETRY Symmetry
