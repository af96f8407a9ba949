CONSTANTS
    inner = inner
    bastion = bastion
    t1 = t1
    t2 = t2
    t3 = t3
    good = good
    bad = bad
    NoHost = NoHost
    NoPassword = NoPassword
    Free = Free
    Hosts = {bastion}
    Tasks = {t1, t2}
    Jump <- JumpViaBastion
    KeyAuth = {}
    Secret <- GoodEverywhere
    Passwords = {good, bad}
    MaxConnections = 1
    AuthMax = 2
SPECIFICATION AuthSpec
INVARIANT RightPasswordAccepted
