CONSTANTS
    inner = inner
    bastion = bastion
    vault = vault
    t1 = t1
    t2 = t2
    good = good
    p2200 = p2200
    p2222 = p2222
    NoHost = NoHost
    NoPassword = NoPassword
    Free = Free
    Hosts = {inner, bastion, vault}
    Tasks = {t1, t2}
    Jump <- JumpFromConfig
    KeyAuth = {inner, bastion}
    Secret <- GoodEverywhere
    Passwords = {good}
    MaxConnections = 2
    Wanted <- Requested
    MaxChannels = 1
    Empty = NoHost
    DefaultPort = DefaultPort
SPECIFICATION FileSpec
INVARIANT TypeOK
INVARIANT FilesTypeOK
INVARIANT PermitsConserved
INVARIANT SomebodyGoesOn
INVARIANT OneHandshakePerHost
INVARIANT StampsMatchConnections
INVARIANT ReturnsOpenConnection
INVARIANT RefusedKeysNotRetried
PROPERTY ImplementsAbstractPool
PROPERTY TreeAnswersInTaxonomy
SYMMETRY TaskSymmetry
