CONSTANTS
    inner = inner
    bastion = bastion
    vault = vault
    t1 = t1
    t2 = t2
    good = good
    p2200 = p2200
    p2222 = p2222
    NoHost = NoHost
    NoPassword = NoPassword
    Free = Free
    Hosts = {inner, bastion}
    Tasks = {t1}
    Jump <- JumpFromConfig
    KeyAuth = {inner}
    Secret <- GoodEverywhere
    Passwords = {good}
    MaxConnections = 2
    Wanted <- Transfers
    MaxChannels = 1
    Empty = NoHost
    DefaultPort = DefaultPort
SPECIFICATION FileSpec
INVARIANT EveryAnswerInTaxonomy
