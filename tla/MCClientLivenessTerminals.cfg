CONSTANTS
    h1 = h1
    tab1 = tab1
    tab2 = tab2
    term1 = term1
    term2 = term2
    web1 = web1
    Hosts = {h1}
    Tabs = {}
    Terminals = {term1, term2}
    Browsers = {web1}
    HostOf <- OneHost
    Replies = {"pong"}
    PingInterval = 1
    PongTimeout = 3
    PingTimeout = 3
    ReaperInterval = 1
    GracePeriod = 2
    AutoExitGrace = 4
    MaxTerminals = 1
    AutoExit = TRUE
    MaxDelay = 0
    MaxTime = 12
    Never = Never
SPECIFICATION Spec
CHECK_DEADLOCK FALSE
INVARIANT RunningTerminalsCapped
