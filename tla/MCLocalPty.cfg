CONSTANTS
    s1 = s1
    s2 = s2
    Sessions = {s1, s2}
    MaxSessions = 1
    TermTries = 2
    WaitTries = 2
    SetsidWithin = 2
    SignalPatience = 3
    ExitPatience = 5
SPECIFICATION Spec
INVARIANT TypeOK
INVARIANT ClosedLeavesNothing
INVARIANT LiveShellsCapped
INVARIANT NeverBlocked
INVARIANT ShutdownLeavesNothing
INVARIANT AutoExitIsGraceful
PROPERTY ShutdownEnds
PROPERTY ImplementsAbstractConsoles
CHECK_DEADLOCK FALSE
