CONSTANTS
    d1 = d1
    d2 = d2
    e1 = e1
    v1 = v1
    Nobody = Nobody
    Ragged = Ragged
    Daemons = {d1, d2}
    Ephemeral = {e1}
    Saved = {v1}
    Ports = {1, 2}
SYMMETRY Symmetry
SPECIFICATION Spec
INVARIANT TypeOK
INVARIANT ServingDaemonReachable
INVARIANT OneDaemon
INVARIANT SoleStartSucceeds
INVARIANT LeftoversRemoved
PROPERTY SavedEntriesKept
CHECK_DEADLOCK FALSE
