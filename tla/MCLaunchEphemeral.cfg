CONSTANTS
    d1 = d1
    d2 = d2
    e1 = e1
    v1 = v1
    Nobody = Nobody
    Ragged = Ragged
    Daemons = {d1}
    Ephemeral = {e1}
    Saved = {}
    Ports = {1, 2}
SPECIFICATION Spec
INVARIANT EphemeralEntryWhileServing
CHECK_DEADLOCK FALSE
