\* Two callers of MyDeviceControl, with CLEAR; more ids than slots.
SPECIFICATION Spec
CONSTANTS
    Pids = {p1, p2, p3}
    Nobody = Nobody
    MAXPIDS = 2
    Callers = {c1, c2}
    Buffers <- Requests
    Ragged = Ragged
    CountBound = 2
    BufferLength = 2
SYMMETRY RequestSymmetry
INVARIANTS
    CountCovers
    CopiesBounded
    PromiseKept
PROPERTIES
    EarlyStopLeavesNothing
    RefusedOnlyWhenFull
