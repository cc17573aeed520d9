\* Three receivers, two other processes that open three files, three connections.
\* It stops when the driver failed to load, or was unloaded and all files opened.
CHECK_DEADLOCK FALSE
SPECIFICATION FairSpec
CONSTANTS
    Receivers = {r1, r2, r3}
    Openers = {o1, o2}
    Ports = {port1, port2, port3}
    NoPort = NoPort
    Texts = {"pause", "file"}
    Opens = 3
INVARIANTS
    EchoConserved
    PortAgrees
PROPERTIES
    StuckStays
    MutedStays
    OpenReturns
