\* Two events, one of them of any kind, one thread of the pool so that a message
\* waits behind another, a client that comes back.
\* It stops when every event has happened and no port is left.
CHECK_DEADLOCK FALSE
SPECIFICATION FairSpec
CONSTANTS
    Events = {e1, e2}
    Sources <- OneOfAnyKind
    Ports = {port1, port2}
    NoPort = NoPort
    Senders = 1
    Commands <- FileOrRest
INVARIANTS
    PortAgrees
    ScratchReturned
    MessageOwned
PROPERTIES
    QueuedIsFreed
