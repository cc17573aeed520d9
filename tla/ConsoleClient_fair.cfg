\* Two threads, three messages, two senders; the client is started twice.
\* It stops when the client is not started again.
CHECK_DEADLOCK FALSE
SPECIFICATION FairSpec
CONSTANTS
    MaxThreads = 2
    Messages = 3
    Senders = 2
    Clients = 2
INVARIANTS
    Accounted
    WaitsForEver
PROPERTIES
    SomeoneReceives
    HandedIsSettled
    LostPortEndsReceivers
