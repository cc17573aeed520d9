\* Two processes, up to three requests, one failure; workers' ids are reused.
\* It stops when the requests are used up, or the system has.
CHECK_DEADLOCK FALSE
SPECIFICATION FairSpec
CONSTANTS
    Callers = {c1, c2}
    Gone = Gone
    MaxThreads = 2
    TestThreads = 2
    ProcessItems = 1
    TestItems = 1
    TestLoop = 3
    Fired = {"registry"}
    ThreadIds = 2
    Requests = 3
    Failures = 1
INVARIANTS
    CrashHasCause
    NumberExact
    UnloadUndoesEntry
PROPERTIES
    RequestReturns
