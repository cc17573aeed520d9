\* Three threads and three items; calls may come while the pool is not up (the
\* file callbacks of FilterDriver).  A TpUninit of a pool that is not up stops the
\* system for good: hence no deadlock check.
SPECIFICATION FairSpec
CONSTANTS
    MaxThreads = 3
    Items = {i1, i2, i3}
    NoItem = NoItem
    LateCalls = TRUE
INVARIANTS
    NoUseAfterFree
    NoLostWakeup
    NoBugCheck
    OwedAreExecuted
    WorkersGone
PROPERTIES
    ImplementsWorkQueue
    QueuedIsExecuted
    UninitReturns
CHECK_DEADLOCK FALSE
