\* TpUninit is called with items still queued.
CHECK_DEADLOCK FALSE
SPECIFICATION Spec
CONSTANTS
    MaxThreads = 2
    Items = {i1, i2}
    NoItem = NoItem
INVARIANTS
    RestProcessed
