\* The pool as UnitTest1 uses it, with restarts; no symmetry.
\* It stops for good when TpUninit finds an item left in the queue.
CHECK_DEADLOCK FALSE
SPECIFICATION FairSpec
CONSTANTS
    MaxThreads = 3
    Items = {i1, i2, i3}
    NoItem = NoItem
INVARIANTS
    OutliveThreads
    ReturnMeansDone
PROPERTIES
    InitReturns
