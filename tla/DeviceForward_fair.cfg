\* Two callers, three forwarded requests that find the device, two loads of it.
\* It stops at a crash.
CHECK_DEADLOCK FALSE
SPECIFICATION ForwardFairSpec
CONSTANTS
    Senders = {c1, c2}
    Files = {f1, f2, f3}
    NoFile = NoFile
    MaxLoads = 2
INVARIANTS
    CrashHasCause
    FilesBalance
PROPERTIES
    UnloadCompletes
