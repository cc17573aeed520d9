\* Any step of DriverEntry may fail.  DriverEntry fails, or the driver is unloaded.
CHECK_DEADLOCK FALSE
SPECIFICATION Spec
CONSTANTS
    Callers = {c1, c2, c3}
    Failures <- AnyFailure
SYMMETRY CallerSymmetry
INVARIANTS
    UnloadedIsQuiet
    NotifyBeforeFree
