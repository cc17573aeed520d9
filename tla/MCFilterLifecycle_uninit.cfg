\* The thread notify routine cannot be set; DriverEntry goes on without a pool.
CHECK_DEADLOCK FALSE
SPECIFICATION Spec
CONSTANTS
    Callers = {c1}
    Failures = {"thread"}
INVARIANTS
    UninitOnValidPool
