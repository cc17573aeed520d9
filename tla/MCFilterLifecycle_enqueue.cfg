\* Nothing fails: the pool is freed before the file callbacks are stopped.
CHECK_DEADLOCK FALSE
SPECIFICATION Spec
CONSTANTS
    Callers = {c1}
    Failures = {}
INVARIANTS
    EnqueueOnValidPool
