\* One submission: the future against its own task.
SPECIFICATION Spec
CONSTANTS
    Tasks = {t1}
    Addresses = {a1}
    Null = Null
    Timeouts <- MCTimeouts
    UIntModulus <- MCUIntModulus
CHECK_DEADLOCK FALSE
INVARIANTS
    FutureReportsRanTask
