\* Two submissions over two addresses, so that an address is used again.
SPECIFICATION FairSpec
CONSTANTS
    Tasks = {t1, t2}
    Addresses = {a1, a2}
    Null = Null
    Timeouts <- MCTimeouts
    UIntModulus <- MCUIntModulus
CHECK_DEADLOCK FALSE
INVARIANTS
    TypeOK
    NoStaleEntry
    AloneReportsOwn
PROPERTIES
    DoneSticks
    RegisteredResultArrives
    GetReturns
