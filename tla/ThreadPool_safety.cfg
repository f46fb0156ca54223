\* Bookkeeping and refinement, with overflow, shutdown and torn queue sizes.
SPECIFICATION Spec
CONSTANTS
    Tasks = {t1, t2, t3}
    NoTask = NoTask
    MinThreads = 1
    MaxThreads = 2
    QueueLength = 2
    Policies = {"DISCARD_DELETE", "NEW_THREAD"}
    MayShutDown = TRUE
    TornReads = TRUE
SYMMETRY TaskSymmetry
CHECK_DEADLOCK FALSE
INVARIANTS
    TypeOK
    LiveWithinBounds
    WorkerBalance
    TokenBalance
    PopFindsTask
PROPERTIES
    ImplementsTaskPool
