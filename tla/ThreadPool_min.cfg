\* The documented minimum of threads, without shutdown and with exact queue sizes.
SPECIFICATION Spec
CONSTANTS
    Tasks = {t1, t2, t3}
    NoTask = NoTask
    MinThreads = 1
    MaxThreads = 2
    QueueLength = 2
    Policies = {"DISCARD_DELETE"}
    MayShutDown = FALSE
    TornReads = FALSE
SYMMETRY TaskSymmetry
CHECK_DEADLOCK FALSE
INVARIANTS
    AtLeastMinWorkers
