\* Progress and shutdown of a pool that grows and lets threads go, with exact queue sizes.
SPECIFICATION FairSpec
CONSTANTS
    Tasks = {t1, t2}
    NoTask = NoTask
    MinThreads = 1
    MaxThreads = 2
    QueueLength = 2
    Policies = {"DISCARD_DELETE"}
    MayShutDown = TRUE
    TornReads = FALSE
CHECK_DEADLOCK FALSE
PROPERTIES
    QueuedTasksStart
    ShutdownReleasesWorkers
    ShutdownReturns
