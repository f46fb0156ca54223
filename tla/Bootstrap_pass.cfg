\* Two connections, a selector and two workers, and a queue that a single event fills.
SPECIFICATION Spec
CONSTANTS
    Channels = {c1, c2}
    Workers = {w1, w2}
    NoChannel = NoChannel
    QueueLength = 1
    Talkers = {c1, c2}
    Busy = {c1}
    MaxSend = 2
    MaxMissed = 1
INVARIANTS
    TypeOK
    OneEventPerEntry
PROPERTIES
    InputIsRead
    ClosedIsFreed
CHECK_DEADLOCK FALSE
