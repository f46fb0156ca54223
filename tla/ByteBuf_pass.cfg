\* One buffer under overlapping calls: small enough to fill up, be cleared and resized.
SPECIFICATION Spec
CONSTANTS
    Threads = {t1, t2}
    Capacities = {2, 3}
    Lengths = {1, 2}
    Kinds = {"byte", "short"}
    MaxBytes = 3
    Nobody = Nobody
INVARIANTS
    TypeOK
    AnnouncedBytesPresent
    AllOrNothing
    ReadableNotOverstated
PROPERTIES
    BytesTakenOnce
    CallsReturn
CHECK_DEADLOCK FALSE
