\* Two threads in a chain with a handler of each kind, one write nested in another walk.
SPECIFICATION Spec
CONSTANTS
    Handlers = {a, b, c}
    Inbound = {a}
    Outbound = {a, b, c}
    Callback = {b}
    Transforming = {a}
    m_head = Head
    m_tail = Tail
    NULL = NULL
    Threads = {t1, t2}
    MaxDepth = 2
    MaxReplies = 1
INVARIANTS
    TypeOK
    
    IdleRoutingClean
SYMMETRY ThreadSymmetry
CHECK_DEADLOCK FALSE
