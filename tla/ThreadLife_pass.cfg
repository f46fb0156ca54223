\* The main thread, three objects with threads of their own, and ids that are used again.
SPECIFICATION Spec
CONSTANTS
    Objects = {o1, o2, o3}
    Main = main
    Tids = {1, 2, 3}
    MainTid = 1
    None = None
SYMMETRY ObjectSymmetry
INVARIANTS
    TypeOK
    ThreadAgreesWithObject
CHECK_DEADLOCK FALSE
