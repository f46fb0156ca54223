\* One connection with a selector and two workers, and buffers that wear out.
SPECIFICATION Spec
CONSTANTS
    Workers = {w1, w2}
    Selector = sel
    Nobody = Nobody
    Capacity = 4
    ReadLength = 3
    MaxIn = 2
    MaxOut = 2
    Messages = {1, 2}
    Ages = {0, 3}
INVARIANTS
    TypeOK
    InputConserved
    InOrder
    OutputInOrder
PROPERTIES
    DropsAreLoneBytes
    OutputLeaves
CHECK_DEADLOCK FALSE
