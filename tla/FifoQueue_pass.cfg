\* The queue against its abstract specification, with one unlocked reader.
SPECIFICATION Spec
CONSTANTS
    Elements = {a, b}
    Capacity = 3
    NoData = NoData
    Readers = {r1}
    SizeModulus <- MCSizeModulus
INVARIANTS
    TypeOK
    IndexInv
    TornSizeRange
PROPERTIES
    ImplementsFifo
