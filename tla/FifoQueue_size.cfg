\* The documented meaning of size() against an unlocked reader.
SPECIFICATION Spec
CONSTANTS
    Elements = {a}
    Capacity = 3
    NoData = NoData
    Readers = {r1}
    SizeModulus <- MCSizeModulus
INVARIANTS
    SizeWithinCapacity
