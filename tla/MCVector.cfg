SPECIFICATION VectorSpec
CONSTANTS
    Keys <- TwoKeys
    Names <- TwoNames
    Reserved = 1
    MaxElems = 3
    HeapFails = TRUE
INVARIANTS
    Capacity
PROPERTIES
    IsList
