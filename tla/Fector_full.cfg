SPECIFICATION Spec
CONSTANTS
    Capacity = 4
    Values = {v1, v2}
    IdxRange = 8
INVARIANTS
    InBounds
