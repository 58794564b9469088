\* Four calls of a resource that changes and changes back.
SPECIFICATION CacheSpec
CONSTANTS
    Calls = {c1, c2, c3, c4}
    Contents = {a, b}
    None = None
    MaxChanges = 3
SYMMETRY Symmetry
PROPERTY ImplementsFreshGet
CHECK_DEADLOCK FALSE
