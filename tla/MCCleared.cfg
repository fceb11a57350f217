CONSTANTS
    Callers = {c1, c2}
    MaxRooms = 2
    MaxNameLength = 4
    MaxSpecialRequest = 5
    MaxOrders = 2
    MaxOperations = 3
    Drafts <- SomeDrafts
    Modifications <- SomeModifications
SPECIFICATION Spec
SYMMETRY Symmetry
INVARIANT ClearedMeansCleared
CHECK_DEADLOCK FALSE
