SPECIFICATION Spec
CONSTANTS
    Frames = 3
    Parts = 3
    Comments = 2
CHECK_DEADLOCK FALSE
INVARIANTS
    TypeOK
    WireInOrder
    Delivered
