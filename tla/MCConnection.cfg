SPECIFICATION Spec
CONSTANTS
    LenSize = 2
    BodySize = {1, 2}
    ReadSize = 4
    Garbled = {1, 3}
    WriteSize = 3
    Capacity = 4
    MaxFrames = 2
CHECK_DEADLOCK FALSE
INVARIANTS
    TypeOK
    StreamConserved
    PacedFramesProcessed
PROPERTIES
    Delivered
    EndNoticed
    ImplementsChannel
