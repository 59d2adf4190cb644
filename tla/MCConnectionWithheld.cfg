SPECIFICATION Spec
CONSTANTS
    LenSize = 2
    BodySize = {1, 2}
    ReadSize = 6
    Garbled = {1, 3}
    WriteSize = 3
    Capacity = 6
    MaxFrames = 2
CHECK_DEADLOCK FALSE
INVARIANTS
    FramesProcessed
