SPECIFICATION FairSpec
CONSTANTS
    MaxFrames = 2
    MaxSize = 2
INVARIANTS
    HandedInOrder
PROPERTIES
    FramesHandedOn
    LossStopsReader
CHECK_DEADLOCK FALSE
