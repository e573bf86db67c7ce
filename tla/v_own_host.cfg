SPECIFICATION Spec
CONSTANTS
    MaxFrames = 3
    MaxBoxes = 1
INVARIANT OwnHostOfEachFrame
CHECK_DEADLOCK FALSE
