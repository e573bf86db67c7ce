SPECIFICATION Spec
CONSTANTS
    MaxFrames = 3
    MaxBoxes = 2
INVARIANT TypeOK
INVARIANT AnsweredOnce
INVARIANT CompleteSnapshot
INVARIANT RequestOnHeldSession
PROPERTY SnapshotAnswered
CHECK_DEADLOCK FALSE
