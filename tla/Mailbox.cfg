SPECIFICATION Spec
CONSTANTS
    MaxCommands = 3
    MaxVersions = 2
    MaxCrashes = 1
CONSTRAINT Foreground
INVARIANTS
    WokenOnce
    AnswersCurrent
    PermitsAgree
    FrameAgrees
PROPERTIES
    StopBeatsAccept
    Settles
CHECK_DEADLOCK FALSE
