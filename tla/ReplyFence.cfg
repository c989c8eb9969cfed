SPECIFICATION Spec
CONSTANTS
    MaxCommands = 2
    MaxVersions = 0
    MaxCrashes = 0
CONSTRAINT Foreground
INVARIANT ReceiptStaysOpen
CHECK_DEADLOCK FALSE
