SPECIFICATION Spec
CONSTANTS
    DeletedBy = "sync"
    MaxTurns = 2
CHECK_DEADLOCK FALSE
INVARIANT RolledBack
