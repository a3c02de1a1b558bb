SPECIFICATION FairSpec
CONSTANTS
    DeletedBy = "anyone"
    MaxTurns = 1
CHECK_DEADLOCK FALSE
INVARIANT TypeOK
INVARIANT SavedRevisionIsInitial
INVARIANT InitialisedIsComplete
INVARIANT FolderIsItsOwn
INVARIANT StopCleansUp
PROPERTY CreationCompletes
PROPERTY DeletionCompletes
