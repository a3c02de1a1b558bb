SPECIFICATION FairSpec
CONSTANTS
    a = a
    b = b
    kept = kept
    newer = newer
    bad = bad
    Trees <- CommitTrees
    Rejected = {bad}
    FirstTree <- CreatedTree
    SameSecond = TRUE
    MaxCommits = 2
    MaxMishaps = 1
INVARIANT TypeOK
INVARIANT FinishesWhatItProposed
PROPERTY ProposalsAdvance
PROPERTY ListsChangesSinceApproval
PROPERTY EventsAreConsumed
PROPERTY ChangesAreProposedCalmly
