SPECIFICATION FairSpec
CONSTANTS
    a = a
    b = b
    kept = kept
    newer = newer
    bad = bad
    Trees <- CommitTrees
    Rejected = {bad}
    FirstTree <- CreatedTree
    SameSecond = TRUE
    MaxCommits = 2
    MaxMishaps = 1
PROPERTY ChangesAreProposed
