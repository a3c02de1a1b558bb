SPECIFICATION FairSpec
CONSTANTS
    g1 = g1
    g2 = g2
    Governors = {g1}
    Quorum = 1
    Budgets <- OneOfThree
INVARIANT TypeOK
INVARIANT RestingCloneIsPublished
INVARIANT AcknowledgedIsPublished
INVARIANT ReadersSeeThePublished
PROPERTY BranchIsShared
PROPERTY WritesLand
