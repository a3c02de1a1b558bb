SPECIFICATION FairSpec
CONSTANTS
    g1 = g1
    g2 = g2
    op = op
    Governors = {g1, g2}
    Qubmango = op
    Quorums <- BothGovernors
    MaxVersion = 2
    MaxFaults = 1
    MaxCommits = 1
    Arrivals = "anytime"
    Deletable = TRUE
INVARIANT TypeOK
INVARIANT ApprovalsAreEarned
INVARIANT PhaseOfLatestRecord
INVARIANT MCAFollowsAnApproval
INVARIANT DuplicatesNeedFaults
INVARIANT IInv
PROPERTY HistoryOnlyGrows
PROPERTY LockEventuallyReleased
PROPERTY QuorumReachesMCA
