SPECIFICATION FairSpec
CONSTANTS
    g1 = g1
    g2 = g2
    op = op
    Governors = {g1, g2}
    Qubmango = op
    Quorums <- BothGovernors
    MaxVersion = 1
    MaxFaults = 1
    MaxCommits = 0
    Arrivals = "resting"
    Deletable = FALSE
PROPERTY ApprovalReachesMCA
