SPECIFICATION FairSpec
CONSTANTS
    g1 = g1
    g2 = g2
    op = op
    Governors = {g1, g2}
    Qubmango = op
    Quorums <- BothGovernors
    MaxVersion = 2
    MaxFaults = 0
    MaxCommits = 0
    Arrivals = "initialised"
    Deletable = FALSE
PROPERTY EveryChangeIsPublished
