SPECIFICATION Spec
CONSTANTS
    g1 = g1
    g2 = g2
    op = op
    r1 = r1
    Governors = {g1, g2}
    Qubmango = op
    Quorums <- BothGovernors
    MaxVersion = 2
    MaxFaults = 0
    MaxCommits = 0
    Arrivals = "resting"
    Deletable = FALSE
    Resources = {r1}
    MaxMishaps = 0
PROPERTY DeliversWhatIsSigned
SYMMETRY GovernorSymmetry
