SPECIFICATION RuleSpec
CONSTANTS
    g1 = g1
    g2 = g2
    g3 = g3
    k1 = k1
    k2 = k2
    k3 = k3
    Governors = {g1, g2, g3}
    Keys = {k1, k2, k3}
    Malformed = Malformed
    Rules <- SomeRules
    Depth <- DepthOfRules
    MaxSignatures = 3
SYMMETRY KeySymmetry
CHECK_DEADLOCK FALSE
INVARIANT EvaluationIsQuorum
INVARIANT EverySignatureCountsOnce
INVARIANT Fulfillable
PROPERTY StaysFulfilled
