SPECIFICATION Spec
CONSTANTS
    s1 = s1
    s2 = s2
    s3 = s3
    Off = Off
    Sessions = {s1, s2, s3}
    Txs <- Payments
    EqOf <- TwoEquivalents
    SegsOf <- SharedSegments
    RetryAttempts = 2
    Readers = {"reader"}
    MaxLimit = 2
    MaxChanges = 3
    Ttl = 1
    PolicyNet <- PoliciesOfFour
    FlowNet <- CrossingOfSix
    Parties = {"a", "b", "c"}
    Rows <- TwoPairs
    LineIds = {1, 2}
    MaxLineLimit = 1
    Scopes <- RepairsAndCheckpoints
    Payers = {"a", "b"}
    MaxAmount = 3
SYMMETRY SessionSymmetry
INVARIANTS NoWaitCycle  RoutesAreSound CheckpointsTell CommitLoopIsExact
PROPERTIES RepairsHeal
CHECK_DEADLOCK FALSE
