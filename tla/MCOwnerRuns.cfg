SPECIFICATION Spec
CONSTANTS
    Parts = {"runs"}
    r1 = r1
    r2 = r2
    Off = Off
    RunIds = {r1, r2}
    Owners = {"ann"}
    OwnerOf <- TheOwner
    MaxPerOwner = 1
    MaxActive = 2
    MaxRecords = 1
    MaxWrites = 1
    MaxStarts = 2
    Planned = 2
    PaymentEnds = {"committed", "rejected", "timeout"}
    MaxTicks = 2
    MaxTimeouts = 2
    MaxErrors = 3
    MaxFailures = 2
    WriteEvery = 2
    ClearEvery = 2
    MaxCycles = 1
    MaxDecays = 1
    MaxFaults = 2
    Eqs = {1, 2}
    Sims = {"one", "two"}
    Signals <- SomeSignals
    Configs <- SomeConfigs
    MaxEqPerTick = 1
    EngineDepth = 4
    MaxTick <- LongAndShort
    Originals = {0, 4}
    GrowthRate = 25
    DecayRate = 20
    MaxGrowth = 150
    MinLimit = 50
    MaxDriftTicks = 3
    Overload = 50
    ViewerLimits = {3, 7}
    Pids = {"a", "b", "n"}
    Founders = {"a", "b"}
    FirstLines <- OneLine
    FirstRows <- SomeRows
    InjectLimit = 2
    MaxEffects = 4
    MaxEventTicks = 2
    Scripts <- SomeScripts
    LinePairs = {"in", "out"}
    InRun = {"in"}
    Limits = {1, 2}
    ActionRequests = {"r1", "r2"}
    MaxActions = 3
    ClearingRequests = {"r1", "r2"}
    Cycles = {"c1", "c2", "c3"}
    MaxRounds = 2
    Clients = {"one", "two"}
    Topics = {"UAH", "HOUR"}
    TopicOf <- TwoTopics
    BufferMax = 3
    StreamMax = 2
    MaxSubs = 2
    MaxEvents = 5
    MaxBreaks = 1
    Sockets = {"s"}
    Kinds = {"paid", "other"}
    BusMax = 1
    MaxPubs = 3
    MaxRenewals = 3
SYMMETRY RunSymmetry
INVARIANT OwnersHaveOneRun
CHECK_DEADLOCK FALSE
