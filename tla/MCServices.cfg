SPECIFICATION Spec
CONSTANTS
    p1 = p1
    p2 = p2
    p3 = p3
    Off = Off
    Participants = {"alice"}
    Codes = {"usd"}
    Payments = {"pay"}
    Fields = {"name", "bio"}
    Values = {1, 2}
    MaxAcksLost = 1
    AboutEquivalents <- SomeAboutEquivalents
    AboutPeople <- SomeAboutPeople
    AboutPayments <- SomeAboutPayments
    Admins = {"r1", "r2"}
    SettingKeys = {"clearing", "multipath"}
    Flags = {"clearing", "multipath"}
    SettingValues = {TRUE, FALSE}
    Initial <- AllFlagsOff
    MaxCancels = 2
    MaxRestarts = 1
    Logins = {"l1", "l2"}
    Refreshes = {"r1", "r2"}
    Challenges = {"k1"}
    ChallengeLife = 1
    TokenLife = 2
    MaxClock = 4
    Limit = 2
    Window = 2
    MaxEntries = 2
    Hosts = {"h1", "h2", "h3"}
    MaxTime = 4
    MaxRequests = 7
    RedisHosts = {"h1"}
    RedisMaxTime = 5
    RedisMaxRequests = 6
    ApiCallers = {p1, p2, p3}
    MaxApiTokens = 4
    Hubs = {p1, p2}
    MaxJobTokens = 2
SYMMETRY ProcSymmetry
INVARIANTS SettingsAreAudited TokensAreSpentOnce LimitHolds JobsAndLocksAreSafe
 
CHECK_DEADLOCK FALSE
