SPECIFICATION ServicesSpec
CONSTANTS
    r1 = r1
    q1 = q1
    v1 = v1
    ann = ann
    Res = {r1}
    NgoOf <- OneNgo
    Reqs = {q1}
    AskedOf <- AskHer
    Vols = {v1}
    Offered = 2
    Deposits = {TRUE, FALSE}
    MaxStarts = 2
    MaxDeaths = 1
    Dues = {1, 2, 3}
    Amount <- Due
    Payers = {a, b}
    Refundable = {1}
    MaxCarried = 1
    Accounts = {1, 2, 3}
    Mails = {m1, m2}
    Sweepers = {s1, s2}
    MaxTries = 2
    MaxLosses = 1
    Events = {1, 2, 3}
    Hour <- Created
    Kinds <- Episodes
    Workers = {w1, w2}
    MaxAttempts = 2
    ComplaintStep = 2
    MaxCrashes = 1
    Cases = {1, 2}
    Requests = {f1, f2}
    Reports = {p1, p2}
    Admins = {a}
    Deliveries = {d1, d2, d3}
    MaxDrops = 1
    Joins = {"j1", "j2", "j3"}
    Invites = {"i1"}
    NgoAt <- TwoNgos
    Tabs = {t1, t2}
    MaxTokens = 4
    Rows = {"e1", "e2", "e3", "e4"}
    Wishes = {"w1", "w2", "w3"}
    Wanted <- Baskets
    Levels = {"trusted", "paying", "blocked"}
    MaxActive <- NgoLimits
    BulkAt = {"trusted"}
    PayAt = {"paying"}
    Most = 2
CHECK_DEADLOCK FALSE
INVARIANTS
    ServicesTyped DepositFollowsTask
    NeverOverpaid ReleasedAsCarried
    OneActiveAccount
    ScoreIsReplay SuccessesHelp
    VerdictsAgree
    AppliedOncePerFailure
    OneNgoByJoining
    TabsStaySignedIn LogoutSticks
    WithinLimit
PROPERTIES
    NgoWorkEnds DepositsReturn
    FinalStays OutboxEnds
    VerdictsStand
