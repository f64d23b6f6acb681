SPECIFICATION ServiceSpec
CONSTANTS
    n1 = n1
    n2 = n2
    k1 = k1
    k2 = k2
    AeCalls = {k1, k2}
    AeCommands <- TheCommands
    AeLane = "lane"
    AeDevices = {"d1", "d2"}
    AeNone = AeNone
    AePendingTtl = 1
    AePolicyTtl = 2
    AeTimeout = 4
    AeQuota = 2
    AeBounds <- TheBounds
    Lanes = {n1, n2}
    Senders = {k1, k2}
    AccountOf <- OneAccount
    OperationLimit = 2
    MaxDay = 1
    MaxRevision = 1
    MaxVersion = 3
    NoAppend = NoAppend
    Conversations = {n1, n2}
    Passes = {k1, k2}
    HeadTtl = 0
    Margin = 0
    BatchSize = 2
    MaxHeads = 3
    MaxTime = 0
    MaxLosses = 1
    None = None
    Seats = {"s1", "s2", "s3"}
    MaxIssued = 4
    LogBound = 4
    Planners = {"p1", "p2"}
    Rotations = {"r1", "r2"}
    Lifetime = 6
    Overlap = 2
    Early = 3
    LastDay = 14
    Unprovisioned = Unprovisioned
    Talks = {"c1"}
    Packages = {k1, k2}
    Updates = {"u1", "u2"}
    Keepers = {"m1"}
    Hooks = {"h1"}
    ConversationTag <- OneTag
    Address <- NamesIt
    NoTag = "none"
    Nobody = Nobody
    MaxLog = 3
    MaxGeneration = 2
    Faulty = TRUE
    Channels = {n1, n2}
    Addresses = {"m1"}
    Chats = {"q1", "q2"}
    Scopes = {k1, k2}
    Servers = {"s1"}
    CodeTtl = 1
    TokenTtl = 2
    Cooldown = 2
    MaxVerifyAttempts = 2
    MaxCooldowns = 1
    NotifyClock = 2
    NoTarget = NoTarget
SYMMETRY Interchangeable
INVARIANTS
    AnswersChecked
    QuotasSafe
    PolicyLogSafe
    IssuanceSafe
    RotationSafe
    
    NotificationsSafe
CHECK_DEADLOCK FALSE
