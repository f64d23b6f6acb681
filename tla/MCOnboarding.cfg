SPECIFICATION OnboardingSpec
CONSTANTS
    n1 = n1
    n2 = n2
    m1 = m1
    m2 = m2
    k1 = k1
    k2 = k2
    q1 = q1
    q2 = q2
    customer = customer
    staffer = staffer
    customerPackage = customerPackage
    theOrigin = theOrigin
    Attempts = {n1, n2}
    Wallets = {m1, m2}
    DeviceKeys = {k1, k2}
    Completions = {q1, q2}
    Proofs = {"good", "bad"}
    GoodProofs = {"good"}
    AttemptTtl = 1
    EnrollClock = 2
    NoValue = NoValue
    Installations = {n1, n2}
    Transactions = {m1, m2}
    AccessTtl = 1
    RefreshTtl = 2
    CredentialTtl = 2
    SessionClock = 1
    MaxSessions = 3
    NoDevice = NoDevice
    ProofKeys = {"k1"}
    Targets = {"x"}
    Tokens = {"t1"}
    TokenKey <- TheTokenKey
    Jtis = {1, 2}
    IatWindow = 1
    GuardMargin = 2
    GuardCapacity = 0
    ProofClock = 5
    CustomerDevices = {customer}
    StaffDevices = {staffer}
    Grants = {n1, n2}
    Packages = {customerPackage, k1, k2}
    ShelfOf <- TheShelves
    Planners = {m1, m2}
    PlanTtl = 1
    GrantLease = 1
    PlanClock = 2
    MaxRequests = 1
    MaxPlans = 2
    NoGrant = NoGrant
    GrantIds = {n1, n2}
    Anchors = {"b1", "b2", "b3"}
    ChainOf <- TheChains
    RelayAnchor = "none"
    LeaseTicks = 1
    GrantClock = 1
    Contexts = {n1, n2}
    Origins = {theOrigin}
    Redeemers = {m1, m2}
    ContextTtl = 1
    EmbedSessionTtl = 2
    EmbedClock = 2
    NoOrigin = NoOrigin
SYMMETRY Interchangeable
INVARIANTS
    EnrollmentSafe
    SessionsSafe
    ProofUsedOnce
    PlansSafe
    RecheckSafe
    
CHECK_DEADLOCK FALSE
