SPECIFICATION AuthoritySpec
CONSTANTS
    RefundInstances <- TheRefundInstances
    RNone = RNone
    RootInstances <- TheRootInstances
    ANone = ANone
    DecisionInstances <- TheDecisionInstances
    MaxLease = 2
    Forever = 9
    DNone = DNone
    Buyers = {b1, b2}
    MaxFrames = 4
    MaxEvents = 6
    Enrollees <- TheEnrollees
    Verifiers = {v1, v2}
    MaxChallenge = 2
    EnrollTime = 4
    ENone = ENone
    p1 = p1
    p2 = p2
    s1 = s1
    s2 = s2
    phone = phone
INVARIANTS
    
    RootsFollowChain
    DecisionsSupported
    ClaimsMatchPayments
    CredentialsVouched
CHECK_DEADLOCK FALSE
