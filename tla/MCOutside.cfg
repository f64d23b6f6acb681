SPECIFICATION OutsideSpec
CONSTANTS
    Readers = {"r1"}
    MaxEvents = 3
    MaxFaults = 1
    Calls = {"c1", "c2"}
    MaxInstallations = 2
    MaxRotations = 3
    MaxAttempts = 2
    MaxPerWindow = 4
    MaxAccepted = 5
    MaxDocuments = 2
    MaxOperations = 6
    NoNonce = NoNonce
    Logs = {"c1"}
    Submitters = {"t1", "t2"}
    MaxPosition = 4
    MaxBatch = 2
    Incidents = {"rotate", "restore", "loss"}
    Providers = {"p1", "p2"}
    Honest = {"p1"}
    Tip = 2
    MinimumQuorum = 2
    TxAt <- PaidOnA
    AccountCode <- WalletCode
    TerminalCode <- PinnedOnA
    Nothing = Nothing
INVARIANTS
    DeviceStateSafe
    PageSessionSafe
    BridgeSafe
    WitnessSafe
    QuorumSafe
CHECK_DEADLOCK FALSE
