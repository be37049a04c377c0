SPECIFICATION Spec
CONSTANTS
    Key = {"r", "j"}
    Inv <- JoinIds
    Task <- JoinIds
    Request <- SameRequest
    ReadTool = {"r", "j"}
    Owner = {"o1"}
    Authority = {"a1"}
    Submitted = {"r"}
    Joining = {"j"}
    Reported = {"ok"}
    Acknowledged = {"ok", "cancelled"}
    AliasCapacity = 1
    MaxQueue = 2
    MaxGeneration = 2
    MaxEpoch = 2
INVARIANTS
    ConfirmedIsDurable
    CancelNeedsEveryHolder
    CancelReachesWorker
    OutcomeKept
    NoOrphan
CHECK_DEADLOCK FALSE
