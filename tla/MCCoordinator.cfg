SPECIFICATION FairSpec
CONSTANTS
    Key = {"a", "b"}
    Inv <- DistinctInv
    Task <- SameTask
    Request <- SameRequest
    ReadTool = {}
    Owner = {"o1", "o2"}
    Authority = {}
    Submitted = {"a", "b"}
    Joining = {}
    Reported = {"ok", "cancelled"}
    Acknowledged = {"ok", "interrupted"}
    AliasCapacity = 1
    MaxQueue = 2
    MaxGeneration = 0
    MaxEpoch = 3
INVARIANTS
    AtMostOnceRun
    CatalogRecovers
PROPERTIES
    StoredFactsStand
    FactsBecomeDurable
    RecoveryEnds
CHECK_DEADLOCK FALSE
