SPECIFICATION DeliverySpec
CONSTANTS
    Key = {"r", "j"}
    Inv <- JoinIds
    Task <- JoinIds
    Request <- SameRequest
    ReadTool = {"r", "j"}
    Owner = {"o1"}
    Authority = {"a1"}
    Submitted = {"r"}
    Joining = {"j"}
    Reported = {"ok"}
    Acknowledged = {}
    AliasCapacity = 1
    MaxQueue = 0
    MaxGeneration = 1
    MaxEpoch = 2
INVARIANTS
    ResultsAgree
PROPERTIES
    NoDirectAfterAck
CHECK_DEADLOCK FALSE
