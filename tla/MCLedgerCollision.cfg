SPECIFICATION Spec
CONSTANTS
    Key = {"a", "b", "c"}
    Inv <- SharedInvocation
    Task <- SharedTask
    Digest = {"d1"}
    Retained = {"a"}
    TaskTtl = {}
    MaxGeneration = 6
    MaxCrashes = 1
INVARIANTS
    RecoveryAccepts
CHECK_DEADLOCK FALSE
