SPECIFICATION FairSpec
CONSTANTS
    Key = {"a", "b"}
    Inv <- DistinctIds
    Task <- DistinctIds
    Digest = {"d1", "d2"}
    Retained = {}
    TaskTtl = {"a", "b"}
    MaxGeneration = 6
    MaxCrashes = 2
INVARIANTS
    SequenceFresh
PROPERTIES
    SurvivesReopen
    CancelStopsBegin
    TerminalStands
    ReopenCompletes
CHECK_DEADLOCK FALSE
