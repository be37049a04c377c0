CONSTANTS
    MaxCancels = 2
    MaxFaults = 1
    MaxCrashes = 2
SPECIFICATION LiveSpec
INVARIANTS OneHome RunsOnce HonestEnds StagedWins CancelReachesTask EarlyCancelHolds
    RecoverySettles RefusalsKnown
PROPERTIES CallAnswered CallSettles
CHECK_DEADLOCK FALSE
