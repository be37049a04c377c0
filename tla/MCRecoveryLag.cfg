CONSTANTS
    MaxCancels = 1
    MaxFaults = 0
    MaxCrashes = 2
SPECIFICATION Spec
INVARIANT TerminalReconciles
CHECK_DEADLOCK FALSE
