CONSTANTS
    None = None
    Process = {p1, p2}
    Key = {k1}
    MaxCommits = 3
    MaxBoots = 2
    MaxKills = 1
    MaxOutages = 1
    MaxFaults = 1
SPECIFICATION Spec
SYMMETRY ProcessSymmetry
CHECK_DEADLOCK FALSE
INVARIANTS AnswersHold OwnerSeesDisk
