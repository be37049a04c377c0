CONSTANTS
    form = form
    root = root
    config = config
    old = old
    guard = guard
    Creates <- OneEach
    Registrations <- TwoRegistrations
    Removals <- OneRemoval
    Guards <- OneGuard
    MaxEdits = 2
    MaxFaults = 2
SPECIFICATION Spec
INVARIANTS LeftoverKeepsKind
