SPECIFICATION FairSpec
CONSTANTS
    c1 = c1
    c2 = c2
    e1 = e1
    e2 = e2
    k1 = k1
    NoEntry = NoEntry
    Unlocked = Unlocked
    Client <- TwoClients
    Key <- OneKey
    Entry <- TwoEntries
    OwnerBound = TRUE
INVARIANTS
    SingleFlight
PROPERTIES
    ImplementsSharedFlight
    LastOwnerWakesProducer
    WaitersReturn
CHECK_DEADLOCK FALSE
