SPECIFICATION LiveSpec
CONSTANTS
    c1 = c1
    c2 = c2
    Calls <- TwoCalls
    NoCall = NoCall
INVARIANTS
    EffectKept
    CancelledOnlyIfAsked
PROPERTIES
    NoStartAfterCancel
    CancelEndsReads
CHECK_DEADLOCK FALSE
