CONSTANTS
    w1 = w1
    w2 = w2
    w3 = w3
    Writers = {w1, w2, w3}
    MaxCalls <- TwoCallsForOne
SPECIFICATION FairSpec
INVARIANTS
    TypeOK
    IdsAreDense
    ReturnsItsOwnRecord
    OneWriterInTheWindow
PROPERTIES
    ImplementsAppendLog
    WaitersAreServed
CHECK_DEADLOCK FALSE
