CONSTANTS
    a1 = a1
    a2 = a2
    e1 = e1
    anna = anna
    Admins = {a1, a2}
    Visitors = {e1}
    Opening <- TwoEmployees
    OpeningAdmins <- OneAdmin
    Names = {anna}
    IsManager = {TRUE}
    Numbers <- Typed
    LoginNumbers = {1}
    Garbage <- Junk
    Zeros <- Nothing
    FilesMayFail = TRUE
    MaxCalls <- Calls
    Mortal = {a1}
SPECIFICATION FairSpec
INVARIANTS
    TypeOK
    NumbersArePlaces
PROPERTIES
    LoginsLast
    LoginsAreServed
    WritersAreServed
CHECK_DEADLOCK FALSE
