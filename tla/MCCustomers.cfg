CONSTANTS
    c1 = c1
    c2 = c2
    k1 = k1
    k2 = k2
    harshal = harshal
    nobody = nobody
    n1 = n1
    x = x
    y = y
    Connections = {c1, c2}
    Clerks = {k1}
    Opening <- TwoCustomers
    OpeningAccounts <- TwoAccounts
    Names = {harshal}
    LoginNumbers = {1}
    Numbers <- SomeNumbers
    Passwords = {x, y}
    FirstPassword = x
    Infos = {n1}
    Nobody = nobody
    Garbage <- OneGarbage
    Zeros <- NoRecord
    FilesMayFail = TRUE
    MaxCalls <- OneClerkCalls
    Mortal = {c1}
SPECIFICATION FairSpec
INVARIANTS
    TypeOK
    RecordsAtTheirNumber
    OneOwnerPerAccount
PROPERTIES
    PasswordChangeLasts
    WritersAreServed
    SessionsAreAdmitted
CHECK_DEADLOCK FALSE
