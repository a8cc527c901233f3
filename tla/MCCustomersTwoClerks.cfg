CONSTANTS
    c1 = c1
    c2 = c2
    k1 = k1
    k2 = k2
    harshal = harshal
    nobody = nobody
    n1 = n1
    x = x
    y = y
    Connections = {}
    Clerks = {k1, k2}
    Opening <- TwoCustomers
    OpeningAccounts <- TwoAccounts
    Names = {harshal}
    LoginNumbers = {1}
    Numbers = {0}
    Passwords = {x, y}
    FirstPassword = x
    Infos = {n1}
    Nobody = nobody
    Garbage <- OneGarbage
    Zeros <- NoRecord
    FilesMayFail = FALSE
    MaxCalls <- TwoClerksCalls
    Mortal = {}
SPECIFICATION Spec
INVARIANTS
    OneOwnerPerAccount
CHECK_DEADLOCK FALSE
