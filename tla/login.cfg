SPECIFICATION FairSpec
CONSTANTS
    r1 = r1
    r2 = r2
    r3 = r3
    alice = alice
    odd = odd
    p1 = p1
    p2 = p2
    NoRequest = none
    NoPasswd = none
    PlainNames = {alice}
    PlainPasswds = {p1, p2}
    Requests = {r1, r2, r3}
    NameOf <- MCNameOf
    PasswdOf <- MCPasswdOf
    DBServers = {d1, d2}
    MaxUid = 1
    MaxAdded = 1
    MaxFaults = 1
CHECK_DEADLOCK FALSE
INVARIANTS
    TypeOK
    SuccIsGenuine
    NamesKeepTheirAccount
PROPERTIES
    RequestsAreAnswered
