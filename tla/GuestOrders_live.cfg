CONSTANTS
    Guests = {g1, g2}
    Accounts = {u1}
    Shop = shop
    Requests = {r1, r2}
    Keys = {k1, k2}
    Emails = {e1}
    Phones = {p1}
    Legacy = {}
    MaxClaimedScopes = 5
    NULL = NULL
SPECIFICATION FairSpec
CHECK_DEADLOCK FALSE
INVARIANTS
    OrderAndAllowanceAgree
    OneOrderPerGuest
PROPERTIES
    EveryRequestEnds
    ImplementsLedger
