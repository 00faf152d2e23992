CONSTANTS
    Guests = {g1, g2}
    Accounts = {u1, u2}
    Shop = shop
    Requests = {r1, r2, r3}
    Keys = {k1}
    Emails = {e1}
    Phones = {}
    Legacy = {g2}
    MaxClaimedScopes = 5
    NULL = NULL
SPECIFICATION Spec
SYMMETRY Symmetry
CHECK_DEADLOCK FALSE
INVARIANTS
    TypeOK
    OneOrderPerContact
    MarkerMatchesOwner
    RepliesAreTrue
PROPERTIES
    OwnershipDecidedOnce
