CONSTANTS
    Users = {u1}
    Tokens = {t1, t2, t3}
    Requests = {r1, r2, r3, r4}
    Window = 1
    RefreshTTL = 3
    MaxTime = 4
    NULL = NULL
SYMMETRY Symmetry
CHECK_DEADLOCK FALSE
SPECIFICATION AuthSpec
INVARIANTS OneSessionPerLogin OnlyRotationContinues MassSignOutNeedsStaleToken
PROPERTY ImplementsSessionLedger
