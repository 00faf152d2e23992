SPECIFICATION PaySpec
CONSTANTS
    PaymentIDs = {p1}
    Deliveries = {d1, d2, d3}
    Reported = {"pending", "paid", "settlement", "failed", "other"}
    MaxInterruptions = 1
    NULL = NULL
SYMMETRY Symmetry
INVARIANTS
    AnnouncedIsSettled
    DuplicatesConfirmOnce
PROPERTIES
    SettledStaysSettled
