SPECIFICATION FlowSpec
CONSTANTS
    Staff = {s1, s2}
    Calls = {c1, c2}
    MaxInterruptions = 1
    NULL = NULL
SYMMETRY Symmetry
INVARIANTS
    ScreensAreNeverAhead
    ButtonsComeBack
    StatusIsAnnounced
PROPERTIES
    StatusFollowsTransitions
