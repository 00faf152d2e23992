SPECIFICATION GoogleSpec
CHECK_DEADLOCK FALSE
CONSTANTS
    s1 = s1
    s2 = s2
    e1 = e1
    e2 = e2
    Callbacks = {c1, c2, c3}
    States = {o1, o2}
    Subs = {s1, s2}
    Mails = {e1, e2}
    Identities <- MCIdentities
    MaxFaults = 1
    NULL = NULL
SYMMETRY MCSymmetry
INVARIANTS
    AnswersAreTrue
    NoMergeByMail
    StatesAreSingleUse
