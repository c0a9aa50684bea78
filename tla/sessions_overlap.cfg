CONSTANTS
    p1 = p1
    p2 = p2
    c1 = c1
    c2 = c2
    c3 = c3
    Page = {p1, p2}
    Call = {c1, c2, c3}
    Home <- CallsOfTwoPages
    MaxIssued = 3
SPECIFICATION Spec
INVARIANT OneLivePerLogin
PROPERTIES
    PairNeverGoesBack
    CallsSettle
CHECK_DEADLOCK FALSE
