CONSTANTS
    Employee <- ThreePeople
    NoManager = NoManager
    m1 = m1
    Mover = {m1}
    d1 = d1
    Deleter = {d1}
SPECIFICATION Spec
INVARIANT NobodyLeftUnderDeleted
PROPERTY RequestsFinish
CHECK_DEADLOCK FALSE
