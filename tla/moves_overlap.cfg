CONSTANTS
    Employee <- FourPeople
    NoManager = NoManager
    m1 = m1
    m2 = m2
    Mover = {m1, m2}
    Deleter = {}
SYMMETRY Symmetry
SPECIFICATION Spec
INVARIANT MovesNeverDeadlock
PROPERTY LoopsNeedStrangers
CHECK_DEADLOCK FALSE
