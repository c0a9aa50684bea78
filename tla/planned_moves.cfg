CONSTANTS
    a = a
    b = b
    Employee = {a, b}
    NoManager = NoManager
    Horizon = 3
    Mine = Mine
    Colleague = {c}
    Nothing = Nothing
    Drawer = Drawer
    FirstPlans <- Plans
    MovesTried <- Moves
    MaxRows = 4
    MaxMoments = 3
    LastDay = 1
SPECIFICATION Spec
INVARIANT CancelledIsGone
PROPERTY GapsNeedAdjoiningCancels
CHECK_DEADLOCK FALSE
