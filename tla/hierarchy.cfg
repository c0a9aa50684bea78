CONSTANTS
    e1 = e1
    e2 = e2
    e3 = e3
    Employee = {e1, e2, e3}
    NoManager = NoManager
    Horizon = 2
    MaxRows = 2
SYMMETRY Symmetry
SPECIFICATION Spec
INVARIANTS
    TypeOK
    TimelinesContiguous
    CacheAcyclic
    CancelUndoesSchedule
    ChartComplete
PROPERTIES
    LoopsHaveACause
    PastIsStable
    CacheInStep
    NobodyLeftToday
    ImplementsChart
CHECK_DEADLOCK FALSE
