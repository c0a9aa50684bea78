CONSTANTS
    Employee = {1, 2}
    NoManager = NoManager
    Initial <- Line
    Expandable = {1}
    Focusable = {1}
    InitialDepth = 1
    ExpandDepth = 1
    MaxMoves = 2
SPECIFICATION Spec
INVARIANTS
    LoopNeedsTwoMoves
    OwnMoveShows
    ChartMatchesServer
PROPERTY OverrideEnds
CHECK_DEADLOCK FALSE
