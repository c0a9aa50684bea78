CONSTANTS
    c1 = c1
    c2 = c2
    Client = {c1, c2}
    x = x
    y = y
    Manager = {x, y}
    Nobody = Nobody
    MaxVersion = 3
SYMMETRY Symmetry
SPECIFICATION Spec
PROPERTIES
    WritesLeaveRowInStep
    MovesAreNotOvertaken
    VersionsRepeatOnlyByOverlap
    ConflictMeansChangedOrDue
CHECK_DEADLOCK FALSE
