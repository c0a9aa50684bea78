CONSTANTS
    e1 = e1
    e2 = e2
    Employee = {e1, e2}
    NoManager = NoManager
    Email = {x, y, z}
    x = x
    y = y
    z = z
    Slot = {1}
    Host = {"list", "drawer"}
    Nothing = Nothing
    MaxVersion = 2
SYMMETRY Symmetry
SPECIFICATION Spec
PROPERTIES
    SavedOverSeen
    MovesOnlyWhatWasPicked
CHECK_DEADLOCK FALSE
