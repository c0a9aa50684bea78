CONSTANTS
    Employee = {e1}
    Account = Account
    Image = {1, 2}
    Web = Web
    None = None
    Slot = {s1, s2}
    Nothing = Nothing
    MaxHistory = 2
SYMMETRY Symmetric
SPECIFICATION Spec
INVARIANTS
    PhotosAreThere
    NoPhotoIsLeft
    CardTellsTheTruth
PROPERTY ConflictIsReal
CHECK_DEADLOCK FALSE
