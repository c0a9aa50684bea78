CONSTANTS
    Employee = {e1}
    Account = Account
    Image = {1, 2}
    Web = Web
    None = None
    Slot = {s1, s2}
    Nothing = Nothing
    MaxHistory = 2
SPECIFICATION Spec
SYMMETRY Symmetric
INVARIANT FormOpensValid
CHECK_DEADLOCK FALSE
