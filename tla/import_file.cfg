CONSTANTS
    ann = ann
    ben = ben
    cara = cara
    x = x
    y = y
    z = z
    Employee = {ann, ben, cara}
    NoManager = NoManager
    Email = {x, y, z}
    Invalid = Invalid
    RowChoice <- RowsTried
    FileChoice <- FilesTried
    FirstTable <- FirstTried
    OtherRow <- OtherTried
    Spelling <- SpellingTried
    MaxRows = 3
    Nothing = Nothing
SPECIFICATION Spec
INVARIANT MarksAreInTheTable
PROPERTIES
    TextsAreRead
    WrittenAsTheFileSays
    RaisesOnlyForTheOrder
CHECK_DEADLOCK FALSE
