CONSTANTS
    Staff = 2
    Term = {t1}
    NoTerm = NoTerm
    Hits <- HitsTried
    Paid <- PaidTried
    Under <- UnderTried
    PageSize = 1
    Policy = {"cascade"}
    Nothing = Nothing
    FirstRoster <- RostersTried
    MaxMoments = 2
SPECIFICATION Spec
INVARIANTS
    BoxIsTheSearch
    OwnChangesShow
PROPERTY PolicyIsPicked
CHECK_DEADLOCK FALSE
