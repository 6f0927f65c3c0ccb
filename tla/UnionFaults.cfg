SPECIFICATION Spec
CONSTANTS
    a = a
    x = x
    d1 = d1
    d2 = d2
    Partial = Partial
    NoEnt = NoEnt
    Dir = Dir
    NBranch = 3
    PermChoices <- MCAll
    Top <- MCTop
    Sub <- MCSub
    Up <- MCUp
    Data = {d1, d2}
    AlwaysDiropq = TRUE
    DirOverGap = TRUE
    MaxFail = 2
    MaxCrash = 2
INVARIANT TypeOK OthersIntact HiddenWF
PROPERTY ReadOnlyUntouched
CHECK_DEADLOCK FALSE
