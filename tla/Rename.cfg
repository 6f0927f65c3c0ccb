SPECIFICATION MCSpec
CONSTANTS
    a = a
    b = b
    ax = ax
    bx = bx
    x = x
    da = da
    db = db
    dx = dx
    Partial = Partial
    NoEnt = NoEnt
    Dir = Dir
    NBranch = 2
    PermChoices <- MCRwRw
    Top <- MCTop
    Sub <- MCSub
    Up <- MCUp
    Base <- MCBase
    Data = {da, db, dx}
    AlwaysDiropq = FALSE
    DirOverGap = TRUE
    MaxFail = 2
    MaxCrash = 1
INVARIANT RenameOkPlain RenameUndone TargetStays BystandersIntact HiddenWF
PROPERTY ReadOnlyUntouched
CHECK_DEADLOCK FALSE
