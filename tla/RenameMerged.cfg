SPECIFICATION MCSpec
CONSTANTS
    a = a
    b = b
    ax = ax
    bx = bx
    x = x
    da = da
    db = db
    dx = dx
    Partial = Partial
    NoEnt = NoEnt
    Dir = Dir
    NBranch = 2
    PermChoices <- MCRwRo
    Top <- MCTop
    Sub <- MCSub
    Up <- MCUp
    Base <- MCBase
    Data = {da, db, dx}
    AlwaysDiropq = FALSE
    DirOverGap = TRUE
    MaxFail = 0
    MaxCrash = 0
INVARIANT RenameOk
CHECK_DEADLOCK FALSE
