SPECIFICATION Spec
CONSTANTS
    a = a
    x = x
    d1 = d1
    d2 = d2
    Partial = Partial
    NoEnt = NoEnt
    Dir = Dir
    NBranch = 3
    PermChoices <- MCPerms
    Top <- MCTop
    Sub <- MCSub
    Up <- MCUp
    Data = {d1, d2}
    AlwaysDiropq = FALSE
    DirOverGap = FALSE
    MaxFail = 0
    MaxCrash = 1
INVARIANT BranchIndexOK
CHECK_DEADLOCK FALSE
