SPECIFICATION Spec
CONSTANTS
    None = None
    r3 = r3
    r1 = r1
    r2 = r2
    Root = {r1, r2}
    File = {"f1"}
    Perms = {"rw", "rw+nolwh", "ro", "ro+wh"}
    Plinks = {TRUE}
    MaxBr = 2
    IdMod = 3
    MaxOpts = 2
    MaxJobs = 1
    Xino = FALSE
SYMMETRY Sym
INVARIANT TypeOK CountExact BaseFitsPerm TableIsArray UniqueIds NoUseAfterFree FreshIndexRight
CHECK_DEADLOCK FALSE
