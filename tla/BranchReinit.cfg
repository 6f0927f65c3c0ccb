SPECIFICATION Spec
CONSTANTS
    None = None
    r1 = r1
    r2 = r2
    r3 = r3
    Root = {r1, r2}
    File = {}
    Perms = {"rw", "rw+nolwh"}
    Plinks = {TRUE}
    MaxBr = 2
    IdMod = 4
    MaxOpts = 2
    MaxJobs = 0
    Xino = FALSE
INVARIANT ReinitHasBase
CHECK_DEADLOCK FALSE
