SPECIFICATION FairSpec
CONSTANTS
    None = None
    r1 = r1
    r2 = r2
    r3 = r3
    Root = {r1, r2}
    File = {}
    Perms = {"rw", "ro"}
    Plinks = {TRUE}
    MaxBr = 2
    IdMod = 4
    MaxOpts = 2
    MaxJobs = 1
    Xino = FALSE
PROPERTY ReinitEnds
CHECK_DEADLOCK FALSE
