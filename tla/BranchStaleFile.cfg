SPECIFICATION Spec
CONSTANTS
    None = None
    r1 = r1
    r2 = r2
    r3 = r3
    Root = {r1, r2}
    File = {"f1"}
    Perms = {"rw", "ro"}
    Plinks = {TRUE}
    MaxBr = 2
    IdMod = 4
    MaxOpts = 2
    MaxJobs = 0
    Xino = FALSE
INVARIANT NoWriterOnReadOnly
CHECK_DEADLOCK FALSE
