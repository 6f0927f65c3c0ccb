SPECIFICATION Spec
CONSTANTS
    Name = {a, b, c, d}
    LowIno = {l1, l2}
    UpIno = {u1, u2}
    NewFile = {f1}
    None = None
    Gens = {g1}
    MaxIno = 2
    MaxWrite = 0
    Fault = {"link"}
    MaxFail = 1
    Quiet = TRUE
    Unfollowed = FALSE
SYMMETRY Symmetric
INVARIANTS NoForeign
CHECK_DEADLOCK FALSE
