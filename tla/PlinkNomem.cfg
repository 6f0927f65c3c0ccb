SPECIFICATION Spec
CONSTANTS
    Name = {a, b, c}
    LowIno = {l1}
    UpIno = {u1, u2}
    NewFile = {f1}
    None = None
    Gens = {g1}
    MaxIno = 3
    MaxWrite = 1
    Fault = {"nomem"}
    MaxFail = 1
    Quiet = TRUE
    Unfollowed = FALSE
SYMMETRY Symmetric
INVARIANTS NoForeign
CHECK_DEADLOCK FALSE
