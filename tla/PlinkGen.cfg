SPECIFICATION Spec
CONSTANTS
    Name = {a, b, c}
    LowIno = {l1}
    UpIno = {u1, u2}
    NewFile = {f1}
    None = None
    Gens = {g1, g2}
    MaxIno = 3
    MaxWrite = 1
    Fault = {}
    MaxFail = 0
    Quiet = TRUE
    Unfollowed = FALSE
SYMMETRY Symmetric
INVARIANTS Identity
CHECK_DEADLOCK FALSE
