SPECIFICATION Spec
CONSTANTS
    Name = {a, b, c}
    LowIno = {l1}
    UpIno = {u1, u2}
    NewFile = {f1}
    None = None
    Gens = {g1}
    MaxIno = 3
    MaxWrite = 1
    Fault = {}
    MaxFail = 0
    Quiet = TRUE
    Unfollowed = TRUE
SYMMETRY Symmetric
INVARIANTS DataRight
CHECK_DEADLOCK FALSE
