SPECIFICATION Spec
CONSTANTS
    Name = {a, b, c}
    LowIno = {l1, l2}
    UpIno = {u1, u2}
    NewFile = {}
    None = None
    Gens = {g1}
    MaxIno = 3
    MaxWrite = 1
    Fault = {}
    MaxFail = 0
    Quiet = FALSE
    Unfollowed = FALSE
SYMMETRY Symmetric
INVARIANTS DataRight
CHECK_DEADLOCK FALSE
