SPECIFICATION Spec
CONSTANTS
    Root = Root
    d = d
    e = e
    f = f
    n = n
    m = m
    Dir = {d, e}
    File = {f}
    Neg = {n, m}
    Parent <- Deep
    User = {u1, u2}
    Writer = {}
    Op = {"rename", "create", "unlink", "setattr", "reval"}
    Variant = {"cpup", "deep"}
SYMMETRY Symmetric
INVARIANT NoDeadlock
