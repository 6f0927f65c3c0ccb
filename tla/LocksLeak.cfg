SPECIFICATION Spec
CONSTANTS
    Root = Root
    d = d
    e = e
    f = f
    n = n
    m = m
    Dir = {d}
    File = {f}
    Neg = {n, m}
    Parent <- Tree
    User = {u1, u2}
    Writer = {w}
    Op = {"failed", "write", "remount"}
    Variant = {"reval"}
SYMMETRY Symmetric
INVARIANT BigLock
