SPECIFICATION Spec
CONSTANTS
    Root = Root
    d = d
    e = e
    f = f
    n = n
    m = m
    Dir = {d, e}
    File = {f}
    Neg = {n, m}
    Parent <- Twins
    User = {u1, u2}
    Writer = {}
    Op = {"link", "setattr"}
    Variant = {"cpup", "noplink"}
SYMMETRY Symmetric
INVARIANT NoDeadlock
