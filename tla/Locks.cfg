SPECIFICATION Spec
CONSTANTS
    Root = Root
    d = d
    e = e
    f = f
    n = n
    m = m
    Dir = {d}
    File = {f}
    Neg = {n, m}
    Parent <- Tree
    User = {u1, u2}
    Writer = {w}
    Op = {"lookup", "reval", "perm", "create", "unlink", "setattr", "rename", "read", "write", "fsync", "flush", "open", "readdir", "release", "statfs", "remount", "reinit", "rmdirwh", "postproc"}
    Variant = {"reval", "cpup", "plink", "linked", "nd", "self", "udba", "lower", "opq", "rw", "nofile", "noalias"}
SYMMETRY Symmetric
INVARIANTS TypeOK NoDeadlock BigLock
