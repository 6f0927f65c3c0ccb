SPECIFICATION Spec
CONSTANTS
    Root = Root
    Sub = Sub
    y = y
    File = {x, y}
    Parent <- ParentOf
    Proc = {p1}
    Obj = {o1, o2}
    None = None
    MaxForeign = 1
INVARIANTS TypeOK Fresh ListDue
PROPERTY ListSeen
