SPECIFICATION SpecWh
CONSTANTS
    Root = Root
    Sub = Sub
    y = y
    File = {x, y}
    Parent <- ParentOf
    Proc = {p1}
    Obj = {o1, o2}
    None = None
    MaxForeign = 1
INVARIANT Fresh
