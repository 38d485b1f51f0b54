SPECIFICATION Spec

CONSTANTS
    x = x
    y = y
    vv = vv
    o = o
    p = p
    Inputs = {x, y}
    Outputs = {o, p}
    Vars = {vv}
    Values = {0, 1}
    Nodes = {1, 2, 3}
    Confs <- MCConfs
    None = None
    Undefined = Undefined
    Fresh = Fresh

INVARIANTS
    TypeOK
    ChangeReportedOnce
    BlocksSettled

CHECK_DEADLOCK FALSE
