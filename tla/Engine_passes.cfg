\* Seven rule files, with peers that come and go, failing calls and a debugger.
SPECIFICATION FairSpec
CONSTANTS
    x = x
    v = v
    w = w
    o = o
    Inputs = {x}
    Outputs = {o}
    Vars = {v, w}
    Values = {0, 1}
    Confs <- MCConfs
    Debuggable = {x, v}
    WritesFail = TRUE
    None = None
    Undefined = Undefined
    Endless = Endless
    MaxEvents = 1
    MaxDepth = 4
CHECK_DEADLOCK FALSE
INVARIANTS
    TypeOK
    VariablesSettled
    OutputsSettled
    FeedbackFreeSurvives
PROPERTIES
    PassesEnd
