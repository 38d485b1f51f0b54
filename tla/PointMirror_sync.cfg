\* Every order of the setters and of a step change, with signals lost between the
\* snapshot and the subscription and debugger writes to the mirror.
SPECIFICATION Spec
CONSTANTS
    Values = {0, 3}
    Steps = {1, 2}
    Flags = {Usr}
    UsrFlags = {Usr}
    Manual = Manual
    InitialPoints <- MCInitialPoints
    None = None
    MaxFlight = 2
    MaxCalls = 1
    MaxWrites = 1
CHECK_DEADLOCK FALSE
INVARIANTS
    AssertionsHold
    MirrorFollows
    TwoSignalsRepair
PROPERTY
    ValueRevertedOnlyUnseen
