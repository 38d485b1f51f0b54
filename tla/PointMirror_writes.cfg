\* Rules, an operator and the debugger write values and flags at the same time.
SPECIFICATION FairSpec
CONSTANTS
    Values = {0, 1}
    Steps = {1}
    Flags = {Manual}
    UsrFlags = {}
    Manual = Manual
    InitialPoints <- MCInitialPoints
    None = None
    MaxFlight = 1
    MaxCalls = 1
    MaxWrites = 1
CHECK_DEADLOCK FALSE
PROPERTIES
    OverrideLostOnlyUnseen
    LoopReturns
    EventuallySynchronized
