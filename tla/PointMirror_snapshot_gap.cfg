\* A change of the point between the snapshot and the subscription.
SPECIFICATION Spec
CONSTANTS
    Values = {0, 3}
    Steps = {1, 2}
    Flags = {Usr}
    UsrFlags = {Usr}
    Manual = Manual
    InitialPoints <- MCInitialPoints
    None = None
    MaxFlight = 2
    MaxCalls = 1
    MaxWrites = 1
CHECK_DEADLOCK FALSE
PROPERTY
    NoEarlyUpdateLost
