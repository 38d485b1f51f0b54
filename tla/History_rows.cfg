\* One point, with a value six digits do not hold; outages, broken connections
\* and deaths.
SPECIFICATION Spec
CONSTANTS
    v1 = v1
    v2 = v2
    v3 = v3
    Points = {p1}
    Values = {v1, v2, v3}
    Stored <- LosesDigits
    Reconnects = TRUE
    None = None
    MaxClock = 2
    MaxRows = 4
    MaxFaults = 3
CHECK_DEADLOCK FALSE
INVARIANTS
    TypeOK
    LatestRowIsValue
PROPERTIES
    NoRowRepeated
