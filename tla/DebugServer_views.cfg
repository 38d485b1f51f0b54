\* Two debuggers, a point and a variable; the third point added wraps the counter.
SPECIFICATION FairSpec
CONSTANTS
    n1 = n1
    p1 = p1
    d1 = d1
    d2 = d2
    v2 = v2
    Sessions <- AllSessions
    Debuggers = {d1, d2}
    Names = {n1}
    Points = {p1}
    Owner <- OwnerOfPoint
    Vars = {x1}
    Values = {v1, v2}
    None = None
    HandleMod = 3
    MaxSent = 2
INVARIANTS
    TypeOK
    ViewsFollow
    StopsKnown
    HandleKeepsItsMeaning
PROPERTIES
    StopsEnd
