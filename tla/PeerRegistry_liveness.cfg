\* The allocator keeps a freed record apart while its late result is on its way,
\* and peers answer: what the registry promises then, and that it gets there.
SPECIFICATION FairSpec
CONSTANTS
    Names = {n1, n2}
    Matching = {n1, n2}
    Records = {r1, r2}
    Clients = {c1, c2, c3}
    Inputs = {i1}
    Outputs = {}
    None = None
    RecordReuse = FALSE
    FreedRead = {"no_match"}
    StartFails = FALSE
CHECK_DEADLOCK FALSE
PROPERTIES
    StartsEnd
    AdvertisedGetsReady
