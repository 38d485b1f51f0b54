\* As PeerRegistry_safety: a freed record may be handed out again.
SPECIFICATION Spec
CONSTANTS
    Names = {n1, n2, n3}
    Matching = {n1, n2}
    Records = {r1, r2}
    Clients = {c1, c2, c3}
    Inputs = {i1}
    Outputs = {o1}
    None = None
    RecordReuse = TRUE
    FreedRead = {"no_match", "crash"}
    StartFails = TRUE
SYMMETRY RegistrySymmetry
CHECK_DEADLOCK FALSE
PROPERTY
    OwnResultOnly
