\* Every outcome of the undefined read of a freed record, peers that fail, two
\* peers that may export the same input.
SPECIFICATION Spec
CONSTANTS
    Names = {n1, n2, n3}
    Matching = {n1, n2}
    Records = {r1, r2}
    Clients = {c1, c2, c3}
    Inputs = {i1}
    Outputs = {o1}
    None = None
    RecordReuse = TRUE
    FreedRead = {"no_match", "crash"}
    StartFails = TRUE
SYMMETRY RegistrySymmetry
CHECK_DEADLOCK FALSE
INVARIANTS
    TypeOK
    RecordsOwnStarts
    PeersAdvertised
    TablesCurrent
    DebugPeersAgree
PROPERTIES
    ImplementsPeerTable
