\* A name on two links that may move between places; answers may come late or
\* never, browsers cannot be made now and then, and a second type browser tells of
\* all types again; the daemon may go.
SPECIFICATION FairSpec
CONSTANTS
    n1 = n1
    t1 = t1
    t2 = t2
    l1 = l1
    l2 = l2
    Names = {n1}
    Matching = {n1}
    Links = {l1, l2}
    Types = {t1, t2}
    Instances <- TwoLinksTwoTypes
    Places = {p1, p2}
    None = None
    Unresolvable = TRUE
    MaxRunning = 2
    MaxChurn = 3
CHECK_DEADLOCK FALSE
INVARIANTS
    TypeOK
    PresentIsListed
    PeerKeptByItsType
PROPERTIES
    GhostsAnswerLate
    OfferedGetsListed
