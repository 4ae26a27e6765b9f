SPECIFICATION FairSpec
CONSTANTS
    n1 = n1
    n2 = n2
    c1 = c1
    a = a
    b = b
    c = c
    d = d
    t1 = t1
    t2 = t2
    Name = {n1, n2}
    Point = {a, b, c, d}
    Meshes <- MCMeshes
    FormOf <- MCFormOf
    Inputs <- MCInputs
    Client = {c1}
    Thread = {t1, t2}
    NoClient = NoClient
    MaxCalls = 2
    MaxFaults = 1
    MaxKills = 1
INVARIANTS
    TypeOK
    NamesUnique
    ResultsExact
    PolygonsKept
    TripSettles
PROPERTIES
    StatusIsRight
    CallsReturn
CHECK_DEADLOCK FALSE
