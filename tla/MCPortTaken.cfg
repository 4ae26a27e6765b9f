SPECIFICATION Spec
CONSTANTS
    p1 = p1
    p2 = p2
    n1 = n1
    c1 = c1
    b = b
    one = one
    word = word
    Empty = Empty
    Invalid = Invalid
    Value = {p1, p2, b, one, word, Empty}
    IntOf <- MCIntOf
    FloatOf <- MCFloatOf
    Files <- MCFiles
    Provider = {p1, p2}
    Balancer = b
    CanListen = {p2}
    Client = {c1}
    Name = {n1}
    MaxKills = 1
    MaxReboots = 1
INVARIANTS
    OperationsHandled
CHECK_DEADLOCK FALSE
