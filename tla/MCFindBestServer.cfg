SPECIFICATION FairSpec
CONSTANTS
    a1 = a1
    a2 = a2
    x = x
    y = y
    Operation = {x, y}
    Address = {a1, a2}
    NoAddress = NoAddress
    Lists <- MCLists
    Requests <- MCRequests
INVARIANTS
    TypeOK
    LoopInv
    AnswerIsBest
    EveryBestCanBeAnswered
    AnswerProvides
PROPERTIES
    Terminates
CHECK_DEADLOCK FALSE
