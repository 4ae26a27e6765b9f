SPECIFICATION Spec
CONSTANTS
    a1 = a1
    a2 = a2
    a3 = a3
    b1 = b1
    f1 = f1
    Address = {a1, a2}
    Fits = {a1}
    BeatCall = {b1}
    FindCall = {}
    NoAddress = NoAddress
    NoOne = NoOne
    Updater = Updater
    MaxEstablish = 1
INVARIANTS
    UsageOfOwnBeat
