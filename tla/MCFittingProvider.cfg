SPECIFICATION Spec
CONSTANTS
    a1 = a1
    a2 = a2
    a3 = a3
    b1 = b1
    f1 = f1
    Address = {a1, a2}
    Fits = {a1}
    BeatCall = {}
    FindCall = {f1}
    NoAddress = NoAddress
    NoOne = NoOne
    Updater = Updater
    MaxEstablish = 1
INVARIANTS
    FittingProviderFound
