SPECIFICATION Spec
CONSTANTS
    p1 = p1
    p2 = p2
    o1 = o1
    o2 = o2
    NoCall = NoCall
    Address = {p1}
    Offer = {o1}
    Load <- SampleLoad
    Garbage <- MCGarbage
    Word <- MCWord
    HeartBeatRate = 4
    BeatRate = 1
    Backoff = 2
    SweepLag = 1
    BeatLag = 1
    Prompt = {p1}
    MaxFaults = 1
    MaxReboots = 1
    Jumps <- MCJumps
    MaxSkew = 1
    Readings <- MCReadings
    NotANumber <- MCNotANumber
INVARIANTS
    TypeOK
    BoundedSilence
    DuplicatesNeedFaults
    UsageArrives
    IndInv
    BusierIsHigher
PROPERTIES
    PromptStaysListed
