SPECIFICATION FairSpec
CONSTANTS
    p1 = p1
    p2 = p2
    o1 = o1
    o2 = o2
    NoCall = NoCall
    Address = {p1}
    Offer = {o1}
    Load <- MCLoad
    Garbage <- MCGarbage
    Word <- MCWord
    HeartBeatRate = 2
    BeatRate = 2
    Backoff = 1
    SweepLag = 1
    BeatLag = 1
    Prompt = {}
    MaxFaults = 2
    MaxReboots = 1
    Jumps <- LongJumps
    MaxSkew = 3
    Readings <- MCReadings
    NotANumber <- MCNotANumber
PROPERTIES
    RunningIsListed
    DeadIsForgotten
    DuplicatesVanish
