SPECIFICATION FairSpec
CONSTANTS
    MinAlive = 2
    MaxFloor = 4
    FastRetries = 2
    FlapMax = 2
    FlapWindow = 7
    Patience = 4
    StatusTtl = 2
    MaxAttempt = 3
    Worlds <- MCWorlds
INVARIANTS
    FreshRunOnFirstAttempt
PROPERTIES
    DialsSpaced
    PayingUserIsNotParked
    RefusalSurfaces
