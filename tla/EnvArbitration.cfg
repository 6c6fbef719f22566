CONSTANTS
    N = 3
    FirstSettings <- MCFirstSettings
    MaxChanges = 2
SPECIFICATION FairSpec
INVARIANTS
    WishKept
    StoodDownStaysDown
    SealedOnlyByFault
PROPERTIES
    WeakerStandsDown
    FreeMachineIsNoticed
CHECK_DEADLOCK FALSE
