CONSTANTS
    N = 3
    FirstSettings <- MCFirstSettings
    MaxChanges = 2
SPECIFICATION FairSpec
PROPERTY WeakerAlwaysStandsDown
CHECK_DEADLOCK FALSE
