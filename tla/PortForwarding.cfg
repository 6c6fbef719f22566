SPECIFICATION FairSpec
CONSTANTS
    r1 = r1
    r2 = r2
    Rules = {r1, r2}
    MaxTunnels = 2
    MaxLate = 1
    Worlds <- MCWorlds
INVARIANTS RowHasItsManager LiveRuleKeepsItsRow RetryIsOfItsLoop SlotIsItsHolders
PROPERTIES WantedRuleIsAnswered
CHECK_DEADLOCK FALSE
