SPECIFICATION FairSpec
CONSTANTS
    Settle = 2
    ProbesFail = TRUE
    MaxChanges = 3
INVARIANTS
    OfflineIsNotHeldBack
    ReportsFollowLink
PROPERTIES
    OnlineIsFreshAndSettled
    EdgesArrive
