CONSTANTS
    ExitCauses = {"NoToken", "Offline"}
    Lockdowns = {FALSE, TRUE}
    SaveEnds = {"Written"}
    MaxRequests = 3
    MaxQueue = 1
SPECIFICATION FairSpec
PROPERTIES
    LogoutSettles
    RestartLockdownEnds
    ShutdownEndsOrBlocks
CHECK_DEADLOCK FALSE
