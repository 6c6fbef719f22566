CONSTANTS
    ExitCauses = {"NoToken", "Offline"}
    Lockdowns = {FALSE}
    SaveEnds = {"Written", "Torn", "Unopened"}
    MaxRequests = 3
    MaxQueue = 2
SPECIFICATION Spec
INVARIANTS
    LogoutHoldsTheGate
    SecuredIsProtected
    ShutdownStaysBlocked
PROPERTIES
    NeverOpensWhileSecured
    CrashKeepsWish
CHECK_DEADLOCK FALSE
