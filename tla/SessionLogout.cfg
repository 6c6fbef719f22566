CONSTANTS
    ExitCauses = {"NoToken"}
    Lockdowns = {FALSE}
    SaveEnds = {"Written", "Torn", "Unopened"}
    MaxRequests = 3
    MaxQueue = 2
SPECIFICATION Spec
PROPERTY LogoutAfterTeardown
CHECK_DEADLOCK FALSE
