SPECIFICATION Spec
CONSTANTS
    LanSettings = {lan1}
    Endpoints = {ep1}
    DnsConfigs = {dns1}
    LocalDns = {}
    CanInclude = TRUE
    MaxAttempt = 1
PROPERTIES
    StartRepairsDns
