SPECIFICATION Spec
CONSTANTS
    LanSettings = {lan1, lan2}
    Endpoints = {ep1, ep2}
    DnsConfigs = {dns1, dns2, dnsLan}
    LocalDns = {dnsLan}
    CanInclude = TRUE
    MaxAttempt = 1
SYMMETRY SettingsSymmetry
INVARIANTS
    FailClosed
    PolicyFollowsSettings
    DialsOnlyWhenWanted
    NoTunnelLeft
    SystemFollowsState
    NoLostOnlineEdge
PROPERTIES
    NeverOpens
    TunnelClosesFirst
    ImplementsLifecycle
