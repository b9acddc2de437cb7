SPECIFICATION FairSpec
CONSTANTS
    self = self
    local = local
    sub1 = sub1
    sub2 = sub2
    Torn = Torn
    NoNode = NoNode
    NoFqdn = NoFqdn
    Keys = {self}
    Hosts = {local, sub1, sub2, Torn}
    RemoteHost = local
    Subdomains = {sub1, sub2}
    NodeTtl = 6
    HbEvery = 3
    PruneEvery = 2
    Slack = 2
    UseForwarder = TRUE
    MaxSubs = 2
CHECK_DEADLOCK FALSE
INVARIANTS SelfStaysListed SubdomainIsShown OfflineLast
PROPERTY ShutdownReachesStop
