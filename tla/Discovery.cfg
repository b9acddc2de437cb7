SPECIFICATION Spec
CONSTANTS
    self = self
    peer = peer
    local = local
    sub = sub
    NoNode = NoNode
    NoFqdn = NoFqdn
    NoView = NoView
    Keys = {self, peer}
    Hosts = {local, sub}
    NodeTtl = 0
    Threads = {"pruner", "main"}
    Pruner = "pruner"
    Clients = {"c1"}
    Regs <- OwnCalls
    Announces <- PeerMoves
    RelayCalls <- RelayUpdates
    MaxOps = 3
    MaxJoins = 2
CHECK_DEADLOCK FALSE
INVARIANTS ListedAreOpen StaleOnlyIfOvertaken
