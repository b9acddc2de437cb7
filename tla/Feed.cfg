SPECIFICATION Spec
CONSTANTS
    Topologies = {"empty", "one", "two"}
    Empty = "empty"
    Online <- MCOnline
    Threshold = 2
    MaxChanges = 2
    MaxBreaks = 2
INVARIANTS ReconnectArmed ViewsAgree
PROPERTY Converges
