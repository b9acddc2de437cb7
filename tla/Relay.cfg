SPECIFICATION ServiceFairSpec
CONSTANTS
    RecvTimeout = 2
    Reregister = 4
    HbEvery = 36
    Ttl = 108
    Lossy = {"Register", "Challenge", "Heartbeat", "Neighbors"}
    Subdomains = {"sub"}
    NoSub = NoSub
    MaxRestarts = 1
CHECK_DEADLOCK FALSE
PROPERTIES LeaseHeld ComesBound
