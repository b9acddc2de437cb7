SPECIFICATION ServiceFairSpec
CONSTANTS
    RecvTimeout = 2
    Reregister = 4
    HbEvery = 36
    Ttl = 108
    Lossy = {"Confirm"}
    Subdomains = {"sub"}
    NoSub = NoSub
    MaxRestarts = 0
CHECK_DEADLOCK FALSE
PROPERTY ComesBound
