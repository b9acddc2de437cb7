SPECIFICATION FairSpec
CONSTANTS
    s1 = s1
    s2 = s2
    idA = idA
    idB = idB
    nA = nA
    nB = nB
    d1 = d1
    d2 = d2
    Slots = {s1}
    Shards = {idA, idB}
    Nullifiers = {nA, nB}
    Sha <- MCSha
    Dirs = {d1, d2}
    Dir <- TwoDirectories
    Epochs = {1, 2}
    PassFiles = {"ok", "missing"}
    Overlap = FALSE
    EnableLLSS = TRUE
    MaxLaunches = 5
    MaxCrashes = 2
CHECK_DEADLOCK FALSE
INVARIANTS TypeOK EmailedIsPersisted AtMostOneEmail VerdictsAgree SavedIsEmailed
PROPERTIES ImplementsLedger CheckedReachesShutdown ConnectedTerminates
