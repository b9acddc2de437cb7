SPECIFICATION Spec
CONSTANTS
    s1 = s1
    s2 = s2
    idA = idA
    idB = idB
    nA = nA
    nB = nB
    d1 = d1
    d2 = d2
    Slots = {s1, s2}
    Shards = {idA}
    Nullifiers = {nA}
    Sha <- MCShaOne
    Dirs = {d1, d2}
    Dir <- OneDirectory
    Epochs = {1}
    PassFiles = {"ok"}
    Overlap = TRUE
    EnableLLSS = FALSE
    MaxLaunches = 4
    MaxCrashes = 0
CHECK_DEADLOCK FALSE
INVARIANT AtMostOneEmail
