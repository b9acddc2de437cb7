SPECIFICATION FairSpec
CONSTANTS
    Configs <- AnyConfig
    MaxLines = 3
CHECK_DEADLOCK FALSE
INVARIANTS TrueMeansAccepted AuthUnderTls
PROPERTY DialogueEnds
