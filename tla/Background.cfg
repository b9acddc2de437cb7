SPECIFICATION MCSpec
CONSTANTS
    AllPatterns <- MCPatterns
    Unknown = "gone"
    NumPalettes = 2
    Picks <- MCPicks
    Sizes = {0, 1}
    Colors = {"blue", "pink"}
    OldConfigs <- MCOldConfigs
    None = None
    MaxEvents = 2
    MaxFaults = 1
CHECK_DEADLOCK FALSE
INVARIANTS TypeOK PageIsCurrent PatternsExplained TextIsMeasured SavedIsCurrent
PROPERTIES ColorIsKept Settles
