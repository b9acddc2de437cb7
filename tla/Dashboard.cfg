SPECIFICATION Spec
CONSTANTS
    NavTargets = {"create", "sign"}
    Petitions = {"p1"}
    Pages = {{"request"}, {"cards", "tab", "request"}}
    MaxPending = 2
    MaxClicks = 5
CHECK_DEADLOCK FALSE
INVARIANTS TypeOK SheetIsCurrent OneStep SplitWithSheet UnprovedIsWip
PROPERTIES LeavingReturns LoopFollows
