SPECIFICATION FairSpec
CONSTANTS
    Full = 3
    Requests <- AnyRequest
    MaxReplies = 2
CHECK_DEADLOCK FALSE
INVARIANTS OnlyVerifiedForwarded 
PROPERTY AnswerReachesClient
