SPECIFICATION ShardingSpec
CONSTANTS
    Prime = 7
    Threshold = 3
    Total = 5
    Remaining = 3
    Secrets = {0, 1, 6, 12}
    NoShard = NoShard
CHECK_DEADLOCK FALSE
INVARIANTS ThresholdReconstructs
