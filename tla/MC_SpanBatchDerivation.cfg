CONSTANTS
    Channels <- MC_Channels
    StartBlock = 10
    EndBlock = 13
    L2GenesisTime = 0
    L2GenesisBlock = 0
    L2BlockTime = 2
    EndL1Origin = 100
    L1BlockTimes = {12, 7}
    Timestamps = {18, 24}
    BlockCounts = {1, 3}
    MaxBatches = 2
SPECIFICATION Spec
INVARIANT TypeOK
INVARIANT SpanRangesExact
CHECK_DEADLOCK FALSE
