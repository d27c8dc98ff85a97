CONSTANTS
    r1 = r1
    r2 = r2
    r3 = r3
    b1 = b1
    b2 = b2
    b3 = b3
    b4 = b4
    Seqs = {r1, r2, r3}
    Blocks = {b1, b2, b3}
    BlockSize = 2
    Backend = "hash"
    Token = {0, 1}
    Sampled = {0}
    Prompt <- ShortPrompts
    MaxLen = 8
    NoSeq = NoSeq
    Policy = "fcfs"
    MaxNumSeqs = 2
    MaxNumBatched = 4
    MaxActive = 0
    Lookahead = 0
    MaxTokens <- ShortLimits
    Priority <- Priorities
    Eos = 1
    ReclaimPolicy = "slo_aware"
    TargetFree = 1
    Compression = "none"
    SinkBlocks = 1
    RecentBlocks = 1
    ImportanceBlocks = 1
    TriggerFree = 0
    Remote = TRUE
    MayFail = FALSE
SPECIFICATION FairSpec
PROPERTIES StepEnds EveryRequestAnswered
