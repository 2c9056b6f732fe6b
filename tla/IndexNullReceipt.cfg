\* The receipt of a mined transaction comes back null.
SPECIFICATION Spec
CONSTANTS
    r1 = r1
    r2 = r2
    t1 = t1
    t2 = t2
    Runner <- OneRunner
    Tx <- OneTx
    LogIndex = {0}
    FirstHead = 1
    MaxBlock = 2
    Subrange = 2
    Confirmations = 1
    Lookback = 0
    StartBlocks = {}
    TipSources <- FinalityTag
    BackfillTip <- MinusOne
    MaxReorgDepth = 1
    UseReceipts = TRUE
    ReceiptsMayBeNull = TRUE
    NotMined = NotMined
    NoBlock = NoBlock
INVARIANTS
    NothingSilentlyMissing
