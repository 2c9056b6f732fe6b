\* One nightly run on a receipts chain, with operators' backfills, deaths and
\* reorganisations: exactness and progress.
SPECIFICATION FairSpec
CONSTANTS
    r1 = r1
    r2 = r2
    t1 = t1
    t2 = t2
    Runner <- OneRunner
    Tx <- OneTx
    LogIndex = {0}
    FirstHead = 2
    MaxBlock = 4
    Subrange = 1
    Confirmations = 1
    Lookback = 1
    StartBlocks = {0, 3}
    TipSources <- EitherTip
    BackfillTip <- MinusOne
    MaxReorgDepth = 1
    UseReceipts = TRUE
    ReceiptsMayBeNull = FALSE
    NotMined = NotMined
    NoBlock = NoBlock
PROPERTIES
    EventuallyIndexed
