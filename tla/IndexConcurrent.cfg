\* Two runs of the indexer on one database, blocks 0..3, one transfer that the
\* newest block's reorganisations can move.
SPECIFICATION Spec
CONSTANTS
    r1 = r1
    r2 = r2
    t1 = t1
    t2 = t2
    Runner <- TwoRunners
    Tx <- OneTx
    LogIndex = {0, 1}
    FirstHead = 1
    MaxBlock = 3
    Subrange = 2
    Confirmations = 1
    Lookback = 0
    StartBlocks = {2}
    TipSources <- EitherTip
    BackfillTip <- MinusOne
    MaxReorgDepth = 1
    UseReceipts = FALSE
    ReceiptsMayBeNull = FALSE
    NotMined = NotMined
    NoBlock = NoBlock
SYMMETRY Symmetry
INVARIANTS
    LedgerExact
PROPERTIES
    ImplementsLedger
