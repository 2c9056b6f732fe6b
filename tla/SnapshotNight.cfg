\* A primary and an additive chain, any one mishap, an operator's backfills of
\* the primary chain at any time, also above its finalized block.
SPECIFICATION Spec
CONSTANTS
    base = base
    polygon = polygon
    Chain <- TwoChains
    Primary = base
    MaxBlock = 3
    Traffic <- SparseAndDense
    FirstFinal = 1
    Lookback = 0
    Unsafe = 1
    Backfilled <- BaseOnly
    Kinds <- AllKinds
    MaxMishaps = 1
    NoBlock = NoBlock
INVARIANTS
    TypeOK
    ResumesAtHead
    NothingLost
PROPERTIES
    NeverOverGap
