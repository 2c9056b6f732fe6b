\* Two relayers that share one sweep a night, which may run out of time
\* behind any chunk.
SPECIFICATION FairSpec
CONSTANTS
    r1 = r1
    r2 = r2
    s1 = s1
    s2 = s2
    Relayer <- TwoRelayers
    Registry <- RegistryOfTwo
    Sweep <- OneSweep
    MaxSlot = 3
    Page = 2
    Chunk = 1
    NoSlot = NoSlot
    MayFail = FALSE
PROPERTIES
    EventuallyIndexed
