\* Two nights with any number of publish steps, a chain of the seller index and one
\* that is only watched, two failed queries or deaths, one failed refresh or restart.
SPECIFICATION StatsFairSpec
CONSTANTS
    NoBlob = NoBlob
    NoData = NoData
    ChainOrder <- Chains
    Scopable <- Registered
    Ladder <- Indexed
    Sections <- TwoSections
    MaxNight = 2
    MaxFault = 2
    MaxOutage = 1
INVARIANTS
    StatsTypeOK
    AlwaysPublished
PROPERTIES
    FailuresIsolated
    EventuallyServed
