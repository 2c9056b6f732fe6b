\* Blocks 0..3, all tables of up to three ranges, all targets, both modes.
\* A run ends, so the system may stop.
SPECIFICATION FairSpec
CONSTANTS
    MaxBlock = 3
    Tables <- SmallTables
    Subrange = 3
    MaxRange = 2
CHECK_DEADLOCK FALSE
INVARIANTS
    TypeOK
    FrontierExact
    FetchedExactly
PROPERTIES
    NeverFetchedTwice
    Terminates
