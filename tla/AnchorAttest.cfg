\* Two snapshot days, one a run, three transactions, one correction. The bounds end
\* every behaviour, so that deadlock is not checked.
SPECIFICATION FairSpec
CONSTANTS
    sellers = sellers
    meta = meta
    File <- TwoFiles
    Sellers = sellers
    Absent = Absent
    NoDay = NoDay
    NoRow = NoRow
    MaxDay = 2
    MaxPerRun = 1
    MaxTx = 3
    MaxVersion = 2
    MaxRevoked = 1
INVARIANTS
    TypeOK
    LedgerTrue
    AttestedIsFinal
    StraysExplained
    
PROPERTIES
    EventuallyAttested
CHECK_DEADLOCK FALSE
