\* Three nights and at most two failed sections or lookups; the thresholds are
\* the defaults of the source, maturity and letter days apart.
CONSTANTS
    b1 = b1  b2 = b2  p1 = p1  s1 = s1
    base = base  polygon = polygon  solana = solana
    small = small  fair = fair  captive = captive  young = young  old = old
    Seller <- MCSeller
    Payer <- MCPayer
    Origin <- MCOrigin
    ChainOf <- MCChainOf
    WashOrder <- MCWashOrder
    CycleOrder <- MCCycleOrder
    Populations <- MCPopulations
    SelfThresh = 20
    FundedThresh = 20
    MatureDays = 2
    MaxNight = 3
    MaxFail = 2
    LetterMinTx = 25
    LetterMinPayers = 5
    SelfPayConduct = 25
    AMin = 55
    AMinPayers = 50
    AMaxTopShare = 90
    BMin = 47
    CMin = 36
    FlagCap = 49
    MinScoreable = 3
    Confident = 20
    ExclusiveMin = 5
    ExclusiveCap = 49
    MinLetterDays = 7
    NoGrade = NoGrade
    NoValue = NoValue
    NoRow = NoRow
SPECIFICATION Spec
CHECK_DEADLOCK FALSE
INVARIANTS
    TypeOK
    HealthyNightIsExact
    SignalsOfRecord
    CleanExact
    GateIsSound
    NoInventedLetter
