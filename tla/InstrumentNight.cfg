\* Three days with any number of runs, one failure or death, one change of a
\* listing or an answer.
SPECIFICATION Spec
CONSTANTS
    Down = Down
    Other = Other
    NoFeed = NoFeed
    Url <- U
    UrlOrder <- Catalog
    Wallet <- W
    Spelled <- LowerCase
    Listings <- SomeListings
    Asks <- SomeAsks
    Indexed <- InIndex
    AlertCount = 3
    AlertStreak = 2
    StreakMin = 1
    MaxDay = 3
    MaxFault = 1
    MaxChange = 1
INVARIANTS
    TypeOK
    SpillContained
    WatchTrue
PROPERTIES
    FeedTrue
