\* Two connections, at most four requests, one payment, one read that fails or
\* thread that does not start; two identities fill the table.
CONSTANTS
    c1 = c1  c2 = c2
    anonymous = anonymous  keyed = keyed  pro = pro  other = other  auth = auth
    NoAuth = NoAuth
    Conn <- TwoConns
    Ident <- AllIdents
    ProIdent <- JustPro
    KeyIdent <- Keys
    Auth <- OneAuth
    Config <- AllConfigs
    Cost = 2
    HardCap = 1
    MaxTrouble = 1
SPECIFICATION FairSpec
CHECK_DEADLOCK FALSE
INVARIANTS
    TypeOK
    PermitsBalanced
    RateBound
    PaymentsAccounted
    FreshUnlessRaced
PROPERTY EveryConnectionEnds
