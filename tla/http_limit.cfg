CONSTANTS
    Conns = {c1, c2, c3}
    Reqs = {r1, r2}
    NoConn = NoConn
    OpenConnLimit = 2
    RateTenths = 10
    UseTLS = TRUE
    TokenSet = TRUE
    CORS = TRUE
    MayHijack = TRUE
SPECIFICATION FairSpec
CHECK_DEADLOCK FALSE
INVARIANTS ServedWithinLimit GaugeIsRight
PROPERTY EveryRequestAnswered
