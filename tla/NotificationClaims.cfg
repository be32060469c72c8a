SPECIFICATION MCSpec
CONSTANTS
    n1 = n1
    n2 = n2
    Notifications = {n1, n2}
    Users = {"u"}
    Recipient <- MCRecipient
    Kind <- MCKind
    OptedOut = {}
    Allowed = {"u"}
    Workers = {w1, w2}
    MaxClaims = 2
    SendAttempts = 2
    RateLimit = 2
    RateWindow = 2
    Timeout = 1
    BaseDelay = 1
    MaxDelay = 1
    ClaimHorizon = 5
    MaxTime = 7
    MaxRequeues = 1
INVARIANTS
    TypeOK
    AtMostOncePerRequeue
    OutcomeMatchesClaim
    ClaimRateRespected
PROPERTY AbandonedClaimsResolved
CHECK_DEADLOCK FALSE
