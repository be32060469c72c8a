\* The constants of the scenario "again"; MCRefunds gives the others.
SPECIFICATION ScenarioSpec
CONSTANTS
    Users = {1}
    Invitees = {1}
    Tiers <- OneTier
    Public <- OneTier
    SeatsTotal <- OneSeat
    Price <- Paid
    Discount = 1
    InitialAvailable = 1
    TotalAvailable = 1
    HasQuestions = TRUE
    WaitlistEnabled = TRUE
    ProviderReady = TRUE
    HoldTime = 1
    OfferLife = 2
    RegistrationEnds = 3
    StartsAt = 3
    EndsAt = 3
    MaxLockWait = 0
    MaxTime = 2
    MaxOffers = 1
    MaxPurchases = 2
    Workers = {1, 2}
    ClaimIds = {"c1", "c2", "c3", "c4"}
    MaxAttempts = 1
    MaxRequeues = 1
    MaxRefunds = 2
    MaxFaults = 1
    KeysExpire = TRUE
INVARIANTS
    AtMostOneLiveRefund
    RecordMatchesProvider
    FollowUpQueued
    InventoryConserved
    AttendanceMatchesPurchase
    CapturedPaymentAccounted
    RefundRequestConsistent
PROPERTIES
    KeepsPromise
    RefundResolves
CHECK_DEADLOCK FALSE
