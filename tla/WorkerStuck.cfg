\* A late payment of a user who was invited meanwhile.
SPECIFICATION Spec
CONSTANTS
    Users = {1, 2}
    Invitees = {2}
    Tiers <- OneTier
    Public <- OneTier
    SeatsTotal <- OneSeat
    Price <- Paid
    Discount = 1
    InitialAvailable = 0
    TotalAvailable = 0
    HasQuestions = FALSE
    WaitlistEnabled = TRUE
    ProviderReady = TRUE
    HoldTime = 1
    OfferLife = 2
    RegistrationEnds = 2
    StartsAt = 2
    EndsAt = 3
    MaxLockWait = 0
    MaxTime = 1
    MaxOffers = 1
    MaxPurchases = 2
INVARIANTS
    WorkerNeverStuck
