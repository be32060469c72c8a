\* A payment whose completion waits for the event lock.
SPECIFICATION Spec
CONSTANTS
    Users = {1}
    Invitees = {}
    Tiers <- OneTier
    Public <- OneTier
    SeatsTotal <- OneSeat
    Price <- Paid
    Discount = 1
    InitialAvailable = 0
    TotalAvailable = 0
    HasQuestions = FALSE
    WaitlistEnabled = TRUE
    ProviderReady = TRUE
    HoldTime = 1
    OfferLife = 2
    RegistrationEnds = 2
    StartsAt = 2
    EndsAt = 3
    MaxLockWait = 1
    MaxTime = 2
    MaxOffers = 1
    MaxPurchases = 1
INVARIANTS
    CapturedPaymentAccounted
