\* A refund of an invited attendee that the provider reverses.
SPECIFICATION RefundsSpec
CONSTANTS
    Users = {1}
    Invitees = {1}
    Tiers <- OneTier
    Public <- OneTier
    SeatsTotal <- TwoSeats
    Price <- Paid
    Discount = 1
    InitialAvailable = 0
    TotalAvailable = 0
    HasQuestions = FALSE
    WaitlistEnabled = TRUE
    ProviderReady = TRUE
    HoldTime = 1
    OfferLife = 2
    RegistrationEnds = 2
    StartsAt = 2
    EndsAt = 3
    MaxLockWait = 0
    MaxTime = 1
    MaxOffers = 1
    MaxPurchases = 2
PROPERTIES
    RecoveryBlocksCheckout
CHECK_DEADLOCK FALSE
