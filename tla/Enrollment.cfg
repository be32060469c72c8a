\* The constants of the scenario "queue"; MCEnrollmentScenarios gives the others.
SPECIFICATION ScenarioSpec
CONSTANTS
    Users = {1, 2, 3}
    Invitees = {}
    Tiers <- TwoTiers
    Public <- FreeTier
    SeatsTotal <- OneSeat
    Price <- Prices
    Discount = 2
    InitialAvailable = 2
    TotalAvailable = 0
    HasQuestions = FALSE
    WaitlistEnabled = TRUE
    ProviderReady = FALSE
    HoldTime = 1
    OfferLife = 2
    RegistrationEnds = 2
    StartsAt = 2
    EndsAt = 2
    MaxLockWait = 0
    MaxTime = 1
    MaxOffers = 1
    MaxPurchases = 1
INVARIANTS
    InventoryConserved
    QueueExclusive
    OfferInCheckoutHasPurchase
    WorkerProgresses
PROPERTIES
    QueueRespected
CHECK_DEADLOCK FALSE
