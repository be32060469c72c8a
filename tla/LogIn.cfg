\* A log-in over a live session of a member of a community without groups.
SPECIFICATION MCSpec
CONSTANTS
    Events = {e1, e2}
    Users = {"u"}
    Speakers = {"s"}
    Requests = {r1, r2}
    Accounts = {"a", "b"}
    TaxReady = {"a"}
    MaxRequests = 2
    Tabs = {t1, t2}
    Selections = {"paid", "free"}
    Free = {"free"}
    MaxHolds = 2
    Members = {u1, u2}
    Communities = {"c1", "c2"}
    Groups = {"g1"}
    CommunityOf <- CommunityOfGroups
    Restricted = {}
    Visits = {v1, v2}
    MaxVisits = 3
    Forms <- SeriesForms
    Standard = 1
    Summers <- SummersInMadrid
    MaxMonths = 40
INVARIANT SelectionConsistent
CHECK_DEADLOCK FALSE
