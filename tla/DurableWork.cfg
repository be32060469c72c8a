SPECIFICATION MCSpec
CONSTANTS
    Workers = {1, 2}
    MaxAttempts = 2
    MaxRequeues = 1
    MaxFaults = 2
    MaxObjects = 2
    Recipients = {1, 2, 3}
    Replicas = {1, 2}
    BatchSize = 2
    MaxFailures = 2
    ListSize = 2
    MaxJobs = 2
    MaxRevocations = 1
    MaxTroubles = 1
    Bits = {1}
    Own = 1
    Requests = {1, 2}
    Emails = {"a", "b"}
    Keys = {"k1", "k2"}
    MaxBindings = 2
    Views = {1, 2, 3}
    CommunityViews = {1}
    EventViews = {2}
    QueueSize = 2
    BatchesSize = 1
INVARIANTS
    AtMostOneObject
    AtMostOneActiveAward
    RevocationBitsDistinct
    NobodyPassedOver
    ServedListIsFresh
    DownloadVerifies
    ViewsCountedOnce
PROPERTIES
    WorkSurfaces
    AwardsResolve
CHECK_DEADLOCK FALSE
