SPECIFICATION FairMeetingSpec
CONSTANTS
    Event = "e"
    Sessions = {"s"}
    Syncers = {1, 2}
    Hosts = {"h"}
    HostSlots = 1
    MaxMeetings = 2
    MaxMeetingEvents = 2
    MaxMeetingFaults = 1
INVARIANT DeletionNotForgotten
CHECK_DEADLOCK FALSE
