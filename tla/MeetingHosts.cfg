\* A host with one slot and a session saved a second time without a meeting.
SPECIFICATION MeetingSpec
CONSTANTS
    Event = "e"
    Sessions = {"s"}
    Syncers = {1, 2}
    Hosts = {"h"}
    HostSlots = 1
    MaxMeetings = 2
    MaxMeetingEvents = 2
    MaxMeetingFaults = 0
INVARIANT HostCapacityRespected
CHECK_DEADLOCK FALSE
