SPECIFICATION Spec
CONSTANTS
    Callsign = aircraft
    NoCallsign = NoCallsign
    NoPacket = NoPacket
    SERVER_ATC_ID = 1
    PREV_ATC_ID = 1
    Options = {"takeoff", "landing_cleared", "handoff", "disconnect"}
    FalseAlarm = TRUE
    MaxSent = 4
    MaxInbox = 3
    MaxChan = 2
    MaxKeys = 1
CHECK_DEADLOCK FALSE
INVARIANTS TypeOK InOrderOnce BufferAtMostOne MenuMeansVerified NeitherAhead
PROPERTIES DeliveryPromise EverySessionPromised
