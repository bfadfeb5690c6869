SPECIFICATION Spec
CONSTANTS
    Callsign = aircraft
    NoCallsign = NoCallsign
    NoPacket = NoPacket
    SERVER_ATC_ID = 1
    PREV_ATC_ID = 1
    Options = {"takeoff"}
    FalseAlarm = FALSE
    MaxSent = 3
    MaxInbox = 3
    MaxChan = 2
    MaxKeys = 0
CHECK_DEADLOCK FALSE
INVARIANT NoDataLoss
