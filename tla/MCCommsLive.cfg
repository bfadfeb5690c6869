SPECIFICATION FairSpec
CONSTANTS
    Callsign = aircraft
    NoCallsign = NoCallsign
    NoPacket = NoPacket
    SERVER_ATC_ID = 1
    PREV_ATC_ID = 1
    Options = {"weather", "disconnect"}
    FalseAlarm = TRUE
    MaxSent = 3
    MaxInbox = 3
    MaxChan = 2
    MaxKeys = 1
CHECK_DEADLOCK FALSE
PROPERTIES LossNoticed ExitReleasesServer
