SPECIFICATION FairSpec
CONSTANTS
    aircraft = aircraft
    Packets <- MCPackets
    Callsigns <- MCCallsigns
    NoPacket = NoPacket
    NoCallsign = NoCallsign
    SERVER_ATC_ID = 1
    MaxInbox = 2
    MaxKeys = 1
CHECK_DEADLOCK FALSE
INVARIANTS TypeOK VerifiedBeforeFlight JournalIsAPath AnsweredOnce
PROPERTIES MaydayLatched SessionPromise ClosedLinkReleased LostLinkReleased
