SPECIFICATION Spec
CONSTANTS
    Callsigns <- MCCallsigns
    Telemetry <- MCTelemetry
    Timestamp <- MCTimestamp
    MaxPackets = 2
    MaxBeats = 1
CHECK_DEADLOCK FALSE
INVARIANT NoFalseEmergency
