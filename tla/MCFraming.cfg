SPECIFICATION Spec
CONSTANTS
    Callsigns <- MCCallsigns
    Telemetry <- MCTelemetry
    Timestamp <- MCTimestamp
    MaxPackets = 4
    MaxBeats = 2
CHECK_DEADLOCK FALSE
INVARIANTS DamageConfined StreamRealigns
