SPECIFICATION Spec
CONSTANTS
    Interval = 32
    Select = 4
    Period = 20
    ReadTimeout = 40
    Latency = 1
INVARIANT NoFalseAlarm
