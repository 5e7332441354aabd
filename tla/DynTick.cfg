SPECIFICATION Spec
CONSTANTS
    TimeRange = 24
    MAX_PERIOD = 6
    Near = 3
    Latency = 1
    MaxDelay = 8
    Periods = {0, 2}
    Room = 1
INVARIANTS ClockAccurate NeverOverdue
