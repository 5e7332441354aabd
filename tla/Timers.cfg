SPECIFICATION Spec
CONSTANTS
    t1 = t1
    t2 = t2
    i1 = i1
    i2 = i2
    a = a
    Idle = Idle
    NoTask = NoTask
    Running = Running
    NoList = NoList
    NoTimer = NoTimer
    Objects <- OneAlarm
    Alarms <- OneAlarm
    AllTimers <- TwoTimers
    Periods <- Once
    Tasks <- Two
    BasePriority <- Rising
    Priorities <- Levels
    Applications <- Three
    TimeRange = 6
    MaxDelay = 2
    MaxLate = 1
INVARIANTS NoOverdueTimeout WaitersFollowAlarm
PROPERTIES TimesOutOnlyWhenReached WaitEndsAtAlarm TickReturns TimeoutFires ImplementsTimers
