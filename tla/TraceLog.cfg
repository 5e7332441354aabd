SPECIFICATION TraceSpec
CONSTANTS
    t1 = t1
    t2 = t2
    Idle = Idle
    NoTask = NoTask
    Running = Running
    NoList = NoList
    Objects <- NoObjects
    Tasks <- Two
    BasePriority <- TwoPriorities
    Priorities <- Levels
    TimeRange = 4
    MaxDelay = 0
    LogSize = 3
    MaxWhen = 1
    HookAtomic = TRUE
    LoopShared = TRUE
INVARIANTS SwitchesChain
PROPERTIES ImplementsHistory
