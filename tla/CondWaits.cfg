SPECIFICATION FairCondSpec
CONSTANTS
    t1 = t1
    t2 = t2
    t3 = t3
    a = a
    c = c
    Idle = Idle
    NoTask = NoTask
    Running = Running
    NoList = NoList
    Objects <- Both
    Mutexes <- OneMutex
    Conds <- OneCond
    Tasks <- Two
    BasePriority <- TwoPriorities
    Priorities <- Levels
    TimeRange = 4
    MaxDelay = 1
    FastPath = FALSE
    NewPriorities <- None
    PriorityOfUsers = FALSE
INVARIANTS NoLostSignal LockedAfterWait
PROPERTIES ResultStands TimedWaitReturns
