SPECIFICATION IterateSpec
CONSTANTS
    t1 = t1
    t2 = t2
    t3 = t3
    a = a
    Idle = Idle
    NoTask = NoTask
    Running = Running
    NoList = NoList
    Objects <- OneMutex
    Mutexes <- OneMutex
    Tasks <- Three
    BasePriority <- Rising
    Priorities <- Levels
    TimeRange = 4
    MaxDelay = 0
    iterate_mutex = a
    DeleteHigher = FALSE
    FastPath = TRUE
    NewPriorities <- Middle
    PriorityOfUsers = FALSE
INVARIANTS MutualExclusion NoLostWakeup OwnerInherits PriorityRestored NoPriorityInversion ListingStands
