SPECIFICATION FairSemSpec
CONSTANTS
    t1 = t1
    t2 = t2
    t3 = t3
    s = s
    Idle = Idle
    NoTask = NoTask
    Running = Running
    NoList = NoList
    Objects <- OneSem
    Sems <- OneSem
    MaxValue <- Counting
    StartValue <- Empty
    Tasks <- Two
    BasePriority <- TwoPriorities
    Priorities <- Levels
    TimeRange = 4
    MaxDelay = 1
INVARIANTS UnitsNotStranded
PROPERTIES HighestGetsUnit
