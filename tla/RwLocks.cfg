SPECIFICATION RwSpec
CONSTANTS
    t1 = t1
    t2 = t2
    t3 = t3
    rd = rd
    wr = wr
    Idle = Idle
    NoTask = NoTask
    Running = Running
    NoList = NoList
    Objects <- BothLists
    rd_task_list = rd
    wr_task_list = wr
    Tasks <- Three
    BasePriority <- TwoLow
    Priorities <- Levels
    TimeRange = 4
    MaxDelay = 1
INVARIANTS RwExclusion HandedOver NoSleeperAtFreeLock
PROPERTIES ReadersKeepOut
