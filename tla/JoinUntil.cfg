SPECIFICATION Spec
CONSTANTS
    t1 = t1
    t2 = t2
    t3 = t3
    Idle = Idle
    NoTask = NoTask
    Running = Running
    NoList = NoList
    Objects <- NoObjects
    Tasks <- Two
    Priorities <- TwoLevels
    TimeRange = 4
    MaxDelay = 1
    Applications <- Finishing
SYMMETRY Symmetry
INVARIANT JoinUntilTellsFinished

