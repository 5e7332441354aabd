SPECIFICATION Spec
CONSTANTS
    t1 = t1
    t2 = t2
    t3 = t3
    Idle = Idle
    NoTask = NoTask
    Running = Running
    NoList = NoList
    Objects <- NoObjects
    Tasks <- Three
    Priorities <- TwoLevels
    TimeRange = 4
    MaxDelay = 1
    Applications <- AllApplications
SYMMETRY Symmetry
  
PROPERTIES HighestPriorityKept TurnsKept ImplementsQueues
