SPECIFICATION Spec
CONSTANTS
    t1 = t1
    t2 = t2
    t3 = t3
    q = q
    x = x
    y = y
    NoMessage = NoMessage
    Idle = Idle
    NoTask = NoTask
    Running = Running
    NoList = NoList
    Objects <- OneQueue
    smq = q
    total = 2
    Message <- Messages
    Blocking = TRUE
    Tasks <- Two
    BasePriority <- TwoPriorities
    Priorities <- Levels
    TimeRange = 4
    MaxDelay = 1
INVARIANTS MessagesNotStranded
PROPERTIES ImplementsFifo
