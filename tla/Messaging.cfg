SPECIFICATION MessagingSpec
CONSTANTS
    t1 = t1
    t2 = t2
    grp = grp
    queue = queue
    bit0 = bit0
    bit1 = bit1
    m1 = m1
    m2 = m2
    Idle = Idle
    NoTask = NoTask
    Running = Running
    NoList = NoList
    Objects <- Both
    Groups <- OneGroup
    Events <- Bits
    Requests <- ThreeRequests
    mq = queue
    Messages <- TwoMessages
    Tasks <- Two
    BasePriority <- TwoPriorities
    Priorities <- Levels
    TimeRange = 4
    MaxDelay = 1
SYMMETRY MessagesAlike
INVARIANTS NoMatchingSleeper MessagesHaveReceivers
