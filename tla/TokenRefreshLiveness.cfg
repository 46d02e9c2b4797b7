CONSTANTS
    i1 = i1
    i2 = i2
    t1 = t1
    t2 = t2
    t3 = t3
    Instances <- TwoInstances
    Tasks <- ThreeTasks
    Home <- SharedHome
    HasBackend = TRUE
    Rotation = {TRUE}
    Events = {"crash", "cancel", "timeout", "backend"}
    MaxIssued = 2
    MaxExpiring = 1
    MaxEpoch = 0
    Free = Free
    Orphan = Orphan
    NoToken = NoToken
    Unread = Unread
SPECIFICATION FairSpec
PROPERTIES
    CallsReturn
