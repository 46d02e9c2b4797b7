CONSTANTS
    i1 = i1
    i2 = i2
    t1 = t1
    t2 = t2
    t3 = t3
    Instances <- TwoInstances
    Tasks <- TwoTasks
    Home <- PairHome
    HasBackend = TRUE
    Rotation = {TRUE}
    Events = {"remove"}
    MaxIssued = 2
    MaxExpiring = 1
    MaxEpoch = 1
    Free = Free
    Orphan = Orphan
    NoToken = NoToken
    Unread = Unread
SPECIFICATION Spec
INVARIANTS
    JustStored
