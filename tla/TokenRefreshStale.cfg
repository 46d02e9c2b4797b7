CONSTANTS
    i1 = i1
    i2 = i2
    t1 = t1
    t2 = t2
    t3 = t3
    Instances <- TwoInstances
    Tasks <- TwoTasks
    Home <- PairHome
    HasBackend = TRUE
    Rotation = {TRUE}
    Events = {}
    MaxIssued = 3
    MaxExpiring = 2
    MaxEpoch = 0
    Free = Free
    Orphan = Orphan
    NoToken = NoToken
    Unread = Unread
SPECIFICATION Spec
INVARIANTS
    PresentsLiveRefreshToken
