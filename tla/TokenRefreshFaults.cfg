CONSTANTS
    i1 = i1
    i2 = i2
    t1 = t1
    t2 = t2
    t3 = t3
    Instances <- TwoInstances
    Tasks <- TwoTasks
    Home <- TwinHome
    HasBackend = TRUE
    Rotation = {TRUE, FALSE}
    Events = {"cancel", "lapse", "timeout", "upstream", "login", "remove"}
    MaxIssued = 2
    MaxExpiring = 2
    MaxEpoch = 1
    Free = Free
    Orphan = Orphan
    NoToken = NoToken
    Unread = Unread
SYMMETRY TwinSymmetry
SPECIFICATION Spec
INVARIANTS
    TypeOK
    LeaseExclusion
