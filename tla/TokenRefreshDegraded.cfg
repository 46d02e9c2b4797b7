CONSTANTS
    i1 = i1
    i2 = i2
    t1 = t1
    t2 = t2
    t3 = t3
    Instances <- TwoInstances
    Tasks <- ThreeTasks
    Home <- SharedHome
    HasBackend = TRUE
    Rotation = {TRUE}
    Events = {"lapse", "timeout", "backend"}
    MaxIssued = 3
    MaxExpiring = 2
    MaxEpoch = 1
    Free = Free
    Orphan = Orphan
    NoToken = NoToken
    Unread = Unread
SPECIFICATION Spec
INVARIANTS
    GrantNeverLost
    PanicOnlyIfReplaced
PROPERTIES
    RecordNeverRegresses
