CONSTANTS
    i1 = i1
    i2 = i2
    i3 = i3
    u1 = u1
    u2 = u2
    Instances <- TwoReplicas
    Updates <- TwoUpdates
    Events = {"crash", "remove", "expire"}
    Free = Free
    Orphan = Orphan
    None = None
SPECIFICATION Spec
INVARIANTS
    ExpireSparesLiveRecord
PROPERTIES
    NoLostUpdate
    AtomicRecord
