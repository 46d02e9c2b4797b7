CONSTANTS
    i1 = i1
    i2 = i2
    i3 = i3
    u1 = u1
    u2 = u2
    Instances <- TwoReplicas
    Updates <- OneUpdate
    Events = {"remove"}
    Free = Free
    Orphan = Orphan
    None = None
SPECIFICATION Spec
PROPERTIES
    StartsFromDefault
