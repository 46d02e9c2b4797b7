CONSTANTS
    o1 = o1  o2 = o2  or1 = or1  or2 = or2  os1 = os1  os2 = os2  w1 = w1  w2 = w2
    u1 = u1  u2 = u2  p1 = p1  pr1 = pr1  pr2 = pr2
    OpInstances = {o1, o2}
    OpUsers = {w1, w2}
    OpSessions = {os1, os2}
    OpPairs = {q1, q2, q3}
    OpRequests = {or1, or2}
    OpArrivals <- Arrivals
    OpLogin <- Logins
    OpMortal = {os1}
    OpRefreshers = {w1}
    OpNone = OpNone
    OpSlack = 1
    OpMaxEvents = 1
    PtUsers = {u1, u2}
    PtSessions = {p1}
    PtRequests = {pr1, pr2}
    PtArrivals <- Bearers
    PtMaxVer <- Issued
SPECIFICATION Spec
INVARIANTS
    AuthTypeOK
    IndexCoherent OpaqueIsolation MappingResolvable
    OnlyVouched
PROPERTIES
    UnracedServedAsSelf UnknownBearerOnlyAdvances
