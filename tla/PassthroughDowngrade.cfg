CONSTANTS
    u1 = u1  p1 = p1  pr1 = pr1
    PtUsers = {u1}
    PtSessions = {p1}
    PtRequests = {pr1}
    PtArrivals <- Bearers
    PtMaxVer <- Issued
SPECIFICATION PtSpec
PROPERTIES
    BearerNeverDowngrades
