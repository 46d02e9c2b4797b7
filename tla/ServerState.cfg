CONSTANTS
    i1 = i1  i2 = i2  r1 = r1  r2 = r2  x1 = x1  x2 = x2  alice = alice  bob = bob
    c1 = c1  c2 = c2  fr1 = fr1  fr2 = fr2  k1 = k1  k2 = k2
    BindInstances = {i1, i2}
    BindSessions = {x1, x2}
    BindIdentities = {alice, bob}
    BindRequests = {r1, r2}
    BindArrivals <- Bearers
    NoOne = NoOne
    BindTtl = 2
    BindMaxEntries = 1
    BindMaxWrites = 2
    BindMaxFaults = 1
    JwKids = {k1, k2}
    JwRequests = {r1, r2}
    JwArrivals <- Tokens
    JwTtl = 2
    JwCooldown = 1
    OfInstances = {i1, i2}
    OfClients = {c1, c2}
    OfNamed = {c2}
    OfUris <- Uris
    OfPublic <- PublicOrigin
    OfAllowlist = {}
    OfStates = {x1}
    OfRequests = {fr1, fr2}
    OfArrivals <- Requests
    OfRegisters <- Registers
    OfAsks <- Asks
    OfNone = OfNone
    OfMaxCached = 1
    OfMaxFaults = 1
    TsSessions = {x1, x2}
    TsLoads = {r1, r2}
    TsTtl = 2
    CpNames = {1}
    CpPeers = {i1, i2}
    CpGreeting = {i2}
    CpSessions = {x1}
    CpSessionOf <- SessionOf
    CpTasks = {r1, r2}
    CpChanging <- Changing
    CpNone = CpNone
    CpMaxChanges = 2
    TdNames = {"x", "y"}
    TdInner <- Inner
    TdCalls = {r1, r2}
    TdChanging <- Entries
    TdArrivals <- Calls
    TdShown <- Shown
    TdCarried = TdCarried
    TdNone = TdNone
    TdMaxToken = 1
    TdMaxChanges = 2
    PlDates = {1, 2, 3, 4}
    PlKnown = {1, 2, 3}
    PlModern = 3
    PlLegacy = 2
    PlUncapped = PlUncapped
    PlError = PlError
    PlUnset = PlUnset
    PlNone = PlNone
SPECIFICATION Spec
SYMMETRY Symmetry
INVARIANTS
    ServerTypeOK
    TableBounded
    AcceptedIsVouched
    CodeOnlyToAllowed CodeUsedOnce RegisteredIsKnown
    DeletedStaysDeleted IndexCoversKeys
    QuietPeersAreCurrent UnracedVersionCurrent
    RunsAsChecked
    CeilingRespected RepairKeepsAgreement
PROPERTIES
    SettledSessionKept
    IssuerNotHammered StaleKeysOnlyInOutage OutageCostsOneRequest ListedAsDispatched
