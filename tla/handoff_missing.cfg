\* Is MISSING answered only for unregistered outputs?
CONSTANTS
    None = None
    r1 = r1
    a1 = a1
    o1 = o1
    d1 = d1
    n1 = n1
    p1 = p1
    Runs = {r1}
    Attempts = {a1}
    Outputs = {o1}
    Digests = {d1}
    Nodes = {n1}
    Paths = {p1}
    URIs = {}
    Parsed <- MCParsed
    AllowedHosts = {}
    AllowAny = FALSE
    PrivateHosts = {}
    MaxInt64 = 3
    Backend = "sqlite"
    Offers <- MCOneOffer
    Faults = FALSE
    MinRetention = 1
    MaxTime = 0
    LifecycleWorkers = {}
    CatalogWorkers = {c1}
    SourceOffers <- MCSourceOffers
    RequestedStates = {}
    ResolveWorkers = {h1}
    Bindings <- MCOneBinding
    Targets = {""}
SPECIFICATION HistorySpec
INVARIANTS
    MissingMeansUnregistered
