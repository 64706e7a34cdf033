\* All three kinds of request on one artifact; MemoryStore, errors and restarts.
CONSTANTS
    None = None
    r1 = r1
    a1 = a1
    o1 = o1
    d1 = d1
    n1 = n1
    p1 = p1
    Runs = {r1}
    Attempts = {a1}
    Outputs = {o1}
    Digests = {d1}
    Nodes = {n1}
    Paths = {p1}
    URIs = {}
    Parsed <- MCParsed
    AllowedHosts = {}
    AllowAny = FALSE
    PrivateHosts = {}
    MaxInt64 = 3
    Backend = "memory"
    Offers <- MCOffers
    Faults = TRUE
    MinRetention = 1
    MaxTime = 1
    LifecycleWorkers = {l1}
    CatalogWorkers = {c1}
    SourceOffers <- MCSourceOffers
    RequestedStates = {}
    ResolveWorkers = {h1}
    Bindings <- MCOneBinding
    Targets = {""}
SPECIFICATION HandoffSpec
INVARIANTS
    HandoffTypeOK
    AnswersStayTrue
PROPERTIES
    ImplementsLifecycle
