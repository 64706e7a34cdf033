\* Two workers, whose requests may overlap on one Run: progress.
CONSTANTS
    None = None
    d1 = d1
    Runs = {r1}
    Attempts = {a1}
    Outputs = {o1}
    Digests = {d1}
    Nodes = {}
    Paths = {}
    URIs = {}
    Parsed <- MCParsed
    AllowedHosts = {}
    AllowAny = FALSE
    PrivateHosts = {}
    MaxInt64 = 3
    Backend = "sqlite"
    LifecycleWorkers = {w1, w2}
    Offers <- MCOneOffer
    MinRetention = 1
    MaxTime = 1
    Faults = FALSE
SPECIFICATION LifecycleFairSpec
PROPERTIES
    FinalizedBecomesEligible
