\* One handler at a time, two Runs, sizes that overflow.
CONSTANTS
    None = None
    d1 = d1
    Runs = {r1, r2}
    Attempts = {a1}
    Outputs = {o1, o2}
    Digests = {d1}
    Nodes = {}
    Paths = {}
    URIs = {}
    Parsed <- MCParsed
    AllowedHosts = {}
    AllowAny = FALSE
    PrivateHosts = {}
    MaxInt64 = 3
    Backend = "sqlite"
    LifecycleWorkers = {w1}
    Offers <- MCOneOffer
    MinRetention = 1
    MaxTime = 1
    Faults = FALSE
SYMMETRY MCSymmetry
SPECIFICATION LifecycleSpec
INVARIANTS
    SnapshotNeverOverstates
    BacklogHasARun
PROPERTIES
    RetentionFixed
    GCEligibleStays
