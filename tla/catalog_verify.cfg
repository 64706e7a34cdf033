\* Does a verification racing with a deletion revive the source?
CONSTANTS
    None = None
    r1 = r1
    a1 = a1
    o1 = o1
    o2 = o2
    d1 = d1
    d2 = d2
    n1 = n1
    p1 = p1
    u1 = u1
    Runs = {r1}
    Attempts = {a1}
    Outputs = {o1}
    Digests = {d1, d2}
    Nodes = {n1}
    Paths = {p1}
    URIs = {u1}
    Parsed <- MCParsed
    AllowedHosts = {"cache.lab"}
    AllowAny = FALSE
    PrivateHosts = {}
    MaxInt64 = 3
    Backend = "sqlite"
    Offers <- MCOneOffer
    Faults = FALSE
    CatalogWorkers = {w1, w2}
    SourceOffers <- MCNoSourceOffers
    RequestedStates = {"deleted"}
SYMMETRY MCSymmetry
SPECIFICATION CatalogSpec
PROPERTIES
    VerifyNeverRevives
