\* Every plan and every check for every short list of sources.
CONSTANTS
    None = None
    r1 = r1
    a1 = a1
    o1 = o1
    d1 = d1
    n1 = n1
    n2 = n2
    p1 = p1
    u1 = u1
    u2 = u2
    u3 = u3
    u4 = u4
    u5 = u5
    u6 = u6
    u7 = u7
    Runs = {r1}
    Attempts = {a1}
    Outputs = {o1}
    Digests = {d1, d2}
    Nodes = {n1, n2}
    Paths = {p1}
    URIs = {u1, u2, u3, u4, u5, u6, u7}
    Parsed <- MCParsed
    AllowedHosts = {"cache.lab", "10.0.0.7"}
    AllowAny = FALSE
    PrivateHosts = {"10.0.0.7"}
    MaxInt64 = 3
    Situations <- MCSituations
SPECIFICATION PlacementSpec
INVARIANTS
    PlacementTypeOK
    PlanHonoured
    SameNodeOnlyStaysLocal
    CandidatesUsable
    PlannedCopyIsFound
