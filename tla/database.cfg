\* Two processes open, migrate and write one file; each may die at any statement.
CONSTANTS
    None = None
    d1 = d1
    d2 = d2
    n1 = n1
    p1 = p1
    s1 = s1
    s2 = s2
    Char <- MCChar
    Sep = "/"
    Space = " "
    Namespace <- MCNamespace
    Runs <- MCRuns
    Attempts <- MCAttempts
    Outputs <- MCOutputs
    Digests = {d1, d2}
    Nodes = {n1}
    Paths = {p1}
    URIs = {}
    Parsed <- MCParsed
    AllowedHosts = {}
    AllowAny = FALSE
    PrivateHosts = {}
    MaxInt64 = 3
    Processes = {p, q}
    SourceIDs = {s1, s2}
    SampleRunIDs <- MCSampleRunIDs
    InitialFiles <- MCInitialFiles
    Offers <- MCOffers
    SourceCalls <- MCSourceCalls
    ReportedStates = {"Succeeded", "Failed"}
    LifecycleRows = {"row"}
SPECIFICATION DatabaseSpec
INVARIANTS
    DatabaseTypeOK
    ServingSeesWholeSchema
    StampedMeansMigrated
    ReadsSeeOnlyRuns
PROPERTIES
    ImplementsContract
    LegacyRetained
    RefusedLeavesFile
    OpeningEnds
