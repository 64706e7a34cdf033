\* A signal, a failing server and hanging handlers; one process after another.
CONSTANTS
    HTTPRequests = {h1, h2}
    GRPCRequests = {g1, g2}
SPECIFICATION ServerSpec
INVARIANTS
    ServerTypeOK
    CutOnlyPastDeadline
    StoreOutlivesHandlers
PROPERTIES
    SignalEndsProcess
