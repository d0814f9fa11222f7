SPECIFICATION Spec
CONSTANTS
    c1 = c1
    c2 = c2
    d1 = d1
    d2 = d2
    Connections = {c1, c2}
    Descriptors = {d1, d2}
    None = None
    RetrySeconds = 1
    SigpipeFatal = FALSE
    AssertsEnabled = TRUE
INVARIANTS
    ProtectedByMutex
