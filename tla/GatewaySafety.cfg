SPECIFICATION Spec
CONSTANTS
    c1 = c1
    c2 = c2
    c3 = c3
    d1 = d1
    d2 = d2
    Connections = {c1, c2, c3}
    Descriptors = {d1, d2}
    None = None
    RetrySeconds = 2
    SigpipeFatal = TRUE
    AssertsEnabled = TRUE
SYMMETRY Symmetry
INVARIANTS
    IInv
    RegistryExclusive
    RegistryTracksThreads
    ThreadOwnsItsDescriptor
    NoDescriptorLeak
    PromiseAlive
PROPERTIES
    ImplementsLifecycle
