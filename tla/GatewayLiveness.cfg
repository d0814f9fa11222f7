SPECIFICATION FairSpec
CONSTANTS
    c1 = c1
    c2 = c2
    c3 = c3
    d1 = d1
    Connections = {c1, c2, c3}
    Descriptors = {d1}
    None = None
    RetrySeconds = 1
    SigpipeFatal = FALSE
    AssertsEnabled = FALSE
PROPERTIES
    BacklogDrains
    DescriptorReturned
