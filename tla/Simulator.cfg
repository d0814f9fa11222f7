SPECIFICATION FreshBuffer
CONSTANTS
    c1 = c1
    c2 = c2
    d1 = d1
    Connections = {c1, c2}
    Descriptors = {d1}
    None = None
    RetrySeconds = 1
    SigpipeFatal = TRUE
    AssertsEnabled = TRUE
    Frames <- ClientFrames
    MaxFrames = 2
    Templates = {"Negotiate", "Establish", "Sequence", "RetransmitRequest", "NewOrderSingle"}
    UUIDs = {1}
    Junk = {0}
    SeqNumRange = 3
    BufferSize = 1024
    SendBufferSize = 2000
    MemoryFails = FALSE
    Watched = c1
INVARIANTS
    AnswersReachTheirClient
PROPERTIES
    ImplementsGateway
    EveryClientIsAnswered
    GoneGivesDescriptorBack
