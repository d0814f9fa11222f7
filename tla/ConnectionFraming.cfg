SPECIFICATION Spec
CONSTANTS
    Frames <- FramingFrames
    MaxFrames = 3
    Templates = {"Negotiate", "Establish", "Sequence", "RetransmitRequest", "NewOrderSingle", "Other"}
    UUIDs = {1, 2}
    Junk = {0}
    SeqNumRange = 3
    BufferSize = 1024
    SendBufferSize = 2000
    MemoryFails = TRUE
    SigpipeFatal = TRUE
CHECK_DEADLOCK FALSE
INVARIANTS
    WellFramed
    NoStaleDispatch
    IInv
