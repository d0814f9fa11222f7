SPECIFICATION FairSpec
CONSTANTS
    Frames <- SessionFrames
    MaxFrames = 4
    Templates = {"Negotiate", "Establish", "Sequence", "RetransmitRequest", "NewOrderSingle", "Other"}
    UUIDs = {1, 2}
    Junk = {0}
    SeqNumRange = 3
    BufferSize = 1024
    SendBufferSize = 2000
    MemoryFails = FALSE
    SigpipeFatal = TRUE
CHECK_DEADLOCK FALSE
INVARIANTS
    RepliesInOrder
    SessionNumbering
    EndsForAReason
    IInv
PROPERTIES
    ImplementsSession
    AnsweredOrGone
    EndsWithLink
