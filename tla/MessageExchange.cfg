SPECIFICATION Spec
CONSTANTS
    Classes <- ExchangedClasses
    BufferSize = 1024
    SendBufferSize = 2000
INVARIANTS
    TypeOK
    MembersArrive
    AnswersEcho
    BlockAsAnnounced
