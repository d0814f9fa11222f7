SPECIFICATION Spec
CONSTANTS
    Schemas <- OnlyTheRealSchema
    NoSchema = NoSchema
    Absent = Absent
    Bad = Bad
    MsgIdRange = 1024
    Garbage = {0}
    Stale = Stale
CHECK_DEADLOCK FALSE
INVARIANTS
    BlockLengthIsSizeOfBlockData
