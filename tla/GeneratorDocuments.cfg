SPECIFICATION FairSpec
CONSTANTS
    Schemas <- AllSchemas
    NoSchema = NoSchema
    Absent = Absent
    Bad = Bad
    MsgIdRange = 1024
    Garbage = {0, 7}
    Stale = Stale
CHECK_DEADLOCK FALSE
INVARIANTS
    TypeOK
    ReadInFullBeforeWriting
    TablesFollowTheDocument
    NullIsDeclared
    AccessorsFitMembers
    LayoutIsTheSchemas
PROPERTIES
    Ends
