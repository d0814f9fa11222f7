------------------------- MODULE CodeGeneratorProofs -------------------------
(***************************************************************************)
(* What holds of CodeGenerator for every document.  IInv says that the     *)
(* tables no longer change once something was built on them, so that a     *)
(* file that was written is still what the tables give.  TablesSoFar says  *)
(* of every turn of the loops what the tables then hold of the document,   *)
(* and with it the layout of the messages is compared with the schema's.   *)
(***************************************************************************)
EXTENDS CodeGenerator, TLAPS

\* While a loop reads, the tables of the later loops are empty and nothing is
\* written, nor is it without a document; the exit code is only given at the end.
Phases ==
    /\ pc \in {"start", "types"} => enumDefinitions = NoEntries
    /\ pc \in {"start", "types", "enums"} => msgDefinitions = NoEntries
    /\ pc \in {"start", "types", "enums", "messages", "crashed"} \/ exitCode = 1
          \/ schema = NoSchema => \A f \in Files : files[f] = Stale
    /\ pc # "done" => exitCode = Absent

\* A header that was written is what the tables give.
HeadersFromTables ==
    /\ files["enums.h"] # Stale => files["enums.h"] = EnumsHeader
    /\ files["msgs.h"] # Stale => files["msgs.h"] = MsgsHeader

\* A field of a message that is linked to an enum is linked to the one of that
\* name which is written to the enums header.
FieldsLinked ==
    \A id \in DOMAIN msgDefinitions : \A k \in DOMAIN msgDefinitions[id].fields :
        LET e == msgDefinitions[id].fields[k].enumDefinition
        IN  e # Absent => e.name \in DOMAIN enumDefinitions /\ e = enumDefinitions[e.name]

IInv == TypeOK /\ Phases /\ HeadersFromTables /\ FieldsLinked

-----------------------------------------------------------------------------
(* Operators *)

\* A usable type of the document gives a field definition.
LEMMA FieldDefinitionType ==
    ASSUME NEW t \in TypeElement, UsableType(t)
    PROVE  t.name \in STRING /\ FieldDefinition(t) \in FieldDefinitions
BY DEF TypeElement, UsableType, FieldDefinition, FieldDefinitions

\* The accessors of a field agree with its member, whatever it is linked to.
LEMMA AccessorsFit ==
    ASSUME NEW f
    PROVE  /\ Getter(f) = [MemberType(f) EXCEPT !.kind = IF @ = "array" THEN "view" ELSE @]
           /\ Setter(f) = "store" => Getter(f) = MemberType(f)
<1>1. CASE f.fieldDefinition # Absent
  BY <1>1 DEF Getter, Setter, MemberType, FieldGetter, FieldSetter, StructFieldPrefix, CppType
<1>2. CASE f.fieldDefinition = Absent /\ f.enumDefinition # Absent
  BY <1>2 DEF Getter, Setter, MemberType, EnumPrefix, CppType
<1>3. CASE f.fieldDefinition = Absent /\ f.enumDefinition = Absent
  BY <1>3 DEF Getter, Setter, MemberType, CompositePrefix, CppType
<1> QED BY <1>1, <1>2, <1>3

\* Only a field that is linked to an enum, and to no type, has a member of an
\* enum class.
LEMMA EnumMembers ==
    ASSUME NEW f, MemberType(f).kind = "enum"
    PROVE  /\ f.fieldDefinition = Absent /\ f.enumDefinition # Absent
           /\ MemberType(f).of = f.enumDefinition.name
BY DEF MemberType, StructFieldPrefix, EnumPrefix, CompositePrefix, CppType

-----------------------------------------------------------------------------
(* The inductive invariant *)

LEMMA InitInvariant == Init => IInv
<1> SUFFICES ASSUME Init PROVE IInv
  OBVIOUS
<1> USE DEF Init
<1>1. TypeOK
  BY SchemasAssumption DEF TypeOK, NoEntries, Files
<1>2. Phases
  BY DEF Phases
<1>3. HeadersFromTables
  BY DEF HeadersFromTables, Files
<1>4. FieldsLinked
  BY DEF FieldsLinked, NoEntries
<1> QED BY <1>1, <1>2, <1>3, <1>4 DEF IInv

\* A step that leaves the document, the tables and the files alone.
LEMMA ControlStep ==
    ASSUME IInv, UNCHANGED <<schema, tables, files, exitCode>>,
           pos' \in Nat \ {0}, schema # NoSchema,
           \/ pc = "start" /\ pc' = "types"
           \/ pc = "types" /\ pc' \in {"types", "enums"}
           \/ pc = "enums" /\ pc' \in {"enums", "messages", "crashed"}
           \/ pc = "messages" /\ pc' \in {"messages", "const.h"}
    PROVE  IInv'
<1> USE DEF IInv, tables
<1>1. TypeOK'
  BY DEF TypeOK, Files
<1>2. Phases'
  BY DEF Phases, TypeOK
<1>3. HeadersFromTables'
  BY DEF HeadersFromTables, EnumsHeader, MsgsHeader, EnumClass, MessageClass
<1>4. FieldsLinked'
  BY DEF FieldsLinked
<1> QED BY <1>1, <1>2, <1>3, <1>4

\* A step that writes a file, or fails to.
LEMMA WriteStep ==
    ASSUME IInv, NEW file \in Files, NEW contents, NEW following \in Files \cup {"done"},
           Write(file, contents, following),
           file = "enums.h" => contents = EnumsHeader,
           file = "msgs.h" => contents = MsgsHeader,
           following = "done" => exitCode' = 0,
           following # "done" => exitCode' = exitCode
    PROVE  IInv'
<1> USE DEF IInv, Write, tables
<1>1. TypeOK'
  BY DEF TypeOK, Files
<1>2. Phases'
  BY AbsentAssumption DEF Phases, TypeOK, Files
<1>3. EnumsHeader' = EnumsHeader /\ MsgsHeader' = MsgsHeader
  BY DEF EnumsHeader, MsgsHeader
<1>4. HeadersFromTables'
  BY <1>3 DEF HeadersFromTables, TypeOK, Files
<1>5. FieldsLinked'
  BY DEF FieldsLinked
<1> QED BY <1>1, <1>2, <1>4, <1>5

LEMMA ReadTypeStep == IInv /\ ReadType => IInv'
<1> SUFFICES ASSUME IInv, ReadType PROVE IInv'
  OBVIOUS
<1> DEFINE t == schema.types[pos]
<1> USE DEF IInv
<1>1. pc = "types" /\ pc' = "types" /\ pos' = pos + 1 /\ pos \in Nat \ {0}
  BY DEF ReadType, ElementAt, TypeOK
<1>2. schema \in Schema /\ pos \in 1..Len(schema.types)
  BY <1>1, SchemasAssumption DEF ReadType, ElementAt, TypeOK, Schema
<1>3. t \in TypeElement
  BY <1>2 DEF Schema
<1>4. CASE ~UsableType(t)
  <2>1. UNCHANGED <<schema, tables, files, exitCode>>
    BY <1>4 DEF ReadType, tables
  <2>2. schema # NoSchema
    BY <1>2, SchemasAssumption
  <2> QED BY <1>1, <2>1, <2>2, ControlStep
<1>5. CASE UsableType(t)
  <2>1. ilink3Fields' = Emplace(ilink3Fields, t.name, FieldDefinition(t))
    BY <1>5 DEF ReadType
  <2>2. t.name \in STRING /\ FieldDefinition(t) \in FieldDefinitions
    BY <1>3, <1>5, FieldDefinitionType
  <2>3. DOMAIN ilink3Fields' \subseteq STRING
    BY <2>1, <2>2 DEF TypeOK, Emplace
  <2>4. \A n \in DOMAIN ilink3Fields' : ilink3Fields'[n] \in FieldDefinitions
    BY <2>1, <2>2 DEF TypeOK, Emplace
  <2>5. TypeOK'
    BY <1>1, <2>3, <2>4 DEF TypeOK, ReadType, Phases, NoEntries
  <2>6. Phases'
    BY <1>1 DEF Phases, ReadType
  <2>7. HeadersFromTables' /\ FieldsLinked'
    BY <1>1 DEF HeadersFromTables, FieldsLinked, Phases, ReadType, NoEntries, Files
  <2> QED BY <2>5, <2>6, <2>7
<1> QED BY <1>4, <1>5

LEMMA ReadEnumStep == IInv /\ ReadEnum => IInv'
<1> SUFFICES ASSUME IInv, ReadEnum PROVE IInv'
  OBVIOUS
<1> DEFINE e == schema.enums[pos]
<1> USE DEF IInv
<1>1. pc = "enums" /\ pc' = "enums" /\ pos' = pos + 1 /\ pos \in Nat \ {0}
  BY DEF ReadEnum, ElementAt, TypeOK
<1>2. schema # NoSchema
  BY <1>1 DEF TypeOK
<1>3. CASE ~UsableEnum(e)
  <2>1. UNCHANGED <<schema, tables, files, exitCode>>
    BY <1>3 DEF ReadEnum, tables
  <2> QED BY <1>1, <1>2, <2>1, ControlStep
<1>4. CASE UsableEnum(e)
  <2>1. enumDefinitions' = Emplace(enumDefinitions, e.name, EnumDefinition(e))
    BY <1>4 DEF ReadEnum
  <2>2. /\ EnumDefinition(e).name = e.name
        /\ \E t \in DOMAIN ilink3Fields : EnumDefinition(e).encodingType = ilink3Fields[t]
    BY <1>4 DEF EnumDefinition, UsableEnum
  <2>3. \A n \in DOMAIN enumDefinitions' :
           /\ enumDefinitions'[n].name = n
           /\ \E t \in DOMAIN ilink3Fields : enumDefinitions'[n].encodingType = ilink3Fields[t]
    BY <2>1, <2>2 DEF TypeOK, Emplace
  <2>4. TypeOK'
    BY <1>1, <2>3 DEF TypeOK, ReadEnum
  <2>5. Phases'
    BY <1>1 DEF Phases, ReadEnum
  <2>6. HeadersFromTables' /\ FieldsLinked'
    BY <1>1 DEF HeadersFromTables, FieldsLinked, Phases, ReadEnum, NoEntries, Files
  <2> QED BY <2>4, <2>5, <2>6
<1> QED BY <1>3, <1>4

LEMMA ReadMessageStep == IInv /\ ReadMessage => IInv'
<1> SUFFICES ASSUME IInv, ReadMessage PROVE IInv'
  OBVIOUS
<1> DEFINE m == schema.messages[pos]
<1> USE DEF IInv
<1>1. pc = "messages" /\ pc' = "messages" /\ pos' = pos + 1 /\ pos \in Nat \ {0}
  BY DEF ReadMessage, ElementAt, TypeOK
<1>2. PICK length \in BlockLengths(m) :
         msgDefinitions' = Assign(msgDefinitions, MsgIdOf(m), MsgDefinition(m, length))
  BY DEF ReadMessage
<1>3. MsgIdOf(m) \in 0..(MsgIdRange - 1)
  <2>1. m.id \in Nat
    BY DEF ReadMessage, UsableMessage
  <2> QED BY <2>1, SchemasAssumption, Z3 DEF MsgIdOf
<1>4. TypeOK'
  BY <1>1, <1>2, <1>3 DEF TypeOK, ReadMessage, Assign
<1>5. Phases'
  BY <1>1 DEF Phases, ReadMessage
<1>6. HeadersFromTables'
  BY <1>1 DEF HeadersFromTables, Phases, ReadMessage, Files
<1>7. FieldsLinked'
  <2> SUFFICES ASSUME NEW id \in DOMAIN msgDefinitions',
                      NEW k \in DOMAIN msgDefinitions'[id].fields,
                      msgDefinitions'[id].fields[k].enumDefinition # Absent
               PROVE  LET d == msgDefinitions'[id].fields[k].enumDefinition
                      IN  d.name \in DOMAIN enumDefinitions /\ d = enumDefinitions[d.name]
    BY DEF FieldsLinked, ReadMessage
  <2>1. CASE id # MsgIdOf(m)
    BY <1>2, <2>1 DEF FieldsLinked, Assign
  <2>2. CASE id = MsgIdOf(m)
    <3> DEFINE f == m.fields[k]
    <3>1. msgDefinitions'[id] = MsgDefinition(m, length)
      BY <1>2, <2>2 DEF Assign
    <3>2. msgDefinitions'[id].fields[k].enumDefinition =
             IF f.type \in DOMAIN enumDefinitions THEN enumDefinitions[f.type] ELSE Absent
      <4>1. k \in DOMAIN MsgDefinition(m, length).fields
        BY <3>1
      <4>2. MsgDefinition(m, length).fields[k] = FieldInMsg(f)
        BY <4>1 DEF MsgDefinition
      <4> QED BY <3>1, <4>2 DEF FieldInMsg
    <3>3. f.type \in DOMAIN enumDefinitions /\ enumDefinitions[f.type].name = f.type
      BY <3>2 DEF TypeOK
    <3> QED BY <3>2, <3>3
  <2> QED BY <2>1, <2>2
<1> QED BY <1>4, <1>5, <1>6, <1>7

LEMMA StepInvariant == IInv /\ [Next]_vars => IInv'
<1> SUFFICES ASSUME IInv, [Next]_vars PROVE IInv'
  OBVIOUS
<1>1. CASE FailToLoad
  <2> USE <1>1 DEF FailToLoad, IInv, tables
  <2>1. TypeOK'
    BY DEF TypeOK
  <2>2. Phases'
    BY DEF Phases
  <2>3. HeadersFromTables' /\ FieldsLinked'
    BY DEF HeadersFromTables, FieldsLinked, EnumsHeader, MsgsHeader
  <2> QED BY <2>1, <2>2, <2>3
<1>2. CASE Load
  BY <1>2, ControlStep DEF Load, tables, IInv, TypeOK
<1>3. CASE ReadType
  BY <1>3, ReadTypeStep
<1>4. CASE TypesRead
  BY <1>4, ControlStep DEF TypesRead, EndLoop, tables, IInv, TypeOK
<1>5. CASE ReadEnum
  BY <1>5, ReadEnumStep
<1>6. CASE CrashOnEnum
  BY <1>6, ControlStep DEF CrashOnEnum, ElementAt, tables, IInv, TypeOK
<1>7. CASE EnumsRead
  BY <1>7, ControlStep DEF EnumsRead, EndLoop, tables, IInv, TypeOK
<1>8. CASE ReadMessage
  BY <1>8, ReadMessageStep
<1>9. CASE SkipMessage
  BY <1>9, ControlStep DEF SkipMessage, ElementAt, tables, IInv, TypeOK
<1>10. CASE MessagesRead
  BY <1>10, ControlStep DEF MessagesRead, EndLoop, tables, IInv, TypeOK
<1>11. CASE WriteConst
  BY <1>11, WriteStep DEF WriteConst, Files
<1>12. CASE WriteEnumsHeader
  BY <1>12, WriteStep DEF WriteEnumsHeader, Files
<1>13. CASE WriteEnumsSource
  BY <1>13, WriteStep DEF WriteEnumsSource, Files
<1>14. CASE WriteMsgsHeader
  BY <1>14, WriteStep DEF WriteMsgsHeader, Files
<1>15. CASE WriteMsgsSource
  BY <1>15, WriteStep DEF WriteMsgsSource, Files
<1>16. CASE UNCHANGED vars
  <2> USE <1>16 DEF vars, IInv
  <2>1. TypeOK' /\ Phases'
    BY DEF TypeOK, Phases
  <2>2. HeadersFromTables' /\ FieldsLinked'
    BY DEF HeadersFromTables, FieldsLinked, EnumsHeader, MsgsHeader
  <2> QED BY <2>1, <2>2
<1> QED
  BY <1>1, <1>2, <1>3, <1>4, <1>5, <1>6, <1>7, <1>8, <1>9, <1>10, <1>11, <1>12,
     <1>13, <1>14, <1>15, <1>16 DEF Next

\* The generator keeps its inductive invariant on every set of documents.
THEOREM GeneratorInvariance == Spec => []IInv
BY InitInvariant, StepInvariant, PTL DEF Spec

-----------------------------------------------------------------------------
(* What follows from it *)

\* The tables and files keep their shapes, and every enumeration points at a
\* definition of the table of types.
THEOREM GeneratorTypeCorrect == Spec => []TypeOK
<1>1. IInv => TypeOK
  BY DEF IInv
<1> QED BY <1>1, GeneratorInvariance, PTL

\* No generated file is touched before the whole document was read, nor by a
\* run that reports failure or crashes on the document.
THEOREM NothingFromABadDocument == Spec => []ReadInFullBeforeWriting
<1>1. IInv => ReadInFullBeforeWriting
  BY DEF IInv, Phases, ReadInFullBeforeWriting
<1> QED BY <1>1, GeneratorInvariance, PTL

\* A member that starts as Null has an enum class that declares Null, in every
\* pair of headers that one run writes.
THEOREM HeadersAgreeOnNull == Spec => []NullIsDeclared
<1>1. IInv => NullIsDeclared
  <2> SUFFICES ASSUME IInv, files["enums.h"] # Stale, files["msgs.h"] # Stale,
                      NEW id \in DOMAIN files["msgs.h"],
                      NEW k \in DOMAIN files["msgs.h"][id].members,
                      files["msgs.h"][id].members[k].type.kind = "enum"
               PROVE  LET member == files["msgs.h"][id].members[k]
                      IN  /\ member.type.of \in DOMAIN files["enums.h"]
                          /\ member.initialiser = "Null" =>
                                "Null" \in files["enums.h"][member.type.of].constants
    BY DEF NullIsDeclared
  <2> DEFINE d == msgDefinitions[id]
             f == d.fields[k]
             e == f.enumDefinition
  <2>1. files["enums.h"] = EnumsHeader /\ files["msgs.h"] = MsgsHeader
    BY DEF IInv, HeadersFromTables
  <2>2. id \in DOMAIN msgDefinitions /\ k \in DOMAIN d.fields
    BY <2>1 DEF MsgsHeader, MessageClass, Transmitted
  <2>3. files["msgs.h"][id].members[k] = Member(f)
    BY <2>1 DEF MsgsHeader, MessageClass
  <2>4. /\ f.fieldDefinition = Absent /\ e # Absent
        /\ MemberType(f).of = e.name
    BY <2>3, EnumMembers DEF Member
  <2>5. e.name \in DOMAIN enumDefinitions /\ e = enumDefinitions[e.name]
    BY <2>2, <2>4 DEF IInv, FieldsLinked
  <2>6. EnumsHeader[e.name] = EnumClass(e) /\ e.name \in DOMAIN EnumsHeader
    BY <2>5 DEF EnumsHeader
  <2>7. Member(f).initialiser = "Null" => e.encodingType.nullValue # Absent
    <3>1. Absent # "Null"
      BY AbsentAssumption
    <3>2. e.encodingType.nullValue = Absent => Initialiser(f) = Absent
      <4>1. SUFFICES ASSUME e.encodingType.nullValue = Absent
                     PROVE  Initialiser(f) = Absent
        OBVIOUS
      <4>2. ~(f.fieldDefinition # Absent)
        BY <2>4
      <4>3. ~(f.enumDefinition # Absent /\ f.enumDefinition.encodingType.nullValue # Absent)
        BY <4>1
      <4> QED BY <4>2, <4>3, Zenon DEF Initialiser
    <3> QED BY <3>1, <3>2 DEF Member
  <2>8. e.encodingType.nullValue # Absent => "Null" \in EnumClass(e).constants
    BY DEF EnumClass
  <2> QED BY <2>1, <2>3, <2>4, <2>6, <2>7, <2>8 DEF Member
<1> QED BY <1>1, GeneratorInvariance, PTL

\* Member, getter and setter of a field are made for the same type, in every
\* message class of every document.
THEOREM AccessorsAlwaysFit == Spec => []AccessorsFitMembers
<1>1. IInv => AccessorsFitMembers
  <2> SUFFICES ASSUME IInv, files["msgs.h"] # Stale,
                      NEW id \in DOMAIN files["msgs.h"],
                      NEW k \in DOMAIN files["msgs.h"][id].members
               PROVE  LET member == files["msgs.h"][id].members[k]
                      IN  /\ member.getter =
                                [member.type EXCEPT !.kind = IF @ = "array" THEN "view" ELSE @]
                          /\ member.setter = "store" => member.getter = member.type
    BY DEF AccessorsFitMembers
  <2> DEFINE f == msgDefinitions[id].fields[k]
  <2>1. files["msgs.h"] = MsgsHeader
    BY DEF IInv, HeadersFromTables
  <2>2. files["msgs.h"][id].members[k] = Member(f)
    BY <2>1 DEF MsgsHeader, MessageClass
  <2> QED BY <2>2, AccessorsFit DEF Member
<1> QED BY <1>1, GeneratorInvariance, PTL

-----------------------------------------------------------------------------
(* The tables and the document *)

\* How many elements of each kind have been read.
TypesSoFar == IF pc = "start" THEN 0
              ELSE IF pc = "types" THEN pos - 1 ELSE Len(schema.types)
EnumsSoFar == IF pc \in {"start", "types"} THEN 0
              ELSE IF pc \in {"enums", "crashed"} THEN pos - 1 ELSE Len(schema.enums)
MessagesSoFar == IF pc \in {"start", "types", "enums", "crashed"} THEN 0
                 ELSE IF pc = "messages" THEN pos - 1 ELSE Len(schema.messages)

\* While a loop is at pos, its table is that of the elements before.
TablesSoFar ==
    schema # NoSchema =>
        /\ pc = "start" => pos = 1
        /\ TypesSoFar \in 0..Len(schema.types)
        /\ EnumsSoFar \in 0..Len(schema.enums)
        /\ MessagesSoFar \in 0..Len(schema.messages)
        /\ \A n \in 0..Len(schema.types) : n = TypesSoFar => TypesUpTo(n)
        /\ \A n \in 0..Len(schema.enums) : n = EnumsSoFar => EnumsUpTo(n)
        /\ \A n \in 0..Len(schema.messages) : n = MessagesSoFar => MessagesUpTo(n)

\* emplace with the key of a later element leaves the first one's value.
LEMMA EmplaceKeepsFirst ==
    ASSUME NEW table, NEW before, NEW valuesBefore, NEW keys, NEW values, NEW n \in Int,
           \A k \in DOMAIN before : k \in Int /\ k < n,
           DOMAIN keys = DOMAIN before \cup {n},
           \A k \in DOMAIN before : keys[k] = before[k] /\ values[k] = valuesBefore[k],
           FirstCounts(table, before, valuesBefore)
    PROVE  FirstCounts(Emplace(table, keys[n], values[n]), keys, values)
<1> DEFINE after == Emplace(table, keys[n], values[n])
<1>1. DOMAIN table = {keys[k] : k \in DOMAIN before}
  BY DEF FirstCounts
<1>2. DOMAIN after = {keys[k] : k \in DOMAIN keys}
  BY <1>1 DEF Emplace
<1>3. ASSUME NEW k \in DOMAIN keys, \A j \in DOMAIN keys : keys[j] = keys[k] => k <= j
      PROVE  after[keys[k]] = values[k]
  <2>1. CASE k = n
    <3>1. \A j \in DOMAIN before : keys[j] # keys[n]
      BY <1>3, <2>1
    <3>2. keys[n] \notin DOMAIN table
      BY <1>1, <3>1
    <3> QED BY <2>1, <3>2 DEF Emplace
  <2>2. CASE k \in DOMAIN before
    <3>1. keys[k] \in DOMAIN table
      BY <1>1, <2>2
    <3>2. table[keys[k]] = values[k]
      BY <1>3, <2>2 DEF FirstCounts
    <3> QED BY <3>1, <3>2 DEF Emplace
  <2> QED BY <2>1, <2>2
<1> QED BY <1>2, <1>3 DEF FirstCounts

\* Assigning the value of a later element leaves the last one's.
LEMMA AssignKeepsLast ==
    ASSUME NEW table, NEW before, NEW valuesBefore, NEW keys, NEW values, NEW n \in Int,
           \A k \in DOMAIN before : k \in Int /\ k < n,
           DOMAIN keys = DOMAIN before \cup {n},
           \A k \in DOMAIN before : keys[k] = before[k] /\ values[k] = valuesBefore[k],
           LastCounts(table, before, valuesBefore), NEW v \in values[n]
    PROVE  LastCounts(Assign(table, keys[n], v), keys, values)
<1> DEFINE after == Assign(table, keys[n], v)
<1>1. DOMAIN table = {keys[k] : k \in DOMAIN before}
  BY DEF LastCounts
<1>2. DOMAIN after = {keys[k] : k \in DOMAIN keys}
  BY <1>1 DEF Assign
<1>3. ASSUME NEW k \in DOMAIN keys, \A j \in DOMAIN keys : keys[j] = keys[k] => j <= k
      PROVE  after[keys[k]] \in values[k]
  <2>1. CASE k = n
    BY <2>1 DEF Assign
  <2>2. CASE k \in DOMAIN before
    <3>1. keys[n] # keys[k]
      <4>1. k \in Int /\ k < n
        BY <2>2
      <4>2. n \in DOMAIN keys /\ ~(n <= k)
        BY <4>1
      <4> QED BY <1>3, <4>2
    <3>2. keys[k] \in DOMAIN table
      BY <1>1, <2>2
    <3>3. table[keys[k]] \in values[k]
      BY <1>3, <2>2 DEF LastCounts
    <3> QED BY <3>1, <3>2, <3>3 DEF Assign
  <2> QED BY <2>1, <2>2
<1> QED BY <1>2, <1>3 DEF LastCounts

\* What a message becomes depends on the types and enums only.
LEMMA MsgDefinitionsKept ==
    ASSUME UNCHANGED <<ilink3Fields, enumDefinitions>>, NEW m
    PROVE  MsgDefinitionsOf(m)' = MsgDefinitionsOf(m)
<1>1. \A f : FieldInMsg(f)' = FieldInMsg(f) /\ UsableField(f)' = UsableField(f)
  BY DEF FieldInMsg, UsableField, KnownTypes
<1>2. \A length : MsgDefinition(m, length)' = MsgDefinition(m, length)
  BY <1>1 DEF MsgDefinition
<1> QED BY <1>2 DEF MsgDefinitionsOf

\* What the tables say of the document is left alone with them.
LEMMA TablesKept ==
    ASSUME UNCHANGED <<schema, tables>>, NEW n
    PROVE  /\ TypesUpTo(n) => TypesUpTo(n)'
           /\ EnumsUpTo(n) => EnumsUpTo(n)'
           /\ MessagesUpTo(n) => MessagesUpTo(n)'
<1>1. UNCHANGED <<schema, ilink3Fields, enumDefinitions, msgDefinitions>>
  BY DEF tables
<1>2. TypesUpTo(n) => TypesUpTo(n)'
  BY <1>1 DEF TypesUpTo
<1>3. EnumsUpTo(n) => EnumsUpTo(n)'
  BY <1>1 DEF EnumsUpTo, UsableEnum, EnumDefinition
<1>4. MessagesUpTo(n) => MessagesUpTo(n)'
  <2>1. \A m : MsgDefinitionsOf(m)' = MsgDefinitionsOf(m)
    BY <1>1, MsgDefinitionsKept
  <2> QED BY <1>1, <2>1 DEF MessagesUpTo
<1> QED BY <1>2, <1>3, <1>4

\* Of no elements there are no entries.
LEMMA NothingSoFar ==
    /\ ilink3Fields = NoEntries => TypesUpTo(0)
    /\ enumDefinitions = NoEntries => EnumsUpTo(0)
    /\ msgDefinitions = NoEntries => MessagesUpTo(0)
<1>2. {k \in 1..0 : UsableType(schema.types[k])} = {}
  OBVIOUS
<1>3. {k \in 1..0 : UsableEnum(schema.enums[k])} = {}
  OBVIOUS
<1>4. {k \in 1..0 : UsableMessage(schema.messages[k])} = {}
  OBVIOUS
<1>5. ilink3Fields = NoEntries => TypesUpTo(0)
  BY <1>2 DEF TypesUpTo, FirstCounts, NoEntries
<1>6. enumDefinitions = NoEntries => EnumsUpTo(0)
  BY <1>3 DEF EnumsUpTo, FirstCounts, NoEntries
<1>7. msgDefinitions = NoEntries => MessagesUpTo(0)
  BY <1>4 DEF MessagesUpTo, LastCounts, NoEntries
<1> QED BY <1>5, <1>6, <1>7

LEMMA NothingSoFarNext ==
    /\ enumDefinitions' = NoEntries => EnumsUpTo(0)'
    /\ msgDefinitions' = NoEntries => MessagesUpTo(0)'
<1>1. enumDefinitions = NoEntries => EnumsUpTo(0)
  BY NothingSoFar
<1>2. msgDefinitions = NoEntries => MessagesUpTo(0)
  BY NothingSoFar
<1>3. (enumDefinitions = NoEntries => EnumsUpTo(0))'
  BY <1>1, PTL
<1>4. (msgDefinitions = NoEntries => MessagesUpTo(0))'
  BY <1>2, PTL
<1> QED BY <1>3, <1>4

\* What the loops read.
LEMMA ElementsOfDocument ==
    ASSUME TypeOK, schema # NoSchema
    PROVE  /\ Len(schema.types) \in Nat /\ DOMAIN schema.types = 1..Len(schema.types)
           /\ Len(schema.enums) \in Nat /\ DOMAIN schema.enums = 1..Len(schema.enums)
           /\ Len(schema.messages) \in Nat
           /\ DOMAIN schema.messages = 1..Len(schema.messages)
<1>1. schema \in Schema
  BY SchemasAssumption DEF TypeOK
<1> QED BY <1>1 DEF Schema

LEMMA ReadTypeCounts ==
    ASSUME NEW n \in Nat, pos = n + 1, TypesUpTo(n), ReadType
    PROVE  TypesUpTo(n + 1)'
<1> DEFINE t == schema.types[pos]
           usable(m) == {k \in 1..m : UsableType(schema.types[k])}
           keys(m) == [k \in usable(m) |-> schema.types[k].name]
           values(m) == [k \in usable(m) |-> FieldDefinition(schema.types[k])]
<1>1. schema' = schema
  BY DEF ReadType
<1>2. SUFFICES FirstCounts(ilink3Fields', keys(n + 1), values(n + 1))
  BY <1>1 DEF TypesUpTo
<1>3. FirstCounts(ilink3Fields, keys(n), values(n))
  BY DEF TypesUpTo
<1>4. CASE ~UsableType(t)
  <2>1. usable(n + 1) = usable(n)
    BY <1>4
  <2>2. ilink3Fields' = ilink3Fields
    BY <1>4 DEF ReadType
  <2> HIDE DEF usable
  <2> QED BY <1>3, <2>1, <2>2
<1>5. CASE UsableType(t)
  <2>1. usable(n + 1) = usable(n) \cup {n + 1}
    BY <1>5
  <2>2. ilink3Fields' = Emplace(ilink3Fields, keys(n + 1)[n + 1], values(n + 1)[n + 1])
    BY <1>5, <2>1 DEF ReadType
  <2>3. /\ n + 1 \in Int
        /\ DOMAIN keys(n + 1) = DOMAIN keys(n) \cup {n + 1}
        /\ \A k \in DOMAIN keys(n) : k \in Int /\ k < n + 1
        /\ \A k \in DOMAIN keys(n) : /\ keys(n + 1)[k] = keys(n)[k]
                                     /\ values(n + 1)[k] = values(n)[k]
    BY <2>1
  <2> HIDE DEF usable, keys, values
  <2>4. FirstCounts(Emplace(ilink3Fields, keys(n + 1)[n + 1], values(n + 1)[n + 1]),
                    keys(n + 1), values(n + 1))
    BY <1>3, <2>3, EmplaceKeepsFirst
  <2> QED BY <2>2, <2>4
<1> QED BY <1>4, <1>5

LEMMA ReadEnumCounts ==
    ASSUME NEW n \in Nat, pos = n + 1, EnumsUpTo(n), ReadEnum
    PROVE  EnumsUpTo(n + 1)'
<1> DEFINE e == schema.enums[pos]
           usable(m) == {k \in 1..m : UsableEnum(schema.enums[k])}
           keys(m) == [k \in usable(m) |-> schema.enums[k].name]
           values(m) == [k \in usable(m) |-> EnumDefinition(schema.enums[k])]
<1>1. schema' = schema /\ ilink3Fields' = ilink3Fields
  BY DEF ReadEnum
<1>2. SUFFICES FirstCounts(enumDefinitions', keys(n + 1), values(n + 1))
  <2>1. \A x : UsableEnum(x)' = UsableEnum(x) /\ EnumDefinition(x)' = EnumDefinition(x)
    BY <1>1 DEF UsableEnum, EnumDefinition
  <2> QED BY <1>1, <2>1 DEF EnumsUpTo
<1>3. FirstCounts(enumDefinitions, keys(n), values(n))
  BY DEF EnumsUpTo
<1>4. CASE ~UsableEnum(e)
  <2>1. usable(n + 1) = usable(n)
    BY <1>4
  <2>2. enumDefinitions' = enumDefinitions
    BY <1>4 DEF ReadEnum
  <2> HIDE DEF usable
  <2> QED BY <1>3, <2>1, <2>2
<1>5. CASE UsableEnum(e)
  <2>1. usable(n + 1) = usable(n) \cup {n + 1}
    BY <1>5
  <2>2. enumDefinitions' =
           Emplace(enumDefinitions, keys(n + 1)[n + 1], values(n + 1)[n + 1])
    BY <1>5, <2>1 DEF ReadEnum
  <2>3. /\ n + 1 \in Int
        /\ DOMAIN keys(n + 1) = DOMAIN keys(n) \cup {n + 1}
        /\ \A k \in DOMAIN keys(n) : k \in Int /\ k < n + 1
        /\ \A k \in DOMAIN keys(n) : /\ keys(n + 1)[k] = keys(n)[k]
                                     /\ values(n + 1)[k] = values(n)[k]
    BY <2>1
  <2> HIDE DEF usable, keys, values
  <2>4. FirstCounts(Emplace(enumDefinitions, keys(n + 1)[n + 1], values(n + 1)[n + 1]),
                    keys(n + 1), values(n + 1))
    BY <1>3, <2>3, EmplaceKeepsFirst
  <2> QED BY <2>2, <2>4
<1> QED BY <1>4, <1>5

LEMMA ReadMessageCounts ==
    ASSUME NEW n \in Nat, pos = n + 1, MessagesUpTo(n), ReadMessage
    PROVE  MessagesUpTo(n + 1)'
<1> DEFINE m == schema.messages[pos]
           usable(i) == {k \in 1..i : UsableMessage(schema.messages[k])}
           keys(i) == [k \in usable(i) |-> MsgIdOf(schema.messages[k])]
           values(i) == [k \in usable(i) |-> MsgDefinitionsOf(schema.messages[k])]
<1>1. UNCHANGED <<schema, ilink3Fields, enumDefinitions>>
  BY DEF ReadMessage
<1>2. SUFFICES LastCounts(msgDefinitions', keys(n + 1), values(n + 1))
  <2>1. \A x : MsgDefinitionsOf(x)' = MsgDefinitionsOf(x)
    BY <1>1, MsgDefinitionsKept
  <2> QED BY <1>1, <2>1 DEF MessagesUpTo
<1>3. LastCounts(msgDefinitions, keys(n), values(n))
  BY DEF MessagesUpTo
<1>4. usable(n + 1) = usable(n) \cup {n + 1}
  BY DEF ReadMessage
<1>5. PICK length \in BlockLengths(m) :
         msgDefinitions' = Assign(msgDefinitions, MsgIdOf(m), MsgDefinition(m, length))
  BY DEF ReadMessage
<1> DEFINE d == MsgDefinition(m, length)
<1>6. msgDefinitions' = Assign(msgDefinitions, keys(n + 1)[n + 1], d)
  BY <1>4, <1>5
<1>7. d \in values(n + 1)[n + 1]
  BY <1>4 DEF MsgDefinitionsOf
<1>8. /\ n + 1 \in Int
      /\ DOMAIN keys(n + 1) = DOMAIN keys(n) \cup {n + 1}
      /\ \A k \in DOMAIN keys(n) : k \in Int /\ k < n + 1
      /\ \A k \in DOMAIN keys(n) : /\ keys(n + 1)[k] = keys(n)[k]
                                   /\ values(n + 1)[k] = values(n)[k]
  BY <1>4
<1> HIDE DEF usable, keys, values, d
<1>9. LastCounts(Assign(msgDefinitions, keys(n + 1)[n + 1], d), keys(n + 1), values(n + 1))
  BY <1>3, <1>7, <1>8, AssignKeepsLast
<1> QED BY <1>6, <1>9

LEMMA SkipMessageCounts ==
    ASSUME NEW n \in Nat, pos = n + 1, MessagesUpTo(n), SkipMessage
    PROVE  MessagesUpTo(n + 1)'
<1>1. UNCHANGED <<schema, tables>>
  BY DEF SkipMessage
<1>2. {k \in 1..(n + 1) : UsableMessage(schema.messages[k])}
         = {k \in 1..n : UsableMessage(schema.messages[k])}
  BY DEF SkipMessage
<1>3. MessagesUpTo(n + 1)
  BY <1>2 DEF MessagesUpTo
<1> QED BY <1>1, <1>3, TablesKept

\* A step that leaves the tables alone and reads nothing.
LEMMA NothingRead ==
    ASSUME TypeOK, TablesSoFar, UNCHANGED <<schema, tables>>, schema # NoSchema,
           pc' = "start" => UNCHANGED <<pc, pos>>,
           TypesSoFar' = TypesSoFar, EnumsSoFar' = EnumsSoFar, MessagesSoFar' = MessagesSoFar
    PROVE  TablesSoFar'
<1> USE DEF TablesSoFar
<1>1. ASSUME NEW n \in 0..Len(schema'.types), n = TypesSoFar' PROVE TypesUpTo(n)'
  <2>1. TypesUpTo(n)
    BY <1>1
  <2> QED BY <2>1, TablesKept
<1>2. ASSUME NEW n \in 0..Len(schema'.enums), n = EnumsSoFar' PROVE EnumsUpTo(n)'
  <2>1. EnumsUpTo(n)
    BY <1>2
  <2> QED BY <2>1, TablesKept
<1>3. ASSUME NEW n \in 0..Len(schema'.messages), n = MessagesSoFar' PROVE MessagesUpTo(n)'
  <2>1. MessagesUpTo(n)
    BY <1>3
  <2> QED BY <2>1, TablesKept
<1> QED BY <1>1, <1>2, <1>3

LEMMA InitTables == Init => TablesSoFar
<1> SUFFICES ASSUME Init, schema # NoSchema PROVE TablesSoFar
  BY DEF TablesSoFar
<1>1. TypeOK
  BY InitInvariant DEF IInv
<1>2. pc = "start" /\ pos = 1 /\ TypesSoFar = 0 /\ EnumsSoFar = 0 /\ MessagesSoFar = 0
  BY DEF Init, TypesSoFar, EnumsSoFar, MessagesSoFar
<1>3. TypesUpTo(0) /\ EnumsUpTo(0) /\ MessagesUpTo(0)
  BY NothingSoFar DEF Init
<1> QED BY <1>1, <1>2, <1>3, ElementsOfDocument DEF TablesSoFar

LEMMA StepTables == IInv /\ TablesSoFar /\ [Next]_vars => TablesSoFar'
<1> SUFFICES ASSUME IInv, TablesSoFar, [Next]_vars, schema' # NoSchema
             PROVE  TablesSoFar'
  BY DEF TablesSoFar
<1> USE DEF TypesSoFar, EnumsSoFar, MessagesSoFar
<1>1. TypeOK /\ Phases /\ pos \in Nat \ {0}
  BY DEF IInv, TypeOK
<1>2. schema' = schema /\ schema # NoSchema
  BY DEF Next, vars, FailToLoad, Load, ReadType, TypesRead, ReadEnum, CrashOnEnum,
         EnumsRead, ReadMessage, SkipMessage, MessagesRead, WriteConst, WriteEnumsHeader,
         WriteEnumsSource, WriteMsgsHeader, WriteMsgsSource, EndLoop, Write
<1>3. /\ Len(schema.types) \in Nat /\ Len(schema.enums) \in Nat
      /\ Len(schema.messages) \in Nat
  BY <1>1, <1>2, ElementsOfDocument
<1>4. /\ enumDefinitions' = NoEntries => EnumsUpTo(0)'
      /\ msgDefinitions' = NoEntries => MessagesUpTo(0)'
  BY NothingSoFarNext
<1>5. CASE FailToLoad
  BY <1>2, <1>5 DEF FailToLoad
<1>6. CASE Load
  BY <1>1, <1>2, <1>3, <1>6, NothingRead DEF Load, TablesSoFar
<1>7. CASE ReadType
  <2> PICK n \in Nat : n = pos - 1
    BY <1>1
  <2>1. /\ pc = "types" /\ pc' = "types" /\ pos' = pos + 1 /\ n \in Nat /\ pos = n + 1
        /\ pos <= Len(schema.types)
    BY <1>1, <1>7 DEF ReadType, ElementAt
  <2>2. TypesUpTo(n)
    BY <1>2, <2>1 DEF TablesSoFar
  <2>3. TypesUpTo(n + 1)'
    BY <1>7, <2>1, <2>2, ReadTypeCounts
  <2>4. enumDefinitions' = NoEntries /\ msgDefinitions' = NoEntries
    BY <1>1, <1>7, <2>1 DEF ReadType, Phases
  <2> QED BY <1>2, <1>3, <1>4, <2>1, <2>3, <2>4 DEF TablesSoFar
<1>8. CASE TypesRead
  BY <1>1, <1>2, <1>3, <1>8, NothingRead DEF TypesRead, EndLoop, TablesSoFar
<1>9. CASE ReadEnum
  <2> PICK n \in Nat : n = pos - 1
    BY <1>1
  <2>1. /\ pc = "enums" /\ pc' = "enums" /\ pos' = pos + 1 /\ n \in Nat /\ pos = n + 1
        /\ pos <= Len(schema.enums)
    BY <1>1, <1>9 DEF ReadEnum, ElementAt
  <2>2. EnumsUpTo(n)
    BY <1>2, <2>1 DEF TablesSoFar
  <2>3. EnumsUpTo(n + 1)'
    BY <1>9, <2>1, <2>2, ReadEnumCounts
  <2>4. TypesUpTo(Len(schema.types))
    BY <1>2, <1>3, <2>1 DEF TablesSoFar
  <2>5. TypesUpTo(Len(schema.types))'
    BY <1>2, <1>9, <2>4 DEF ReadEnum, TypesUpTo
  <2>6. msgDefinitions' = NoEntries
    BY <1>1, <1>9, <2>1 DEF ReadEnum, Phases
  <2> QED BY <1>2, <1>3, <1>4, <2>1, <2>3, <2>5, <2>6 DEF TablesSoFar
<1>10. CASE CrashOnEnum
  BY <1>1, <1>2, <1>3, <1>10, NothingRead DEF CrashOnEnum, ElementAt, TablesSoFar
<1>11. CASE EnumsRead
  BY <1>1, <1>2, <1>3, <1>11, NothingRead DEF EnumsRead, EndLoop, TablesSoFar
<1>12. CASE ReadMessage \/ SkipMessage
  <2> PICK n \in Nat : n = pos - 1
    BY <1>1
  <2>1. /\ pc = "messages" /\ pc' = "messages" /\ pos' = pos + 1 /\ n \in Nat
        /\ pos = n + 1 /\ pos <= Len(schema.messages)
    BY <1>1, <1>12 DEF ReadMessage, SkipMessage, ElementAt
  <2>2. MessagesUpTo(n)
    BY <1>2, <2>1 DEF TablesSoFar
  <2>3. MessagesUpTo(n + 1)'
    BY <1>12, <2>1, <2>2, ReadMessageCounts, SkipMessageCounts
  <2>4. TypesUpTo(Len(schema.types)) /\ EnumsUpTo(Len(schema.enums))
    BY <1>2, <1>3, <2>1 DEF TablesSoFar
  <2>5. TypesUpTo(Len(schema.types))' /\ EnumsUpTo(Len(schema.enums))'
    BY <1>2, <1>12, <2>4
       DEF ReadMessage, SkipMessage, tables, TypesUpTo, EnumsUpTo, UsableEnum, EnumDefinition
  <2> QED BY <1>2, <1>3, <2>1, <2>3, <2>5 DEF TablesSoFar
<1>13. CASE MessagesRead
  BY <1>1, <1>2, <1>3, <1>13, NothingRead DEF MessagesRead, EndLoop, TablesSoFar
<1>14. CASE \/ WriteConst \/ WriteEnumsHeader \/ WriteEnumsSource
            \/ WriteMsgsHeader \/ WriteMsgsSource
  BY <1>1, <1>2, <1>14, NothingRead
     DEF WriteConst, WriteEnumsHeader, WriteEnumsSource, WriteMsgsHeader, WriteMsgsSource,
         Write, TablesSoFar
<1>15. CASE UNCHANGED vars
  BY <1>1, <1>2, <1>15, NothingRead DEF vars, tables
<1> QED
  BY <1>5, <1>6, <1>7, <1>8, <1>9, <1>10, <1>11, <1>12, <1>13, <1>14, <1>15 DEF Next

\* At every turn of the three loops the table holds what the elements before it give.
THEOREM TablesInvariance == Spec => []TablesSoFar
<1>1. IInv /\ TablesSoFar /\ [Next]_vars => TablesSoFar'
  BY StepTables
<1> QED BY <1>1, InitTables, GeneratorInvariance, PTL DEF Spec

\* After the three loops the tables are those of the whole document.
LEMMA AllRead ==
    ASSUME IInv, TablesSoFar, schema # NoSchema, pc \in Files \cup {"done"}
    PROVE  /\ TypesUpTo(Len(schema.types))
           /\ EnumsUpTo(Len(schema.enums))
           /\ MessagesUpTo(Len(schema.messages))
<1>1. TypeOK
  BY DEF IInv
<1>2. /\ TypesSoFar = Len(schema.types) /\ EnumsSoFar = Len(schema.enums)
      /\ MessagesSoFar = Len(schema.messages)
  BY DEF TypesSoFar, EnumsSoFar, MessagesSoFar, Files
<1> QED BY <1>1, <1>2, ElementsOfDocument DEF TablesSoFar

\* The files are made from exactly the types, enums and messages of the document:
\* of a repeated name or id the first or the last, as the program's maps decide.
THEOREM TablesAlwaysFollow == Spec => []TablesFollowTheDocument
<1>1. IInv /\ TablesSoFar => TablesFollowTheDocument
  BY AllRead DEF TablesFollowTheDocument, IInv, TypeOK, Files
<1> QED BY <1>1, GeneratorInvariance, TablesInvariance, PTL

-----------------------------------------------------------------------------
(* The layout *)

\* When no key repeats, every key has its value.
LEMMA NoKeyRepeats ==
    ASSUME NEW table, NEW keys, NEW values, DOMAIN keys \subseteq Int,
           \A j, k \in DOMAIN keys : keys[j] = keys[k] => j = k,
           NEW k \in DOMAIN keys
    PROVE  /\ FirstCounts(table, keys, values) =>
                keys[k] \in DOMAIN table /\ table[keys[k]] = values[k]
           /\ LastCounts(table, keys, values) =>
                keys[k] \in DOMAIN table /\ table[keys[k]] \in values[k]
<1>1. \A j \in DOMAIN keys : keys[j] = keys[k] => k <= j /\ j <= k
  OBVIOUS
<1> QED BY <1>1 DEF FirstCounts, LastCounts

\* In a sound schema a name in the table of types is that of one type.
LEMMA SoundTypes ==
    ASSUME TypeOK, schema # NoSchema, SoundSchema, TypesUpTo(Len(schema.types)), NEW n
    PROVE  /\ n \in DOMAIN ilink3Fields <=> n \in NamesIn(schema.types)
           /\ n \in NamesIn(schema.types) <=> TypesNamed(n) # {}
           /\ n \in NamesIn(schema.types) =>
                /\ TypeNamed(n) \in Elements(schema.types) \cap TypeElement
                /\ TypeNamed(n).name = n
                /\ ilink3Fields[n] = FieldDefinition(TypeNamed(n))
<1> DEFINE types == schema.types
           usable == {k \in 1..Len(types) : UsableType(types[k])}
           keys == [k \in usable |-> types[k].name]
           values == [k \in usable |-> FieldDefinition(types[k])]
<1>1. DOMAIN types = 1..Len(types)
  BY ElementsOfDocument
<1>2. usable = DOMAIN types
  BY <1>1 DEF SoundSchema, Elements
<1>3. FirstCounts(ilink3Fields, keys, values)
  BY DEF TypesUpTo
<1>4. \A j, k \in DOMAIN keys : keys[j] = keys[k] => j = k
  BY <1>2 DEF SoundSchema, NamesDiffer
<1>5. ASSUME NEW k \in DOMAIN types
      PROVE  /\ types[k].name \in DOMAIN ilink3Fields
             /\ ilink3Fields[types[k].name] = FieldDefinition(types[k])
  <2>1. DOMAIN keys \subseteq Int /\ k \in DOMAIN keys
    BY <1>2
  <2>2. keys[k] = types[k].name /\ values[k] = FieldDefinition(types[k])
    BY <1>2
  <2> HIDE DEF keys, values, usable
  <2> QED BY <1>3, <1>4, <2>1, <2>2, NoKeyRepeats
<1>6. DOMAIN ilink3Fields = {types[k].name : k \in DOMAIN types}
  BY <1>2, <1>3 DEF FirstCounts
<1>7. n \in NamesIn(types) <=> \E k \in DOMAIN types : n = types[k].name
  BY DEF NamesIn, Elements
<1>8. n \in NamesIn(types) <=> TypesNamed(n) # {}
  BY <1>7 DEF TypesNamed, Elements
<1>9. ASSUME n \in NamesIn(types)
      PROVE  /\ TypeNamed(n) \in Elements(types) \cap TypeElement
             /\ TypeNamed(n).name = n
             /\ ilink3Fields[n] = FieldDefinition(TypeNamed(n))
  <2>1. TypeNamed(n) \in TypesNamed(n)
    BY <1>8, <1>9 DEF TypeNamed
  <2>2. PICK k \in DOMAIN types : TypeNamed(n) = types[k] /\ types[k].name = n
    BY <2>1 DEF TypesNamed, Elements
  <2>3. types[k] \in TypeElement
    BY <1>1, SchemasAssumption DEF TypeOK, Schema
  <2> QED BY <1>5, <2>1, <2>2, <2>3 DEF TypesNamed
<1> QED BY <1>6, <1>7, <1>8, <1>9

\* And so is a name in the table of enums that of one enum.
LEMMA SoundEnums ==
    ASSUME TypeOK, schema # NoSchema, SoundSchema, TypesUpTo(Len(schema.types)),
           EnumsUpTo(Len(schema.enums)), NEW n
    PROVE  /\ n \in DOMAIN enumDefinitions <=> n \in NamesIn(schema.enums)
           /\ n \in NamesIn(schema.enums) <=> EnumsNamed(n) # {}
           /\ n \in NamesIn(schema.enums) =>
                /\ EnumNamed(n) \in Elements(schema.enums) \cap EnumElement
                /\ EnumNamed(n).name = n
                /\ UsableEnum(EnumNamed(n))
                /\ enumDefinitions[n] = EnumDefinition(EnumNamed(n))
<1> DEFINE enums == schema.enums
           usable == {k \in 1..Len(enums) : UsableEnum(enums[k])}
           keys == [k \in usable |-> enums[k].name]
           values == [k \in usable |-> EnumDefinition(enums[k])]
<1>1. DOMAIN enums = 1..Len(enums)
  BY ElementsOfDocument
<1>2. usable = DOMAIN enums
  <2>1. ASSUME NEW k \in DOMAIN enums PROVE UsableEnum(enums[k])
    <3>1. /\ enums[k].name # Absent
          /\ TypesNamed(enums[k].encodingType) # {}
      BY DEF SoundSchema, Elements
    <3> QED BY <3>1, SoundTypes DEF UsableEnum
  <2> QED BY <1>1, <2>1
<1>3. FirstCounts(enumDefinitions, keys, values)
  BY DEF EnumsUpTo
<1>4. \A j, k \in DOMAIN keys : keys[j] = keys[k] => j = k
  BY <1>2 DEF SoundSchema, NamesDiffer
<1>5. ASSUME NEW k \in DOMAIN enums
      PROVE  /\ enums[k].name \in DOMAIN enumDefinitions
             /\ enumDefinitions[enums[k].name] = EnumDefinition(enums[k])
             /\ UsableEnum(enums[k])
  <2>1. DOMAIN keys \subseteq Int /\ k \in DOMAIN keys /\ UsableEnum(enums[k])
    BY <1>2
  <2>2. keys[k] = enums[k].name /\ values[k] = EnumDefinition(enums[k])
    BY <1>2
  <2> HIDE DEF keys, values, usable
  <2> QED BY <1>3, <1>4, <2>1, <2>2, NoKeyRepeats
<1>6. DOMAIN enumDefinitions = {enums[k].name : k \in DOMAIN enums}
  BY <1>2, <1>3 DEF FirstCounts
<1>7. n \in NamesIn(enums) <=> \E k \in DOMAIN enums : n = enums[k].name
  BY DEF NamesIn, Elements
<1>8. n \in NamesIn(enums) <=> EnumsNamed(n) # {}
  BY <1>7 DEF EnumsNamed, Elements
<1>9. ASSUME n \in NamesIn(enums)
      PROVE  /\ EnumNamed(n) \in Elements(enums) \cap EnumElement
             /\ EnumNamed(n).name = n
             /\ UsableEnum(EnumNamed(n))
             /\ enumDefinitions[n] = EnumDefinition(EnumNamed(n))
  <2>1. EnumNamed(n) \in EnumsNamed(n)
    BY <1>8, <1>9 DEF EnumNamed
  <2>2. PICK k \in DOMAIN enums : EnumNamed(n) = enums[k] /\ enums[k].name = n
    BY <2>1 DEF EnumsNamed, Elements
  <2>3. enums[k] \in EnumElement
    BY <1>1, SchemasAssumption DEF TypeOK, Schema
  <2> QED BY <1>5, <2>1, <2>2, <2>3 DEF EnumsNamed
<1> QED BY <1>6, <1>7, <1>8, <1>9

\* And the message of an id in the table of messages that of one message.
LEMMA SoundMessages ==
    ASSUME TypeOK, schema # NoSchema, SoundSchema, MessagesUpTo(Len(schema.messages)),
           NEW m \in Elements(schema.messages), m.blockLength \in Nat
    PROVE  /\ m \in MessageElement
           /\ MsgIdOf(m) \in DOMAIN msgDefinitions
           /\ msgDefinitions[MsgIdOf(m)] = MsgDefinition(m, m.blockLength)
<1> DEFINE messages == schema.messages
           usable == {k \in 1..Len(messages) : UsableMessage(messages[k])}
           keys == [k \in usable |-> MsgIdOf(messages[k])]
           values == [k \in usable |-> MsgDefinitionsOf(messages[k])]
<1>1. DOMAIN messages = 1..Len(messages)
  BY ElementsOfDocument
<1>2. usable = DOMAIN messages
  BY <1>1 DEF SoundSchema, Elements
<1>3. LastCounts(msgDefinitions, keys, values)
  BY DEF MessagesUpTo
<1>4. \A j, k \in DOMAIN keys : keys[j] = keys[k] => j = k
  BY <1>2 DEF SoundSchema
<1>5. PICK k \in DOMAIN messages : m = messages[k]
  BY DEF Elements
<1>6. m \in MessageElement
  BY <1>1, <1>5, SchemasAssumption DEF TypeOK, Schema
<1>7. MsgDefinitionsOf(m) = {MsgDefinition(m, m.blockLength)}
  BY AbsentAssumption DEF MsgDefinitionsOf, BlockLengths
<1>8. /\ DOMAIN keys \subseteq Int /\ k \in DOMAIN keys
      /\ keys[k] = MsgIdOf(m) /\ values[k] = MsgDefinitionsOf(m)
  BY <1>2, <1>5
<1> HIDE DEF keys, values, usable
<1>9. MsgIdOf(m) \in DOMAIN msgDefinitions /\ msgDefinitions[MsgIdOf(m)] \in MsgDefinitionsOf(m)
  BY <1>3, <1>4, <1>8, NoKeyRepeats
<1> QED BY <1>6, <1>7, <1>9

\* The compiler gives a member made for a type as many bytes as the schema does.
LEMMA SizeOfTypeMember ==
    ASSUME NEW t \in TypeElement, UsableType(t), t.length # 0,
           t.length \in Nat \ {1} => t.primitiveType = "char"
    PROVE  SizeOf(StructFieldPrefix(FieldDefinition(t)))
              = Width[t.primitiveType] * (IF t.length \in Nat THEN t.length ELSE 1)
<1> DEFINE d == FieldDefinition(t)
           length == IF t.length \in Nat THEN t.length ELSE 1
<1>1. /\ d.primitiveType = t.primitiveType /\ d.length = length /\ length \in Nat
      /\ t.primitiveType \in PrimitiveTypes
  BY DEF FieldDefinition, UsableType
<1>2. Width[t.primitiveType] \in Nat
  BY <1>1 DEF PrimitiveTypes, Width
<1>3. CASE t.primitiveType = "char"
  <2>1. StructFieldPrefix(d) = CppType("array", "char", length)
    BY <1>1, <1>3 DEF StructFieldPrefix
  <2>2. SizeOf(StructFieldPrefix(d)) = length
    BY <2>1 DEF SizeOf, CppType
  <2>3. Width[t.primitiveType] = 1
    BY <1>3 DEF Width
  <2> QED BY <1>1, <2>2, <2>3
<1>4. CASE t.primitiveType # "char"
  <2>1. StructFieldPrefix(d) = CppType("primitive", t.primitiveType, 1)
    BY <1>1, <1>4 DEF StructFieldPrefix
  <2>2. SizeOf(StructFieldPrefix(d)) = Width[t.primitiveType]
    BY <2>1 DEF SizeOf, CppType
  <2>3. length = 1
    BY <1>4
  <2> HIDE DEF length
  <2>4. Width[t.primitiveType] * length = Width[t.primitiveType]
    BY <1>2, <2>3
  <2> QED BY <2>2, <2>4 DEF length
<1> QED BY <1>3, <1>4

\* And so it does for every field that has a place in a sound message.
LEMMA SizeOfMember ==
    ASSUME IInv, schema # NoSchema, SoundSchema, TypesUpTo(Len(schema.types)),
           EnumsUpTo(Len(schema.enums)), files["enums.h"] = EnumsHeader,
           NEW f,
           f.type \in NamesIn(schema.types) \cup NamesIn(schema.enums) \cup KnownCompositeTypes,
           f.type \in KnownCompositeTypes => CompositeSize(f.type) = MembersTotal(f.type)
    PROVE  f.type \in KnownTypes /\ SizeOf(MemberType(FieldInMsg(f))) = WireSize(f.type)
<1> DEFINE n == f.type
           g == FieldInMsg(f)
<1>1. TypeOK
  BY DEF IInv
<1>2. CASE n \in NamesIn(schema.types)
  <2> DEFINE t == TypeNamed(n)
  <2>1. /\ n \in DOMAIN ilink3Fields /\ TypesNamed(n) # {}
        /\ t \in TypeElement /\ t \in Elements(schema.types)
        /\ ilink3Fields[n] = FieldDefinition(t)
    BY <1>1, <1>2, SoundTypes
  <2>2. /\ UsableType(t) /\ t.length # 0
        /\ t.length \in Nat \ {1} => t.primitiveType = "char"
    BY <2>1 DEF SoundSchema
  <2>3. g.fieldDefinition = FieldDefinition(t)
    BY <2>1 DEF FieldInMsg
  <2>4. FieldDefinition(t) # Absent
    BY <2>1, <2>2, FieldDefinitionType, NullPointerAssumption
  <2>5. MemberType(g) = StructFieldPrefix(FieldDefinition(t))
    BY <2>3, <2>4 DEF MemberType
  <2>6. WireSize(n) = Width[t.primitiveType] * (IF t.length \in Nat THEN t.length ELSE 1)
    BY <2>1 DEF WireSize, WireSizeOfType
  <2> HIDE DEF t, n, g
  <2>7. SizeOf(StructFieldPrefix(FieldDefinition(t))) = WireSize(n)
    BY <2>1, <2>2, <2>6, SizeOfTypeMember
  <2>8. n \in KnownTypes
    BY <2>1 DEF KnownTypes
  <2> QED BY <2>5, <2>7, <2>8 DEF n, g
<1>3. CASE n \notin NamesIn(schema.types) /\ n \in NamesIn(schema.enums)
  <2> DEFINE e == EnumNamed(n)
             t == TypeNamed(e.encodingType)
  <2>1. /\ n \in DOMAIN enumDefinitions /\ EnumsNamed(n) # {}
        /\ e \in EnumElement /\ e \in Elements(schema.enums) /\ e.name = n
        /\ UsableEnum(e) /\ enumDefinitions[n] = EnumDefinition(e)
    BY <1>1, <1>3, SoundEnums
  <2>2. n \notin DOMAIN ilink3Fields /\ TypesNamed(n) = {}
    BY <1>1, <1>3, SoundTypes
  <2>3. e.encodingType \in DOMAIN ilink3Fields
    BY <2>1 DEF UsableEnum
  <2>4. /\ TypesNamed(e.encodingType) # {}
        /\ t \in TypeElement /\ t \in Elements(schema.types) /\ t.name = e.encodingType
        /\ ilink3Fields[e.encodingType] = FieldDefinition(t)
    BY <1>1, <2>3, SoundTypes
  <2>5. t.length \in Nat => t.length = 1
    <3>1. PICK u \in TypesNamed(e.encodingType) : u.length \in Nat => u.length = 1
      BY <2>1 DEF SoundSchema
    <3>2. u = t
      BY <2>4, <3>1 DEF TypesNamed, Elements, SoundSchema, NamesDiffer
    <3> QED BY <3>1, <3>2
  <2>6. UsableType(t)
    BY <2>4 DEF SoundSchema
  <2>7. Width[t.primitiveType] \in Nat
    BY <2>6 DEF UsableType, PrimitiveTypes, Width
  <2>8. EnumDefinition(e) \in EnumDefinitions
    <3>1. e.name \in STRING
      BY <2>1 DEF EnumElement, UsableEnum
    <3>2. ilink3Fields[e.encodingType] \in FieldDefinitions
      BY <1>1, <2>3 DEF TypeOK
    <3>3. ASSUME NEW v \in NamedValues(e) PROVE v.name \in STRING
      <4>1. e.validValues \in Seq(ValidValue)
        BY <2>1 DEF EnumElement
      <4>2. PICK k \in DOMAIN e.validValues : v = e.validValues[k]
        BY DEF NamedValues
      <4>3. v \in ValidValue
        BY <4>1, <4>2
      <4>4. v.name # Absent
        BY DEF NamedValues
      <4> QED BY <4>3, <4>4 DEF ValidValue
    <3> QED BY <3>1, <3>2, <3>3 DEF EnumDefinition, EnumDefinitions
  <2>9. g.fieldDefinition = Absent /\ g.enumDefinition = EnumDefinition(e)
    BY <2>1, <2>2 DEF FieldInMsg
  <2>10. MemberType(g) = CppType("enum", n, 1)
    <3>1. ~(g.fieldDefinition # Absent) /\ g.enumDefinition # Absent
      BY <2>8, <2>9, NullPointerAssumption
    <3>2. EnumDefinition(e).name = n
      BY <2>1 DEF EnumDefinition
    <3>3. MemberType(g) = EnumPrefix(g.enumDefinition)
      BY <3>1, Zenon DEF MemberType
    <3> QED BY <2>9, <3>2, <3>3 DEF EnumPrefix
  <2>11. files["enums.h"][n].underlying = t.primitiveType
    BY <2>1, <2>4 DEF EnumsHeader, EnumClass, EnumDefinition, FieldDefinition
  <2>12. SizeOf(MemberType(g)) = Width[t.primitiveType]
    BY <2>10, <2>11 DEF SizeOf, CppType
  <2>13. WireSize(n) = Width[t.primitiveType] * (IF t.length \in Nat THEN t.length ELSE 1)
    BY <2>1, <2>2, <2>4 DEF WireSize, WireSizeOfType
  <2>14. (IF t.length \in Nat THEN t.length ELSE 1) = 1
    BY <2>5
  <2>15. WireSize(n) = Width[t.primitiveType]
    BY <2>7, <2>13, <2>14
  <2>16. n \in KnownTypes
    BY <2>1 DEF KnownTypes
  <2> QED BY <2>12, <2>15, <2>16
<1>4. CASE n \in KnownCompositeTypes
  <2>1. n \notin NamesIn(schema.types) /\ n \notin NamesIn(schema.enums)
    BY <1>4 DEF SoundSchema
  <2>2. /\ n \notin DOMAIN ilink3Fields /\ TypesNamed(n) = {}
        /\ n \notin DOMAIN enumDefinitions /\ EnumsNamed(n) = {}
    BY <1>1, <2>1, SoundTypes, SoundEnums
  <2>3. /\ g.fieldDefinition = Absent /\ g.enumDefinition = Absent
        /\ g.compositeDefinition = n
    BY <1>4, <2>2 DEF FieldInMsg
  <2>4. MemberType(g) = CppType("composite", n, 1)
    BY <2>3 DEF MemberType, CompositePrefix
  <2>5. SizeOf(MemberType(g)) = CompositeSize(n)
    BY <2>4 DEF SizeOf, CppType
  <2>6. WireSize(n) = MembersTotal(n)
    BY <2>2 DEF WireSize
  <2> QED BY <1>4, <2>5, <2>6 DEF KnownTypes
<1> QED BY <1>2, <1>3, <1>4

\* In every document whose names are unique and whose offsets follow on one another, a
\* member of BlockData lies at the offset the schema gives it, and the struct is as long
\* as the announced block, unless it has a padded composite.
THEOREM LayoutAlwaysTheSchemas == Spec => []LayoutIsTheSchemas
<1>1. IInv /\ TablesSoFar => LayoutIsTheSchemas
  <2> SUFFICES ASSUME IInv, TablesSoFar, HeadersWritten, SoundSchema,
                      NEW m \in Elements(schema.messages), SoundMessage(m), Unpadded(m)
               PROVE  LET class == files["msgs.h"][MsgIdOf(m)]
                      IN  /\ DOMAIN class.members = OnTheWire(m)
                          /\ \A k \in OnTheWire(m) : OffsetOf(class, k) = m.fields[k].offset
                          /\ SizeOfBlockData(class) = class.blockLength
    BY DEF LayoutIsTheSchemas
  <2> DEFINE class == files["msgs.h"][MsgIdOf(m)]
  <2>1. TypeOK /\ schema # NoSchema /\ pc \in Files \cup {"done"}
    BY DEF IInv, Phases, TypeOK, HeadersWritten, Files
  <2>2. /\ TypesUpTo(Len(schema.types)) /\ EnumsUpTo(Len(schema.enums))
        /\ MessagesUpTo(Len(schema.messages))
    BY <2>1, AllRead
  <2>3. files["enums.h"] = EnumsHeader /\ files["msgs.h"] = MsgsHeader
    BY DEF IInv, HeadersFromTables, HeadersWritten
  <2>4. m.blockLength \in Nat /\ m.blockLength = WireTotal(m, OnTheWire(m))
    BY DEF SoundMessage
  <2>5. /\ MsgIdOf(m) \in DOMAIN msgDefinitions
        /\ msgDefinitions[MsgIdOf(m)] = MsgDefinition(m, m.blockLength)
    BY <2>1, <2>2, <2>4, SoundMessages
  <2>6. class = MessageClass(MsgDefinition(m, m.blockLength))
    BY <2>3, <2>5 DEF MsgsHeader
  <2>7. ASSUME NEW k \in DOMAIN m.fields
        PROVE  /\ m.fields[k].type \in KnownTypes
               /\ k \in OnTheWire(m) =>
                    SizeOf(MemberType(FieldInMsg(m.fields[k]))) = WireSize(m.fields[k].type)
    <3>1. m.fields[k].type \in NamesIn(schema.types) \cup NamesIn(schema.enums)
                               \cup KnownCompositeTypes
      BY DEF SoundMessage
    <3>2. m.fields[k].type \in KnownTypes
      BY <2>1, <2>2, <3>1, SoundTypes, SoundEnums DEF KnownTypes
    <3>3. ASSUME k \in OnTheWire(m)
          PROVE  SizeOf(MemberType(FieldInMsg(m.fields[k]))) = WireSize(m.fields[k].type)
      <4>1. m.fields[k].type \in KnownCompositeTypes =>
               CompositeSize(m.fields[k].type) = MembersTotal(m.fields[k].type)
        BY <3>3 DEF Unpadded
      <4> QED BY <2>1, <2>2, <2>3, <3>1, <4>1, SizeOfMember
    <3> QED BY <3>2, <3>3
  <2>8. \A k \in DOMAIN m.fields : UsableField(m.fields[k])
    BY <2>7, AbsentAssumption DEF UsableField, SoundMessage, OnTheWire
  <2>9. DOMAIN MsgDefinition(m, m.blockLength).fields = DOMAIN m.fields
    BY <2>8 DEF MsgDefinition
  <2>10. \A k \in DOMAIN m.fields :
            MsgDefinition(m, m.blockLength).fields[k] = FieldInMsg(m.fields[k])
    BY <2>8 DEF MsgDefinition
  <2>11. Transmitted(MsgDefinition(m, m.blockLength)) = OnTheWire(m)
    <3>1. \A f : FieldInMsg(f).offset = f.offset
      BY DEF FieldInMsg
    <3> QED BY <2>9, <2>10, <3>1 DEF Transmitted, OnTheWire
  <2>12. /\ DOMAIN class.members = OnTheWire(m)
         /\ \A k \in OnTheWire(m) :
               class.members[k].type = MemberType(FieldInMsg(m.fields[k]))
    BY <2>6, <2>10, <2>11 DEF MessageClass, Member, OnTheWire
  <2>13. class.blockLength = m.blockLength
    BY <2>6 DEF MessageClass, MsgDefinition
  <2> HIDE DEF class
  <2>14. \A k \in OnTheWire(m) : SizeOf(class.members[k].type) = WireSize(m.fields[k].type)
    BY <2>7, <2>12 DEF OnTheWire
  <2>15. ASSUME NEW ks \in SUBSET OnTheWire(m)
         PROVE  SizeOfMembers(class, ks) = WireTotal(m, ks)
    <3>1. [k \in ks |-> SizeOf(class.members[k].type)] = [k \in ks |-> WireSize(m.fields[k].type)]
      BY <2>14
    <3> QED BY <3>1 DEF SizeOfMembers, WireTotal
  <2>16. \A k \in OnTheWire(m) : OffsetOf(class, k) = m.fields[k].offset
    BY <2>12, <2>15 DEF OffsetOf, SoundMessage
  <2>17. SizeOfBlockData(class) = class.blockLength
    BY <2>4, <2>12, <2>13, <2>15 DEF SizeOfBlockData
  <2> QED BY <2>12, <2>16, <2>17 DEF class
<1> QED BY <1>1, GeneratorInvariance, TablesInvariance, PTL
=============================================================================
