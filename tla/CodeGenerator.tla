---------------------------- MODULE CodeGenerator ----------------------------
(***************************************************************************)
(* CodeGenerator: the program the build runs on the schema to write the    *)
(* constants, the enumerations and the message classes everything else is  *)
(* compiled against.  One action is one turn of one of main's loops over   *)
(* the document, or one file written.                                      *)
(***************************************************************************)
EXTENDS ILink3Common, Sequences

CONSTANTS
    Schemas,        \* the documents the program may be run on
    NoSchema,       \* no argument, no such file, not XML, or no root element
    MsgIdRange,     \* MsgId is a uint32_t: 2^32 in the build
    Garbage,        \* what an uninitialised blockLength_ may hold
    Stale           \* a file this run has not written

TypeElement == [name : STRING \cup {Absent}, primitiveType : STRING \cup {Absent},
                length : Nat \cup {Absent, Bad}, nullValue : Nat \cup {Absent, Bad}]
ValidValue == [name : STRING \cup {Absent}, text : STRING \cup {Absent}]
EnumElement == [name : STRING \cup {Absent}, encodingType : STRING \cup {Absent},
                validValues : Seq(ValidValue)]
FieldElement == [name : STRING \cup {Absent}, type : STRING \cup {Absent},
                 offset : Nat \cup {Absent, Bad}]
MessageElement == [description : STRING \cup {Absent}, id : Nat \cup {Absent, Bad},
                   blockLength : Nat \cup {Absent, Bad}, fields : Seq(FieldElement),
                   data : BOOLEAN]
\* id and version are the characters of the attribute.
Schema == [id : Seq(0..9) \cup {Absent}, version : Seq(0..9) \cup {Absent},
           types : Seq(TypeElement), enums : Seq(EnumElement),
           messages : Seq(MessageElement)]

ASSUME SchemasAssumption == /\ \A s \in Schemas : s = NoSchema \/ s \in Schema
                            /\ NoSchema \notin Schema
                            /\ MsgIdRange \in Nat \ {0}
                            /\ Garbage \subseteq Nat

VARIABLES
    schema,
    pc,               \* where main is
    pos,              \* the element the current loop is at
    ilink3Fields, enumDefinitions, msgDefinitions,
    files,            \* the generated files
    exitCode

vars == <<schema, pc, pos, ilink3Fields, enumDefinitions, msgDefinitions, files, exitCode>>
tables == <<ilink3Fields, enumDefinitions, msgDefinitions>>

Files == {"const.h", "enums.h", "enums.cpp", "msgs.h", "msgs.cpp"}
NoEntries == [k \in {} |-> Absent]

Init ==
    /\ schema \in Schemas
    /\ pc = "start"
    /\ pos = 1
    /\ ilink3Fields = NoEntries /\ enumDefinitions = NoEntries /\ msgDefinitions = NoEntries
    /\ files = [f \in Files |-> Stale]
    /\ exitCode = Absent

\* operator[] of a map: the entry is replaced.
Assign(table, k, v) ==
    [x \in DOMAIN table \cup {k} |-> IF x = k THEN v ELSE table[x]]

\* emplace: the entry that is there stays.
Emplace(table, k, v) ==
    [x \in DOMAIN table \cup {k} |-> IF x \in DOMAIN table THEN table[x] ELSE v]

-----------------------------------------------------------------------------
(* Loading the document *)

FailToLoad ==
    /\ pc = "start" /\ schema = NoSchema
    /\ pc' = "done" /\ exitCode' = 1
    /\ UNCHANGED <<schema, pos, tables, files>>

\* id=*idPtr: the first character of the attribute.
FirstCharacter(attribute) ==
    IF attribute = Absent THEN <<>> ELSE <<Head(attribute)>>

ConstFile == [schemaId |-> FirstCharacter(schema.id),
              version  |-> FirstCharacter(schema.version)]

\* Mutant: the constants are written as soon as they are known.
LoadAndWriteConst ==
    /\ pc = "start" /\ schema # NoSchema
    /\ pc' = "types"
    /\ files' = [files EXCEPT !["const.h"] = ConstFile]
    /\ UNCHANGED <<schema, pos, tables, exitCode>>

Load ==
    /\ pc = "start" /\ schema # NoSchema
    /\ pc' = "types"
    /\ UNCHANGED <<schema, pos, tables, files, exitCode>>

\* Mutant: the loop leaves at the last element.
LastElementAt(loop, elements) == pc = loop /\ pos < Len(elements)

ElementAt(loop, elements) == pc = loop /\ pos <= Len(elements)

EndLoop(loop, elements, following) ==
    /\ pc = loop /\ pos > Len(elements)
    /\ pc' = following /\ pos' = 1
    /\ UNCHANGED <<schema, tables, files, exitCode>>

-----------------------------------------------------------------------------
(* types|type *)

UsableType(t) == t.name # Absent /\ t.primitiveType \in PrimitiveTypes

FieldDefinition(t) ==
    [primitiveType |-> t.primitiveType,
     length        |-> IF t.length \in Nat THEN t.length ELSE 1,
     nullValue     |-> IF t.nullValue \in Nat THEN t.nullValue ELSE Absent]

ReadType ==
    /\ ElementAt("types", schema.types)
    /\ LET t == schema.types[pos]
       IN  ilink3Fields' = IF UsableType(t)
                           THEN Emplace(ilink3Fields, t.name, FieldDefinition(t))
                           ELSE ilink3Fields
    /\ pos' = pos + 1
    /\ UNCHANGED <<schema, pc, enumDefinitions, msgDefinitions, files, exitCode>>

TypesRead == EndLoop("types", schema.types, "enums")

-----------------------------------------------------------------------------
(* types|enum *)

UsableEnum(e) == e.name # Absent /\ e.encodingType \in DOMAIN ilink3Fields

NamedValues(e) == {v \in {e.validValues[k] : k \in DOMAIN e.validValues} : v.name # Absent}

\* encodingType_ points at an entry of ilink3Fields, which no longer changes.
EnumDefinition(e) ==
    [name         |-> e.name,
     encodingType |-> ilink3Fields[e.encodingType],
     validValues  |-> {v.name : v \in NamedValues(e)}]

\* GetText returns null for a valid value without text, and a std::string is
\* assigned from it.
LacksText(e) == UsableEnum(e) /\ \E v \in NamedValues(e) : v.text = Absent

ReadEnum ==
    /\ ElementAt("enums", schema.enums)
    /\ LET e == schema.enums[pos]
       IN  /\ ~LacksText(e)
           /\ enumDefinitions' = IF UsableEnum(e)
                                 THEN Emplace(enumDefinitions, e.name, EnumDefinition(e))
                                 ELSE enumDefinitions
    /\ pos' = pos + 1
    /\ UNCHANGED <<schema, pc, ilink3Fields, msgDefinitions, files, exitCode>>

CrashOnEnum ==
    /\ ElementAt("enums", schema.enums)
    /\ LacksText(schema.enums[pos])
    /\ pc' = "crashed"
    /\ UNCHANGED <<schema, pos, tables, files, exitCode>>

EnumsRead == EndLoop("enums", schema.enums, "messages")

-----------------------------------------------------------------------------
(* ns2:message *)

UsableMessage(m) ==
    /\ m.description # Absent
    /\ m.id \in Nat
    /\ m.blockLength # Bad

KnownTypes == DOMAIN ilink3Fields \cup DOMAIN enumDefinitions \cup KnownCompositeTypes

UsableField(f) ==
    /\ f.name # Absent
    /\ f.type \in KnownTypes
    /\ f.offset # Bad

FieldInMsg(f) ==
    [name |-> f.name,
     fieldDefinition |-> IF f.type \in DOMAIN ilink3Fields
                         THEN ilink3Fields[f.type] ELSE Absent,
     enumDefinition |-> IF f.type \in DOMAIN enumDefinitions
                        THEN enumDefinitions[f.type] ELSE Absent,
     compositeDefinition |-> IF f.type \in KnownCompositeTypes THEN f.type ELSE Absent,
     offset |-> f.offset]

\* fields_ keeps the order of the document: a field that is kept stands at
\* its position there.
MsgDefinition(m, length) ==
    [name |-> m.description,
     blockLength |-> length,
     fields |-> [k \in {k \in DOMAIN m.fields : UsableField(m.fields[k])} |->
                    FieldInMsg(m.fields[k])],
     hasDataField |-> m.data]

BlockLengths(m) == IF m.blockLength = Absent THEN Garbage ELSE {m.blockLength}

\* Mutant: the id is kept as the long long it was read as.
MsgIdAsRead(m) == m.id

\* The static_cast to MsgId.
MsgIdOf(m) == m.id % MsgIdRange

ReadMessage ==
    /\ ElementAt("messages", schema.messages)
    /\ LET m == schema.messages[pos]
       IN  /\ UsableMessage(m)
           /\ \E length \in BlockLengths(m) :
                 msgDefinitions' = Assign(msgDefinitions, MsgIdOf(m), MsgDefinition(m, length))
    /\ pos' = pos + 1
    /\ UNCHANGED <<schema, pc, ilink3Fields, enumDefinitions, files, exitCode>>

SkipMessage ==
    /\ ElementAt("messages", schema.messages)
    /\ ~UsableMessage(schema.messages[pos])
    /\ pos' = pos + 1
    /\ UNCHANGED <<schema, pc, tables, files, exitCode>>

MessagesRead == EndLoop("messages", schema.messages, "const.h")

-----------------------------------------------------------------------------
(* The files *)

\* Mutant: no Null for an enum of characters.
EnumClassWithoutNull(e) ==
    [underlying |-> e.encodingType.primitiveType,
     constants  |-> e.validValues \cup
                        (IF e.encodingType.nullValue # Absent
                            /\ e.encodingType.primitiveType # "char"
                         THEN {"Null"} ELSE {})]

EnumClass(e) ==
    [underlying |-> e.encodingType.primitiveType,
     constants  |-> e.validValues \cup
                        (IF e.encodingType.nullValue # Absent THEN {"Null"} ELSE {})]

EnumsHeader == [e \in DOMAIN enumDefinitions |-> EnumClass(enumDefinitions[e])]

\* What operator<< casts an enumeration to.
StreamedAs(e) ==
    CASE e.encodingType.primitiveType = "char" -> "char"
      [] PrimitiveTypeIsUnsigned(e.encodingType.primitiveType) -> "uint64"
      [] OTHER -> "int64"

EnumsSource == [e \in DOMAIN enumDefinitions |-> StreamedAs(enumDefinitions[e])]

\* Mutant: every field of the message is transmitted.
AllFields(d) == DOMAIN d.fields

Transmitted(d) == {k \in DOMAIN d.fields : d.fields[k].offset # Absent}

\* The type of a member of BlockData and what initialises it.
MemberType(f) ==
    IF f.fieldDefinition # Absent THEN StructFieldPrefix(f.fieldDefinition)
    ELSE IF f.enumDefinition # Absent THEN EnumPrefix(f.enumDefinition)
    ELSE CompositePrefix(f.compositeDefinition)

Initialiser(f) ==
    IF f.fieldDefinition # Absent THEN f.fieldDefinition.nullValue
    ELSE IF f.enumDefinition # Absent /\ f.enumDefinition.encodingType.nullValue # Absent
         THEN "Null" ELSE Absent

Member(f) == [name |-> f.name, type |-> MemberType(f), initialiser |-> Initialiser(f),
              getter |-> Getter(f), setter |-> Setter(f)]

MessageClass(d) ==
    [name        |-> d.name,
     members     |-> [k \in Transmitted(d) |-> Member(d.fields[k])],
     blockLength |-> d.blockLength,
     data        |-> d.hasDataField]

MsgsHeader == [id \in DOMAIN msgDefinitions |-> MessageClass(msgDefinitions[id])]

\* readFromBuffer takes sizeof (BlockData); writeToBuffer gives it and data_.
MsgsSource == [id \in DOMAIN msgDefinitions |->
                  [name |-> msgDefinitions[id].name,
                   writesData |-> msgDefinitions[id].hasDataField]]

\* The stream is never looked at: a file that cannot be opened is left as it is.
Write(file, contents, following) ==
    /\ pc = file
    /\ pc' = following
    /\ \/ files' = [files EXCEPT ![file] = contents]
       \/ files' = files
    /\ UNCHANGED <<schema, pos, tables>>

WriteConst       == Write("const.h", ConstFile, "enums.h") /\ UNCHANGED exitCode
WriteEnumsHeader == Write("enums.h", EnumsHeader, "enums.cpp") /\ UNCHANGED exitCode
WriteEnumsSource == Write("enums.cpp", EnumsSource, "msgs.h") /\ UNCHANGED exitCode
WriteMsgsHeader  == Write("msgs.h", MsgsHeader, "msgs.cpp") /\ UNCHANGED exitCode
WriteMsgsSource  == Write("msgs.cpp", MsgsSource, "done") /\ exitCode' = 0

Next ==
    \/ FailToLoad \/ Load
    \/ ReadType \/ TypesRead
    \/ ReadEnum \/ CrashOnEnum \/ EnumsRead
    \/ ReadMessage \/ SkipMessage \/ MessagesRead
    \/ WriteConst \/ WriteEnumsHeader \/ WriteEnumsSource
    \/ WriteMsgsHeader \/ WriteMsgsSource

Spec == Init /\ [][Next]_vars

\* One thread, which nothing makes wait.
FairSpec == Spec /\ WF_vars(Next)

-----------------------------------------------------------------------------
(* What the generated files are to be *)

\* What a step relies on: the tables and files have the shapes of the
\* program's, and an enumeration points at a definition that was read.
TypeOK ==
    /\ schema \in Schemas
    /\ pc \in {"start", "types", "enums", "messages", "done", "crashed"} \cup Files
    /\ schema = NoSchema => pc \in {"start", "done"}
    /\ pos \in Nat \ {0}
    /\ DOMAIN ilink3Fields \subseteq STRING
    /\ \A n \in DOMAIN ilink3Fields : ilink3Fields[n] \in FieldDefinitions
    /\ \A n \in DOMAIN enumDefinitions :
          /\ enumDefinitions[n].name = n
          /\ \E t \in DOMAIN ilink3Fields :
                enumDefinitions[n].encodingType = ilink3Fields[t]
    /\ DOMAIN msgDefinitions \subseteq 0..(MsgIdRange - 1)
    /\ DOMAIN files = Files
    /\ exitCode \in {0, 1, Absent}

\* A document that is not loaded, or that kills the program, leaves every
\* generated file as it was: nothing is written before all of it was read
\* (CodeGenerator.cpp:317), so an incomplete set of headers never comes of it.
ReadInFullBeforeWriting ==
    exitCode = 1 \/ pc \in {"types", "enums", "messages", "crashed"} =>
        \A f \in Files : files[f] = Stale

\* A table of which every key has the value of the first element with that key.
FirstCounts(table, keys, values) ==
    /\ DOMAIN table = {keys[k] : k \in DOMAIN keys}
    /\ \A k \in DOMAIN keys :
          (\A j \in DOMAIN keys : keys[j] = keys[k] => k <= j) => table[keys[k]] = values[k]

\* A table of which every key has a value of the last element with that key.
LastCounts(table, keys, values) ==
    /\ DOMAIN table = {keys[k] : k \in DOMAIN keys}
    /\ \A k \in DOMAIN keys :
          (\A j \in DOMAIN keys : keys[j] = keys[k] => j <= k) => table[keys[k]] \in values[k]

\* The tables are those of the first n types, enums or messages.
TypesUpTo(n) ==
    LET usable == {k \in 1..n : UsableType(schema.types[k])}
    IN  FirstCounts(ilink3Fields, [k \in usable |-> schema.types[k].name],
                                  [k \in usable |-> FieldDefinition(schema.types[k])])

EnumsUpTo(n) ==
    LET usable == {k \in 1..n : UsableEnum(schema.enums[k])}
    IN  FirstCounts(enumDefinitions, [k \in usable |-> schema.enums[k].name],
                                     [k \in usable |-> EnumDefinition(schema.enums[k])])

MsgDefinitionsOf(m) == {MsgDefinition(m, length) : length \in BlockLengths(m)}

MessagesUpTo(n) ==
    LET usable == {k \in 1..n : UsableMessage(schema.messages[k])}
    IN  LastCounts(msgDefinitions, [k \in usable |-> MsgIdOf(schema.messages[k])],
                                   [k \in usable |-> MsgDefinitionsOf(schema.messages[k])])

\* The first type and the first enum of a name count (emplace), the last
\* message of an id does (operator[]), no usable element is lost, and the
\* tables that the files are made from hold nothing else.
TablesFollowTheDocument ==
    pc \in Files =>
        /\ TypesUpTo(Len(schema.types))
        /\ EnumsUpTo(Len(schema.enums))
        /\ MessagesUpTo(Len(schema.messages))

\* A member that starts as E::Null has an enum class E that declares Null:
\* the two headers, written from different tables, compile together
\* (CodeGenerator.cpp:384, 494).
NullIsDeclared ==
    files["enums.h"] # Stale /\ files["msgs.h"] # Stale =>
        \A id \in DOMAIN files["msgs.h"] :
            LET members == files["msgs.h"][id].members
            IN  \A k \in DOMAIN members :
                   members[k].type.kind = "enum" =>
                      /\ members[k].type.of \in DOMAIN files["enums.h"]
                      /\ members[k].initialiser = "Null" =>
                            "Null" \in files["enums.h"][members[k].type.of].constants

\* What a getter returns is what the member holds (for a character array, a
\* view of exactly its length, never past its end), and a setter that stores
\* takes what the member takes: the member, the getter and the setter choose
\* between type, enum and composite each on its own.
AccessorsFitMembers ==
    files["msgs.h"] # Stale =>
        \A id \in DOMAIN files["msgs.h"] :
            LET members == files["msgs.h"][id].members
            IN  \A k \in DOMAIN members :
                   /\ members[k].getter =
                         [members[k].type EXCEPT !.kind = IF @ = "array" THEN "view" ELSE @]
                   /\ members[k].setter = "store" => members[k].getter = members[k].type

(***************************************************************************)
(* The layout the schema prescribes, from the document alone.              *)
(***************************************************************************)
Elements(s) == {s[k] : k \in DOMAIN s}
TypesNamed(n) == {t \in Elements(schema.types) : t.name = n}
EnumsNamed(n) == {e \in Elements(schema.enums) : e.name = n}

TypeNamed(n) == CHOOSE t \in TypesNamed(n) : TRUE
EnumNamed(n) == CHOOSE e \in EnumsNamed(n) : TRUE

WireSizeOfType(n) ==
    LET t == TypeNamed(n)
    IN  Width[t.primitiveType] * (IF t.length \in Nat THEN t.length ELSE 1)

WireSize(n) ==
    IF TypesNamed(n) # {} THEN WireSizeOfType(n)
    ELSE IF EnumsNamed(n) # {}
         THEN WireSizeOfType(EnumNamed(n).encodingType)
         ELSE MembersTotal(n)

OnTheWire(m) == {k \in DOMAIN m.fields : m.fields[k].offset # Absent}

NamesIn(elements) == {x.name : x \in Elements(elements)}
NamesDiffer(elements) ==
    \A j, k \in DOMAIN elements : elements[j].name = elements[k].name => j = k

\* Names are used once, every type has a width and only characters a length,
\* an enum is encoded as one of the types that are one value long.
SoundSchema ==
    LET ids == [k \in DOMAIN schema.messages |-> MsgIdOf(schema.messages[k])]
    IN  /\ \A t \in Elements(schema.types) :
              /\ UsableType(t) /\ t.length # 0
              /\ t.length \in Nat \ {1} => t.primitiveType = "char"
        /\ NamesDiffer(schema.types) /\ NamesDiffer(schema.enums)
        /\ NamesIn(schema.types) \cap NamesIn(schema.enums) = {}
        /\ (NamesIn(schema.types) \cup NamesIn(schema.enums)) \cap KnownCompositeTypes = {}
        /\ \A e \in Elements(schema.enums) :
              /\ e.name # Absent
              /\ \E t \in TypesNamed(e.encodingType) : t.length \in Nat => t.length = 1
        /\ \A m \in Elements(schema.messages) : UsableMessage(m)
        /\ \A j, k \in DOMAIN ids : ids[j] = ids[k] => j = k

\* How long the fields in ks are together.
WireTotal(m, ks) == SumFunction([k \in ks |-> WireSize(m.fields[k].type)])

\* The fields of the message have known types and follow on one another.
SoundMessage(m) ==
    /\ \A k \in DOMAIN m.fields :
          /\ m.fields[k].name # Absent
          /\ m.fields[k].type \in NamesIn(schema.types) \cup NamesIn(schema.enums)
                                  \cup KnownCompositeTypes
    /\ \A k \in OnTheWire(m) :
          /\ m.fields[k].offset \in Nat
          /\ m.fields[k].offset = WireTotal(m, {j \in OnTheWire(m) : j < k})
    /\ m.blockLength \in Nat /\ m.blockLength = WireTotal(m, OnTheWire(m))

Unpadded(m) == \A k \in OnTheWire(m) :
                  m.fields[k].type \in KnownCompositeTypes =>
                     CompositeSize(m.fields[k].type) = MembersTotal(m.fields[k].type)

\* What the compiler makes of a member of BlockData, given the enums header.
SizeOf(type) ==
    CASE type.kind = "array"     -> type.length
      [] type.kind = "primitive" -> Width[type.of]
      [] type.kind = "enum"      -> Width[files["enums.h"][type.of].underlying]
      [] type.kind = "composite" -> CompositeSize(type.of)

\* How long the members in ks are together.
SizeOfMembers(class, ks) == SumFunction([k \in ks |-> SizeOf(class.members[k].type)])

OffsetOf(class, k) == SizeOfMembers(class, {j \in DOMAIN class.members : j < k})

SizeOfBlockData(class) == SizeOfMembers(class, DOMAIN class.members)

HeadersWritten == files["enums.h"] # Stale /\ files["msgs.h"] # Stale

\* The offsets of the schema are read only to see that there is one
\* (CodeGenerator.cpp:473): each member still lies at its offset, and
\* BlockData is blockLength long, in every message of a sound schema that has
\* no padded composite.
LayoutIsTheSchemas ==
    HeadersWritten /\ SoundSchema =>
        \A m \in {m \in Elements(schema.messages) : SoundMessage(m) /\ Unpadded(m)} :
            LET class == files["msgs.h"][MsgIdOf(m)]
            IN  /\ DOMAIN class.members = OnTheWire(m)
                /\ \A k \in OnTheWire(m) : OffsetOf(class, k) = m.fields[k].offset
                /\ SizeOfBlockData(class) = class.blockLength

\* The assertion that is generated as a comment (CodeGenerator.cpp:525).
BlockLengthIsSizeOfBlockData ==
    HeadersWritten =>
        \A id \in DOMAIN files["msgs.h"] :
            SizeOfBlockData(files["msgs.h"][id]) = files["msgs.h"][id].blockLength

\* No document holds the program up: the build that waits for it goes on.
Ends == <>(pc \in {"done", "crashed"})
=============================================================================
