---------------------------- MODULE ILink3Common ----------------------------
(***************************************************************************)
(* The definitions CodeGenerator keeps of a schema (src/ILink3Common) and  *)
(* the C++ each of them turns into: the member of the packed BlockData     *)
(* struct, what the getter returns and what the setter does, and the       *)
(* hand-written composites (ILink3Composite.h) they may refer to.          *)
(***************************************************************************)
EXTENDS Integers, FiniteSetsExt

CONSTANTS
    Absent,     \* no such attribute; a null pointer; an empty optional
    Bad         \* the text of an attribute that std::stoll rejects

\* The provers do not know that "Null" is in STRING.
ASSUME AbsentAssumption == /\ Absent \notin STRING /\ Absent # "Null"
                           /\ Absent \notin Nat
                           /\ Bad \notin Nat
                           /\ Bad # Absent

\* The strings PrimitiveTypeFromString knows.
PrimitiveTypes == {"char", "uint8", "uint16", "uint32", "uint64", "int32", "int64"}

PrimitiveTypeIsUnsigned(t) == t \in {"uint8", "uint16", "uint32", "uint64"}

Width == [char |-> 1, uint8 |-> 1, uint16 |-> 2, uint32 |-> 4, uint64 |-> 8,
          int32 |-> 4, int64 |-> 8]

FieldDefinitions == [primitiveType : PrimitiveTypes, length : Nat,
                     nullValue : Nat \cup {Absent}]

EnumDefinitions == [name : STRING, encodingType : FieldDefinitions,
                    validValues : SUBSET STRING]

\* A null pointer points at no definition.
ASSUME NullPointerAssumption == Absent \notin FieldDefinitions \cup EnumDefinitions

(***************************************************************************)
(* A C++ type: a primitive, std::array<char, length>, a string_view of     *)
(* length characters, an enum class or a composite.                        *)
(***************************************************************************)
CppType(kind, of, length) == [kind |-> kind, of |-> of, length |-> length]

StructFieldPrefix(d) ==
    IF d.primitiveType = "char" THEN CppType("array", "char", d.length)
                                ELSE CppType("primitive", d.primitiveType, 1)

FieldGetter(d) ==
    IF d.primitiveType = "char" THEN CppType("view", "char", d.length)
                                ELSE CppType("primitive", d.primitiveType, 1)

\* "(void) v;": the setter of a character field keeps nothing.
FieldSetter(d) == IF d.primitiveType = "char" THEN "ignore" ELSE "store"

EnumPrefix(e) == CppType("enum", e.name, 1)

CompositePrefix(c) == CppType("composite", c, 1)

\* Mutant: the getter looks at the enum first.
GetterPrefersEnum(f) ==
    IF f.enumDefinition # Absent THEN EnumPrefix(f.enumDefinition)
    ELSE IF f.fieldDefinition # Absent THEN FieldGetter(f.fieldDefinition)
    ELSE CompositePrefix(f.compositeDefinition)

\* ILink3FieldInMsgDefinition: the getter's return type, which is also the
\* parameter of the setter, and what the setter does.
Getter(f) ==
    IF f.fieldDefinition # Absent THEN FieldGetter(f.fieldDefinition)
    ELSE IF f.enumDefinition # Absent THEN EnumPrefix(f.enumDefinition)
    ELSE CompositePrefix(f.compositeDefinition)

Setter(f) == IF f.fieldDefinition # Absent THEN FieldSetter(f.fieldDefinition)
                                           ELSE "store"

(***************************************************************************)
(* The composites: the widths of their members.  They are not packed, so   *)
(* each is as long as the multiple of its largest member that holds all of *)
(* them, also inside a packed struct (the order of their members leaves    *)
(* all the padding at the end).                                            *)
(***************************************************************************)
CompositeMembers ==
    [Decimal32NULL     |-> <<4, 1>>,
     Decimal64NULL     |-> <<8, 1>>,
     MaturityMonthYear |-> <<2, 1, 1, 1>>,
     PRICE9            |-> <<8>>,
     PRICENULL9        |-> <<8>>,
     groupSize         |-> <<2, 2>>,
     messageHeader     |-> <<2, 2, 2, 2>>,
     ExecInst          |-> <<1>>]

KnownCompositeTypes == DOMAIN CompositeMembers

MembersTotal(c) == MapThenSumSet(LAMBDA k : CompositeMembers[c][k],
                                 DOMAIN CompositeMembers[c])

CompositeSize(c) ==
    LET align == Max({CompositeMembers[c][k] : k \in DOMAIN CompositeMembers[c]})
    IN  ((MembersTotal(c) + align - 1) \div align) * align
=============================================================================
