---------------------------- MODULE ILink3EnumsGen ----------------------------
(***************************************************************************)
(* The enum classes of the sample the repository keeps of the generator's  *)
(* output: the underlying type's width, the encoded values, and, for those *)
(* of optional fields, the one that stands for no value.  The names of the *)
(* enumerators are left out.                                               *)
(***************************************************************************)
EXTENDS Integers

\* nulls: the value of Null, or none.
EnumClass(bytes, values, nulls) == [bytes |-> bytes, values |-> values, nulls |-> nulls]

\* std::uint8_t, char and std::uint16_t; a char is the letter it is written with, and
\* its Null the character 0.
ByteEnum(values)     == EnumClass(1, values, {})
NullByteEnum(values) == EnumClass(1, values, {255})
CharEnum(values)     == EnumClass(1, values, {})
NullCharEnum(values) == EnumClass(1, values, {"NUL"})
ShortEnum(values)    == EnumClass(2, values, {})

AvgPxInd == NullByteEnum({0, 1, 3})
BooleanFlag == ByteEnum({0, 1})
BooleanNULL == NullByteEnum({0, 1})
ClearingAcctType == NullByteEnum({0, 1})
CmtaGiveUpCD == NullCharEnum({"G", "S"})
CustOrdHandlInst == NullCharEnum({"C", "D", "G", "H", "W", "Y"})
CustOrderCapacity == NullByteEnum({1, 2, 3, 4})
DKReason == NullCharEnum({"A", "B", "C", "D", "E", "F", "G", "Z"})
ExecAckStatus == ByteEnum({1, 2})
ExecMode == NullCharEnum({"A", "P"})
ExecReason == NullByteEnum({8, 9, 100, 103, 104, 105, 106, 107, 108})
ExecTypTrdCxl == CharEnum({"G", "H"})
ExpCycle == NullByteEnum({0, 2})
FTI == NullByteEnum({0, 1})
KeepAliveLapsed == ByteEnum({0, 1})
ListUpdAct == CharEnum({"A", "D"})
ManualOrdInd == NullByteEnum({0, 1})
ManualOrdIndReq == ByteEnum({0, 1})
MassActionOrdTyp == NullCharEnum({"2", "4"})
MassActionResponse == ByteEnum({0, 1})
MassActionScope == ByteEnum({1, 7, 9, 10, 100})
MassCancelTIF == NullByteEnum({0, 1, 6})
MassCxlReqTyp == NullByteEnum({100, 101})
MassStatusOrdTyp == NullByteEnum({100, 101})
MassStatusReqTyp == ByteEnum({1, 3, 100})
MassStatusTIF == NullByteEnum({0, 1, 6})
OFMOverrideReq == ByteEnum({0, 1})
OrdStatusTrd == ByteEnum({1, 2})
OrdStatusTrdCxl == CharEnum({"G", "H"})
OrderEventType == NullByteEnum({4, 5})
OrderStatus == CharEnum({"0", "1", "2", "4", "5", "8", "C", "U"})
OrderType == CharEnum({"1", "2", "4", "K"})
OrderTypeReq == CharEnum({"1", "2", "3", "4", "K"})
PartyDetailRole == ShortEnum({1, 24, 96, 118, 1000})
QuoteAckStatus == ByteEnum({0, 5})
QuoteCxlStatus == ByteEnum({1, 3, 4, 5, 100})
QuoteCxlTyp == ByteEnum({1, 3, 4, 100})
QuoteTyp == NullByteEnum({1})
RFQSide == NullByteEnum({1, 2, 8})
ReqResult == ByteEnum({0, 2, 3, 4})
SLEDS == NullByteEnum({0, 1})
SMPI == NullCharEnum({"N", "O"})
SecRspTyp == ByteEnum({1, 2, 5})
ShortSaleType == NullByteEnum({0, 1, 2, 3})
SideNULL == NullByteEnum({1, 2})
SideReq == ByteEnum({1, 2})
SideTimeInForce == ByteEnum({0, 3})
SplitMsg == NullByteEnum({0, 1, 2})
TimeInForce == ByteEnum({0, 1, 3, 4, 6})
TradeAddendum == ByteEnum({4, 5, 100, 101})
===============================================================================
