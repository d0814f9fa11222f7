-------------------------- MODULE MCCodeGenerator --------------------------
(***************************************************************************)
(* Model-checking instances of CodeGenerator: four messages of             *)
(* data/Cme.Futures.iLink3.Sbe.v8.5.xml, field by field, with the types    *)
(* and enums they use, and small documents with every way an element can   *)
(* be incomplete, ambiguous or repeated.                                   *)
(***************************************************************************)
EXTENDS CodeGenerator

T(name, primitive, length, null) ==
    [name |-> name, primitiveType |-> primitive, length |-> length, nullValue |-> null]
V(name, text) == [name |-> name, text |-> text]
E(name, encoding, values) ==
    [name |-> name, encodingType |-> encoding, validValues |-> values]
F(name, type, offset) == [name |-> name, type |-> type, offset |-> offset]
M(description, id, length, fields, data) ==
    [description |-> description, id |-> id, blockLength |-> length,
     fields |-> fields, data |-> data]

\* Lines 3 to 65 of the schema, those the four messages use.
SchemaTypes == <<
    T("CHAR", "char", Absent, Absent), T("ClientFlowType", "char", 10, Absent),
    T("ExecTypeTrade", "char", 1, Absent), T("HMACVersion", "char", 13, Absent),
    T("Int32", "int32", Absent, Absent), T("Int32NULL", "int32", Absent, 2147483647),
    T("LocalMktDate", "uint16", Absent, 65535), T("SecurityIDSource", "char", 1, Absent),
    T("String20", "char", 20, Absent), T("String20Req", "char", 20, Absent),
    T("String256", "char", 256, Absent), T("String3", "char", 3, Absent),
    T("String32Req", "char", 32, Absent), T("String3Req", "char", 3, Absent),
    T("String40", "char", 40, Absent), T("String5Req", "char", 5, Absent),
    T("String8", "char", 8, Absent), T("StringLength35", "char", 35, Absent),
    T("StringLength6", "char", 6, Absent), T("UDI", "char", 1, Absent),
    T("uInt16NULL", "uint16", Absent, 65535), T("uInt32", "uint32", Absent, Absent),
    T("uInt64", "uint64", Absent, Absent), T("uInt8", "uint8", Absent, Absent),
    T("uInt8NULL", "uint8", Absent, 255)>>

SchemaEnums == <<
    E("BooleanFlag", "uInt8", <<V("False", "0")>>),
    E("ExpCycle", "uInt8NULL", <<V("ExpireOnTradingSessionClose", "0")>>),
    E("FTI", "uInt8NULL", <<V("Backup", "0")>>),
    E("KeepAliveLapsed", "uInt8", <<V("NotLapsed", "0")>>),
    E("ManualOrdIndReq", "uInt8", <<V("Automated", "0")>>),
    E("OrdStatusTrd", "uInt8", <<V("PartiallyFilled", "1")>>),
    E("OrderType", "CHAR", <<V("MarketWithProtection", "1")>>),
    E("SecRspTyp", "uInt8", <<V("AcceptSecurityProposalasis", "1")>>),
    E("SideReq", "uInt8", <<V("Buy", "1")>>),
    E("SplitMsg", "uInt8NULL", <<V("SplitMessageDelayed", "0")>>)>>

Negotiate == M("Negotiate", 500, 76, <<
    F("CustomerFlow", "ClientFlowType", Absent), F("HMACVersion", "HMACVersion", Absent),
    F("HMACSignature", "String32Req", 0), F("AccessKeyID", "String20Req", 32),
    F("UUID", "uInt64", 52), F("RequestTimestamp", "uInt64", 60),
    F("Session", "String3Req", 68), F("Firm", "String5Req", 71)>>, TRUE)

Sequence == M("Sequence", 506, 14, <<
    F("UUID", "uInt64", 0), F("NextSeqNo", "uInt32", 8),
    F("FaultToleranceIndicator", "FTI", 12),
    F("KeepAliveIntervalLapsed", "KeepAliveLapsed", 13)>>, FALSE)

ExecutionReportTradeSpreadLeg == M("ExecutionReportTradeSpreadLeg", 527, 199, <<
    F("SeqNum", "uInt32", 0), F("UUID", "uInt64", 4), F("ExecID", "String40", 12),
    F("SenderID", "String20Req", 52), F("ClOrdID", "String20Req", 72),
    F("Volatility", "Decimal64NULL", 92), F("PartyDetailsListReqID", "uInt64", 101),
    F("LastPx", "PRICE9", 109), F("OrderID", "uInt64", 117),
    F("UnderlyingPx", "PRICENULL9", 125), F("TransactTime", "uInt64", 133),
    F("SendingTimeEpoch", "uInt64", 141), F("SecExecID", "uInt64", 149),
    F("Location", "String5Req", 157), F("OptionDelta", "Decimal32NULL", 162),
    F("TimeToExpiration", "Decimal32NULL", 167), F("RiskFreeRate", "Decimal32NULL", 172),
    F("SecurityID", "Int32", 177), F("LastQty", "uInt32", 181), F("CumQty", "uInt32", 185),
    F("SideTradeID", "uInt32", 189), F("TradeDate", "LocalMktDate", 193),
    F("OrdStatus", "OrdStatusTrd", 195), F("ExecType", "ExecTypeTrade", Absent),
    F("OrdType", "OrderType", 196), F("Side", "SideReq", 197),
    F("PossRetransFlag", "BooleanFlag", 198)>>, FALSE)

SecurityDefinitionResponse == M("SecurityDefinitionResponse", 561, 429, <<
    F("SeqNum", "uInt32", 0), F("UUID", "uInt64", 4), F("Text", "String256", 12),
    F("FinancialInstrumentFullName", "StringLength35", 268),
    F("SenderID", "String20Req", 303), F("Symbol", "String20", 323),
    F("PartyDetailsListReqID", "uInt64", 343), F("SecurityReqID", "uInt64", 351),
    F("SecurityResponseID", "uInt64", 359), F("SendingTimeEpoch", "uInt64", 367),
    F("SecurityGroup", "StringLength6", 375), F("SecurityType", "StringLength6", 381),
    F("Location", "String5Req", 387), F("SecurityID", "Int32NULL", 392),
    F("Currency", "String3", 396), F("SecurityIDSource", "SecurityIDSource", Absent),
    F("MaturityMonthYear", "MaturityMonthYear", 399),
    F("DelayDuration", "uInt16NULL", 404), F("StartDate", "LocalMktDate", 406),
    F("EndDate", "LocalMktDate", 408), F("MaxNoOfSubstitutions", "uInt8NULL", 410),
    F("SourceRepoID", "Int32NULL", 411), F("TerminationType", "String8", 415),
    F("SecurityResponseType", "SecRspTyp", 423), F("UserDefinedInstrument", "UDI", Absent),
    F("ExpirationCycle", "ExpCycle", 424),
    F("ManualOrderIndicator", "ManualOrdIndReq", 425), F("SplitMsg", "SplitMsg", 426),
    F("AutoQuoteRequest", "BooleanFlag", 427), F("PossRetransFlag", "BooleanFlag", 428)>>, FALSE)

RealSchema == [id |-> <<8>>, version |-> <<5>>, types |-> SchemaTypes, enums |-> SchemaEnums,
               messages |-> <<Negotiate, Sequence, ExecutionReportTradeSpreadLeg,
                              SecurityDefinitionResponse>>]

\* Types: three good ones with and without a null value; one of each defect;
\* a name that comes back with another definition.
GoodTypes == <<T("S", "char", 3, Absent), T("C", "char", Absent, 0), T("B", "uint8", Absent, 255),
               T("I", "int32", Absent, Absent)>>
OddTypes == <<T(Absent, "char", 1, Absent), T("I", Absent, Absent, Absent),
              T("I", "int8", Absent, Absent), T("S", "char", Bad, Bad),
              T("B", "uint8", 1, 255)>>
RepeatedTypes == GoodTypes \o <<T("S", "uint64", Absent, Absent), T("B", "uint16", Absent, Absent)>>

\* Enums: good ones on each kind of encoding; one of each defect; the name of
\* a type; a name that comes back; a value without text.
GoodEnums == <<E("EB", "B", <<V("On", "1")>>), E("EC", "C", <<V("Buy", "1"), V("Sell", "2")>>),
               E("EI", "I", <<>>)>>
OddEnums == <<E(Absent, "B", <<>>), E("EC", Absent, <<>>), E("EC", "Nowhere", <<V("On", Absent)>>),
              E("EB", "B", <<V(Absent, Absent), V("On", "1")>>)>>
RepeatedEnums == <<E("EB", "B", <<V("On", "1")>>), E("EB", "I", <<>>), E("S", "B", <<>>)>>
TornEnums == <<E("EB", "B", <<V("On", Absent)>>)>>

\* Messages: sound ones with fields of every kind; fields with each defect;
\* messages with each defect; ids that are the same to a MsgId.
GoodFields == <<F("a", "B", 0), F("b", "S", 1), F("c", "EB", 4), F("d", "I", Absent),
                F("e", "PRICE9", 5), F("f", "ExecInst", 13), F("g", "EC", 14)>>
OddFields == <<F("a", "B", 0), F(Absent, "B", 1), F("c", Absent, 1), F("d", "Nowhere", 1),
               F("e", "B", Bad), F("f", "I", 1), F("g", "groupSizeEncoding", Absent)>>
GoodMessages == <<M("Good", 1, 15, GoodFields, TRUE), M("Empty", 2, 0, <<>>, FALSE)>>
OddMessages == <<M("Good", 1, 5, OddFields, FALSE), M(Absent, 2, 0, <<>>, FALSE),
                 M("None", Absent, 0, <<>>, FALSE), M("Nan", Bad, 0, <<>>, FALSE),
                 M("Bad", 2, Bad, GoodFields, TRUE), M("Free", 2, Absent, <<F("a", "B", 0)>>, FALSE)>>
RepeatedMessages == <<M("First", 1, 1, <<F("a", "B", 0)>>, FALSE), M("Good", 2, 15, GoodFields, FALSE),
                      M("Last", 1 + MsgIdRange, 3, <<F("a", "S", 0)>>, TRUE)>>

SmallSchemas ==
    {[id |-> <<8>>, version |-> v, types |-> ts, enums |-> es, messages |-> ms] :
        v \in {<<5>>, Absent},
        ts \in {<<>>, GoodTypes, OddTypes, RepeatedTypes},
        es \in {GoodEnums, OddEnums, RepeatedEnums, TornEnums},
        ms \in {<<>>, GoodMessages, OddMessages, RepeatedMessages}}

AllSchemas == SmallSchemas \cup {RealSchema, NoSchema}
OnlyTheRealSchema == {RealSchema}
=============================================================================
