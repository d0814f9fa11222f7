---------------------------- MODULE ILink3MsgsGen ----------------------------
(***************************************************************************)
(* The message classes of the sample the repository keeps of the           *)
(* generator's output.  For each message an In class, with the packed      *)
(* struct BlockData and a getter for each of its members, and an Out class *)
(* with a setter for each, in the same order.  A member with a Null has it *)
(* as its initialiser; the others start with what the memory holds.  The   *)
(* setters of character arrays do nothing.                                 *)
(***************************************************************************)
EXTENDS ILink3EnumsGen, Sequences, SequencesExt

\* A member of BlockData: its size, whether it has a Null, whether its setter stores.
Member(name, bytes, optional, stores) ==
    [name |-> name, bytes |-> bytes, optional |-> optional, stores |-> stores]

Chars(name, length) == Member(name, length, FALSE, FALSE)
NullChars(name, length) == Member(name, length, TRUE, FALSE)
U8(name)  == Member(name, 1, FALSE, TRUE)
U16(name) == Member(name, 2, FALSE, TRUE)
U32(name) == Member(name, 4, FALSE, TRUE)
U64(name) == Member(name, 8, FALSE, TRUE)
I32(name) == Member(name, 4, FALSE, TRUE)
NullU8(name)  == Member(name, 1, TRUE, TRUE)
NullU16(name) == Member(name, 2, TRUE, TRUE)
NullU32(name) == Member(name, 4, TRUE, TRUE)
NullU64(name) == Member(name, 8, TRUE, TRUE)
NullI32(name) == Member(name, 4, TRUE, TRUE)
Enum(name, class) == Member(name, class.bytes, class.nulls # {}, TRUE)

BytesOf(members) == FoldLeft(LAMBDA sum, m : sum + m.bytes, 0, members)

\* An In class.  The struct is packed: a member starts where the one before it ends,
\* and the block is as long as all of them.
InClass(id, members, data) ==
    [id |-> id, members |-> members, data |-> data,
     at |-> [i \in 1..Len(members) |-> BytesOf(SubSeq(members, 1, i - 1))],
     size |-> BytesOf(members)]
Message(id, members)         == InClass(id, members, FALSE)
MessageWithData(id, members) == InClass(id, members, TRUE)

\* An Out class: its In class and the blockLength the schema has for the message.
Out(in, blockLength) == [in |-> in, blockLength |-> blockLength]

-----------------------------------------------------------------------------
NegotiateMsg == MessageWithData(500, <<
    Chars("HMACSignature", 32), Chars("AccessKeyID", 20), U64("UUID"),
    U64("RequestTimestamp"), Chars("Session", 3), Chars("Firm", 5)>>)
NegotiateMsgOut == Out(NegotiateMsg, 76)

NegotiationResponseMsg == MessageWithData(501, <<
    U64("UUID"), U64("RequestTimestamp"), NullU16("SecretKeySecureIDExpiration"),
    Enum("FaultToleranceIndicator", FTI), Enum("SplitMsg", SplitMsg),
    U32("PreviousSeqNo"), U64("PreviousUUID")>>)
NegotiationResponseMsgOut == Out(NegotiationResponseMsg, 32)

NegotiationRejectMsg == Message(502, <<
    Chars("Reason", 48), U64("UUID"), U64("RequestTimestamp"), U16("ErrorCodes"),
    Enum("FaultToleranceIndicator", FTI), Enum("SplitMsg", SplitMsg)>>)
NegotiationRejectMsgOut == Out(NegotiationRejectMsg, 68)

EstablishMsg == MessageWithData(503, <<
    Chars("HMACSignature", 32), Chars("AccessKeyID", 20),
    Chars("TradingSystemName", 30), Chars("TradingSystemVersion", 10),
    Chars("TradingSystemVendor", 10), U64("UUID"), U64("RequestTimestamp"),
    U32("NextSeqNo"), Chars("Session", 3), Chars("Firm", 5),
    U16("KeepAliveInterval")>>)
EstablishMsgOut == Out(EstablishMsg, 132)

EstablishmentAckMsg == Message(504, <<
    U64("UUID"), U64("RequestTimestamp"), U32("NextSeqNo"), U32("PreviousSeqNo"),
    U64("PreviousUUID"), U16("KeepAliveInterval"),
    NullU16("SecretKeySecureIDExpiration"), Enum("FaultToleranceIndicator", FTI),
    Enum("SplitMsg", SplitMsg)>>)
EstablishmentAckMsgOut == Out(EstablishmentAckMsg, 38)

EstablishmentRejectMsg == Message(505, <<
    Chars("Reason", 48), U64("UUID"), U64("RequestTimestamp"), U32("NextSeqNo"),
    U16("ErrorCodes"), Enum("FaultToleranceIndicator", FTI),
    Enum("SplitMsg", SplitMsg)>>)
EstablishmentRejectMsgOut == Out(EstablishmentRejectMsg, 72)

SequenceMsg == Message(506, <<
    U64("UUID"), U32("NextSeqNo"), Enum("FaultToleranceIndicator", FTI),
    Enum("KeepAliveIntervalLapsed", KeepAliveLapsed)>>)
SequenceMsgOut == Out(SequenceMsg, 14)

TerminateMsg == Message(507, <<
    Chars("Reason", 48), U64("UUID"), U64("RequestTimestamp"), U16("ErrorCodes"),
    Enum("SplitMsg", SplitMsg)>>)
TerminateMsgOut == Out(TerminateMsg, 67)

RetransmitRequestMsg == Message(508, <<
    U64("UUID"), NullU64("LastUUID"), U64("RequestTimestamp"), U32("FromSeqNo"),
    U16("MsgCount")>>)
RetransmitRequestMsgOut == Out(RetransmitRequestMsg, 30)

RetransmissionMsg == Message(509, <<
    U64("UUID"), NullU64("LastUUID"), U64("RequestTimestamp"), U32("FromSeqNo"),
    U16("MsgCount"), Enum("SplitMsg", SplitMsg)>>)
RetransmissionMsgOut == Out(RetransmissionMsg, 31)

RetransmitRejectMsg == Message(510, <<
    Chars("Reason", 48), U64("UUID"), NullU64("LastUUID"), U64("RequestTimestamp"),
    U16("ErrorCodes"), Enum("SplitMsg", SplitMsg)>>)
RetransmitRejectMsgOut == Out(RetransmitRejectMsg, 75)

NotAppliedMsg == Message(513, <<
    U64("UUID"), U32("FromSeqNo"), U32("MsgCount"), Enum("SplitMsg", SplitMsg)>>)
NotAppliedMsgOut == Out(NotAppliedMsg, 17)

NewOrderSingleMsg == Message(514, <<
    U32("OrderQty"), I32("SecurityID"), Enum("Side", SideReq), U32("SeqNum"),
    Chars("SenderID", 20), Chars("ClOrdID", 20), U64("PartyDetailsListReqID"),
    U64("OrderRequestID"), U64("SendingTimeEpoch"), Chars("Location", 5),
    NullU32("MinQty"), NullU32("DisplayQty"), NullU16("ExpireDate"),
    Enum("OrdType", OrderTypeReq), Enum("TimeInForce", TimeInForce),
    Enum("ManualOrderIndicator", ManualOrdIndReq), Enum("ExecutionMode", ExecMode),
    Enum("LiquidityFlag", BooleanNULL), Enum("ManagedOrder", BooleanNULL),
    Enum("ShortSaleType", ShortSaleType)>>)
NewOrderSingleMsgOut == Out(NewOrderSingleMsg, 116)

OrderCancelReplaceRequestMsg == Message(515, <<
    U32("OrderQty"), I32("SecurityID"), Enum("Side", SideReq), U32("SeqNum"),
    Chars("SenderID", 20), Chars("ClOrdID", 20), U64("PartyDetailsListReqID"),
    U64("OrderID"), U64("OrderRequestID"), U64("SendingTimeEpoch"),
    Chars("Location", 5), NullU32("MinQty"), NullU32("DisplayQty"),
    NullU16("ExpireDate"), Enum("OrdType", OrderTypeReq),
    Enum("TimeInForce", TimeInForce), Enum("ManualOrderIndicator", ManualOrdIndReq),
    Enum("OFMOverride", OFMOverrideReq), Enum("ExecutionMode", ExecMode),
    Enum("LiquidityFlag", BooleanNULL), Enum("ManagedOrder", BooleanNULL),
    Enum("ShortSaleType", ShortSaleType)>>)
OrderCancelReplaceRequestMsgOut == Out(OrderCancelReplaceRequestMsg, 125)

OrderCancelRequestMsg == Message(516, <<
    U64("OrderID"), U64("PartyDetailsListReqID"),
    Enum("ManualOrderIndicator", ManualOrdIndReq), U32("SeqNum"),
    Chars("SenderID", 20), Chars("ClOrdID", 20), U64("OrderRequestID"),
    U64("SendingTimeEpoch"), Chars("Location", 5), I32("SecurityID"),
    Enum("Side", SideReq), Enum("LiquidityFlag", BooleanNULL)>>)
OrderCancelRequestMsgOut == Out(OrderCancelRequestMsg, 88)

MassQuoteMsg == Message(517, <<
    U64("PartyDetailsListReqID"), U64("SendingTimeEpoch"),
    Enum("ManualOrderIndicator", ManualOrdIndReq), U32("SeqNum"),
    Chars("SenderID", 20), NullU64("QuoteReqID"), Chars("Location", 5),
    U32("QuoteID"), U8("TotNoQuoteEntries"), Enum("MMProtectionReset", BooleanFlag),
    Enum("LiquidityFlag", BooleanNULL), Enum("ShortSaleType", ShortSaleType),
    Chars("Reserved", 30)>>)
MassQuoteMsgOut == Out(MassQuoteMsg, 92)

PartyDetailsDefinitionRequestMsg == Message(518, <<
    U64("PartyDetailsListReqID"), U64("SendingTimeEpoch"),
    Enum("ListUpdateAction", ListUpdAct), U32("SeqNum"), Chars("Memo", 75),
    Chars("AvgPxGroupID", 20), NullU64("SelfMatchPreventionID"),
    Enum("CmtaGiveupCD", CmtaGiveUpCD),
    Enum("CustOrderCapacity", CustOrderCapacity),
    Enum("ClearingAccountType", ClearingAcctType),
    Enum("SelfMatchPreventionInstruction", SMPI), Enum("AvgPxIndicator", AvgPxInd),
    Enum("ClearingTradePriceType", SLEDS),
    Enum("CustOrderHandlingInst", CustOrdHandlInst), NullU64("Executor"),
    NullU64("IDMShortCode")>>)
PartyDetailsDefinitionRequestMsgOut == Out(PartyDetailsDefinitionRequestMsg, 147)

PartyDetailsDefinitionRequestAckMsg == Message(519, <<
    U32("SeqNum"), U64("UUID"), Chars("Memo", 75), Chars("AvgPxGroupID", 20),
    U64("PartyDetailsListReqID"), U64("SendingTimeEpoch"),
    NullU64("SelfMatchPreventionID"), U8("PartyDetailRequestStatus"),
    Enum("CustOrderCapacity", CustOrderCapacity),
    Enum("ClearingAccountType", ClearingAcctType),
    Enum("SelfMatchPreventionInstruction", SMPI), Enum("AvgPxIndicator", AvgPxInd),
    Enum("ClearingTradePriceType", SLEDS), Enum("CmtaGiveupCD", CmtaGiveUpCD),
    Enum("CustOrderHandlingInst", CustOrdHandlInst),
    Enum("ListUpdateAction", ListUpdAct), U8("PartyDetailDefinitionStatus"),
    NullU64("Executor"), NullU64("IDMShortCode"),
    Enum("PossRetransFlag", BooleanFlag), Enum("SplitMsg", SplitMsg)>>)
PartyDetailsDefinitionRequestAckMsgOut == Out(PartyDetailsDefinitionRequestAckMsg, 159)

BusinessRejectMsg == Message(521, <<
    U32("SeqNum"), U64("UUID"), Chars("Text", 256), Chars("SenderID", 20),
    NullU64("PartyDetailsListReqID"), U64("SendingTimeEpoch"),
    NullU64("BusinessRejectRefID"), Chars("Location", 5), NullU32("RefSeqNum"),
    NullU16("RefTagID"), U16("BusinessRejectReason"), Chars("RefMsgType", 2),
    Enum("PossRetransFlag", BooleanFlag),
    Enum("ManualOrderIndicator", ManualOrdInd), Enum("SplitMsg", SplitMsg)>>)
BusinessRejectMsgOut == Out(BusinessRejectMsg, 330)

ExecutionReportNewMsg == Message(522, <<
    U32("SeqNum"), U64("UUID"), Chars("ExecID", 40), Chars("SenderID", 20),
    Chars("ClOrdID", 20), U64("PartyDetailsListReqID"), U64("OrderID"),
    U64("TransactTime"), U64("SendingTimeEpoch"), U64("OrderRequestID"),
    NullU64("CrossID"), NullU64("HostCrossID"), Chars("Location", 5),
    I32("SecurityID"), U32("OrderQty"), NullU32("MinQty"), NullU32("DisplayQty"),
    NullU16("ExpireDate"), NullU16("DelayDuration"), Enum("OrdType", OrderType),
    Enum("Side", SideReq), Enum("TimeInForce", TimeInForce),
    Enum("ManualOrderIndicator", ManualOrdIndReq),
    Enum("PossRetransFlag", BooleanFlag), Enum("SplitMsg", SplitMsg),
    NullU8("CrossType"), Enum("ExecutionMode", ExecMode),
    Enum("LiquidityFlag", BooleanNULL), Enum("ManagedOrder", BooleanNULL),
    Enum("ShortSaleType", ShortSaleType), NullU64("DelayToTime")>>)
ExecutionReportNewMsgOut == Out(ExecutionReportNewMsg, 209)

ExecutionReportRejectMsg == Message(523, <<
    U32("SeqNum"), U64("UUID"), Chars("Text", 256), Chars("ExecID", 40),
    Chars("SenderID", 20), Chars("ClOrdID", 20), U64("PartyDetailsListReqID"),
    U64("OrderID"), U64("TransactTime"), U64("SendingTimeEpoch"),
    U64("OrderRequestID"), NullU64("CrossID"), NullU64("HostCrossID"),
    Chars("Location", 5), I32("SecurityID"), U32("OrderQty"), NullU32("MinQty"),
    NullU32("DisplayQty"), U16("OrdRejReason"), NullU16("ExpireDate"),
    NullU16("DelayDuration"), Enum("OrdType", OrderType), Enum("Side", SideReq),
    Enum("TimeInForce", TimeInForce), Enum("ManualOrderIndicator", ManualOrdIndReq),
    Enum("PossRetransFlag", BooleanFlag), Enum("SplitMsg", SplitMsg),
    NullU8("CrossType"), Enum("ExecutionMode", ExecMode),
    Enum("LiquidityFlag", BooleanNULL), Enum("ManagedOrder", BooleanNULL),
    Enum("ShortSaleType", ShortSaleType), NullU64("DelayToTime")>>)
ExecutionReportRejectMsgOut == Out(ExecutionReportRejectMsg, 467)

ExecutionReportEliminationMsg == Message(524, <<
    U32("SeqNum"), U64("UUID"), Chars("ExecID", 40), Chars("SenderID", 20),
    Chars("ClOrdID", 20), U64("PartyDetailsListReqID"), U64("OrderID"),
    U64("TransactTime"), U64("SendingTimeEpoch"), U64("OrderRequestID"),
    NullU64("CrossID"), NullU64("HostCrossID"), Chars("Location", 5),
    I32("SecurityID"), U32("CumQty"), U32("OrderQty"), NullU32("MinQty"),
    NullU32("DisplayQty"), NullU16("ExpireDate"), Enum("OrdType", OrderType),
    Enum("Side", SideReq), Enum("TimeInForce", TimeInForce),
    Enum("ManualOrderIndicator", ManualOrdIndReq),
    Enum("PossRetransFlag", BooleanFlag), NullU8("CrossType"),
    Enum("ExecutionMode", ExecMode), Enum("LiquidityFlag", BooleanNULL),
    Enum("ManagedOrder", BooleanNULL), Enum("ShortSaleType", ShortSaleType)>>)
ExecutionReportEliminationMsgOut == Out(ExecutionReportEliminationMsg, 202)

ExecutionReportTradeOutrightMsg == Message(525, <<
    U32("SeqNum"), U64("UUID"), Chars("ExecID", 40), Chars("SenderID", 20),
    Chars("ClOrdID", 20), U64("PartyDetailsListReqID"), U64("OrderID"),
    U64("TransactTime"), U64("SendingTimeEpoch"), U64("OrderRequestID"),
    U64("SecExecID"), NullU64("CrossID"), NullU64("HostCrossID"),
    Chars("Location", 5), I32("SecurityID"), U32("OrderQty"), U32("LastQty"),
    U32("CumQty"), U32("MDTradeEntryID"), U32("SideTradeID"),
    NullU32("TradeLinkID"), U32("LeavesQty"), NullU16("TradeDate"),
    NullU16("ExpireDate"), Enum("OrdStatus", OrdStatusTrd),
    Enum("OrdType", OrderType), Enum("Side", SideReq),
    Enum("TimeInForce", TimeInForce), Enum("ManualOrderIndicator", ManualOrdIndReq),
    Enum("PossRetransFlag", BooleanFlag), Enum("AggressorIndicator", BooleanFlag),
    NullU8("CrossType"), Enum("ExecutionMode", ExecMode),
    Enum("LiquidityFlag", BooleanNULL), Enum("ManagedOrder", BooleanNULL),
    Enum("ShortSaleType", ShortSaleType), U8("Ownership")>>)
ExecutionReportTradeOutrightMsgOut == Out(ExecutionReportTradeOutrightMsg, 235)

ExecutionReportTradeSpreadMsg == Message(526, <<
    U32("SeqNum"), U64("UUID"), Chars("ExecID", 40), Chars("SenderID", 20),
    Chars("ClOrdID", 20), U64("PartyDetailsListReqID"), U64("OrderID"),
    U64("TransactTime"), U64("SendingTimeEpoch"), U64("OrderRequestID"),
    U64("SecExecID"), NullU64("CrossID"), NullU64("HostCrossID"),
    Chars("Location", 5), I32("SecurityID"), U32("OrderQty"), U32("LastQty"),
    U32("CumQty"), U32("MDTradeEntryID"), U32("SideTradeID"), U32("LeavesQty"),
    NullU16("TradeDate"), NullU16("ExpireDate"), Enum("OrdStatus", OrdStatusTrd),
    Enum("OrdType", OrderType), Enum("Side", SideReq),
    Enum("TimeInForce", TimeInForce), Enum("ManualOrderIndicator", ManualOrdIndReq),
    Enum("PossRetransFlag", BooleanFlag), Enum("AggressorIndicator", BooleanFlag),
    NullU8("CrossType"), U8("TotalNumSecurities"), Enum("ExecutionMode", ExecMode),
    Enum("LiquidityFlag", BooleanNULL), Enum("ShortSaleType", ShortSaleType)>>)
ExecutionReportTradeSpreadMsgOut == Out(ExecutionReportTradeSpreadMsg, 230)

ExecutionReportTradeSpreadLegMsg == Message(527, <<
    U32("SeqNum"), U64("UUID"), Chars("ExecID", 40), Chars("SenderID", 20),
    Chars("ClOrdID", 20), U64("PartyDetailsListReqID"), U64("OrderID"),
    U64("TransactTime"), U64("SendingTimeEpoch"), U64("SecExecID"),
    Chars("Location", 5), I32("SecurityID"), U32("LastQty"), U32("CumQty"),
    U32("SideTradeID"), NullU16("TradeDate"), Enum("OrdStatus", OrdStatusTrd),
    Enum("OrdType", OrderType), Enum("Side", SideReq),
    Enum("PossRetransFlag", BooleanFlag)>>)
ExecutionReportTradeSpreadLegMsgOut == Out(ExecutionReportTradeSpreadLegMsg, 199)

QuoteCancelMsg == Message(528, <<
    U64("PartyDetailsListReqID"), U64("SendingTimeEpoch"),
    Enum("ManualOrderIndicator", ManualOrdIndReq), U32("SeqNum"),
    Chars("SenderID", 20), Chars("Location", 5), U32("QuoteID"),
    Enum("QuoteCancelType", QuoteCxlTyp), Enum("LiquidityFlag", BooleanNULL)>>)
QuoteCancelMsgOut == Out(QuoteCancelMsg, 52)

OrderMassActionRequestMsg == Message(529, <<
    U64("PartyDetailsListReqID"), U64("OrderRequestID"),
    Enum("ManualOrderIndicator", ManualOrdIndReq), U32("SeqNum"),
    Chars("SenderID", 20), U64("SendingTimeEpoch"), Chars("SecurityGroup", 6),
    Chars("Location", 5), NullI32("SecurityID"),
    Enum("MassActionScope", MassActionScope), NullU8("MarketSegmentID"),
    Enum("MassCancelRequestType", MassCxlReqTyp), Enum("Side", SideNULL),
    Enum("OrdType", MassActionOrdTyp), Enum("TimeInForce", MassCancelTIF),
    Enum("LiquidityFlag", BooleanNULL)>>)
OrderMassActionRequestMsgOut == Out(OrderMassActionRequestMsg, 71)

OrderMassStatusRequestMsg == Message(530, <<
    U64("PartyDetailsListReqID"), U64("MassStatusReqID"),
    Enum("ManualOrderIndicator", ManualOrdIndReq), U32("SeqNum"),
    Chars("SenderID", 20), U64("SendingTimeEpoch"), Chars("SecurityGroup", 6),
    Chars("Location", 5), NullI32("SecurityID"),
    Enum("MassStatusReqType", MassStatusReqTyp),
    Enum("OrdStatusReqType", MassStatusOrdTyp), Enum("TimeInForce", MassStatusTIF),
    NullU8("MarketSegmentID")>>)
OrderMassStatusRequestMsgOut == Out(OrderMassStatusRequestMsg, 68)

ExecutionReportModifyMsg == Message(531, <<
    U32("SeqNum"), U64("UUID"), Chars("ExecID", 40), Chars("SenderID", 20),
    Chars("ClOrdID", 20), U64("PartyDetailsListReqID"), U64("OrderID"),
    U64("TransactTime"), U64("SendingTimeEpoch"), U64("OrderRequestID"),
    NullU64("CrossID"), NullU64("HostCrossID"), Chars("Location", 5),
    I32("SecurityID"), U32("OrderQty"), U32("CumQty"), U32("LeavesQty"),
    NullU32("MinQty"), NullU32("DisplayQty"), NullU16("ExpireDate"),
    NullU16("DelayDuration"), Enum("OrdType", OrderType), Enum("Side", SideReq),
    Enum("TimeInForce", TimeInForce), Enum("ManualOrderIndicator", ManualOrdIndReq),
    Enum("PossRetransFlag", BooleanFlag), Enum("SplitMsg", SplitMsg),
    NullU8("CrossType"), Enum("ExecutionMode", ExecMode),
    Enum("LiquidityFlag", BooleanNULL), Enum("ManagedOrder", BooleanNULL),
    Enum("ShortSaleType", ShortSaleType), NullU64("DelayToTime")>>)
ExecutionReportModifyMsgOut == Out(ExecutionReportModifyMsg, 217)

ExecutionReportStatusMsg == Message(532, <<
    U32("SeqNum"), U64("UUID"), Chars("Text", 256), Chars("ExecID", 40),
    Chars("SenderID", 20), Chars("ClOrdID", 20), U64("PartyDetailsListReqID"),
    U64("OrderID"), U64("TransactTime"), U64("SendingTimeEpoch"),
    U64("OrderRequestID"), NullU64("OrdStatusReqID"), NullU64("MassStatusReqID"),
    NullU64("CrossID"), NullU64("HostCrossID"), Chars("Location", 5),
    I32("SecurityID"), U32("OrderQty"), U32("CumQty"), U32("LeavesQty"),
    NullU32("MinQty"), NullU32("DisplayQty"), NullU16("ExpireDate"),
    Enum("OrdStatus", OrderStatus), Enum("OrdType", OrderType),
    Enum("Side", SideReq), Enum("TimeInForce", TimeInForce),
    Enum("ManualOrderIndicator", ManualOrdIndReq),
    Enum("PossRetransFlag", BooleanFlag), Enum("LastRptRequested", BooleanNULL),
    NullU8("CrossType"), Enum("ExecutionMode", ExecMode),
    Enum("LiquidityFlag", BooleanNULL), Enum("ManagedOrder", BooleanNULL),
    Enum("ShortSaleType", ShortSaleType)>>)
ExecutionReportStatusMsgOut == Out(ExecutionReportStatusMsg, 480)

OrderStatusRequestMsg == Message(533, <<
    U64("PartyDetailsListReqID"), U64("OrdStatusReqID"),
    Enum("ManualOrderIndicator", ManualOrdIndReq), U32("SeqNum"),
    Chars("SenderID", 20), U64("OrderID"), U64("SendingTimeEpoch"),
    Chars("Location", 5)>>)
OrderStatusRequestMsgOut == Out(OrderStatusRequestMsg, 62)

ExecutionReportCancelMsg == Message(534, <<
    U32("SeqNum"), U64("UUID"), Chars("ExecID", 40), Chars("SenderID", 20),
    Chars("ClOrdID", 20), U64("PartyDetailsListReqID"), U64("OrderID"),
    U64("TransactTime"), U64("SendingTimeEpoch"), U64("OrderRequestID"),
    NullU64("CrossID"), NullU64("HostCrossID"), Chars("Location", 5),
    I32("SecurityID"), U32("OrderQty"), U32("CumQty"), NullU32("MinQty"),
    NullU32("DisplayQty"), NullU16("ExpireDate"), NullU16("DelayDuration"),
    Enum("OrdType", OrderType), Enum("Side", SideReq),
    Enum("TimeInForce", TimeInForce), Enum("ManualOrderIndicator", ManualOrdIndReq),
    Enum("PossRetransFlag", BooleanFlag), Enum("SplitMsg", SplitMsg),
    Enum("ExecRestatementReason", ExecReason), NullU8("CrossType"),
    Enum("ExecutionMode", ExecMode), Enum("LiquidityFlag", BooleanNULL),
    Enum("ManagedOrder", BooleanNULL), Enum("ShortSaleType", ShortSaleType),
    NullU64("DelayToTime")>>)
ExecutionReportCancelMsgOut == Out(ExecutionReportCancelMsg, 214)

OrderCancelRejectMsg == Message(535, <<
    U32("SeqNum"), U64("UUID"), Chars("Text", 256), Chars("ExecID", 40),
    Chars("SenderID", 20), Chars("ClOrdID", 20), U64("PartyDetailsListReqID"),
    U64("OrderID"), U64("TransactTime"), U64("SendingTimeEpoch"),
    U64("OrderRequestID"), Chars("Location", 5), U16("CxlRejReason"),
    NullU16("DelayDuration"), Enum("ManualOrderIndicator", ManualOrdIndReq),
    Enum("PossRetransFlag", BooleanFlag), Enum("SplitMsg", SplitMsg),
    Enum("LiquidityFlag", BooleanNULL), NullU64("DelayToTime")>>)
OrderCancelRejectMsgOut == Out(OrderCancelRejectMsg, 409)

OrderCancelReplaceRejectMsg == Message(536, <<
    U32("SeqNum"), U64("UUID"), Chars("Text", 256), Chars("ExecID", 40),
    Chars("SenderID", 20), Chars("ClOrdID", 20), U64("PartyDetailsListReqID"),
    U64("OrderID"), U64("TransactTime"), U64("SendingTimeEpoch"),
    U64("OrderRequestID"), Chars("Location", 5), U16("CxlRejReason"),
    NullU16("DelayDuration"), Enum("ManualOrderIndicator", ManualOrdIndReq),
    Enum("PossRetransFlag", BooleanFlag), Enum("SplitMsg", SplitMsg),
    Enum("LiquidityFlag", BooleanNULL), NullU64("DelayToTime")>>)
OrderCancelReplaceRejectMsgOut == Out(OrderCancelReplaceRejectMsg, 409)

PartyDetailsListRequestMsg == Message(537, <<
    U64("PartyDetailsListReqID"), U64("SendingTimeEpoch"), U32("SeqNum")>>)
PartyDetailsListRequestMsgOut == Out(PartyDetailsListRequestMsg, 20)

PartyDetailsListReportMsg == Message(538, <<
    U32("SeqNum"), U64("UUID"), Chars("AvgPxGroupID", 20),
    U64("PartyDetailsListReqID"), U64("PartyDetailsListReportID"),
    U64("SendingTimeEpoch"), NullU64("SelfMatchPreventionID"), U16("TotNumParties"),
    Enum("RequestResult", ReqResult), Enum("LastFragment", BooleanFlag),
    Enum("CustOrderCapacity", CustOrderCapacity),
    Enum("ClearingAccountType", ClearingAcctType),
    Enum("SelfMatchPreventionInstruction", SMPI), Enum("AvgPxIndicator", AvgPxInd),
    Enum("ClearingTradePriceType", SLEDS), Enum("CmtaGiveupCD", CmtaGiveUpCD),
    Enum("CustOrderHandlingInst", CustOrdHandlInst), NullU64("Executor"),
    NullU64("IDMShortCode"), Enum("PossRetransFlag", BooleanFlag),
    Enum("SplitMsg", SplitMsg)>>)
PartyDetailsListReportMsgOut == Out(PartyDetailsListReportMsg, 93)

ExecutionAckMsg == Message(539, <<
    U64("PartyDetailsListReqID"), U64("OrderID"),
    Enum("ExecAckStatus", ExecAckStatus), U32("SeqNum"), Chars("ClOrdID", 20),
    U64("SecExecID"), I32("SecurityID"), U32("LastQty"), Enum("DKReason", DKReason),
    Enum("Side", SideReq), Chars("SenderID", 20), U64("SendingTimeEpoch"),
    Chars("Location", 5), Enum("ManualOrderIndicator", ManualOrdIndReq)>>)
ExecutionAckMsgOut == Out(ExecutionAckMsg, 101)

RequestForQuoteMsg == Message(543, <<
    U64("PartyDetailsListReqID"), U64("QuoteReqID"),
    Enum("ManualOrderIndicator", ManualOrdIndReq), U32("SeqNum"),
    Chars("SenderID", 20), U64("SendingTimeEpoch"), Chars("Location", 5),
    Enum("QuoteType", QuoteTyp)>>)
RequestForQuoteMsgOut == Out(RequestForQuoteMsg, 55)

NewOrderCrossMsg == Message(544, <<
    U64("CrossID"), U64("OrderRequestID"),
    Enum("ManualOrderIndicator", ManualOrdIndReq), U32("SeqNum"),
    Chars("SenderID", 20), U64("TransBkdTime"), U64("SendingTimeEpoch"),
    Chars("Location", 5), I32("SecurityID")>>)
NewOrderCrossMsgOut == Out(NewOrderCrossMsg, 74)

MassQuoteAckMsg == Message(545, <<
    U32("SeqNum"), U64("UUID"), Chars("Text", 256), Chars("SenderID", 20),
    U64("PartyDetailsListReqID"), U64("RequestTime"), U64("SendingTimeEpoch"),
    NullU64("QuoteReqID"), Chars("Location", 5), U32("QuoteID"),
    NullU16("QuoteRejectReason"), NullU16("DelayDuration"),
    Enum("QuoteStatus", QuoteAckStatus),
    Enum("ManualOrderIndicator", ManualOrdIndReq), U8("NoProcessedEntries"),
    Enum("MMProtectionReset", BooleanFlag), Enum("SplitMsg", SplitMsg),
    Enum("LiquidityFlag", BooleanNULL), Enum("ShortSaleType", ShortSaleType),
    NullU8("TotNoQuoteEntries"), Enum("PossRetransFlag", BooleanFlag),
    NullU64("DelayToTime")>>)
MassQuoteAckMsgOut == Out(MassQuoteAckMsg, 350)

RequestForQuoteAckMsg == Message(546, <<
    U32("SeqNum"), U64("UUID"), Chars("Text", 256), Chars("SenderID", 20),
    Chars("ExchangeQuoteReqID", 17), U64("PartyDetailsListReqID"),
    U64("RequestTime"), U64("SendingTimeEpoch"), U64("QuoteReqID"),
    Chars("Location", 5), NullU16("QuoteRejectReason"), NullU16("DelayDuration"),
    Enum("QuoteStatus", QuoteAckStatus),
    Enum("ManualOrderIndicator", ManualOrdIndReq), Enum("SplitMsg", SplitMsg),
    Enum("PossRetransFlag", BooleanFlag), NullU64("DelayToTime")>>)
RequestForQuoteAckMsgOut == Out(RequestForQuoteAckMsg, 358)

ExecutionReportTradeAddendumOutrightMsg == Message(548, <<
    U32("SeqNum"), U64("UUID"), Chars("ExecID", 40), Chars("SenderID", 20),
    Chars("ClOrdID", 20), U64("PartyDetailsListReqID"), U64("OrderID"),
    U64("TransactTime"), U64("SendingTimeEpoch"), U64("SecExecID"),
    NullU64("OrigSecondaryExecutionID"), Chars("Location", 5), I32("SecurityID"),
    U32("LastQty"), U32("SideTradeID"), NullU32("OrigSideTradeID"),
    NullU16("TradeDate"), Enum("OrdStatus", OrdStatusTrdCxl),
    Enum("ExecType", ExecTypTrdCxl), Enum("Side", SideReq),
    Enum("ManualOrderIndicator", ManualOrdIndReq),
    Enum("PossRetransFlag", BooleanFlag), Enum("ExecutionMode", ExecMode),
    Enum("LiquidityFlag", BooleanNULL), Enum("ManagedOrder", BooleanNULL),
    Enum("ShortSaleType", ShortSaleType)>>)
ExecutionReportTradeAddendumOutrightMsgOut == Out(ExecutionReportTradeAddendumOutrightMsg, 181)

ExecutionReportTradeAddendumSpreadMsg == Message(549, <<
    U32("SeqNum"), U64("UUID"), Chars("ExecID", 40), Chars("SenderID", 20),
    Chars("ClOrdID", 20), U64("PartyDetailsListReqID"), U64("OrderID"),
    U64("TransactTime"), U64("SendingTimeEpoch"), U64("SecExecID"),
    NullU64("OrigSecondaryExecutionID"), Chars("Location", 5), I32("SecurityID"),
    U32("MDTradeEntryID"), U32("LastQty"), U32("SideTradeID"),
    NullU32("OrigSideTradeID"), NullU16("TradeDate"),
    Enum("OrdStatus", OrdStatusTrdCxl), Enum("ExecType", ExecTypTrdCxl),
    Enum("OrdType", OrderType), Enum("Side", SideReq),
    Enum("ManualOrderIndicator", ManualOrdIndReq),
    Enum("PossRetransFlag", BooleanFlag), U8("TotalNumSecurities"),
    Enum("ExecutionMode", ExecMode), Enum("LiquidityFlag", BooleanNULL),
    Enum("ManagedOrder", BooleanNULL), Enum("ShortSaleType", ShortSaleType)>>)
ExecutionReportTradeAddendumSpreadMsgOut == Out(ExecutionReportTradeAddendumSpreadMsg, 187)

ExecutionReportTradeAddendumSpreadLegMsg == Message(550, <<
    U32("SeqNum"), U64("UUID"), Chars("ExecID", 40), Chars("SenderID", 20),
    Chars("ClOrdID", 20), U64("PartyDetailsListReqID"), U64("OrderID"),
    U64("TransactTime"), U64("SendingTimeEpoch"), U64("SecExecID"),
    NullU64("OrigSecondaryExecutionID"), Chars("Location", 5), I32("SecurityID"),
    U32("LastQty"), U32("SideTradeID"), NullU32("OrigSideTradeID"),
    NullU16("TradeDate"), Enum("OrdStatus", OrdStatusTrdCxl),
    Enum("ExecType", ExecTypTrdCxl), Enum("ManualOrderIndicator", ManualOrdIndReq),
    Enum("PossRetransFlag", BooleanFlag), Enum("Side", SideReq)>>)
ExecutionReportTradeAddendumSpreadLegMsgOut == Out(ExecutionReportTradeAddendumSpreadLegMsg, 176)

SecurityDefinitionRequestMsg == Message(560, <<
    U64("PartyDetailsListReqID"), U64("SecurityReqID"),
    Enum("ManualOrderIndicator", ManualOrdIndReq), U32("SeqNum"),
    Chars("SenderID", 20), U64("SendingTimeEpoch"), Chars("SecuritySubType", 8),
    Chars("Location", 5), NullU16("StartDate"), NullU16("EndDate"),
    NullU8("MaxNoOfSubstitutions"), NullI32("SourceRepoID")>>)
SecurityDefinitionRequestMsgOut == Out(SecurityDefinitionRequestMsg, 71)

SecurityDefinitionResponseMsg == Message(561, <<
    U32("SeqNum"), U64("UUID"), Chars("Text", 256),
    Chars("FinancialInstrumentFullName", 35), Chars("SenderID", 20),
    Chars("Symbol", 20), U64("PartyDetailsListReqID"), U64("SecurityReqID"),
    U64("SecurityResponseID"), U64("SendingTimeEpoch"), Chars("SecurityGroup", 6),
    Chars("SecurityType", 6), Chars("Location", 5), NullI32("SecurityID"),
    Chars("Currency", 3), NullU16("DelayDuration"), NullU16("StartDate"),
    NullU16("EndDate"), NullU8("MaxNoOfSubstitutions"), NullI32("SourceRepoID"),
    Chars("TerminationType", 8), Enum("SecurityResponseType", SecRspTyp),
    Enum("ExpirationCycle", ExpCycle),
    Enum("ManualOrderIndicator", ManualOrdIndReq), Enum("SplitMsg", SplitMsg),
    Enum("AutoQuoteRequest", BooleanFlag), Enum("PossRetransFlag", BooleanFlag)>>)
SecurityDefinitionResponseMsgOut == Out(SecurityDefinitionResponseMsg, 429)

OrderMassActionReportMsg == Message(562, <<
    U32("SeqNum"), U64("UUID"), Chars("SenderID", 20), U64("PartyDetailsListReqID"),
    U64("TransactTime"), U64("SendingTimeEpoch"), U64("OrderRequestID"),
    U64("MassActionReportID"), Chars("SecurityGroup", 6), Chars("Location", 5),
    NullI32("SecurityID"), NullU16("DelayDuration"),
    Enum("MassActionResponse", MassActionResponse),
    Enum("ManualOrderIndicator", ManualOrdIndReq),
    Enum("MassActionScope", MassActionScope), U32("TotalAffectedOrders"),
    Enum("LastFragment", BooleanFlag), NullU8("MassActionRejectReason"),
    NullU8("MarketSegmentID"), Enum("MassCancelRequestType", MassCxlReqTyp),
    Enum("Side", SideNULL), Enum("OrdType", MassActionOrdTyp),
    Enum("TimeInForce", MassCancelTIF), Enum("SplitMsg", SplitMsg),
    Enum("LiquidityFlag", BooleanNULL), Enum("PossRetransFlag", BooleanFlag),
    NullU64("DelayToTime")>>)
OrderMassActionReportMsgOut == Out(OrderMassActionReportMsg, 114)

QuoteCancelAckMsg == Message(563, <<
    U32("SeqNum"), U64("UUID"), Chars("Text", 256), Chars("SenderID", 20),
    U64("PartyDetailsListReqID"), U64("RequestTime"), U64("SendingTimeEpoch"),
    Chars("CancelledSymbol", 6), Chars("Location", 5), U32("QuoteID"),
    NullU16("QuoteRejectReason"), NullU16("DelayDuration"),
    Enum("ManualOrderIndicator", ManualOrdIndReq),
    Enum("QuoteStatus", QuoteCxlStatus), U32("NoProcessedEntries"),
    Enum("MMProtectionReset", BooleanFlag), NullChars("UnsolicitedCancelType", 1),
    Enum("SplitMsg", SplitMsg), NullU8("TotNoQuoteEntries"),
    Enum("LiquidityFlag", BooleanNULL), Enum("PossRetransFlag", BooleanFlag),
    NullU64("DelayToTime")>>)
QuoteCancelAckMsgOut == Out(QuoteCancelAckMsg, 351)

MessageClasses ==
    {NegotiateMsgOut, NegotiationResponseMsgOut, NegotiationRejectMsgOut,
     EstablishMsgOut, EstablishmentAckMsgOut, EstablishmentRejectMsgOut,
     SequenceMsgOut, TerminateMsgOut, RetransmitRequestMsgOut, RetransmissionMsgOut,
     RetransmitRejectMsgOut, NotAppliedMsgOut, NewOrderSingleMsgOut,
     OrderCancelReplaceRequestMsgOut, OrderCancelRequestMsgOut, MassQuoteMsgOut,
     PartyDetailsDefinitionRequestMsgOut, PartyDetailsDefinitionRequestAckMsgOut,
     BusinessRejectMsgOut, ExecutionReportNewMsgOut, ExecutionReportRejectMsgOut,
     ExecutionReportEliminationMsgOut, ExecutionReportTradeOutrightMsgOut,
     ExecutionReportTradeSpreadMsgOut, ExecutionReportTradeSpreadLegMsgOut,
     QuoteCancelMsgOut, OrderMassActionRequestMsgOut, OrderMassStatusRequestMsgOut,
     ExecutionReportModifyMsgOut, ExecutionReportStatusMsgOut,
     OrderStatusRequestMsgOut, ExecutionReportCancelMsgOut, OrderCancelRejectMsgOut,
     OrderCancelReplaceRejectMsgOut, PartyDetailsListRequestMsgOut,
     PartyDetailsListReportMsgOut, ExecutionAckMsgOut, RequestForQuoteMsgOut,
     NewOrderCrossMsgOut, MassQuoteAckMsgOut, RequestForQuoteAckMsgOut,
     ExecutionReportTradeAddendumOutrightMsgOut,
     ExecutionReportTradeAddendumSpreadMsgOut,
     ExecutionReportTradeAddendumSpreadLegMsgOut, SecurityDefinitionRequestMsgOut,
     SecurityDefinitionResponseMsgOut, OrderMassActionReportMsgOut,
     QuoteCancelAckMsgOut}
===============================================================================
