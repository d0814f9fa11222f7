-------------------------- MODULE MCMessageExchange --------------------------
(***************************************************************************)
(* Instances of MessageExchange.  The sample is older than the composite   *)
(* fields: the classes with such a field lack it.  The two of them that    *)
(* the simulator handles are completed as the generator now writes them,   *)
(* with the composites at the offsets of the schema; the others are left   *)
(* out.                                                                    *)
(***************************************************************************)
EXTENDS MessageExchange

OlderThanComposites ==
    {514, 515, 522, 523, 524, 525, 526, 527, 531, 532, 534, 539, 544, 548, 549, 550, 561}

PriceNull9(name) == Member(name, 8, TRUE, TRUE)
Price9(name)     == Member(name, 8, FALSE, TRUE)
ExecInst(name)   == Member(name, 1, FALSE, TRUE)

NewOrderSingle ==
    LET price  == InsertAt(NewOrderSingleMsg.members, 1, PriceNull9("Price"))
        stopPx == InsertAt(price, 11, PriceNull9("StopPx"))
    IN  Out(Message(514, InsertAt(stopPx, 19, ExecInst("ExecInst"))), 116)

ExecutionReportNew ==
    LET price  == InsertAt(ExecutionReportNewMsg.members, 8, Price9("Price"))
        stopPx == InsertAt(price, 9, PriceNull9("StopPx"))
    IN  Out(Message(522, InsertAt(stopPx, 29, ExecInst("ExecInst"))), 209)

ExchangedClasses ==
    {c \in MessageClasses : c.in.id \notin OlderThanComposites}
    \cup {NewOrderSingle, ExecutionReportNew}

\* No enumerator has the value that stands for none: a field that is present never
\* reads as absent.
OptionalEnums ==
    <<AvgPxInd, BooleanNULL, ClearingAcctType, CmtaGiveUpCD, CustOrdHandlInst,
     CustOrderCapacity, DKReason, ExecMode, ExecReason, ExpCycle, FTI, ManualOrdInd,
     MassActionOrdTyp, MassCancelTIF, MassCxlReqTyp, MassStatusOrdTyp, MassStatusTIF,
     OrderEventType, QuoteTyp, RFQSide, SLEDS, SMPI, ShortSaleType, SideNULL, SplitMsg>>
ASSUME NullIsNoValue ==
    \A i \in DOMAIN OptionalEnums :
        LET e == OptionalEnums[i]
        IN  Cardinality(e.nulls) = 1 /\ e.nulls \cap e.values = {}

\* The blocks that FIXPConnection counts are those of these classes.
ASSUME BlocksAreTheClasses ==
    /\ NegotiateMsg.size = NegotiateBlock
    /\ EstablishMsg.size = EstablishBlock
    /\ SequenceMsg.size = SequenceBlock
    /\ RetransmitRequestMsg.size = RetransmitRequestBlock
    /\ NewOrderSingle.in.size = NewOrderSingleBlock
    /\ NegotiationResponseMsg.size = NegotiationResponseBlock
    /\ EstablishmentAckMsg.size = EstablishmentAckBlock
    /\ ExecutionReportNew.in.size = ExecutionReportNewBlock
=============================================================================
