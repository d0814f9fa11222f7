-------------------------- MODULE MCFIXPConnection --------------------------
(* Model-checking instances of FIXPConnection. *)
EXTENDS FIXPConnection

\* Small sets only: the frames are written out.
F(template, size, id) ==
    [encodingOk |-> TRUE, msgSize |-> size, template |-> template,
     whole |-> TRUE, uuid |-> id]

Full(template) == SofhSize + HeaderSize + BlockSize[template]

Negotiation == F("Negotiate", Full("Negotiate") + 2, 1)
Establish1  == F("Establish", Full("Establish") + 2, 1)
Establish2  == F("Establish", Full("Establish") + 2, 2)
KeepAlive   == F("Sequence", Full("Sequence"), 1)
Retransmit  == F("RetransmitRequest", Full("RetransmitRequest"), 1)
Order       == F("NewOrderSingle", Full("NewOrderSingle"), 1)
LargeOrder  == F("NewOrderSingle", BufferSize + SofhSize + 1, 1)
ShortOrder  == F("NewOrderSingle", Full("NewOrderSingle") - 1, 1)
NoTemplate  == F("NewOrderSingle", SofhSize + 3, 1)
Empty       == F("NewOrderSingle", SofhSize, 1)
Undersized  == F("NewOrderSingle", SofhSize - 1, 1)
Unknown     == F("Other", 64, 1)
BadEncoding == [Order EXCEPT !.encodingOk = FALSE]
Torn        == [Order EXCEPT !.whole = FALSE]

SessionFrames == {Negotiation, Establish1, Establish2, Order, ShortOrder, Undersized}
FramingFrames == {Negotiation, Establish1, KeepAlive, Retransmit, Order, LargeOrder,
                  ShortOrder, NoTemplate, Empty, Undersized, Unknown, BadEncoding, Torn}
=============================================================================
