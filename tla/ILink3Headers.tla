---------------------------- MODULE ILink3Headers ----------------------------
(***************************************************************************)
(* The sizes of what a frame is made of: the simple open framing header,   *)
(* the SBE header, and the blocks of the messages that the simulator reads *)
(* and writes.                                                             *)
(***************************************************************************)
EXTENDS Naturals

SofhSize == 4
HeaderSize == 8

\* sizeof (BlockData): the sizes of the fields that have an offset.
NegotiateBlock           == 76
EstablishBlock           == 132
SequenceBlock            == 14
RetransmitRequestBlock   == 30
NewOrderSingleBlock      == 116
NegotiationResponseBlock == 32
EstablishmentAckBlock    == 38
ExecutionReportNewBlock  == 209
=============================================================================
