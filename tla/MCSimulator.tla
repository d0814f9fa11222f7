----------------------------- MODULE MCSimulator -----------------------------
(* The model-checking instance of Simulator. *)
EXTENDS Simulator, ILink3Headers

Order ==
    [encodingOk |-> TRUE, template |-> "NewOrderSingle", whole |-> TRUE, uuid |-> 1,
     msgSize |-> SofhSize + HeaderSize + NewOrderSingleBlock]
BadEncoding == [Order EXCEPT !.encodingOk = FALSE]

\* None of these is shorter than a template id, so what the buffer held before the
\* first of them is never read: one value stands for all.
FreshInit == Init /\ residue = "Sequence"
FreshBuffer == FreshInit /\ [][Next]_vars /\ Fairness

ClientFrames == {Order, BadEncoding}
=============================================================================
