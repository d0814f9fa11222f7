------------------------ MODULE ConnectionLifecycle -------------------------
(***************************************************************************)
(* What the gateway promises of its connections, whatever its threads,     *)
(* locks and shared pointers do: they are admitted in the order in which   *)
(* they arrived, each takes a descriptor no other connection has, goes     *)
(* through its stages one at a time, keeps its descriptor until it has     *)
(* ended, and gives it back once.                                          *)
(***************************************************************************)
EXTENDS Sequences

CONSTANTS Connections, Descriptors, None

VARIABLES queue, stage, descriptor
vars == <<queue, stage, descriptor>>

Stages == {"new", "queued", "admitted", "registered", "served", "ended", "closed"}

Init ==
    /\ queue = << >>
    /\ stage = [c \in Connections |-> "new"]
    /\ descriptor = [c \in Connections |-> None]

Arrive(c) ==
    /\ stage[c] = "new"
    /\ stage' = [stage EXCEPT ![c] = "queued"]
    /\ queue' = Append(queue, c)
    /\ UNCHANGED descriptor

Admit(c) ==
    /\ queue # << >>
    /\ c = Head(queue)
    /\ queue' = Tail(queue)
    /\ stage' = [stage EXCEPT ![c] = "admitted"]
    /\ \E d \in Descriptors :
        /\ \A other \in Connections : descriptor[other] # d
        /\ descriptor' = [descriptor EXCEPT ![c] = d]

Proceed(c, from, to) ==
    /\ stage[c] = from
    /\ stage' = [stage EXCEPT ![c] = to]
    /\ UNCHANGED <<queue, descriptor>>

Register(c) == Proceed(c, "admitted", "registered")
Serve(c)    == Proceed(c, "registered", "served")
End(c)      == Proceed(c, "served", "ended")

Close(c) ==
    /\ stage[c] = "ended"
    /\ stage' = [stage EXCEPT ![c] = "closed"]
    /\ descriptor' = [descriptor EXCEPT ![c] = None]
    /\ UNCHANGED queue

Next ==
    \E c \in Connections :
        Arrive(c) \/ Admit(c) \/ Register(c) \/ Serve(c) \/ End(c) \/ Close(c)

Spec == Init /\ [][Next]_vars
=============================================================================
