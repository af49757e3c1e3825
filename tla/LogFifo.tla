------------------------------- MODULE LogFifo -------------------------------
(***************************************************************************)
(* What the asynchronous logger promises the threads that log, with no     *)
(* buffers, locks or wakeups: messages are accepted one at a time until    *)
(* the log is closed, they are delivered to the sink in the order of their *)
(* acceptance, several at once if need be, and the log finishes when it is *)
(* closed and all of them are delivered.                                   *)
(***************************************************************************)
EXTENDS Naturals, Sequences

CONSTANT Message

VARIABLES accepted, delivered, closed, finished

vars == <<accepted, delivered, closed, finished>>

Init ==
    /\ accepted = <<>>
    /\ delivered = <<>>
    /\ closed = FALSE
    /\ finished = FALSE

Accept ==
    /\ ~closed
    /\ \E m \in Message : accepted' = Append(accepted, m)
    /\ UNCHANGED <<delivered, closed, finished>>

Deliver ==
    /\ \E n \in Len(delivered) + 1 .. Len(accepted) :
          delivered' = SubSeq(accepted, 1, n)
    /\ UNCHANGED <<accepted, closed, finished>>

Close ==
    /\ ~closed
    /\ closed' = TRUE
    /\ UNCHANGED <<accepted, delivered, finished>>

Finish ==
    /\ closed
    /\ delivered = accepted
    /\ ~finished
    /\ finished' = TRUE
    /\ UNCHANGED <<accepted, delivered, closed>>

Next == Accept \/ Deliver \/ Close \/ Finish

Spec == Init /\ [][Next]_vars

=============================================================================
