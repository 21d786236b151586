------------------------------- MODULE SduStream -------------------------------
(***************************************************************************)
(* What an enhanced-retransmission channel promises the layer above it, in *)
(* one direction: every SDU it accepted comes out whole, once and in       *)
(* order, for as long as the channel is open.                              *)
(***************************************************************************)
EXTENDS Naturals, Sequences

CONSTANT Sdus   \* what can be sent

VARIABLES
    accepted,   \* the SDUs handed to send() at one end, in order
    delivered,  \* the SDUs handed up at the other
    closed      \* one of the two ends has failed the channel

streamVars == <<accepted, delivered, closed>>

Init == accepted = <<>> /\ delivered = <<>> /\ closed = FALSE

Accept ==
    /\ ~closed
    /\ \E s \in Sdus : accepted' = Append(accepted, s)
    /\ UNCHANGED <<delivered, closed>>

\* What was in flight when the channel closed may still come out.
Deliver ==
    /\ Len(delivered) < Len(accepted)
    /\ delivered' = Append(delivered, accepted[Len(delivered) + 1])
    /\ UNCHANGED <<accepted, closed>>

Close == ~closed /\ closed' = TRUE /\ UNCHANGED <<accepted, delivered>>

Next == Accept \/ Deliver \/ Close

Spec == Init /\ [][Next]_streamVars

\* What has come out is the beginning of what went in.
Faithful ==
    /\ Len(delivered) <= Len(accepted)
    /\ \A i \in 1..Len(delivered) : delivered[i] = accepted[i]
=============================================================================
