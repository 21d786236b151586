---------------------------------- MODULE Ertm ----------------------------------
(***************************************************************************)
(* The enhanced retransmission mode of L2CAP (substrate-l2cap/src/ertm.rs) *)
(* at both ends of one channel, and the multiplexer's part in it (mux.rs): *)
(* writing the frames a call produced, and failing the channel.            *)
(*                                                                         *)
(* A call into the engine is one step.  It is written the way the code     *)
(* writes it, as a pipeline of operators over the record of one end; a     *)
(* record's "out" is the FIFO its frames travel in.  A frame may be lost   *)
(* (it arrives with a bad checksum and is counted and dropped) but not     *)
(* reordered: the ACL link below keeps its order.  Time is a timer that is *)
(* armed or not; an armed one may run out at any moment.                   *)
(*                                                                         *)
(* Both ends run this engine, which sends RR and REJ; RNR and SREJ, which  *)
(* only a foreign peer sends, are left out with the remote_busy they set.  *)
(***************************************************************************)
EXTENDS Naturals, Sequences, SequencesExt

CONSTANTS
    Modulo,       \* SEQ_MODULO: sequence numbers wrap here (64 in the code)
    Window,       \* send_window, which negotiation clamps to 1..SEQ_MODULO / 2
    MaxTransmit,  \* max_transmit: how often a frame is sent, and a poll repeated
    SduFrames,    \* per end, the SDUs it has to send: their lengths in frames
    MaxLosses,    \* frames the link may lose (a bound, not a limit of the code)
    QuickPeer     \* the monitor timeout outlasts the frames in flight

Ends == {"A", "B"}
Peer(p) == CHOOSE q \in Ends : q # p

ASSUME ErtmAssumption ==
    /\ Modulo \in Nat /\ Modulo % 2 = 0
    /\ Window \in 1..(Modulo \div 2)
    /\ MaxTransmit \in Nat \ {0}
    /\ SduFrames \in [Ends -> Seq(Nat \ {0})]
    /\ MaxLosses \in Nat /\ QuickPeer \in BOOLEAN

VARIABLES
    end,          \* the engine at each end, the frames it has under way, what it handed up
    sent,         \* how many SDUs each end has been given
    losses        \* frames lost so far

vars == <<end, sent, losses>>

NextSeq(n) == (n + 1) % Modulo
Distance(from, to) == (to + Modulo - from) % Modulo

\* An SDU as Ertm::send cuts it; the start frame names the length of the whole.
Cut(p, n) ==
    LET len == SduFrames[p][n]
    IN [i \in 1..len |->
          [sdu |-> n, part |-> i, len |-> len,
           sar |-> IF len = 1 THEN "whole" ELSE IF i = 1 THEN "start"
                   ELSE IF i = len THEN "end" ELSE "cont"]]

NewEnd ==
    [nextTx |-> 0, unacked |-> <<>>, queued |-> <<>>, polls |-> 0, waiting |-> FALSE,
     retransTimer |-> FALSE, monitorTimer |-> FALSE,
     expected |-> 0, rejected |-> FALSE, partial |-> <<>>,
     out |-> <<>>, up |-> <<>>, failed |-> "no"]

Init ==
    /\ end = [p \in Ends |-> NewEnd]
    /\ sent = [p \in Ends |-> 0]
    /\ losses = 0

-----------------------------------------------------------------------------
(* The engine: operators from the record of an end to the next one *)

Supervisory(r, kind, poll, final) ==
    [r EXCEPT !.out = Append(@, [kind |-> kind, req |-> r.expected, poll |-> poll,
                                 final |-> final])]

Information(r, u) ==
    [kind |-> "I", req |-> r.expected, poll |-> FALSE, final |-> FALSE,
     tx |-> u.tx, frag |-> u.frag]

\* Slip: a timer that was stopped is not started again.
ArmTimers_NotAgain(unacked, retransTimer, monitorTimer) == retransTimer /\ unacked # <<>>

\* arm_timers: what becomes of the retransmission timer.
ArmTimers(unacked, retransTimer, monitorTimer) ==
    unacked # <<>> /\ (retransTimer \/ ~monitorTimer)

\* Slip: the window is ignored.
Pump_Unbounded(r) ==
    LET fresh == [i \in DOMAIN r.queued |-> [tx |-> (r.nextTx + i - 1) % Modulo,
                                             frag |-> r.queued[i], sends |-> 1]]
    IN IF r.waiting THEN r
       ELSE [r EXCEPT
                !.nextTx = (@ + Len(r.queued)) % Modulo, !.queued = <<>>,
                !.unacked = @ \o fresh,
                !.out = @ \o [i \in DOMAIN fresh |-> Information(r, fresh[i])],
                !.retransTimer = ArmTimers(r.unacked \o fresh, @, r.monitorTimer)]

\* Send whatever the window has room for; nothing while a poll is unanswered.
Pump(r) ==
    LET room == Window - Len(r.unacked)
        n == IF Len(r.queued) < room THEN Len(r.queued) ELSE room
        fresh == [i \in 1..n |-> [tx |-> (r.nextTx + i - 1) % Modulo,
                                  frag |-> r.queued[i], sends |-> 1]]
    IN IF r.waiting THEN r
       ELSE [r EXCEPT
                !.nextTx = (@ + n) % Modulo,
                !.queued = SubSeq(@, n + 1, Len(@)),
                !.unacked = @ \o fresh,
                !.out = @ \o [i \in 1..n |-> Information(r, fresh[i])],
                !.retransTimer = ArmTimers(r.unacked \o fresh, @, r.monitorTimer)]

\* Slip: the frame the peer asks for next is retired too.
Acknowledge_Inclusive(r, req) ==
    LET Retires(u) == Distance(u.tx, req) \in 0..(Modulo \div 2)
        keep == SelectInSeq(r.unacked, LAMBDA u : ~Retires(u))
        rest == IF keep = 0 THEN <<>> ELSE SubSeq(r.unacked, keep, Len(r.unacked))
    IN [r EXCEPT !.unacked = rest, !.retransTimer = @ /\ rest # <<>>]

\* Retire every frame the peer says it has: those less than half the sequence space before
\* req, up to the first that is not.
Acknowledge(r, req) ==
    LET Retires(u) == Distance(u.tx, req) \in 1..(Modulo \div 2)
        keep == SelectInSeq(r.unacked, LAMBDA u : ~Retires(u))
        rest == IF keep = 0 THEN <<>> ELSE SubSeq(r.unacked, keep, Len(r.unacked))
    IN [r EXCEPT !.unacked = rest, !.retransTimer = @ /\ rest # <<>>]

\* A frame that has had its allowance.
Spent(u) == u.sends + 1 > MaxTransmit

\* The others, in order.
Unspent(us) ==
    LET among[i \in 0..Len(us)] ==
            IF i = 0 THEN <<>>
            ELSE IF Spent(us[i]) THEN among[i - 1] ELSE Append(among[i - 1], us[i])
    IN among[Len(us)]

SentAgain(u) == IF Spent(u) THEN u ELSE [u EXCEPT !.sends = @ + 1]

\* A spent frame is not sent again but fails the channel; the others of the window still go
\* out.
RetransmitAll(r) ==
    LET again == Unspent(r.unacked)
    IN [r EXCEPT
          !.unacked = [i \in DOMAIN @ |-> SentAgain(@[i])],
          !.out = @ \o [i \in DOMAIN again |-> Information(r, again[i])],
          !.retransTimer = @ \/ again # <<>>,
          !.failed = IF Len(again) < Len(r.unacked) THEN "attempts" ELSE @]

Poll(r) ==
    Supervisory([r EXCEPT !.polls = @ + 1, !.waiting = TRUE, !.monitorTimer = TRUE,
                          !.retransTimer = FALSE], "RR", TRUE, FALSE)

\* Slip: the answer stops the monitor timer but not the waiting.
Final_KeepsWaiting(r, f) ==
    IF f.final /\ r.waiting
    THEN LET answered == [r EXCEPT !.monitorTimer = FALSE, !.polls = 0]
         IN IF f.kind = "REJ" THEN answered ELSE RetransmitAll(answered)
    ELSE r

\* The answer to our poll says where the peer got to: what is still outstanding was lost,
\* and is sent again here unless the frame is a REJ, which asks for it itself.
Final(r, f) ==
    IF f.final /\ r.waiting
    THEN LET answered == [r EXCEPT !.waiting = FALSE, !.monitorTimer = FALSE, !.polls = 0]
         IN IF f.kind = "REJ" THEN answered ELSE RetransmitAll(answered)
    ELSE r

OnSupervisory(r, f) ==
    LET asked == IF f.kind = "REJ" THEN RetransmitAll(r) ELSE r
    IN IF f.poll THEN Supervisory(asked, "RR", FALSE, TRUE) ELSE asked

\* Slip: every frame after a gap is rejected.
OutOfTurn_RejectsAgain(r, f) ==
    IF Distance(r.expected, f.tx) < Modulo \div 2
    THEN Supervisory(r, "REJ", FALSE, FALSE)
    ELSE Supervisory(r, "RR", FALSE, FALSE)

\* A duplicate or a frame after a gap: the first of a gap is rejected, all others are
\* answered with where we are.
OutOfTurn(r, f) ==
    IF ~r.rejected /\ Distance(r.expected, f.tx) < Modulo \div 2
    THEN Supervisory([r EXCEPT !.rejected = TRUE], "REJ", FALSE, FALSE)
    ELSE Supervisory(r, "RR", FALSE, FALSE)

\* Put the fragment where it belongs; a tail without its start is dropped, and so is an
\* SDU that did not come to its declared length.
Reassemble(r, frag) ==
    LET whole == r.partial \o <<frag>>
    IN CASE frag.sar = "whole" -> [r EXCEPT !.partial = <<>>, !.up = Append(@, <<frag>>)]
         [] frag.sar = "start" -> [r EXCEPT !.partial = <<frag>>]
         [] frag.sar = "cont" -> [r EXCEPT !.partial = IF @ = <<>> THEN @ ELSE whole]
         [] frag.sar = "end" ->
              [r EXCEPT !.partial = <<>>,
                        !.up = IF r.partial # <<>> /\ Len(whole) = whole[1].len
                               THEN Append(@, whole) ELSE @]

\* Slip: what arrives is taken for what is next.
OnInformation_TrustsOrder(r, f) ==
    Supervisory(Reassemble([r EXCEPT !.rejected = FALSE, !.expected = NextSeq(f.tx)],
                           f.frag), "RR", FALSE, FALSE)

OnInformation(r, f) ==
    IF f.tx # r.expected THEN OutOfTurn(r, f)
    ELSE Supervisory(Reassemble([r EXCEPT !.rejected = FALSE, !.expected = NextSeq(@)],
                                f.frag), "RR", FALSE, FALSE)

\* A failed engine is removed and its peer told with a DisconnectionRequest, which follows
\* the call's frames (fail_channel).
Disc == [kind |-> "DISC", req |-> 0, poll |-> FALSE, final |-> FALSE]
FailChannel(r) == IF r.failed = "no" THEN r ELSE [r EXCEPT !.out = Append(@, Disc)]

-----------------------------------------------------------------------------
(* The steps *)

Open(p) == end[p].failed = "no"

\* L2capMux::send: an SDU from above is queued, cut, and sent as far as the window goes.
SendSdu(p) ==
    /\ Open(p) /\ sent[p] < Len(SduFrames[p])
    /\ sent' = [sent EXCEPT ![p] = @ + 1]
    /\ end' = [end EXCEPT ![p] =
                   Pump([end[p] EXCEPT !.queued = @ \o Cut(p, sent[p] + 1)])]
    /\ UNCHANGED losses

Arriving(p) == end[Peer(p)].out
Taken(p) == [end EXCEPT ![Peer(p)].out = Tail(@)]

\* The next frame arrives whole (L2capMux::handle_pdu, Ertm::receive).  The engine takes
\* the acknowledgement that rides on every frame first, then the final bit, and then the
\* frame's own business, and sends what the window has room for.
Receive(p) ==
    /\ Open(p) /\ Arriving(p) # <<>> /\ Head(Arriving(p)) # Disc
    /\ LET f == Head(Arriving(p))
       IN \E acked \in {Acknowledge(end[p], f.req)} : \E told \in {Final(acked, f)} :
          \E done \in {IF f.kind = "I" THEN OnInformation(told, f)
                                       ELSE OnSupervisory(told, f)} :
          \E r \in {Pump(done)} :
              end' = [Taken(p) EXCEPT ![p] = FailChannel([r EXCEPT
                  !.retransTimer = ArmTimers(r.unacked, @, r.monitorTimer)])]
    /\ UNCHANGED <<sent, losses>>

\* The peer's DisconnectionRequest; and whatever arrives where no engine is any more.
HearDisconnect(p) ==
    /\ Arriving(p) # <<>> /\ (Head(Arriving(p)) = Disc \/ ~Open(p))
    /\ end' = IF Open(p) THEN [Taken(p) EXCEPT ![p].failed = "peer"] ELSE Taken(p)
    /\ UNCHANGED <<sent, losses>>

\* The frame's checksum does not match (or it never arrived): counted and dropped.
Lose(p) ==
    /\ Arriving(p) # <<>> /\ Head(Arriving(p)) # Disc
    /\ losses < MaxLosses
    /\ losses' = losses + 1
    /\ end' = Taken(p)
    /\ UNCHANGED sent

\* tick: the monitor timer runs out first if it is armed at all; after the last poll the
\* channel fails.
MonitorExpires(p) ==
    /\ Open(p) /\ end[p].monitorTimer
    /\ QuickPeer => \A q \in Ends : end[q].out = <<>>
    /\ end' = [end EXCEPT ![p] =
          IF @.polls >= MaxTransmit
          THEN FailChannel([@ EXCEPT !.monitorTimer = FALSE, !.failed = "polls"])
          ELSE Pump(Poll(@))]
    /\ UNCHANGED <<sent, losses>>

RetransmissionExpires(p) ==
    /\ Open(p) /\ ~end[p].monitorTimer /\ end[p].retransTimer
    /\ end' = [end EXCEPT ![p] = Pump(Poll(@))]
    /\ UNCHANGED <<sent, losses>>

Next == \E p \in Ends :
    \/ SendSdu(p) \/ Receive(p) \/ HearDisconnect(p) \/ Lose(p)
    \/ MonitorExpires(p) \/ RetransmissionExpires(p)

\* The link delivers or drops what it was given, and the driver calls tick at the deadline
\* next_timeout names.
Fairness == \A p \in Ends :
    /\ WF_vars(HearDisconnect(p) \/ Receive(p))
    /\ WF_vars(MonitorExpires(p) \/ RetransmissionExpires(p))

Spec == Init /\ [][Next]_vars /\ Fairness

-----------------------------------------------------------------------------
(* What has to hold *)

Kinds == {"I", "RR", "REJ", "DISC"}
TypeOK ==
    /\ losses \in 0..MaxLosses
    /\ \A p \in Ends :
        LET r == end[p]
        IN /\ sent[p] \in 0..Len(SduFrames[p])
           /\ r.nextTx \in 0..(Modulo - 1) /\ r.expected \in 0..(Modulo - 1)
           /\ Len(r.unacked) <= Window
           /\ \A i \in DOMAIN r.unacked : r.unacked[i].sends \in 1..MaxTransmit
           /\ r.polls \in 0..(MaxTransmit + 1)
           /\ \A i \in DOMAIN r.out : r.out[i].kind \in Kinds
           /\ r.failed \in {"no", "attempts", "polls", "peer"}
           /\ {r.waiting, r.retransTimer, r.monitorTimer, r.rejected} \subseteq BOOLEAN

\* The two halves agree modulo the wrap: what a receiver expects next is something its
\* sender still holds, or the very next frame it will number - never one already retired
\* (it could not be sent again) and never one not sent yet.
NeitherEndIsAhead ==
    \A p \in Ends :
        LET u == end[p].unacked
            oldest == IF u = <<>> THEN end[p].nextTx ELSE u[1].tx
        IN /\ Distance(oldest, end[p].nextTx) = Len(u)
           /\ Distance(oldest, end[Peer(p)].expected) <= Len(u)

\* An open channel with frames outstanding is timed: tick will poll the peer whatever is
\* lost from here on (next_timeout is never None while something is unacknowledged).
OutstandingIsTimed ==
    \A p \in Ends : Open(p) /\ (end[p].unacked # <<>> \/ end[p].waiting)
        => end[p].retransTimer \/ end[p].monitorTimer

\* "Sending a second REJ for the same gap makes the peer retransmit the window twice":
\* no two rejections of the same frame are under way at once.
OneRejectPerGap ==
    \A p \in Ends : \A i, j \in DOMAIN end[p].out :
        LET f == end[p].out[i]  g == end[p].out[j]
        IN f.kind = "REJ" /\ g.kind = "REJ" /\ f.req = g.req => i = j

\* Each direction of the channel implements the stream of SDUs: everything accepted comes
\* out whole, once and in order until the sending end has failed.
AllSdus == UNION {{Cut(p, n) : n \in DOMAIN SduFrames[p]} : p \in Ends}
Accepted(p) == [n \in 1..sent[p] |-> Cut(p, n)]

AtoB == INSTANCE SduStream WITH Sdus <- AllSdus, accepted <- Accepted("A"),
                                delivered <- end["B"].up, closed <- ~Open("A")
BtoA == INSTANCE SduStream WITH Sdus <- AllSdus, accepted <- Accepted("B"),
                                delivered <- end["A"].up, closed <- ~Open("B")

ImplementsStream == AtoB!Spec /\ BtoA!Spec

\* Nothing just stops: what was accepted is handed up at the other end, or both ends learn
\* that the channel is gone (the sender failed it, or heard the DisconnectionRequest).
ArrivesOrBothClose ==
    []<>(\/ \A p \in Ends : Len(end[Peer(p)].up) = sent[p]
         \/ \A p \in Ends : ~Open(p))

\* The comment in receive: counting one loss as two attempts makes "a channel [die] after
\* two loss events instead of three transmissions".
DiesOfItsLossesOnly ==
    (\E p \in Ends : end[p].failed = "attempts") => losses >= MaxTransmit

=============================================================================
