---------------------------- MODULE ReorderBuffer ----------------------------
(***************************************************************************)
(* The RTP reorder buffer (substrate-rtp) as the Miracast media receiver   *)
(* uses it: every datagram is pushed, and the buffer is popped until it    *)
(* has nothing in order left.  Packets are numbered without end by the     *)
(* source; the buffer sees only the number modulo the sequence space.  The *)
(* network loses packets, duplicates them, and delivers them out of order  *)
(* within a bounded displacement.                                          *)
(***************************************************************************)
EXTENDS Naturals, FiniteSets, FiniteSetsExt

CONSTANTS
    SeqSpace,      \* how many sequence numbers there are (2^16)
    MaxDepth,      \* max_depth: packets held before a gap is given up
    FirstPacket,   \* the number of the source's first packet
    LastPacket,    \* bound: the number of its last
    Behind,        \* bound: how far behind the newest a packet may arrive
    Ahead          \* bound: how far ahead of the newest the next may be

\* Half the sequence space tells what is behind the packet due from what is ahead of it: a
\* network that displaces packets by less, and a buffer that gives up before it holds more.
ASSUME BufferAssumption ==
    /\ SeqSpace \in Nat /\ MaxDepth \in Nat /\ Behind \in Nat /\ Ahead \in Nat
    /\ LastPacket \in Nat /\ FirstPacket \in 0..LastPacket
    /\ Behind + 1 < SeqSpace \div 2
    /\ (MaxDepth + 1) * Ahead <= SeqSpace \div 2

VARIABLES
    nextSeq,       \* the next sequence number due, SeqSpace before the first
    buffered,      \* packets waiting
    skipped,       \* packets given up on
    delivered,     \* packets popped
    frontier       \* the newest packet that has arrived

bufferVars == <<nextSeq, buffered, skipped, delivered, frontier>>

NoSeq == SeqSpace

SeqNum(p) == p % SeqSpace

\* wrapping_sub.
Minus(a, b) == (a + SeqSpace - b) % SeqSpace

\* Slip: a plain comparison, which the wrap turns round.
SerialLt_Plain(a, b) == a < b

\* serial_lt: less than, round the wrap, by less than half the space.
SerialLt(a, b) == a # b /\ Minus(b, a) < SeqSpace \div 2

-----------------------------------------------------------------------------
BufferInit ==
    /\ nextSeq = NoSeq
    /\ buffered = {}
    /\ skipped = 0
    /\ delivered = {}
    /\ frontier = FirstPacket

\* Slip: one gap is counted as one packet.
GivenUp_Once(next, earliest) == 1

\* What giving up on a gap costs, in packets.
GivenUp(next, earliest) == Minus(earliest, next)

\* Slip: one packet more than the depth is kept.
Enforced_OneMore(next, buf) ==
    LET seqs == {SeqNum(p) : p \in buf}
        earliest == CHOOSE s \in seqs : \A t \in seqs : Minus(s, next) <= Minus(t, next)
    IN  IF Cardinality(buf) > MaxDepth + 1 /\ next \notin seqs
        THEN [due |-> earliest, cost |-> GivenUp(next, earliest),
              kept |-> {p \in buf : ~SerialLt(SeqNum(p), earliest)}]
        ELSE [due |-> next, cost |-> 0, kept |-> buf]

\* enforce_depth: with more than max_depth packets waiting behind a gap, the
\* gap is given up and anything older than its end goes; the packet due is
\* then there and the loop ends.  The next sequence number due, the packets
\* it costs and the packets kept.
Enforced(next, buf) ==
    LET seqs == {SeqNum(p) : p \in buf}
        earliest == CHOOSE s \in seqs : \A t \in seqs : Minus(s, next) <= Minus(t, next)
    IN  IF Cardinality(buf) > MaxDepth /\ next \notin seqs
        THEN [due |-> earliest, cost |-> GivenUp(next, earliest),
              kept |-> {p \in buf : ~SerialLt(SeqNum(p), earliest)}]
        ELSE [due |-> next, cost |-> 0, kept |-> buf]

\* pop() until it returns nothing: the length of the run that is in order.
Run(next, buf) ==
    CHOOSE n \in 0..Cardinality(buf) :
        /\ \A i \in 0..(n - 1) : \E p \in buf : SeqNum(p) = (next + i) % SeqSpace
        /\ ~ \E p \in buf : SeqNum(p) = (next + n) % SeqSpace

\* push_datagram: a packet behind the one due is late, one still waiting is
\* a duplicate, and any other is kept and what is in order is taken out.
\* The buffer is drained after every push, so by its second packet it has
\* started, and its baseline is not lowered again.
Arrive(p) ==
    /\ p + Behind >= frontier
    /\ p <= frontier + Ahead
    /\ frontier' = Max({frontier, p})
    /\ LET due == IF nextSeq = NoSeq THEN SeqNum(p) ELSE nextSeq
           refused == \/ SerialLt(SeqNum(p), due)
                      \/ \E q \in buffered : SeqNum(q) = SeqNum(p)
           now == Enforced(due, buffered \cup {p})
           n == Run(now.due, now.kept)
           out == {q \in now.kept : Minus(SeqNum(q), now.due) < n}
       IN  IF refused
           THEN UNCHANGED <<nextSeq, buffered, skipped, delivered>>
           ELSE /\ nextSeq' = (now.due + n) % SeqSpace
                /\ skipped' = skipped + now.cost
                /\ buffered' = now.kept \ out
                /\ delivered' = delivered \cup out

BufferNext == \E p \in FirstPacket..LastPacket : Arrive(p)

BufferSpec == BufferInit /\ [][BufferNext]_bufferVars

-----------------------------------------------------------------------------
BufferTypeOK ==
    /\ nextSeq \in 0..SeqSpace
    /\ buffered \subseteq FirstPacket..LastPacket
    /\ Cardinality(buffered) <= MaxDepth
    /\ skipped \in Nat
    /\ delivered \subseteq FirstPacket..LastPacket
    /\ frontier \in FirstPacket..LastPacket

\* What comes out is in the source's order, across the wrap and whatever
\* was lost, late or doubled: nothing is taken out that is older than
\* something already taken out (reorder.rs push and pop).
DeliversInOrder ==
    [][\A p \in delivered' \ delivered : \A q \in delivered : q < p]_bufferVars

\* The count of skipped packets is exact: it is the number of packets
\* missing between the first and the last that were taken out, the number
\* the receiver reports as lost (media.rs lost_datagrams).
HolesAreCounted ==
    delivered # {} =>
        skipped + Cardinality(delivered) = Max(delivered) + 1 - Min(delivered)
=============================================================================
