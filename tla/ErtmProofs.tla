-------------------------------- MODULE ErtmProofs --------------------------------
(***************************************************************************)
(* The enhanced retransmission mode, for any even sequence space, any      *)
(* window of at most half of it, any SDUs and any number of lost frames:   *)
(* the two halves of the window agree across the wrap, no gap is rejected  *)
(* twice, and what is outstanding is timed.                                *)
(*                                                                         *)
(* The engine only knows numbers modulo the sequence space.  The proof     *)
(* keeps, for each direction, a ledger of the numbers without the wrap: of *)
(* the oldest frame the sender holds, of the next it will send, of the one *)
(* the receiver is due, and of every frame and acknowledgement under way.  *)
(***************************************************************************)
EXTENDS Ertm, Integers, SequenceTheorems, WellFoundedInduction, TLAPS

SeqNo == 0..(Modulo - 1)

Fragments == [sdu : Nat, part : Nat, len : Nat, sar : {"whole", "start", "cont", "end"}]

Numbered == [tx : SeqNo, frag : Fragments, sends : 1..MaxTransmit]

Data == [kind : {"I"}, req : SeqNo, poll : BOOLEAN, final : BOOLEAN, tx : SeqNo,
         frag : Fragments]

Control == [kind : {"RR", "REJ", "DISC"}, req : SeqNo, poll : BOOLEAN, final : BOOLEAN]

Frames == Data \cup Control

Engine ==
    [nextTx : SeqNo, unacked : Seq(Numbered), queued : Seq(Fragments), polls : Nat,
     waiting : BOOLEAN, retransTimer : BOOLEAN, monitorTimer : BOOLEAN, expected : SeqNo,
     rejected : BOOLEAN, partial : Seq(Fragments), out : Seq(Frames), up : Seq(Seq(Fragments)),
     failed : {"no", "attempts", "polls", "peer"}]

\* What bounds an engine: its window, its polls, and that it waits for the
\* answer to a poll exactly while the monitor timer runs.
Bounded(r) ==
    /\ Len(r.unacked) <= Window
    /\ r.polls \in 0..(MaxTransmit + 1)
    /\ r.failed = "no" => /\ r.waiting = r.monitorTimer
                          /\ ~r.waiting => r.polls = 0

\* An engine with something outstanding, or a poll unanswered, is timed.
Timed(r) ==
    r.failed = "no" /\ (r.unacked # <<>> \/ r.waiting) => r.retransTimer \/ r.monitorTimer

Types ==
    /\ end \in [Ends -> Engine]
    /\ sent \in [Ends -> Nat] /\ \A p \in Ends : sent[p] \in 0..Len(SduFrames[p])
    /\ losses \in 0..MaxLosses
    /\ \A p \in Ends : Bounded(end[p]) /\ Timed(end[p])

-----------------------------------------------------------------------------
(* Sequences.                                                              *)

\* Every set of naturals with an element has a least one.
LEMMA Least ==
    ASSUME NEW T, T \subseteq Nat, T # {}
    PROVE  \E x \in T : \A y \in T : x <= y
<1> DEFINE R == OpToRel(<, Nat)
<1>1. IsWellFoundedOn(R, Nat)
  BY NatLessThanWellFounded
<1>2. \A x, y \in Nat : <<x, y>> \in R <=> x < y
  BY DEF OpToRel
<1> HIDE DEF R
<1>3. PICK x \in T : \A y \in T : ~ (<<y, x>> \in R)
  BY <1>1, WFMin
<1>4. ASSUME NEW y \in T PROVE x <= y
  <2>1. x \in Nat /\ y \in Nat
    OBVIOUS
  <2>2. ~ (y < x)
    BY <1>2, <1>3, <2>1
  <2> QED BY <2>1, <2>2
<1> QED BY <1>3, <1>4

\* A part of a sequence.
LEMMA Part ==
    ASSUME NEW S, NEW s \in Seq(S), NEW m \in 1..(Len(s) + 1), NEW n \in (m - 1)..Len(s)
    PROVE  /\ SubSeq(s, m, n) \in Seq(S) /\ Len(SubSeq(s, m, n)) = n + 1 - m
           /\ \A i \in 1..(n + 1 - m) : SubSeq(s, m, n)[i] = s[m + i - 1]
<1>1. m \in Int /\ n \in Int /\ \A i \in m..n : s[i] \in S
  OBVIOUS
<1>2. /\ SubSeq(s, m, n) \in Seq(S)
      /\ Len(SubSeq(s, m, n)) = IF m <= n THEN n - m + 1 ELSE 0
      /\ \A i \in 1..(n - m + 1) : SubSeq(s, m, n)[i] = s[m + i - 1]
  BY <1>1, SubSeqProperties
<1>3. n + 1 - m = n - m + 1 /\ (IF m <= n THEN n - m + 1 ELSE 0) = n + 1 - m
  OBVIOUS
<1> QED BY <1>2, <1>3

\* The frames that are not spent are some of the frames.
LEMMA UnspentAreSome ==
    ASSUME NEW us \in Seq(Numbered)
    PROVE  /\ Unspent(us) \in Seq(Numbered) /\ Len(Unspent(us)) <= Len(us)
           /\ \A i \in 1..Len(Unspent(us)) : \E j \in 1..Len(us) : Unspent(us)[i] = us[j]
<1> DEFINE n == Len(us)
           Kept(s, i) == IF Spent(us[i]) THEN s ELSE Append(s, us[i])
           Rule(f, m) == f = [i \in 0..m |-> IF i = 0 THEN <<>> ELSE Kept(f[i - 1], i)]
           Some(s, m) == /\ s \in Seq(Numbered) /\ Len(s) <= m
                         /\ \A i \in 1..Len(s) : \E j \in 1..n : s[i] = us[j]
<1>1. n \in Nat
  OBVIOUS
<1>2. \E f : Rule(f, 0)
  <2> DEFINE f == [i \in 0..0 |-> <<>>]
  <2>1. Rule(f, 0)
    OBVIOUS
  <2> QED BY <2>1, Zenon
<1>3. ASSUME NEW m \in 1..n, NEW f, Rule(f, m - 1) PROVE \E g : Rule(g, m)
  <2> HIDE DEF Kept
  <2> DEFINE g == [i \in 0..m |-> IF i = m THEN Kept(f[m - 1], m) ELSE f[i]]
             h == [i \in 0..m |-> IF i = 0 THEN <<>> ELSE Kept(g[i - 1], i)]
  <2>1. \A i \in 0..(m - 1) : f[i] = IF i = 0 THEN <<>> ELSE Kept(f[i - 1], i)
    BY <1>3, Zenon
  <2>2. \A i \in 0..(m - 1) : i \in 0..m /\ i # m
    BY <1>1
  <2>3. \A i \in 0..(m - 1) : g[i] = f[i]
    BY <2>2
  <2>4. g[m] = Kept(f[m - 1], m) /\ m # 0 /\ m - 1 \in 0..(m - 1)
    BY <1>1
  <2>5. \A i \in 0..m : i # 0 => i - 1 \in 0..(m - 1)
    BY <1>1
  <2>6. \A i \in 0..m : i = m \/ i \in 0..(m - 1)
    BY <1>1
  <2>7. \A i \in 0..m : g[i] = IF i = 0 THEN <<>> ELSE Kept(g[i - 1], i)
    <3> HIDE DEF g
    <3> SUFFICES ASSUME NEW i \in 0..m
                 PROVE  g[i] = IF i = 0 THEN <<>> ELSE Kept(g[i - 1], i)
      OBVIOUS
    <3>1. CASE i = m
      BY <2>3, <2>4, <3>1, Zenon
    <3>2. CASE i \in 0..(m - 1)
      BY <2>1, <2>3, <2>5, <3>2, Zenon
    <3> QED BY <2>6, <3>1, <3>2, Zenon
  <2>8. g = h
    BY <2>7, Zenon
  <2> QED BY <2>8, Zenon
<1>4. \E f : Rule(f, n)
  <2> DEFINE T == {m \in 0..n : ~ \E f : Rule(f, m)}
  <2> HIDE DEF Rule
  <2> SUFFICES ASSUME ~ \E f : Rule(f, n) PROVE FALSE
    OBVIOUS
  <2>1. T \subseteq Nat /\ T # {}
    BY <1>1
  <2>2. PICK m \in T : \A k \in T : m <= k
    BY <2>1, Least
  <2>3. m # 0
    BY <1>2, <2>2
  <2>4. m \in 1..n /\ m - 1 \in 0..n /\ ~(m <= m - 1)
    BY <1>1, <2>2, <2>3
  <2>5. \E f : Rule(f, m - 1)
    BY <2>2, <2>4
  <2> QED BY <1>3, <2>2, <2>4, <2>5
<1> DEFINE F == CHOOSE f : Rule(f, n)
<1>5. Unspent(us) = F[n]
  BY DEF Unspent
<1>6. Rule(F, n)
  BY <1>4
<1>7. \A i \in 0..n : F[i] = IF i = 0 THEN <<>> ELSE Kept(F[i - 1], i)
  BY <1>6, Zenon
<1> HIDE DEF F, Rule
<1>8. ASSUME NEW m \in 1..n, NEW s, Some(s, m - 1) PROVE Some(Kept(s, m), m)
  <2> DEFINE u == us[m]
  <2>1. u \in Numbered /\ s \in Seq(Numbered) /\ Len(s) <= m - 1 /\ m \in Nat
    BY <1>1, <1>8
  <2>2. \A i \in 1..Len(s) : \E j \in 1..n : s[i] = us[j]
    BY <1>8
  <2>3. m \in 1..n /\ u = us[m]
    OBVIOUS
  <2>4. Kept(s, m) = s \/ Kept(s, m) = Append(s, u)
    OBVIOUS
  <2> HIDE DEF u, Kept
  <2>5. /\ Append(s, u) \in Seq(Numbered) /\ Len(Append(s, u)) = Len(s) + 1
        /\ \A i \in 1..Len(s) : Append(s, u)[i] = s[i]
        /\ Append(s, u)[Len(s) + 1] = u
    BY <2>1, AppendProperties
  <2>6. \A i \in 1..(Len(s) + 1) : i \in 1..Len(s) \/ i = Len(s) + 1
    BY <2>1
  <2>7. \A i \in 1..Len(Append(s, u)) : \E j \in 1..n : Append(s, u)[i] = us[j]
    BY <2>2, <2>3, <2>5, <2>6
  <2>8. Len(s) <= m /\ Len(s) + 1 <= m
    BY <2>1
  <2> QED BY <2>1, <2>2, <2>4, <2>5, <2>7, <2>8
<1>9. Some(F[n], n)
  <2> HIDE DEF Kept
  <2> DEFINE T == {m \in 0..n : ~ Some(F[m], m)}
  <2>1. Some(<<>>, 0)
    OBVIOUS
  <2> HIDE DEF Some
  <2> SUFFICES ASSUME ~ Some(F[n], n) PROVE FALSE
    OBVIOUS
  <2>2. T \subseteq Nat /\ T # {}
    BY <1>1
  <2>3. PICK m \in T : \A k \in T : m <= k
    BY <2>2, Least
  <2>4. m # 0
    BY <1>7, <2>1, <2>3
  <2>5. m \in 1..n /\ m \in 0..n /\ m - 1 \in 0..n /\ ~(m <= m - 1)
    BY <1>1, <2>3, <2>4
  <2>6. Some(F[m - 1], m - 1)
    BY <2>3, <2>5
  <2>7. F[m] = Kept(F[m - 1], m)
    BY <1>7, <2>4, <2>5
  <2> QED BY <1>8, <2>3, <2>5, <2>6, <2>7
<1> QED BY <1>5, <1>9

-----------------------------------------------------------------------------
(* What each operator of the engine makes of an engine.                    *)

LEMMA Constants ==
    /\ Modulo \in Nat /\ Modulo >= 2 /\ Window \in Nat /\ Window >= 1
    /\ 2 * Window <= Modulo /\ Window <= Modulo \div 2 /\ 0 \in SeqNo
<1>1. Modulo \in Nat /\ Window \in 1..(Modulo \div 2) /\ Modulo % 2 = 0
  BY ErtmAssumption
<1>2. Modulo = 2 * (Modulo \div 2) + (Modulo % 2) /\ Modulo \div 2 \in Nat
  BY <1>1
<1> QED BY <1>1, <1>2 DEF SeqNo

LEMMA NextIsNumber == ASSUME NEW n \in SeqNo PROVE NextSeq(n) \in SeqNo
BY Constants DEF NextSeq, SeqNo

LEMMA NewEngine == NewEnd \in Engine /\ Bounded(NewEnd) /\ Timed(NewEnd)
BY Constants, ErtmAssumption DEF NewEnd, Engine, Bounded, Timed

\* A supervisory frame at the end of what is under way.
LEMMA Supervising ==
    ASSUME NEW r \in Engine, NEW kind \in {"RR", "REJ"}, NEW poll \in BOOLEAN,
           NEW final \in BOOLEAN
    PROVE  /\ Supervisory(r, kind, poll, final) \in Engine
           /\ \E c \in Control : /\ c.kind = kind /\ c.req = r.expected
                                 /\ Supervisory(r, kind, poll, final)
                                      = [r EXCEPT !.out = Append(r.out, c)]
<1> DEFINE c == [kind |-> kind, req |-> r.expected, poll |-> poll, final |-> final]
<1>1. c \in Control /\ c.kind = kind /\ c.req = r.expected
  BY DEF Control, Engine
<1>2. Supervisory(r, kind, poll, final) = [r EXCEPT !.out = Append(r.out, c)]
  BY DEF Supervisory
<1> HIDE DEF c
<1>3. Append(r.out, c) \in Seq(Frames)
  BY <1>1 DEF Engine, Frames
<1>4. [r EXCEPT !.out = Append(r.out, c)] \in Engine
  BY <1>3 DEF Engine
<1> QED BY <1>1, <1>2, <1>4

LEMMA Informing ==
    ASSUME NEW r \in Engine, NEW u \in Numbered
    PROVE  /\ Information(r, u) \in Data /\ Information(r, u).tx = u.tx
           /\ Information(r, u).frag = u.frag /\ Information(r, u).req = r.expected
BY DEF Information, Data, Engine, Numbered

\* Adding frames keeps an engine one.
LEMMA Adding ==
    ASSUME NEW r \in Engine, NEW g \in Seq(Data)
    PROVE  r.out \o g \in Seq(Frames)
<1>1. g \in Seq(Frames)
  BY DEF Frames
<1> QED BY <1>1 DEF Engine

\* Pump numbers the n oldest queued fragments and sends them: `fresh` is what the window
\* gains and g are the frames.
PumpsBy(r, n, fresh, g) ==
    /\ n \in 0..Len(r.queued) /\ fresh \in Seq(Numbered) /\ g \in Seq(Data)
    /\ Len(fresh) = n /\ Len(g) = n /\ Len(r.unacked) + n <= Window
    /\ \A i \in 1..n : /\ fresh[i].tx = (r.nextTx + i - 1) % Modulo
                       /\ fresh[i].frag = r.queued[i]
                       /\ g[i].tx = fresh[i].tx /\ g[i].frag = fresh[i].frag
                       /\ g[i].req = r.expected
    /\ Pump(r) = [r EXCEPT !.nextTx = (r.nextTx + n) % Modulo,
                           !.queued = SubSeq(r.queued, n + 1, Len(r.queued)),
                           !.unacked = r.unacked \o fresh,
                           !.out = r.out \o g,
                           !.retransTimer = ArmTimers(r.unacked \o fresh, r.retransTimer,
                                                      r.monitorTimer)]

LEMMA Pumping ==
    ASSUME NEW r \in Engine, Len(r.unacked) <= Window, ~r.waiting
    PROVE  Pump(r) \in Engine /\ \E n, fresh, g : PumpsBy(r, n, fresh, g)
<1> DEFINE room == Window - Len(r.unacked)
           n == IF Len(r.queued) < room THEN Len(r.queued) ELSE room
           fresh == [i \in 1..n |-> [tx |-> (r.nextTx + i - 1) % Modulo,
                                     frag |-> r.queued[i], sends |-> 1]]
           g == [i \in 1..n |-> Information(r, fresh[i])]
<1>1. /\ r.unacked \in Seq(Numbered) /\ r.queued \in Seq(Fragments) /\ r.nextTx \in Nat
      /\ r.nextTx \in SeqNo
  BY DEF Engine, SeqNo
<1>2. n \in 0..Len(r.queued) /\ Len(r.unacked) + n <= Window
  <2>1. Len(r.unacked) \in 0..Window /\ Len(r.queued) \in Nat /\ Window \in Nat
    BY <1>1, Constants
  <2>2. \A a \in 0..Window, q \in Nat :
          LET m == IF q < Window - a THEN q ELSE Window - a IN m \in 0..q /\ a + m <= Window
    BY Constants
  <2> QED BY <2>1, <2>2
<1>3. Pump(r) = [r EXCEPT !.nextTx = (r.nextTx + n) % Modulo,
                          !.queued = SubSeq(r.queued, n + 1, Len(r.queued)),
                          !.unacked = r.unacked \o fresh,
                          !.out = r.out \o g,
                          !.retransTimer = ArmTimers(r.unacked \o fresh, r.retransTimer,
                                                     r.monitorTimer)]
  BY DEF Pump
<1> HIDE DEF n
<1>4. \A i \in 1..n : fresh[i] \in Numbered
  <2> SUFFICES ASSUME NEW i \in 1..n PROVE fresh[i] \in Numbered
    OBVIOUS
  <2>1. (r.nextTx + i - 1) \in Nat
    BY <1>1, <1>2
  <2>2. (r.nextTx + i - 1) % Modulo \in SeqNo
    BY <2>1, Constants DEF SeqNo
  <2>3. r.queued[i] \in Fragments /\ 1 \in 1..MaxTransmit
    BY <1>1, <1>2, ErtmAssumption
  <2> QED BY <2>2, <2>3 DEF Numbered
<1>5. fresh \in Seq(Numbered) /\ Len(fresh) = n
  BY <1>2, <1>4
<1>6. \A i \in 1..n : fresh[i].tx = (r.nextTx + i - 1) % Modulo /\ fresh[i].frag = r.queued[i]
  OBVIOUS
<1> HIDE DEF fresh
<1>7. \A i \in 1..n : /\ g[i] \in Data /\ g[i].tx = fresh[i].tx /\ g[i].frag = fresh[i].frag
                      /\ g[i].req = r.expected
  BY <1>4, Informing
<1>8. g \in Seq(Data) /\ Len(g) = n
  BY <1>2, <1>7
<1> HIDE DEF g
<1>9. Pump(r) \in Engine
  <2>1. (r.nextTx + n) % Modulo \in SeqNo
    BY <1>1, <1>2, Constants DEF SeqNo
  <2>2. SubSeq(r.queued, n + 1, Len(r.queued)) \in Seq(Fragments)
    <3>1. n + 1 \in 1..(Len(r.queued) + 1) /\ Len(r.queued) \in ((n + 1) - 1)..Len(r.queued)
      BY <1>1, <1>2
    <3> QED BY <1>1, <3>1, Part
  <2>3. r.unacked \o fresh \in Seq(Numbered)
    BY <1>1, <1>5
  <2>4. r.out \o g \in Seq(Frames)
    BY <1>8, Adding
  <2>5. ArmTimers(r.unacked \o fresh, r.retransTimer, r.monitorTimer) \in BOOLEAN
    BY DEF ArmTimers
  <2> QED BY <1>3, <2>1, <2>2, <2>3, <2>4, <2>5, ZenonT(40) DEF Engine
<1>10. PumpsBy(r, n, fresh, g)
  BY <1>2, <1>3, <1>5, <1>6, <1>7, <1>8 DEF PumpsBy
<1> QED BY <1>9, <1>10

\* Acknowledge drops the k oldest frames, those that count as had, up to one that does not.
Retired(u, req) == Distance(u.tx, req) \in 1..(Modulo \div 2)

RetiresBy(r, req, k) ==
    /\ k \in 0..Len(r.unacked)
    /\ \A i \in 1..k : Retired(r.unacked[i], req)
    /\ k < Len(r.unacked) => ~Retired(r.unacked[k + 1], req)
    /\ \E t \in BOOLEAN :
         Acknowledge(r, req) = [r EXCEPT !.unacked = SubSeq(r.unacked, k + 1, Len(r.unacked)),
                                         !.retransTimer = t]

LEMMA Acknowledging ==
    ASSUME NEW r \in Engine, NEW req
    PROVE  Acknowledge(r, req) \in Engine /\ \E k : RetiresBy(r, req, k)
<1> DEFINE us == r.unacked
           I == {i \in 1..Len(us) : ~Retired(us[i], req)}
           keep == SelectInSeq(us, LAMBDA u : ~(Distance(u.tx, req) \in 1..(Modulo \div 2)))
           rest == IF keep = 0 THEN <<>> ELSE SubSeq(us, keep, Len(us))
           k == IF keep = 0 THEN Len(us) ELSE keep - 1
           t == r.retransTimer /\ rest # <<>>
<1>1. us \in Seq(Numbered) /\ r.retransTimer \in BOOLEAN /\ Len(us) \in Nat
  BY DEF Engine
<1>2. keep = IF I # {} THEN Min(I) ELSE 0
  BY DEF SelectInSeq, Retired
<1>3. Acknowledge(r, req) = [r EXCEPT !.unacked = rest, !.retransTimer = t]
  BY DEF Acknowledge
<1> HIDE DEF keep
<1>4. I # {} => Min(I) \in I /\ \A i \in I : Min(I) <= i
  <2> SUFFICES ASSUME I # {} PROVE Min(I) \in I /\ \A i \in I : Min(I) <= i
    OBVIOUS
  <2>1. I \subseteq Nat
    OBVIOUS
  <2> HIDE DEF I
  <2>2. \E x \in I : \A y \in I : x <= y
    BY <2>1, Least
  <2> QED BY <2>2, Zenon DEF Min
<1>5. k \in 0..Len(us) /\ (\A i \in 1..k : Retired(us[i], req))
      /\ (k < Len(us) => ~Retired(us[k + 1], req))
  <2>1. CASE I = {}
    <3>1. k = Len(us) /\ \A i \in 1..Len(us) : Retired(us[i], req)
      BY <1>2, <2>1
    <3> QED BY <1>1, <3>1
  <2>2. CASE I # {}
    <3>1. keep \in 1..Len(us) /\ ~Retired(us[keep], req) /\ \A i \in I : keep <= i
      BY <1>2, <1>4, <2>2
    <3>2. k = keep - 1 /\ k + 1 = keep /\ k \in 0..Len(us)
      BY <1>1, <3>1
    <3>3. \A i \in 1..k : i \in 1..Len(us) /\ ~(keep <= i)
      BY <1>1, <3>1, <3>2
    <3>4. \A i \in 1..k : Retired(us[i], req)
      BY <3>1, <3>3
    <3> QED BY <3>1, <3>2, <3>4
  <2> QED BY <2>1, <2>2
<1>6. rest = SubSeq(us, k + 1, Len(us))
  <2>1. CASE keep = 0
    <3>1. k + 1 \in Int /\ Len(us) \in Int /\ Len(us) < k + 1
      BY <1>1, <2>1
    <3>2. SubSeq(us, k + 1, Len(us)) = <<>>
      BY <3>1, SubSeqEmpty
    <3> QED BY <2>1, <3>2
  <2>2. CASE keep # 0
    <3>1. keep \in 1..Len(us)
      BY <1>2, <1>4, <2>2
    <3>2. k + 1 = keep
      BY <2>2, <3>1
    <3> QED BY <2>2, <3>2
  <2> QED BY <2>1, <2>2
<1>7. rest \in Seq(Numbered)
  <2>1. k + 1 \in 1..(Len(us) + 1) /\ Len(us) \in ((k + 1) - 1)..Len(us)
    BY <1>1, <1>5
  <2> HIDE DEF k, us, rest
  <2> QED BY <1>1, <1>6, <2>1, Part
<1>8. t \in BOOLEAN
  BY <1>1
<1> HIDE DEF k, rest, t
<1>9. Acknowledge(r, req) \in Engine
  BY <1>3, <1>7, <1>8 DEF Engine
<1>10. RetiresBy(r, req, k)
  BY <1>3, <1>5, <1>6, <1>8 DEF RetiresBy
<1> QED BY <1>9, <1>10

\* RetransmitAll sends some of the window again, g, and counts it: `us` is the window then.
ResendsBy(r, us, g) ==
    /\ us \in Seq(Numbered) /\ g \in Seq(Data)
    /\ Len(us) = Len(r.unacked)
    /\ \A i \in 1..Len(us) : us[i].tx = r.unacked[i].tx /\ us[i].frag = r.unacked[i].frag
    /\ \A i \in 1..Len(g) : /\ \E j \in 1..Len(r.unacked) : g[i].tx = r.unacked[j].tx
                                                          /\ g[i].frag = r.unacked[j].frag
                            /\ g[i].req = r.expected
    /\ \E t \in BOOLEAN, f \in {r.failed, "attempts"} :
         RetransmitAll(r) = [r EXCEPT !.unacked = us, !.out = r.out \o g, !.retransTimer = t,
                                      !.failed = f]

LEMMA Resending ==
    ASSUME NEW r \in Engine
    PROVE  RetransmitAll(r) \in Engine /\ \E us, g : ResendsBy(r, us, g)
<1> DEFINE again == Unspent(r.unacked)
           us == [i \in DOMAIN r.unacked |-> SentAgain(r.unacked[i])]
           g == [i \in DOMAIN again |-> Information(r, again[i])]
           t == r.retransTimer \/ again # <<>>
           f == IF Len(again) < Len(r.unacked) THEN "attempts" ELSE r.failed
<1>1. r.unacked \in Seq(Numbered) /\ r.retransTimer \in BOOLEAN
  BY DEF Engine
<1>2. RetransmitAll(r) = [r EXCEPT !.unacked = us, !.out = r.out \o g, !.retransTimer = t,
                                   !.failed = f]
  BY Zenon DEF RetransmitAll
<1>3. /\ again \in Seq(Numbered)
      /\ \A i \in 1..Len(again) : \E j \in 1..Len(r.unacked) : again[i] = r.unacked[j]
  BY <1>1, UnspentAreSome
<1>4. t \in BOOLEAN /\ f \in {r.failed, "attempts"}
  BY <1>1
<1> HIDE DEF again, t, f
<1>5. \A i \in 1..Len(r.unacked) : /\ us[i] \in Numbered
                                   /\ us[i].tx = r.unacked[i].tx
                                   /\ us[i].frag = r.unacked[i].frag
  <2> SUFFICES ASSUME NEW i \in 1..Len(r.unacked)
               PROVE  us[i] \in Numbered /\ us[i].tx = r.unacked[i].tx
                      /\ us[i].frag = r.unacked[i].frag
    OBVIOUS
  <2> DEFINE u == r.unacked[i]
  <2> DEFINE v == r.unacked
  <2>0. v \in Seq(Numbered) /\ i \in 1..Len(v)
    BY <1>1
  <2>1. u \in Numbered /\ u.sends \in 1..MaxTransmit /\ i \in DOMAIN r.unacked
    <3>1. u = v[i] /\ DOMAIN r.unacked = DOMAIN v
      OBVIOUS
    <3> HIDE DEF u, v, us
    <3>2. v[i] \in Numbered /\ i \in DOMAIN v
      BY <2>0
    <3> QED BY <3>1, <3>2 DEF Numbered
  <2>2. us[i] = IF Spent(u) THEN u ELSE [u EXCEPT !.sends = u.sends + 1]
    BY <2>1 DEF SentAgain
  <2> HIDE DEF u, us
  <2>3. ~Spent(u) => u.sends + 1 \in 1..MaxTransmit
    BY <2>1, ErtmAssumption DEF Spent
  <2> QED BY <2>1, <2>2, <2>3 DEF Numbered, u
<1>6. us \in Seq(Numbered) /\ Len(us) = Len(r.unacked)
  <2>1. DOMAIN r.unacked = 1..Len(r.unacked) /\ Len(r.unacked) \in Nat
    BY <1>1
  <2>2. DOMAIN us = DOMAIN r.unacked /\ us = [i \in DOMAIN us |-> us[i]]
    OBVIOUS
  <2> HIDE DEF us
  <2> QED BY <1>5, <2>1, <2>2
<1> HIDE DEF us
<1>7. \A i \in 1..Len(again) :
        /\ g[i] \in Data /\ g[i].tx = again[i].tx /\ g[i].frag = again[i].frag
        /\ g[i].req = r.expected
  BY <1>3, Informing
<1>8. g \in Seq(Data) /\ Len(g) = Len(again)
  <2>1. DOMAIN again = 1..Len(again) /\ Len(again) \in Nat
    BY <1>3
  <2>2. DOMAIN g = DOMAIN again /\ g = [i \in DOMAIN g |-> g[i]]
    OBVIOUS
  <2> HIDE DEF g
  <2> QED BY <1>7, <2>1, <2>2
<1> HIDE DEF g
<1>9. \A i \in 1..Len(g) : /\ \E j \in 1..Len(r.unacked) : g[i].tx = r.unacked[j].tx
                                                         /\ g[i].frag = r.unacked[j].frag
                           /\ g[i].req = r.expected
  BY <1>3, <1>7, <1>8, ZenonT(40)
<1>10. RetransmitAll(r) \in Engine
  <2>1. r.out \o g \in Seq(Frames)
    BY <1>8, Adding
  <2> QED BY <1>2, <1>4, <1>6, <2>1 DEF Engine
<1>11. ResendsBy(r, us, g)
  BY <1>2, <1>4, <1>5, <1>6, <1>8, <1>9 DEF ResendsBy
<1> QED BY <1>10, <1>11

\* Reassembly touches what it puts together and what it hands up.
LEMMA Reassembling ==
    ASSUME NEW r \in Engine, NEW frag \in Fragments
    PROVE  /\ Reassemble(r, frag) \in Engine
           /\ \E part, up : Reassemble(r, frag) = [r EXCEPT !.partial = part, !.up = up]
<1> DEFINE whole == r.partial \o <<frag>>
<1>1. /\ r.partial \in Seq(Fragments) /\ r.up \in Seq(Seq(Fragments))
      /\ <<>> \in Seq(Fragments) /\ <<frag>> \in Seq(Fragments)
  BY DEF Engine
<1>2. whole \in Seq(Fragments)
  BY <1>1
<1>3. Append(r.up, whole) \in Seq(Seq(Fragments))
      /\ Append(r.up, <<frag>>) \in Seq(Seq(Fragments))
  BY <1>1, <1>2
<1>4. \E part \in Seq(Fragments), up \in Seq(Seq(Fragments)) :
        Reassemble(r, frag) = [r EXCEPT !.partial = part, !.up = up]
  <2> HIDE DEF whole
  <2>1. r = [r EXCEPT !.up = r.up] /\ r = [r EXCEPT !.partial = r.partial, !.up = r.up]
    BY DEF Engine
  <2>2. CASE frag.sar = "whole"
    BY <1>1, <1>3, <2>2 DEF Reassemble
  <2>3. CASE frag.sar = "start"
    <3>1. Reassemble(r, frag) = [r EXCEPT !.partial = <<frag>>, !.up = r.up]
      BY <2>3 DEF Reassemble, Engine
    <3> QED BY <1>1, <3>1
  <2>4. CASE frag.sar = "cont"
    <3>1. Reassemble(r, frag)
            = [r EXCEPT !.partial = IF r.partial = <<>> THEN r.partial ELSE whole, !.up = r.up]
      BY <2>4 DEF Reassemble, Engine, whole
    <3> QED BY <1>1, <1>2, <3>1
  <2>5. CASE frag.sar = "end"
    <3>1. Reassemble(r, frag)
            = [r EXCEPT !.partial = <<>>,
                        !.up = IF r.partial # <<>> /\ Len(whole) = whole[1].len
                               THEN Append(r.up, whole) ELSE r.up]
      BY <2>5 DEF Reassemble, whole
    <3> QED BY <1>1, <1>3, <3>1
  <2> QED BY <2>2, <2>3, <2>4, <2>5 DEF Fragments
<1> QED BY <1>4, ZenonT(40) DEF Engine

-----------------------------------------------------------------------------
(* Types, bounds and timers.                                               *)

\* What an engine is while it works on a frame: its timers are seen to at the end.
Working(r) == r \in Engine /\ Bounded(r)

LEMMA PumpWorks ==
    ASSUME NEW r, Working(r)
    PROVE  Working(Pump(r)) /\ (Timed(r) => Timed(Pump(r)))
<1>1. r \in Engine /\ Len(r.unacked) <= Window /\ r.waiting \in BOOLEAN
  BY DEF Working, Bounded, Engine
<1>2. CASE r.waiting
  BY <1>1, <1>2 DEF Pump
<1>3. CASE ~r.waiting
  <2>1. Pump(r) \in Engine
    BY <1>1, <1>3, Pumping
  <2>2. PICK n, fresh, g : PumpsBy(r, n, fresh, g)
    BY <1>1, <1>3, Pumping
  <2> DEFINE us == r.unacked \o fresh
  <2>3. /\ Pump(r).unacked = us /\ Pump(r).polls = r.polls /\ Pump(r).waiting = r.waiting
        /\ Pump(r).monitorTimer = r.monitorTimer /\ Pump(r).failed = r.failed
        /\ Pump(r).retransTimer = ArmTimers(us, r.retransTimer, r.monitorTimer)
    BY <1>1, <2>2 DEF PumpsBy, Engine
  <2>4. Len(us) <= Window
    <3>1. /\ r.unacked \in Seq(Numbered) /\ fresh \in Seq(Numbered) /\ Len(fresh) = n
          /\ Len(r.unacked) + n <= Window
      BY <1>1, <2>2 DEF PumpsBy, Engine
    <3> QED BY <3>1
  <2> HIDE DEF us
  <2>5. Bounded(Pump(r))
    BY <1>3, <2>3, <2>4 DEF Working, Bounded
  <2>6. Timed(Pump(r))
    BY <1>3, <2>3 DEF Timed, ArmTimers
  <2> QED BY <2>1, <2>5, <2>6 DEF Working
<1> QED BY <1>1, <1>2, <1>3

LEMMA SupervisoryWorks ==
    ASSUME NEW r, Working(r), NEW kind \in {"RR", "REJ"}, NEW poll \in BOOLEAN,
           NEW final \in BOOLEAN
    PROVE  /\ Working(Supervisory(r, kind, poll, final))
           /\ Timed(r) => Timed(Supervisory(r, kind, poll, final))
<1>1. r \in Engine
  BY DEF Working
<1>2. Supervisory(r, kind, poll, final) \in Engine
  BY <1>1, Supervising
<1> DEFINE c == [kind |-> kind, req |-> r.expected, poll |-> poll, final |-> final]
<1>3. Supervisory(r, kind, poll, final) = [r EXCEPT !.out = Append(r.out, c)]
  BY DEF Supervisory
<1> HIDE DEF c
<1> QED BY <1>1, <1>2, <1>3 DEF Working, Bounded, Timed, Engine

LEMMA AcknowledgeWorks ==
    ASSUME NEW r, Working(r), NEW req PROVE Working(Acknowledge(r, req))
<1>1. r \in Engine
  BY DEF Working
<1>2. Acknowledge(r, req) \in Engine
  BY <1>1, Acknowledging
<1>3. PICK k : RetiresBy(r, req, k)
  BY <1>1, Acknowledging
<1>4. r.unacked \in Seq(Numbered) /\ k \in 0..Len(r.unacked)
  BY <1>1, <1>3 DEF RetiresBy, Engine
<1> DEFINE rest == SubSeq(r.unacked, k + 1, Len(r.unacked))
<1>5. PICK t \in BOOLEAN : Acknowledge(r, req)
                             = [r EXCEPT !.unacked = rest, !.retransTimer = t]
  BY <1>3 DEF RetiresBy
<1>6. Len(rest) <= Len(r.unacked)
  <2>1. Len(r.unacked) \in Nat
    BY <1>4
  <2>2. k + 1 \in 1..(Len(r.unacked) + 1) /\ Len(r.unacked) \in ((k + 1) - 1)..Len(r.unacked)
    BY <1>4, <2>1
  <2>3. Len(rest) = Len(r.unacked) + 1 - (k + 1)
    BY <1>4, <2>2, Part, ZenonT(40)
  <2>4. k \in Nat
    BY <1>4, <2>1
  <2>5. \A a, m \in Nat : a + 1 - (m + 1) <= a
    OBVIOUS
  <2> HIDE DEF rest
  <2> QED BY <2>1, <2>3, <2>4, <2>5
<1>7. Len(rest) \in Nat
  <2>1. Acknowledge(r, req).unacked = rest
    BY <1>1, <1>5 DEF Engine
  <2>2. rest \in Seq(Numbered)
    BY <1>2, <2>1 DEF Engine
  <2> QED BY <2>2
<1> HIDE DEF rest
<1>8. Len(rest) <= Window
  <2>1. Len(r.unacked) <= Window /\ Len(r.unacked) \in Nat
    BY <1>4 DEF Working, Bounded
  <2> QED BY <1>6, <1>7, <2>1, Constants
<1> QED BY <1>1, <1>2, <1>5, <1>8 DEF Working, Bounded, Engine

LEMMA RetransmitAllWorks == ASSUME NEW r, Working(r) PROVE Working(RetransmitAll(r))
<1>1. r \in Engine
  BY DEF Working
<1>2. RetransmitAll(r) \in Engine
  BY <1>1, Resending
<1>3. PICK us, g : ResendsBy(r, us, g)
  BY <1>1, Resending
<1>4. PICK t \in BOOLEAN, f \in {r.failed, "attempts"} :
        RetransmitAll(r) = [r EXCEPT !.unacked = us, !.out = r.out \o g, !.retransTimer = t,
                                     !.failed = f]
  BY <1>3 DEF ResendsBy
<1>5. Len(us) = Len(r.unacked)
  BY <1>3 DEF ResendsBy
<1>6. /\ RetransmitAll(r).unacked = us /\ RetransmitAll(r).polls = r.polls
      /\ RetransmitAll(r).waiting = r.waiting
      /\ RetransmitAll(r).monitorTimer = r.monitorTimer
      /\ RetransmitAll(r).failed \in {r.failed, "attempts"}
  BY <1>1, <1>4 DEF Engine
<1> QED BY <1>2, <1>5, <1>6 DEF Working, Bounded

LEMMA FinalWorks ==
    ASSUME NEW r, Working(r), NEW f \in Frames PROVE Working(Final(r, f))
<1> DEFINE answered == [r EXCEPT !.waiting = FALSE, !.monitorTimer = FALSE, !.polls = 0]
<1>1. Working(answered)
  <2>1. 0 \in 0..(MaxTransmit + 1) /\ 0 \in Nat
    BY ErtmAssumption
  <2>2. /\ r \in Engine /\ answered \in Engine
        /\ answered.unacked = r.unacked /\ answered.polls = 0
        /\ answered.waiting = FALSE /\ answered.monitorTimer = FALSE
    BY <2>1 DEF Working, Engine
  <2> HIDE DEF answered
  <2> QED BY <2>1, <2>2 DEF Working, Bounded
<1>2. Working(RetransmitAll(answered))
  BY <1>1, RetransmitAllWorks
<1>3. Final(r, f) = r \/ Final(r, f) = answered \/ Final(r, f) = RetransmitAll(answered)
  BY DEF Final
<1> QED BY <1>1, <1>2, <1>3

LEMMA OnSupervisoryWorks ==
    ASSUME NEW r, Working(r), NEW f \in Frames PROVE Working(OnSupervisory(r, f))
<1> DEFINE asked == IF f.kind = "REJ" THEN RetransmitAll(r) ELSE r
<1>1. Working(asked)
  BY RetransmitAllWorks
<1>2. OnSupervisory(r, f) = IF f.poll THEN Supervisory(asked, "RR", FALSE, TRUE) ELSE asked
  BY DEF OnSupervisory
<1> HIDE DEF asked
<1> QED BY <1>1, <1>2, SupervisoryWorks

LEMMA OnInformationWorks ==
    ASSUME NEW r, Working(r), NEW f \in Data PROVE Working(OnInformation(r, f))
<1>1. CASE f.tx # r.expected
  <2> DEFINE marked == [r EXCEPT !.rejected = TRUE]
  <2>1. Working(marked)
    BY DEF Working, Bounded, Engine
  <2>2. OnInformation(r, f) \in {Supervisory(marked, "REJ", FALSE, FALSE),
                                 Supervisory(r, "RR", FALSE, FALSE)}
    BY <1>1 DEF OnInformation, OutOfTurn
  <2> HIDE DEF marked
  <2> QED BY <2>1, <2>2, SupervisoryWorks
<1>2. CASE f.tx = r.expected
  <2> DEFINE taken == [r EXCEPT !.rejected = FALSE, !.expected = NextSeq(r.expected)]
             kept == Reassemble(taken, f.frag)
  <2>1. NextSeq(r.expected) \in SeqNo
    BY NextIsNumber DEF Working, Engine
  <2>2. Working(taken)
    BY <2>1 DEF Working, Bounded, Engine
  <2>3. OnInformation(r, f) = Supervisory(kept, "RR", FALSE, FALSE)
    BY <1>2 DEF OnInformation
  <2>4. f.frag \in Fragments
    BY DEF Data
  <2> HIDE DEF taken
  <2>5. Working(kept)
    <3>1. taken \in Engine
      BY <2>2 DEF Working
    <3>2. kept \in Engine
      BY <2>4, <3>1, Reassembling
    <3>3. PICK part, up : kept = [taken EXCEPT !.partial = part, !.up = up]
      BY <2>4, <3>1, Reassembling
    <3>4. /\ kept.unacked = taken.unacked /\ kept.polls = taken.polls
          /\ kept.failed = taken.failed /\ kept.waiting = taken.waiting
          /\ kept.monitorTimer = taken.monitorTimer
      BY <3>1, <3>3 DEF Engine
    <3> HIDE DEF kept
    <3> QED BY <2>2, <3>2, <3>4 DEF Working, Bounded
  <2> HIDE DEF kept
  <2> QED BY <2>3, <2>5, SupervisoryWorks
<1> QED BY <1>1, <1>2

LEMMA FailChannelWorks ==
    ASSUME NEW r, Working(r) PROVE Working(FailChannel(r)) /\ (Timed(r) => Timed(FailChannel(r)))
<1>1. CASE r.failed = "no"
  BY <1>1 DEF FailChannel
<1>2. CASE r.failed # "no"
  <2>1. Disc \in Frames
    BY Constants DEF Disc, Frames, Control
  <2>2. Append(r.out, Disc) \in Seq(Frames)
    BY <2>1 DEF Working, Engine
  <2>3. FailChannel(r) = [r EXCEPT !.out = Append(r.out, Disc)]
    BY <1>2 DEF FailChannel
  <2> QED BY <1>2, <2>2, <2>3 DEF Working, Engine, Bounded, Timed
<1> QED BY <1>1, <1>2

LEMMA PollWorks ==
    ASSUME NEW r, Working(r), r.polls \in 0..MaxTransmit
    PROVE  Working(Poll(r)) /\ Timed(Poll(r))
<1> DEFINE polled == [r EXCEPT !.polls = r.polls + 1, !.waiting = TRUE, !.monitorTimer = TRUE,
                               !.retransTimer = FALSE]
<1>1. r.polls + 1 \in 0..(MaxTransmit + 1) /\ r.polls + 1 \in Nat
  BY ErtmAssumption
<1>2. Working(polled) /\ Timed(polled)
  BY <1>1 DEF Working, Bounded, Timed, Engine
<1>3. Poll(r) = Supervisory(polled, "RR", TRUE, FALSE)
  BY DEF Poll
<1> HIDE DEF polled
<1> QED BY <1>2, <1>3, SupervisoryWorks

\* Two ends, each the other's peer.
LEMMA Peers ==
    \A p \in Ends : Peer(p) \in Ends /\ Peer(p) # p /\ Peer(Peer(p)) = p
                    /\ \A q \in Ends : q = p \/ q = Peer(p)
<1>1. Peer("A") = "B" /\ Peer("B") = "A"
  <2>1. \E q \in Ends : q # "A"
    BY DEF Ends
  <2>2. \E q \in Ends : q # "B"
    BY DEF Ends
  <2>3. Peer("A") \in Ends /\ Peer("A") # "A" /\ Peer("B") \in Ends /\ Peer("B") # "B"
    BY <2>1, <2>2 DEF Peer
  <2> QED BY <2>3 DEF Ends
<1> QED BY <1>1 DEF Ends

\* An engine that works and is timed.
Sound(r) == Working(r) /\ Timed(r)

\* What one end does to itself.
LEMMA Stepping ==
    ASSUME NEW e \in [Ends -> Engine], \A q \in Ends : Sound(e[q]), NEW p \in Ends, NEW x, Sound(x)
    PROVE  /\ [e EXCEPT ![p] = x] \in [Ends -> Engine]
           /\ \A q \in Ends : Sound([e EXCEPT ![p] = x][q])
BY DEF Sound, Working

\* Taking the next frame leaves the rest of the engine alone.
LEMMA Taking ==
    ASSUME Types, NEW p \in Ends, Arriving(p) # <<>>
    PROVE  /\ Head(Arriving(p)) \in Frames
           /\ Taken(p) \in [Ends -> Engine] /\ \A q \in Ends : Sound(Taken(p)[q])
           /\ Taken(p) = [end EXCEPT ![Peer(p)] = [end[Peer(p)] EXCEPT !.out = Tail(@)]]
<1> DEFINE q == Peer(p)
           x == [end[q] EXCEPT !.out = Tail(@)]
<1>1. q \in Ends /\ end[q] \in Engine /\ Bounded(end[q]) /\ Timed(end[q])
  BY Peers DEF Types
<1>2. Taken(p) = [end EXCEPT ![q] = x]
  BY DEF Taken
<1>3. end[q].out \in Seq(Frames) /\ end[q].out # <<>>
  BY <1>1 DEF Arriving, Engine
<1>4. Head(end[q].out) \in Frames /\ Tail(end[q].out) \in Seq(Frames)
  BY <1>3
<1>5. Sound(x)
  BY <1>1, <1>4 DEF Sound, Working, Engine, Bounded, Timed
<1>6. \A o \in Ends : Sound(end[o])
  BY DEF Types, Sound, Working
<1>7. end \in [Ends -> Engine]
  BY DEF Types
<1>8. Head(Arriving(p)) \in Frames
  BY <1>4 DEF Arriving
<1> HIDE DEF x, q
<1>9. Taken(p) \in [Ends -> Engine] /\ \A o \in Ends : Sound(Taken(p)[o])
  BY <1>1, <1>2, <1>5, <1>6, <1>7, Stepping
<1> QED BY <1>2, <1>8, <1>9 DEF x, q

LEMMA Cutting ==
    ASSUME NEW p \in Ends, NEW n \in Nat, n < Len(SduFrames[p])
    PROVE  Cut(p, n + 1) \in Seq(Fragments)
<1> DEFINE len == SduFrames[p][n + 1]
<1>1. SduFrames[p] \in Seq(Nat \ {0})
  BY ErtmAssumption
<1>2. n + 1 \in 1..Len(SduFrames[p]) /\ n + 1 \in Nat
  BY <1>1
<1>3. len \in Nat
  BY <1>1, <1>2
<1> HIDE DEF len
<1> DEFINE c == [i \in 1..len |->
                   [sdu |-> n + 1, part |-> i, len |-> len,
                    sar |-> IF len = 1 THEN "whole" ELSE IF i = 1 THEN "start"
                            ELSE IF i = len THEN "end" ELSE "cont"]]
<1>4. Cut(p, n + 1) = c
  BY DEF Cut, len
<1>5. \A i \in 1..len : c[i] \in Fragments
  BY <1>2, <1>3 DEF Fragments
<1>6. c \in Seq(Fragments)
  BY <1>3, <1>5
<1> QED BY <1>4, <1>6

LEMMA InitTypes == Init => Types
<1> SUFFICES ASSUME Init PROVE Types
  OBVIOUS
<1>1. end \in [Ends -> Engine] /\ \A p \in Ends : Bounded(end[p]) /\ Timed(end[p])
  BY NewEngine DEF Init
<1>2. \A p \in Ends : Len(SduFrames[p]) \in Nat
  BY ErtmAssumption
<1>3. sent \in [Ends -> Nat] /\ \A p \in Ends : sent[p] \in 0..Len(SduFrames[p])
  BY <1>2 DEF Init
<1>4. losses \in 0..MaxLosses
  BY ErtmAssumption DEF Init
<1> QED BY <1>1, <1>3, <1>4 DEF Types

\* The whole of a reception: the frame's acknowledgement, its final bit, its own business,
\* the window, and the timer.
Took(r, f) ==
    LET told == Final(Acknowledge(r, f.req), f)
        done == IF f.kind = "I" THEN OnInformation(told, f) ELSE OnSupervisory(told, f)
        pumped == Pump(done)
    IN FailChannel([pumped EXCEPT !.retransTimer =
                       ArmTimers(pumped.unacked, pumped.retransTimer, pumped.monitorTimer)])

LEMMA ReceiveTakes ==
    ASSUME NEW p, Receive(p)
    PROVE  end' = [Taken(p) EXCEPT ![p] = Took(end[p], Head(Arriving(p)))]
BY Zenon DEF Receive, Took

LEMMA TookSounds ==
    ASSUME NEW r, Working(r), NEW f \in Frames
    PROVE  Sound(Took(r, f))
<1> DEFINE acked == Acknowledge(r, f.req)
           told == Final(acked, f)
           done == IF f.kind = "I" THEN OnInformation(told, f) ELSE OnSupervisory(told, f)
           pumped == Pump(done)
           t == ArmTimers(pumped.unacked, pumped.retransTimer, pumped.monitorTimer)
           timed == [pumped EXCEPT !.retransTimer = t]
<1>1. Took(r, f) = FailChannel(timed)
  BY DEF Took
<1>2. Working(acked)
  BY AcknowledgeWorks
<1> HIDE DEF acked
<1>3. Working(told)
  BY <1>2, FinalWorks
<1> HIDE DEF told
<1>4. Working(done)
  <2>1. f.kind = "I" => f \in Data
    BY DEF Frames, Control
  <2> QED BY <1>3, <2>1, OnInformationWorks, OnSupervisoryWorks
<1> HIDE DEF done
<1>5. Working(pumped)
  BY <1>4, PumpWorks
<1> HIDE DEF pumped
<1>6. t \in BOOLEAN
  BY DEF ArmTimers
<1>7. Working(timed) /\ timed.retransTimer = t /\ timed.unacked = pumped.unacked
      /\ timed.waiting = pumped.waiting /\ timed.monitorTimer = pumped.monitorTimer
      /\ timed.failed = pumped.failed
  BY <1>5, <1>6 DEF Working, Engine, Bounded
<1>8. Timed(timed)
  <2> HIDE DEF timed
  <2> QED BY <1>5, <1>7 DEF Timed, ArmTimers, Working, Bounded
<1> HIDE DEF timed
<1>9. Working(FailChannel(timed)) /\ Timed(FailChannel(timed))
  BY <1>7, <1>8, FailChannelWorks
<1> QED BY <1>1, <1>9 DEF Sound

LEMMA StepTypes == Types /\ [Next]_vars => Types'
<1> SUFFICES ASSUME Types, [Next]_vars PROVE Types'
  OBVIOUS
<1>1. end \in [Ends -> Engine] /\ \A q \in Ends : Sound(end[q])
  BY DEF Types, Sound, Working
<1>2. \A p \in Ends : sent[p] \in Nat /\ Len(SduFrames[p]) \in Nat /\ sent[p] <= Len(SduFrames[p])
  BY ErtmAssumption DEF Types
<1>3. losses \in 0..MaxLosses /\ MaxLosses \in Nat
  BY ErtmAssumption DEF Types
<1> DEFINE Ended == end' \in [Ends -> Engine] /\ \A q \in Ends : Sound(end'[q])
<1>4. ASSUME Ended, UNCHANGED sent, losses' \in 0..MaxLosses PROVE Types'
  BY <1>4 DEF Types, Sound, Working
<1>5. CASE UNCHANGED vars
  BY <1>5 DEF Types, vars, Bounded, Timed
<1>6. ASSUME NEW p \in Ends, SendSdu(p) PROVE Types'
  <2> DEFINE c == Cut(p, sent[p] + 1)
             x == [end[p] EXCEPT !.queued = end[p].queued \o c]
  <2>1. c \in Seq(Fragments)
    BY <1>2, <1>6, Cutting DEF SendSdu
  <2>2. Sound(end[p])
    BY <1>1
  <2> HIDE DEF c
  <2>3. x.queued \in Seq(Fragments)
    BY <2>1, <2>2 DEF Sound, Working, Engine
  <2>4. Sound(x)
    BY <2>1, <2>2, <2>3 DEF Sound, Working, Engine, Bounded, Timed
  <2>5. end' = [end EXCEPT ![p] = Pump(x)]
    BY <1>6 DEF SendSdu, c
  <2> HIDE DEF x
  <2>6. Sound(Pump(x))
    BY <2>4, PumpWorks DEF Sound
  <2>7. Ended
    BY <1>1, <2>5, <2>6, Stepping
  <2>8. /\ sent' = [sent EXCEPT ![p] = sent[p] + 1] /\ sent \in [Ends -> Nat]
        /\ sent[p] < Len(SduFrames[p])
    BY <1>6 DEF SendSdu, Types
  <2>9. sent' \in [Ends -> Nat] /\ \A q \in Ends : sent'[q] \in 0..Len(SduFrames[q])
    BY <1>2, <2>8
  <2>10. losses' = losses
    BY <1>6 DEF SendSdu
  <2> QED BY <1>3, <2>7, <2>9, <2>10 DEF Types, Sound, Working
<1>7. ASSUME NEW p \in Ends, Receive(p) PROVE Types'
  <2>1. Arriving(p) # <<>> /\ UNCHANGED <<sent, losses>>
    BY <1>7 DEF Receive
  <2>2. /\ Head(Arriving(p)) \in Frames
        /\ Taken(p) \in [Ends -> Engine] /\ \A q \in Ends : Sound(Taken(p)[q])
    BY <2>1, Taking
  <2>3. end' = [Taken(p) EXCEPT ![p] = Took(end[p], Head(Arriving(p)))]
    BY <1>7, ReceiveTakes
  <2>4. Sound(Took(end[p], Head(Arriving(p))))
    BY <1>1, <2>2, TookSounds DEF Sound
  <2>5. Ended
    BY <2>2, <2>3, <2>4, Stepping
  <2> QED BY <1>3, <1>4, <2>1, <2>5
<1>8. ASSUME NEW p \in Ends, HearDisconnect(p) PROVE Types'
  <2>1. Arriving(p) # <<>> /\ UNCHANGED <<sent, losses>>
    BY <1>8 DEF HearDisconnect
  <2>2. Taken(p) \in [Ends -> Engine] /\ \A q \in Ends : Sound(Taken(p)[q])
    BY <2>1, Taking
  <2> DEFINE x == [Taken(p)[p] EXCEPT !.failed = "peer"]
  <2>3. Sound(x)
    BY <2>2 DEF Sound, Working, Engine, Bounded, Timed
  <2>4. end' = [Taken(p) EXCEPT ![p] = x] \/ end' = Taken(p)
    BY <1>8 DEF HearDisconnect
  <2> HIDE DEF x
  <2>5. Ended
    BY <2>2, <2>3, <2>4, Stepping
  <2> QED BY <1>3, <1>4, <2>1, <2>5
<1>9. ASSUME NEW p \in Ends, Lose(p) PROVE Types'
  <2>1. Arriving(p) # <<>> /\ UNCHANGED sent /\ losses' = losses + 1 /\ losses < MaxLosses
        /\ end' = Taken(p)
    BY <1>9 DEF Lose
  <2>2. Ended
    BY <2>1, Taking
  <2> QED BY <1>3, <1>4, <2>1, <2>2
<1>10. ASSUME NEW p \in Ends, MonitorExpires(p) PROVE Types'
  <2>1. UNCHANGED <<sent, losses>> /\ Sound(end[p]) /\ end[p].failed = "no"
    BY <1>1, <1>10 DEF MonitorExpires, Open
  <2> DEFINE x == [end[p] EXCEPT !.monitorTimer = FALSE, !.failed = "polls"]
  <2>2. end' = [end EXCEPT ![p] = IF end[p].polls >= MaxTransmit THEN FailChannel(x)
                                                                 ELSE Pump(Poll(end[p]))]
    BY <1>10 DEF MonitorExpires
  <2>3. Sound(x)
    BY <2>1 DEF Sound, Working, Engine, Bounded, Timed
  <2> HIDE DEF x
  <2>4. Sound(FailChannel(x))
    BY <2>3, FailChannelWorks DEF Sound
  <2>5. ~(end[p].polls >= MaxTransmit) => Sound(Pump(Poll(end[p])))
    <3>1. ~(end[p].polls >= MaxTransmit) => end[p].polls \in 0..MaxTransmit
      BY <2>1, ErtmAssumption DEF Sound, Working, Engine
    <3> QED BY <2>1, <3>1, PollWorks, PumpWorks DEF Sound
  <2>6. Ended
    BY <1>1, <2>2, <2>4, <2>5, Stepping
  <2> QED BY <1>3, <1>4, <2>1, <2>6
<1>11. ASSUME NEW p \in Ends, RetransmissionExpires(p) PROVE Types'
  <2>1. UNCHANGED <<sent, losses>> /\ Sound(end[p]) /\ end[p].failed = "no"
        /\ ~end[p].monitorTimer
    BY <1>1, <1>11 DEF RetransmissionExpires, Open
  <2>2. end[p].polls \in 0..MaxTransmit
    BY <2>1, ErtmAssumption DEF Sound, Working, Bounded, Engine
  <2>3. Sound(Pump(Poll(end[p])))
    BY <2>1, <2>2, PollWorks, PumpWorks DEF Sound
  <2>4. end' = [end EXCEPT ![p] = Pump(Poll(end[p]))]
    BY <1>11 DEF RetransmissionExpires
  <2>5. Ended
    BY <1>1, <2>3, <2>4, Stepping
  <2> QED BY <1>3, <1>4, <2>1, <2>5
<1> QED BY <1>5, <1>6, <1>7, <1>8, <1>9, <1>10, <1>11 DEF Next

LEMMA AlwaysTypes == Spec => []Types
BY InitTypes, StepTypes, PTL DEF Spec

\* The types TLC checks of every run: numbers within the sequence space, the window never
\* above its size, no frame sent more often than it may be.
THEOREM Typing == Spec => []TypeOK
<1>1. Types => TypeOK
  <2> SUFFICES ASSUME Types, NEW p \in Ends
               PROVE  LET r == end[p]
                      IN /\ sent[p] \in 0..Len(SduFrames[p])
                         /\ r.nextTx \in 0..(Modulo - 1) /\ r.expected \in 0..(Modulo - 1)
                         /\ Len(r.unacked) <= Window
                         /\ \A i \in DOMAIN r.unacked : r.unacked[i].sends \in 1..MaxTransmit
                         /\ r.polls \in 0..(MaxTransmit + 1)
                         /\ \A i \in DOMAIN r.out : r.out[i].kind \in Kinds
                         /\ r.failed \in {"no", "attempts", "polls", "peer"}
                         /\ {r.waiting, r.retransTimer, r.monitorTimer, r.rejected} \subseteq BOOLEAN
    BY DEF TypeOK, Types
  <2> DEFINE r == end[p]
  <2>1. r \in Engine /\ Bounded(r) /\ sent[p] \in 0..Len(SduFrames[p])
    BY DEF Types
  <2>2. \A i \in DOMAIN r.unacked : r.unacked[i].sends \in 1..MaxTransmit
    <3>1. r.unacked \in Seq(Numbered)
      BY <2>1 DEF Engine
    <3>2. \A i \in DOMAIN r.unacked : r.unacked[i] \in Numbered
      BY <3>1
    <3> HIDE DEF r
    <3> QED BY <3>2 DEF Numbered
  <2>3. \A i \in DOMAIN r.out : r.out[i].kind \in Kinds
    <3>1. r.out \in Seq(Frames)
      BY <2>1 DEF Engine
    <3>2. \A i \in DOMAIN r.out : r.out[i] \in Frames
      BY <3>1
    <3>3. \A f \in Frames : f.kind \in Kinds
      BY DEF Frames, Data, Control, Kinds
    <3> QED BY <3>2, <3>3
  <2> HIDE DEF r
  <2>4. /\ Len(r.unacked) <= Window /\ r.polls \in 0..(MaxTransmit + 1)
        /\ r.nextTx \in 0..(Modulo - 1) /\ r.expected \in 0..(Modulo - 1)
        /\ r.failed \in {"no", "attempts", "polls", "peer"}
        /\ {r.waiting, r.retransTimer, r.monitorTimer, r.rejected} \subseteq BOOLEAN
    BY <2>1 DEF Bounded, Engine, SeqNo
  <2> QED BY <2>1, <2>2, <2>3, <2>4 DEF r
<1> QED BY <1>1, AlwaysTypes, PTL

\* next_timeout: a channel that is open with frames outstanding, or with a poll unanswered,
\* has a timer running, whatever was lost and however often it polled.
THEOREM SomethingAlwaysTicks == Spec => []OutstandingIsTimed
<1>1. Types => OutstandingIsTimed
  BY DEF Types, Timed, OutstandingIsTimed, Open
<1> QED BY <1>1, AlwaysTypes, PTL

-----------------------------------------------------------------------------
(* Numbers without the wrap.                                               *)

Wrap(n) == n % Modulo

LEMMA Remainder ==
    ASSUME NEW q \in Int, NEW r \in SeqNo PROVE (Modulo * q + r) % Modulo = r
<1>1. Modulo \in Nat \ {0} /\ r \in 0..(Modulo - 1)
  BY Constants DEF SeqNo
<1> QED BY <1>1

LEMMA Quotient ==
    ASSUME NEW n \in Nat
    PROVE  /\ n = Modulo * (n \div Modulo) + Wrap(n) /\ n \div Modulo \in Nat
           /\ Wrap(n) \in SeqNo
BY Constants DEF SeqNo, Wrap

LEMMA WrapMore ==
    ASSUME NEW n \in Nat, NEW m \in Nat PROVE (Wrap(n) + m) % Modulo = Wrap(n + m)
<1> DEFINE q == n \div Modulo
           r == Wrap(n)
           s == (r + m) \div Modulo
           t == Wrap(r + m)
<1>1. n = Modulo * q + r /\ q \in Nat /\ r \in SeqNo
  BY Quotient
<1>2. r \in Nat /\ Modulo \in Nat
  BY <1>1, Constants DEF SeqNo
<1> HIDE DEF q, r
<1>3. r + m = Modulo * s + t /\ s \in Nat /\ t \in SeqNo
  BY <1>2, Quotient
<1>4. t \in Nat
  BY <1>3, Constants DEF SeqNo
<1> HIDE DEF s, t
<1>5. n + m = Modulo * (s + q) + t
  BY <1>1, <1>2, <1>3, <1>4
<1>6. (Modulo * (s + q) + t) % Modulo = t
  BY <1>1, <1>3, Remainder
<1> QED BY <1>5, <1>6 DEF r, t, Wrap

\* Two numbers less than the sequence space apart: how far one is from the other.
LEMMA Apart ==
    ASSUME NEW a \in Nat, NEW b \in Nat, b - a < Modulo, a - b < Modulo
    PROVE  Distance(Wrap(a), Wrap(b)) = IF a <= b THEN b - a ELSE b - a + Modulo
<1> DEFINE qa == a \div Modulo
           ra == Wrap(a)
           qb == b \div Modulo
           rb == Wrap(b)
           d == IF a <= b THEN b - a ELSE b - a + Modulo
           e == IF a <= b THEN 1 - (qb - qa) ELSE -(qb - qa)
<1>1. a = Modulo * qa + ra /\ qa \in Nat /\ ra \in SeqNo
  BY Quotient
<1>2. b = Modulo * qb + rb /\ qb \in Nat /\ rb \in SeqNo
  BY Quotient
<1>3. Modulo \in Nat /\ ra \in Nat /\ rb \in Nat
  BY <1>1, <1>2, Constants DEF SeqNo
<1>4. Distance(ra, rb) = (rb + Modulo - ra) % Modulo
  BY DEF Distance
<1> HIDE DEF qa, ra, qb, rb
<1>5. d \in SeqNo
  BY <1>3 DEF SeqNo
<1>6. e \in Int
  BY <1>1, <1>2
<1>7. CASE a <= b
  <2>1. d = b - a /\ e = 1 - (qb - qa)
    BY <1>7
  <2> HIDE DEF d, e
  <2>2. Modulo * (1 - (qb - qa)) = Modulo - (Modulo * qb - Modulo * qa)
    BY <1>1, <1>2, <1>3
  <2>3. rb + Modulo - ra = Modulo * e + d
    <3>1. Modulo * qb \in Int /\ Modulo * qa \in Int
      BY <1>1, <1>2, <1>3
    <3> QED BY <1>1, <1>2, <1>3, <2>1, <2>2, <3>1
  <2> QED BY <1>4, <1>5, <1>6, <2>3, Remainder DEF d, ra, rb
<1>8. CASE ~(a <= b)
  <2>1. d = b - a + Modulo /\ e = -(qb - qa)
    BY <1>8
  <2> HIDE DEF d, e
  <2>2. Modulo * (-(qb - qa)) = Modulo * qa - Modulo * qb
    BY <1>1, <1>2, <1>3
  <2>3. rb + Modulo - ra = Modulo * e + d
    <3>1. Modulo * qb \in Int /\ Modulo * qa \in Int
      BY <1>1, <1>2, <1>3
    <3> QED BY <1>1, <1>2, <1>3, <2>1, <2>2, <3>1
  <2> QED BY <1>4, <1>5, <1>6, <2>3, Remainder DEF d, ra, rb
<1> QED BY <1>7, <1>8

LEMMA Same ==
    ASSUME NEW a \in Nat, NEW b \in Nat, b - a < Modulo, a - b < Modulo, Wrap(a) = Wrap(b)
    PROVE  a = b
<1>1. Distance(Wrap(a), Wrap(b)) = IF a <= b THEN b - a ELSE b - a + Modulo
  BY Apart
<1>2. Distance(Wrap(a), Wrap(a)) = 0
  <2>1. a - a < Modulo
    BY Constants
  <2>2. Distance(Wrap(a), Wrap(a)) = IF a <= a THEN a - a ELSE a - a + Modulo
    BY <2>1, Apart
  <2> QED BY <2>2
<1> QED BY <1>1, <1>2, Constants

LEMMA Joined ==
    ASSUME NEW S, NEW s \in Seq(S), NEW t \in Seq(S)
    PROVE  /\ s \o t \in Seq(S) /\ Len(s \o t) = Len(s) + Len(t)
           /\ Len(s) \in Nat /\ Len(t) \in Nat
           /\ \A i \in 1..Len(s) : i \in 1..Len(s \o t) /\ (s \o t)[i] = s[i]
           /\ \A i \in 1..Len(t) : Len(s) + i \in 1..Len(s \o t) /\ (s \o t)[Len(s) + i] = t[i]
           /\ \A i \in 1..Len(s \o t) : i \in 1..Len(s) \/ \E j \in 1..Len(t) : i = Len(s) + j
<1>1. Len(s) \in Nat /\ Len(t) \in Nat
  OBVIOUS
<1>2. /\ s \o t \in Seq(S) /\ Len(s \o t) = Len(s) + Len(t)
      /\ \A i \in 1..(Len(s) + Len(t)) : (s \o t)[i] = IF i <= Len(s) THEN s[i] ELSE t[i - Len(s)]
  BY ConcatProperties, <1>1
<1> DEFINE a == Len(s)
           b == Len(t)
<1>3. a \in Nat /\ b \in Nat /\ a = Len(s) /\ b = Len(t)
  BY <1>1
<1> HIDE DEF a, b
<1>4. \A i \in 1..a : i \in 1..(a + b) /\ i <= a
  BY <1>3
<1>5. \A i \in 1..b : a + i \in 1..(a + b) /\ ~(a + i <= a) /\ (a + i) - a = i
  BY <1>3
<1>6. \A i \in 1..(a + b) : i \in 1..a \/ (i - a \in 1..b /\ i = a + (i - a))
  BY <1>3
<1>7. \A i \in 1..(a + b) : i \in 1..a \/ \E j \in 1..b : i = a + j
  BY <1>6
<1> QED BY <1>2, <1>3, <1>4, <1>5, <1>7

LEMMA JoinedNumbers ==
    ASSUME NEW s \in Seq(Nat), NEW t \in Seq(Nat)
    PROVE  /\ s \o t \in Seq(Nat) /\ Len(s \o t) = Len(s) + Len(t)
           /\ \A i \in 1..Len(s) : (s \o t)[i] = s[i]
           /\ \A i \in 1..Len(t) : (s \o t)[Len(s) + i] = t[i]
BY Joined

LEMMA JoinedWindow ==
    ASSUME NEW s \in Seq(Numbered), NEW t \in Seq(Numbered)
    PROVE  /\ s \o t \in Seq(Numbered) /\ Len(s \o t) = Len(s) + Len(t)
           /\ \A i \in 1..Len(s) : (s \o t)[i] = s[i]
           /\ \A i \in 1..Len(t) : (s \o t)[Len(s) + i] = t[i]
           /\ \A i \in 1..Len(s \o t) : i \in 1..Len(s) \/ \E j \in 1..Len(t) : i = Len(s) + j
BY Joined

LEMMA RestOfWindow ==
    ASSUME NEW s \in Seq(Numbered), NEW k \in 0..Len(s)
    PROVE  /\ Len(SubSeq(s, k + 1, Len(s))) = Len(s) - k
           /\ \A i \in 1..(Len(s) - k) : SubSeq(s, k + 1, Len(s))[i] = s[k + i]
<1> DEFINE m == Len(s)
           us == SubSeq(s, k + 1, m)
<1>1. m \in Nat /\ k \in 0..m /\ k \in Nat
  OBVIOUS
<1>2. k + 1 \in 1..(m + 1) /\ m \in ((k + 1) - 1)..m
  BY <1>1
<1>3. Len(us) = m + 1 - (k + 1) /\ \A i \in 1..(m + 1 - (k + 1)) : us[i] = s[(k + 1) + i - 1]
  BY <1>2, Part
<1> HIDE DEF m
<1>4. m + 1 - (k + 1) = m - k /\ \A i \in 1..(m - k) : (k + 1) + i - 1 = k + i
  BY <1>1
<1> HIDE DEF us
<1>5. Len(us) = m - k /\ \A i \in 1..(m - k) : us[i] = s[k + i]
  BY <1>3, <1>4
<1> QED BY <1>5 DEF us, m

LEMMA JoinedFragments ==
    ASSUME NEW s \in Seq(Fragments), NEW t \in Seq(Fragments)
    PROVE  /\ s \o t \in Seq(Fragments) /\ Len(s \o t) = Len(s) + Len(t)
           /\ \A i \in 1..Len(s) : (s \o t)[i] = s[i]
           /\ \A i \in 1..Len(t) : (s \o t)[Len(s) + i] = t[i]
           /\ \A i \in 1..Len(s \o t) : i \in 1..Len(s) \/ \E j \in 1..Len(t) : i = Len(s) + j
BY Joined

\* Sums, as the steps below need them.
LEMMA Sums ==
    /\ \A a, b, c \in Nat : a + (b + c) = (a + b) + c /\ a + (b + c) - 1 = (a + b) + c - 1
    /\ \A a, b \in Nat : b + 1 - (a + 1) = b - a /\ (a + 1) + b - 1 = a + b
OBVIOUS

LEMMA Tailed ==
    ASSUME NEW S, NEW s \in Seq(S), s # <<>>
    PROVE  /\ Tail(s) \in Seq(S) /\ Len(Tail(s)) = Len(s) - 1 /\ Len(s) \in Nat \ {0}
           /\ Head(s) = s[1] /\ Head(s) \in S /\ 1 \in 1..Len(s)
           /\ \A i \in 1..Len(Tail(s)) : i + 1 \in 1..Len(s) /\ Tail(s)[i] = s[i + 1]
<1>1. Len(s) \in Nat \ {0}
  OBVIOUS
<1>2. Tail(s) \in Seq(S) /\ Len(Tail(s)) = Len(s) - 1 /\ Head(s) = s[1] /\ Head(s) \in S
  OBVIOUS
<1>3. \A i \in 1..(Len(s) - 1) : i + 1 \in 1..Len(s)
  BY <1>1
<1>4. \A i \in 1..(Len(s) - 1) : Tail(s)[i] = s[i + 1]
  OBVIOUS
<1> QED BY <1>1, <1>2, <1>3, <1>4

-----------------------------------------------------------------------------
(* The ledger of one direction of the channel: x sends and xs is what it   *)
(* has under way, y receives and ys is what it has under way.              *)

Ledger == [oldest : Nat, next : Nat, due : Nat, frames : Seq(Nat), acks : Seq(Nat),
           all : Seq(Fragments)]

Ordered(w) == w.oldest <= w.due /\ w.due <= w.next /\ w.next <= w.oldest + Window

\* The sender holds the numbers from the oldest up to the next; behind them waits the rest
\* of all it was given.
Holds(x, w) ==
    /\ w.next = w.oldest + Len(x.unacked)
    /\ x.nextTx = Wrap(w.next)
    /\ Len(w.all) = w.next + Len(x.queued)
    /\ \A i \in 1..Len(x.unacked) : /\ x.unacked[i].tx = Wrap(w.oldest + i - 1)
                                    /\ x.unacked[i].frag = w.all[w.oldest + i]
    /\ \A i \in 1..Len(x.queued) : x.queued[i] = w.all[w.next + i]

\* A frame under way is one that was sent, less than a window behind what is due.
Is(f, m, w) == /\ f.tx = Wrap(m) /\ f.frag = w.all[m + 1]
               /\ m < w.next /\ w.due <= m + Window

\* Behind a frame there is none that is a window older.
Carries(xs, w) ==
    /\ Len(w.frames) = Len(xs)
    /\ \A i \in 1..Len(xs) : xs[i].kind = "I" => Is(xs[i], w.frames[i], w)
    /\ \A i, j \in 1..Len(xs) : i < j /\ xs[i].kind = "I" /\ xs[j].kind = "I"
                                => w.frames[i] < w.frames[j] + Window

\* Acknowledgements name what was due, in order; of what is due now a rejection is under
\* way only if the receiver remembers it, and of every number at most one.
Answers(y, ys, w) ==
    /\ y.expected = Wrap(w.due)
    /\ Len(w.acks) = Len(ys)
    /\ \A i \in 1..Len(ys) : /\ w.oldest <= w.acks[i] /\ w.acks[i] <= w.due
                             /\ ys[i] # Disc => ys[i].req = Wrap(w.acks[i])
                             /\ ys[i].kind = "REJ" /\ w.acks[i] = w.due => y.rejected
    /\ \A i, j \in 1..Len(ys) :
         i < j => /\ w.acks[i] <= w.acks[j]
                  /\ ys[i].kind = "REJ" /\ ys[j].kind = "REJ" => w.acks[i] < w.acks[j]

\* All that was given, by fragment: the cuts of the first n SDUs of p, one after the other.
Follows(f, g) == IF f.part < f.len THEN g.sdu = f.sdu /\ g.part = f.part + 1
                                   ELSE g.sdu = f.sdu + 1 /\ g.part = 1

Cuts(p, n, all) ==
    /\ \A i \in 1..Len(all) : /\ all[i].sdu \in 1..n
                              /\ all[i].part \in 1..SduFrames[p][all[i].sdu]
                              /\ all[i] = Cut(p, all[i].sdu)[all[i].part]
    /\ all # <<>> => all[1].sdu = 1 /\ all[1].part = 1
    /\ \A i \in 1..(Len(all) - 1) : Follows(all[i], all[i + 1])
    /\ n = 0 => all = <<>>
    /\ n # 0 => all # <<>> /\ all[Len(all)].sdu = n /\ all[Len(all)].part = all[Len(all)].len

\* What the receiver handed up and what it is putting together is what was due before now.
Handed(p, y, w) ==
    /\ \A k \in 1..Len(y.up) : y.up[k] = Cut(p, k)
    /\ \A i \in 1..Len(y.partial) : y.partial[i] = Cut(p, Len(y.up) + 1)[i]
    /\ w.due = 0 => Len(y.up) = 0 /\ Len(y.partial) = 0
    /\ w.due # 0 /\ Len(y.partial) = 0
         => w.all[w.due].sdu = Len(y.up) /\ w.all[w.due].part = w.all[w.due].len
    /\ w.due # 0 /\ Len(y.partial) # 0
         => /\ w.all[w.due].sdu = Len(y.up) + 1 /\ w.all[w.due].part = Len(y.partial)
            /\ w.all[w.due].part < w.all[w.due].len

Flow(p, n, x, xs, y, ys, w) ==
    /\ w \in Ledger /\ Ordered(w) /\ Holds(x, w) /\ Carries(xs, w) /\ Answers(y, ys, w)
    /\ Cuts(p, n, w.all) /\ Handed(p, y, w)

\* Frame f has left xs and the receiver has it in hand: it has number m.
Hand(f, m, xs, w) ==
    f.kind = "I" => /\ Is(f, m, w)
                    /\ \A i \in 1..Len(xs) : xs[i].kind = "I" => m < w.frames[i] + Window

Direction(p, n, x, xs, y, ys) == \E w : Flow(p, n, x, xs, y, ys, w)

Coming(p, n, x, xs, y, ys, f) ==
    \E w : Flow(p, n, x, xs, y, ys, w) /\ \E m \in Nat : Hand(f, m, xs, w)

\* The receiver answers with where it is.
Answering(e, g) == g = Disc \/ (g.req = e /\ g.kind # "REJ")

Repeated(d, k) == [i \in 1..k |-> d]

LEMMA FlowAnswers ==
    ASSUME NEW p, NEW n, NEW x, NEW xs, NEW y, NEW ys \in Seq(Frames), NEW w,
           Flow(p, n, x, xs, y, ys, w),
           NEW z, z.expected = y.expected, z.rejected = y.rejected,
           z.up = y.up, z.partial = y.partial,
           NEW g \in Seq(Frames), \A i \in 1..Len(g) : Answering(y.expected, g[i])
    PROVE  Flow(p, n, x, xs, z, ys \o g, [w EXCEPT !.acks = w.acks \o Repeated(w.due, Len(g))])
<1> DEFINE as == Repeated(w.due, Len(g))
           acks == w.acks \o as
           v == [w EXCEPT !.acks = acks]
           zs == ys \o g
<1>1. w \in Ledger /\ Len(w.acks) = Len(ys) /\ w.due \in Nat /\ w.acks \in Seq(Nat)
      /\ w.oldest \in Nat
  BY DEF Flow, Answers, Ledger
<1>2. as \in Seq(Nat) /\ Len(as) = Len(g) /\ \A i \in 1..Len(g) : as[i] = w.due
  BY <1>1 DEF Repeated
<1> HIDE DEF as
<1>3. /\ acks \in Seq(Nat) /\ Len(acks) = Len(w.acks) + Len(as)
      /\ \A i \in 1..Len(w.acks) : acks[i] = w.acks[i]
      /\ \A i \in 1..Len(as) : acks[Len(w.acks) + i] = as[i]
  BY <1>1, <1>2, JoinedNumbers
<1>4. /\ zs \in Seq(Frames) /\ Len(zs) = Len(ys) + Len(g) /\ Len(ys) \in Nat /\ Len(g) \in Nat
      /\ \A i \in 1..Len(ys) : zs[i] = ys[i]
      /\ \A i \in 1..Len(g) : zs[Len(ys) + i] = g[i]
      /\ \A i \in 1..Len(zs) : i \in 1..Len(ys) \/ \E j \in 1..Len(g) : i = Len(ys) + j
  BY Joined
<1> HIDE DEF acks, zs
<1>5. /\ v \in Ledger /\ v.oldest = w.oldest /\ v.due = w.due /\ v.next = w.next
      /\ v.frames = w.frames /\ v.all = w.all /\ v.acks = acks
  BY <1>1, <1>3 DEF Ledger
<1> HIDE DEF v
<1>6. \A i \in 1..Len(ys) : acks[i] = w.acks[i] /\ zs[i] = ys[i]
  BY <1>1, <1>3, <1>4
<1>7. \A j \in 1..Len(g) : acks[Len(ys) + j] = w.due /\ zs[Len(ys) + j] = g[j]
  BY <1>1, <1>2, <1>3, <1>4, ZenonT(40)
<1>8. w.oldest <= w.due
  BY DEF Flow, Ordered
<1>9. \A i \in 1..Len(zs) : /\ w.oldest <= acks[i] /\ acks[i] <= w.due
                            /\ zs[i] # Disc => zs[i].req = Wrap(acks[i])
                            /\ zs[i].kind = "REJ" /\ acks[i] = w.due => z.rejected
  <2> SUFFICES ASSUME NEW i \in 1..Len(zs)
               PROVE  /\ w.oldest <= acks[i] /\ acks[i] <= w.due
                      /\ zs[i] # Disc => zs[i].req = Wrap(acks[i])
                      /\ zs[i].kind = "REJ" /\ acks[i] = w.due => z.rejected
    OBVIOUS
  <2>1. CASE i \in 1..Len(ys)
    BY <1>6, <2>1 DEF Flow, Answers
  <2>2. ASSUME NEW j \in 1..Len(g), i = Len(ys) + j
        PROVE  /\ w.oldest <= acks[i] /\ acks[i] <= w.due
               /\ zs[i] # Disc => zs[i].req = Wrap(acks[i])
               /\ zs[i].kind = "REJ" /\ acks[i] = w.due => z.rejected
    <3>1. acks[i] = w.due /\ zs[i] = g[j]
      BY <1>7, <2>2
    <3>2. g[j] # Disc => g[j].req = Wrap(w.due)
      BY DEF Flow, Answers, Answering
    <3>3. ~(g[j].kind = "REJ")
      BY DEF Answering, Disc
    <3> QED BY <1>1, <1>8, <3>1, <3>2, <3>3
  <2> QED BY <1>4, <2>1, <2>2
<1>10. \A i, j \in 1..Len(zs) :
         i < j => /\ acks[i] <= acks[j]
                  /\ zs[i].kind = "REJ" /\ zs[j].kind = "REJ" => acks[i] < acks[j]
  <2> SUFFICES ASSUME NEW i \in 1..Len(zs), NEW j \in 1..Len(zs), i < j
               PROVE  /\ acks[i] <= acks[j]
                      /\ zs[i].kind = "REJ" /\ zs[j].kind = "REJ" => acks[i] < acks[j]
    OBVIOUS
  <2>1. CASE j \in 1..Len(ys)
    <3>1. i \in 1..Len(ys)
      BY <1>4, <2>1
    <3> QED BY <1>6, <2>1, <3>1 DEF Flow, Answers
  <2>2. ASSUME NEW k \in 1..Len(g), j = Len(ys) + k
        PROVE  /\ acks[i] <= acks[j]
               /\ zs[i].kind = "REJ" /\ zs[j].kind = "REJ" => acks[i] < acks[j]
    <3>1. acks[j] = w.due /\ zs[j] = g[k]
      BY <1>7, <2>2
    <3>2. ~(g[k].kind = "REJ")
      BY DEF Answering, Disc
    <3> QED BY <1>9, <3>1, <3>2
  <2> QED BY <1>4, <2>1, <2>2
<1>11. Answers(z, zs, v)
  <2>1. Len(acks) = Len(zs)
    BY <1>1, <1>2, <1>3, <1>4
  <2>2. z.expected = Wrap(w.due)
    BY DEF Flow, Answers
  <2> QED BY <1>5, <1>9, <1>10, <2>1, <2>2 DEF Answers
<1>12. Ordered(v) /\ Holds(x, v) /\ Carries(xs, v) /\ Cuts(p, n, v.all) /\ Handed(p, z, v)
  BY <1>5 DEF Flow, Ordered, Holds, Carries, Handed, Is
<1> QED BY <1>5, <1>11, <1>12 DEF Flow, v, zs, acks, as

\* The receiver rejects what it has not rejected yet.
LEMMA FlowRejects ==
    ASSUME NEW p, NEW n, NEW x, NEW xs, NEW y, NEW ys \in Seq(Frames), NEW w,
           Flow(p, n, x, xs, y, ys, w), ~y.rejected,
           NEW z, z.expected = y.expected, z.rejected,
           z.up = y.up, z.partial = y.partial,
           NEW c \in Frames, c.req = y.expected
    PROVE  Flow(p, n, x, xs, z, ys \o <<c>>, [w EXCEPT !.acks = w.acks \o <<w.due>>])
<1> DEFINE acks == w.acks \o <<w.due>>
           v == [w EXCEPT !.acks = acks]
           zs == ys \o <<c>>
           m == Len(ys)
<1>1. w \in Ledger /\ Len(w.acks) = m /\ w.due \in Nat /\ w.acks \in Seq(Nat)
      /\ w.oldest \in Nat /\ <<w.due>> \in Seq(Nat) /\ m \in Nat /\ <<c>> \in Seq(Frames)
  BY DEF Flow, Answers, Ledger
<1>2. /\ acks \in Seq(Nat) /\ Len(acks) = m + 1
      /\ \A i \in 1..m : acks[i] = w.acks[i]
      /\ acks[m + 1] = w.due
  <2> DEFINE one == <<w.due>>
  <2>1. one \in Seq(Nat) /\ Len(one) = 1 /\ one[1] = w.due /\ 1 \in 1..1
    BY <1>1
  <2> HIDE DEF one
  <2>2. /\ w.acks \o one \in Seq(Nat) /\ Len(w.acks \o one) = Len(w.acks) + Len(one)
        /\ \A i \in 1..Len(w.acks) : (w.acks \o one)[i] = w.acks[i]
        /\ \A i \in 1..Len(one) : (w.acks \o one)[Len(w.acks) + i] = one[i]
    BY <1>1, <2>1, JoinedNumbers
  <2> HIDE DEF m
  <2>3. /\ Len(w.acks \o one) = m + 1
        /\ \A i \in 1..m : (w.acks \o one)[i] = w.acks[i]
        /\ (w.acks \o one)[m + 1] = w.due
    BY <1>1, <2>1, <2>2
  <2> QED BY <2>2, <2>3 DEF one
<1>3. /\ zs \in Seq(Frames) /\ Len(zs) = m + 1
      /\ \A i \in 1..m : zs[i] = ys[i]
      /\ zs[m + 1] = c
  BY <1>1, Joined
<1>4. \A i \in 1..(m + 1) : i \in 1..m \/ i = m + 1
  BY <1>1
<1> HIDE DEF acks, zs
<1>5. /\ v \in Ledger /\ v.oldest = w.oldest /\ v.due = w.due /\ v.next = w.next
      /\ v.frames = w.frames /\ v.all = w.all /\ v.acks = acks
  BY <1>1, <1>2 DEF Ledger
<1> HIDE DEF v
<1>6. \A i \in 1..m : /\ w.oldest <= w.acks[i] /\ w.acks[i] <= w.due
                      /\ ys[i] # Disc => ys[i].req = Wrap(w.acks[i])
                      /\ ~(ys[i].kind = "REJ" /\ w.acks[i] = w.due)
                      /\ w.acks[i] \in Nat
  BY <1>1 DEF Flow, Answers
<1>7. c.req = Wrap(w.due) /\ w.oldest <= w.due
  BY DEF Flow, Answers, Ordered
<1>8. \A i \in 1..Len(zs) : /\ w.oldest <= acks[i] /\ acks[i] <= w.due
                            /\ zs[i] # Disc => zs[i].req = Wrap(acks[i])
                            /\ zs[i].kind = "REJ" /\ acks[i] = w.due => z.rejected
  <2> SUFFICES ASSUME NEW i \in 1..Len(zs)
               PROVE  /\ w.oldest <= acks[i] /\ acks[i] <= w.due
                      /\ zs[i] # Disc => zs[i].req = Wrap(acks[i])
                      /\ zs[i].kind = "REJ" /\ acks[i] = w.due => z.rejected
    OBVIOUS
  <2>1. CASE i \in 1..m
    BY <1>2, <1>3, <1>6, <2>1
  <2>2. CASE i = m + 1
    BY <1>1, <1>2, <1>3, <1>7, <2>2
  <2> QED BY <1>3, <1>4, <2>1, <2>2
<1>9. \A i, j \in 1..Len(zs) :
         i < j => /\ acks[i] <= acks[j]
                  /\ zs[i].kind = "REJ" /\ zs[j].kind = "REJ" => acks[i] < acks[j]
  <2> SUFFICES ASSUME NEW i \in 1..Len(zs), NEW j \in 1..Len(zs), i < j
               PROVE  /\ acks[i] <= acks[j]
                      /\ zs[i].kind = "REJ" /\ zs[j].kind = "REJ" => acks[i] < acks[j]
    OBVIOUS
  <2>1. i \in 1..m
    BY <1>1, <1>3
  <2>2. CASE j \in 1..m
    BY <1>2, <1>3, <2>1, <2>2 DEF Flow, Answers
  <2>3. CASE j = m + 1
    <3>1. w.acks[i] <= w.due /\ ~(ys[i].kind = "REJ" /\ w.acks[i] = w.due) /\ w.acks[i] \in Nat
      BY <1>6, <2>1
    <3>2. acks[i] = w.acks[i] /\ acks[j] = w.due /\ zs[i] = ys[i]
      BY <1>2, <1>3, <2>1, <2>3
    <3> QED BY <1>1, <3>1, <3>2
  <2> QED BY <1>3, <1>4, <2>2, <2>3
<1>10. Answers(z, zs, v)
  <2>1. z.expected = Wrap(w.due) /\ Len(acks) = Len(zs)
    BY <1>2, <1>3 DEF Flow, Answers
  <2> QED BY <1>5, <1>8, <1>9, <2>1 DEF Answers
<1>11. Ordered(v) /\ Holds(x, v) /\ Carries(xs, v) /\ Cuts(p, n, v.all) /\ Handed(p, z, v)
  BY <1>5 DEF Flow, Ordered, Holds, Carries, Handed, Is
<1> QED BY <1>5, <1>10, <1>11 DEF Flow, v, zs, acks

\* The sender puts frames it holds under way, again or for the first time.
LEMMA FlowCarries ==
    ASSUME NEW p, NEW n, NEW x, NEW xs \in Seq(Frames), NEW y, NEW ys, NEW w,
           Flow(p, n, x, xs, y, ys, w), NEW z, Holds(z, w),
           NEW g \in Seq(Frames), NEW ns \in Seq(Nat), Len(ns) = Len(g),
           \A i \in 1..Len(g) : g[i].kind = "I" =>
             /\ g[i].tx = Wrap(ns[i]) /\ g[i].frag = w.all[ns[i] + 1]
             /\ w.oldest <= ns[i] /\ ns[i] < w.next
    PROVE  Flow(p, n, z, xs \o g, y, ys, [w EXCEPT !.frames = w.frames \o ns])
<1> DEFINE fs == w.frames \o ns
           v == [w EXCEPT !.frames = fs]
           zs == xs \o g
           m == Len(xs)
<1>1. w \in Ledger /\ Len(w.frames) = m /\ w.due \in Nat /\ w.frames \in Seq(Nat)
      /\ w.oldest \in Nat /\ w.next \in Nat /\ m \in Nat /\ Len(g) \in Nat
  BY DEF Flow, Carries, Ledger
<1>2. /\ fs \in Seq(Nat) /\ Len(fs) = m + Len(g)
      /\ \A i \in 1..m : fs[i] = w.frames[i]
      /\ \A i \in 1..Len(g) : fs[m + i] = ns[i]
  <2>1. /\ w.frames \o ns \in Seq(Nat) /\ Len(w.frames \o ns) = Len(w.frames) + Len(ns)
        /\ \A i \in 1..Len(w.frames) : (w.frames \o ns)[i] = w.frames[i]
        /\ \A i \in 1..Len(ns) : (w.frames \o ns)[Len(w.frames) + i] = ns[i]
    BY <1>1, JoinedNumbers
  <2> HIDE DEF m
  <2> QED BY <1>1, <2>1
<1>3. /\ zs \in Seq(Frames) /\ Len(zs) = m + Len(g)
      /\ \A i \in 1..m : zs[i] = xs[i]
      /\ \A i \in 1..Len(g) : zs[m + i] = g[i]
      /\ \A i \in 1..Len(zs) : i \in 1..m \/ \E j \in 1..Len(g) : i = m + j
  BY Joined
<1> HIDE DEF fs, zs
<1>4. /\ v \in Ledger /\ v.oldest = w.oldest /\ v.due = w.due /\ v.next = w.next
      /\ v.acks = w.acks /\ v.all = w.all /\ v.frames = fs
  BY <1>1, <1>2 DEF Ledger
<1> HIDE DEF v
<1>5. w.due <= w.next /\ w.next <= w.oldest + Window /\ Window \in Nat
  BY Constants DEF Flow, Ordered
<1>6. \A i \in 1..m : xs[i].kind = "I" =>
         /\ xs[i].tx = Wrap(w.frames[i]) /\ xs[i].frag = w.all[w.frames[i] + 1]
         /\ w.frames[i] < w.next /\ w.due <= w.frames[i] + Window /\ w.frames[i] \in Nat
  BY <1>1 DEF Flow, Carries, Is
<1>7. \A i \in 1..Len(g) : g[i].kind = "I" =>
         /\ g[i].tx = Wrap(ns[i]) /\ g[i].frag = w.all[ns[i] + 1]
         /\ ns[i] < w.next /\ w.next <= ns[i] + Window /\ ns[i] \in Nat
         /\ w.due <= ns[i] + Window
  <2> SUFFICES ASSUME NEW i \in 1..Len(g), g[i].kind = "I"
               PROVE  /\ g[i].tx = Wrap(ns[i]) /\ g[i].frag = w.all[ns[i] + 1]
                      /\ ns[i] < w.next /\ w.next <= ns[i] + Window /\ ns[i] \in Nat
                      /\ w.due <= ns[i] + Window
    OBVIOUS
  <2>1. ns[i] \in Nat /\ w.oldest <= ns[i] /\ ns[i] < w.next
    OBVIOUS
  <2>2. \A a \in Nat : w.oldest <= a => w.next <= a + Window /\ w.due <= a + Window
    BY <1>1, <1>5, SMTT(30)
  <2>3. w.next <= ns[i] + Window /\ w.due <= ns[i] + Window
    BY <2>1, <2>2, Zenon
  <2> QED BY <2>1, <2>3
<1>8. \A i \in 1..Len(zs) : zs[i].kind = "I" =>
         /\ zs[i].tx = Wrap(fs[i]) /\ zs[i].frag = w.all[fs[i] + 1]
         /\ fs[i] < w.next /\ w.due <= fs[i] + Window /\ fs[i] \in Nat
  <2> SUFFICES ASSUME NEW i \in 1..Len(zs), zs[i].kind = "I"
               PROVE  /\ zs[i].tx = Wrap(fs[i]) /\ zs[i].frag = w.all[fs[i] + 1]
                      /\ fs[i] < w.next /\ w.due <= fs[i] + Window /\ fs[i] \in Nat
    OBVIOUS
  <2>1. CASE i \in 1..m
    BY <1>2, <1>3, <1>6, <2>1
  <2>2. ASSUME NEW j \in 1..Len(g), i = m + j
        PROVE  /\ zs[i].tx = Wrap(fs[i]) /\ zs[i].frag = w.all[fs[i] + 1]
               /\ fs[i] < w.next /\ w.due <= fs[i] + Window /\ fs[i] \in Nat
    <3>1. zs[i] = g[j] /\ fs[i] = ns[j]
      BY <1>2, <1>3, <2>2
    <3> QED BY <1>7, <3>1
  <2> QED BY <1>3, <2>1, <2>2
<1>9. \A i, j \in 1..Len(zs) : i < j /\ zs[i].kind = "I" /\ zs[j].kind = "I"
                               => fs[i] < fs[j] + Window
  <2> SUFFICES ASSUME NEW i \in 1..Len(zs), NEW j \in 1..Len(zs), i < j,
                      zs[i].kind = "I", zs[j].kind = "I"
               PROVE  fs[i] < fs[j] + Window
    OBVIOUS
  <2>1. CASE j \in 1..m
    <3>1. i \in 1..m
      BY <1>1, <1>3, <2>1
    <3> QED BY <1>2, <1>3, <2>1, <3>1 DEF Flow, Carries
  <2>2. ASSUME NEW k \in 1..Len(g), j = m + k PROVE fs[i] < fs[j] + Window
    <3>1. zs[j] = g[k] /\ fs[j] = ns[k]
      BY <1>2, <1>3, <2>2
    <3>2. fs[i] < w.next /\ fs[i] \in Nat /\ w.next <= ns[k] + Window /\ ns[k] \in Nat
      BY <1>7, <1>8, <3>1
    <3>3. \A a, b, c, d \in Nat : a < b /\ b <= c + d => a < c + d
      OBVIOUS
    <3>4. fs[i] < ns[k] + Window
      BY <1>1, <3>2, <3>3, Constants
    <3> QED BY <3>1, <3>4
  <2> QED BY <1>3, <2>1, <2>2
<1>10. Carries(zs, v)
  <2>1. Len(fs) = Len(zs)
    BY <1>2, <1>3
  <2> QED BY <1>4, <1>8, <1>9, <2>1 DEF Carries, Is
<1>11. Ordered(v) /\ Holds(z, v) /\ Answers(y, ys, v) /\ Cuts(p, n, v.all) /\ Handed(p, y, v)
  <2>1. Ordered(v)
    BY <1>4 DEF Flow, Ordered
  <2>2. Holds(z, v)
    BY <1>4 DEF Holds
  <2>3. Answers(y, ys, v)
    BY <1>4 DEF Flow, Answers
  <2>4. Cuts(p, n, v.all) /\ Handed(p, y, v)
    BY <1>4 DEF Flow, Handed
  <2> QED BY <2>1, <2>2, <2>3, <2>4
<1> QED BY <1>4, <1>10, <1>11 DEF Flow, v, zs, fs

\* The frames g have the k numbers from the next on.
Numbers(w, k, g) ==
    \A i \in 1..k : g[i].tx = Wrap(w.next + i - 1) /\ g[i].frag = w.all[(w.next + i - 1) + 1]

\* Numbering what waits moves the next number on.
LEMMA FlowNumbers ==
    ASSUME NEW p, NEW n, NEW x \in Engine, NEW y, NEW ys, NEW w,
           Flow(p, n, x, x.out, y, ys, w), NEW k, NEW fresh, NEW g, PumpsBy(x, k, fresh, g)
    PROVE  Flow(p, n, Pump(x), x.out, y, ys, [w EXCEPT !.next = w.next + k]) /\ Numbers(w, k, g)
<1> DEFINE v == [w EXCEPT !.next = w.next + k]
           m == Len(x.unacked)
           q == Len(x.queued)
           us == x.unacked \o fresh
           rest == SubSeq(x.queued, k + 1, q)
<1>1. /\ w \in Ledger /\ w.oldest \in Nat /\ w.next \in Nat /\ w.due \in Nat /\ Window \in Nat
      /\ x.unacked \in Seq(Numbered) /\ x.queued \in Seq(Fragments) /\ m \in Nat /\ q \in Nat
      /\ m = Len(x.unacked) /\ q = Len(x.queued)
  BY Constants DEF Flow, Ledger, Engine
<1> HIDE DEF m, q
<1>2. /\ k \in 0..q /\ fresh \in Seq(Numbered) /\ Len(fresh) = k /\ m + k <= Window
      /\ \A i \in 1..k : /\ fresh[i].tx = (x.nextTx + i - 1) % Modulo
                         /\ fresh[i].frag = x.queued[i]
                         /\ g[i].tx = fresh[i].tx /\ g[i].frag = fresh[i].frag
  BY <1>1 DEF PumpsBy
<1>3. /\ w.next = w.oldest + m /\ x.nextTx = Wrap(w.next) /\ Len(w.all) = w.next + q
      /\ \A i \in 1..m : /\ x.unacked[i].tx = Wrap(w.oldest + i - 1)
                         /\ x.unacked[i].frag = w.all[w.oldest + i]
      /\ \A i \in 1..q : x.queued[i] = w.all[w.next + i]
  BY <1>1 DEF Flow, Holds
<1>4. /\ Pump(x).unacked = us /\ Pump(x).queued = rest
      /\ Pump(x).nextTx = (x.nextTx + k) % Modulo
  BY <1>1 DEF PumpsBy, Engine
<1>5. /\ us \in Seq(Numbered) /\ Len(us) = m + k
      /\ \A i \in 1..m : us[i] = x.unacked[i]
      /\ \A i \in 1..k : us[m + i] = fresh[i]
      /\ \A i \in 1..Len(us) : i \in 1..m \/ \E j \in 1..k : i = m + j
  <2>1. /\ us \in Seq(Numbered) /\ Len(us) = Len(x.unacked) + Len(fresh)
        /\ \A i \in 1..Len(x.unacked) : us[i] = x.unacked[i]
        /\ \A i \in 1..Len(fresh) : us[Len(x.unacked) + i] = fresh[i]
        /\ \A i \in 1..Len(us) : \/ i \in 1..Len(x.unacked)
                                 \/ \E j \in 1..Len(fresh) : i = Len(x.unacked) + j
    BY <1>1, <1>2, JoinedWindow
  <2> HIDE DEF us
  <2> QED BY <1>1, <1>2, <2>1
<1>6. Len(rest) = q - k /\ \A i \in 1..(q - k) : rest[i] = x.queued[k + i]
  <2>1. k + 1 \in 1..(q + 1) /\ q \in ((k + 1) - 1)..q
    BY <1>1, <1>2
  <2>2. /\ Len(rest) = q + 1 - (k + 1)
        /\ \A i \in 1..(q + 1 - (k + 1)) : rest[i] = x.queued[(k + 1) + i - 1]
    BY <1>1, <2>1, Part, SMTT(30)
  <2>3. q + 1 - (k + 1) = q - k /\ \A i \in 1..(q - k) : (k + 1) + i - 1 = k + i
    <3>1. k \in Nat /\ \A i \in 1..(q - k) : i \in Nat
      BY <1>1, <1>2
    <3>2. q + 1 - (k + 1) = q - k
      BY <1>1, <3>1, Sums
    <3>3. \A i \in 1..(q - k) : (k + 1) + i - 1 = k + i
      BY <3>1, Sums
    <3> QED BY <3>2, <3>3
  <2> HIDE DEF rest
  <2> QED BY <2>2, <2>3
<1> HIDE DEF us, rest
<1>7. /\ v \in Ledger /\ v.oldest = w.oldest /\ v.due = w.due /\ v.next = w.next + k
      /\ v.acks = w.acks /\ v.all = w.all /\ v.frames = w.frames
  <2>1. w.next + k \in Nat
    BY <1>1, <1>2
  <2> QED BY <1>1, <2>1 DEF Ledger
<1> HIDE DEF v
<1>8. k \in Nat /\ k <= q /\ v.next \in Nat /\ w.next <= v.next
  BY <1>1, <1>2, <1>7
<1>9. Ordered(v)
  <2>1. w.oldest <= w.due /\ w.due <= w.next
    BY DEF Flow, Ordered
  <2>2. w.next + k <= w.oldest + Window
    BY <1>1, <1>2, <1>3, <1>8, SMTT(30)
  <2>3. w.due <= w.next + k
    BY <1>1, <1>8, <2>1
  <2> QED BY <1>7, <2>1, <2>2, <2>3 DEF Ordered
<1>10. \A i \in 1..k : fresh[i].tx = Wrap(w.next + i - 1)
  <2> SUFFICES ASSUME NEW i \in 1..k PROVE fresh[i].tx = Wrap(w.next + i - 1)
    OBVIOUS
  <2>1. i - 1 \in Nat /\ i \in Nat
    BY <1>8
  <2>2. (Wrap(w.next) + (i - 1)) % Modulo = Wrap(w.next + (i - 1))
    BY <1>1, <2>1, WrapMore
  <2>3. x.nextTx \in Nat
    BY Constants DEF Engine, SeqNo
  <2>4. x.nextTx + i - 1 = x.nextTx + (i - 1) /\ w.next + i - 1 = w.next + (i - 1)
    BY <1>1, <2>1, <2>3
  <2> QED BY <1>2, <1>3, <2>2, <2>4
<1>11. \A i \in 1..k : fresh[i].frag = w.all[w.next + i]
  <2>1. \A i \in 1..k : i \in 1..q
    BY <1>1, <1>8
  <2> QED BY <1>2, <1>3, <2>1
<1>12. Holds(Pump(x), v)
  <2>1. v.next = v.oldest + Len(us)
    <3>1. v.oldest = w.oldest /\ v.next = w.next + k /\ w.next = w.oldest + m /\ Len(us) = m + k
      BY <1>3, <1>5, <1>7
    <3>2. w.oldest \in Nat /\ m \in Nat /\ k \in Nat
      BY <1>1, <1>8
    <3> QED BY <3>1, <3>2
  <2>2. (x.nextTx + k) % Modulo = Wrap(v.next)
    BY <1>1, <1>3, <1>7, <1>8, WrapMore
  <2>3. Len(v.all) = v.next + Len(rest)
    BY <1>1, <1>3, <1>6, <1>7, <1>8
  <2>4. \A i \in 1..Len(us) : us[i].tx = Wrap(v.oldest + i - 1) /\ us[i].frag = v.all[v.oldest + i]
    <3> SUFFICES ASSUME NEW i \in 1..Len(us)
                 PROVE  us[i].tx = Wrap(w.oldest + i - 1) /\ us[i].frag = w.all[w.oldest + i]
      BY <1>7
    <3>1. CASE i \in 1..m
      BY <1>3, <1>5, <3>1
    <3>2. ASSUME NEW j \in 1..k, i = m + j
          PROVE  us[i].tx = Wrap(w.oldest + i - 1) /\ us[i].frag = w.all[w.oldest + i]
      <4>1. us[i] = fresh[j]
        BY <1>5, <3>2
      <4>2. w.oldest + i - 1 = w.next + j - 1 /\ w.oldest + i = w.next + j
        <5>1. w.next = w.oldest + m /\ j \in Nat
          BY <1>3, <1>8
        <5>2. w.oldest \in Nat /\ m \in Nat
          BY <1>1
        <5>3. w.oldest + (m + j) = (w.oldest + m) + j
              /\ w.oldest + (m + j) - 1 = (w.oldest + m) + j - 1
          BY <5>1, <5>2, Sums
        <5> QED BY <3>2, <5>1, <5>3
      <4> QED BY <1>10, <1>11, <4>1, <4>2
    <3> QED BY <1>5, <3>1, <3>2
  <2>5. \A i \in 1..Len(rest) : rest[i] = v.all[v.next + i]
    <3> SUFFICES ASSUME NEW i \in 1..Len(rest) PROVE rest[i] = v.all[v.next + i]
      OBVIOUS
    <3>1. i \in 1..(q - k) /\ k + i \in 1..q
      BY <1>1, <1>6, <1>8
    <3>2. w.next + (k + i) = v.next + i
      <4>1. i \in Nat
        BY <3>1
      <4>2. w.next \in Nat /\ k \in Nat /\ v.next = w.next + k
        BY <1>1, <1>7, <1>8
      <4>3. w.next + (k + i) = (w.next + k) + i
        BY <4>1, <4>2, Sums
      <4> QED BY <4>2, <4>3
    <3> QED BY <1>3, <1>6, <1>7, <3>1, <3>2
  <2> QED BY <1>4, <2>1, <2>2, <2>3, <2>4, <2>5 DEF Holds
<1>13. Carries(x.out, v)
  <2>1. Len(w.frames) = Len(x.out) /\ w.frames \in Seq(Nat)
    BY <1>1 DEF Flow, Carries, Ledger
  <2>2. \A i \in 1..Len(x.out) : w.frames[i] \in Nat
    BY <2>1
  <2>3. \A a \in Nat : a < w.next => a < v.next
    BY <1>1, <1>8
  <2> QED BY <1>7, <2>2, <2>3 DEF Flow, Carries, Is
<1>14. Answers(y, ys, v) /\ Cuts(p, n, v.all) /\ Handed(p, y, v)
  BY <1>7 DEF Flow, Answers, Handed
<1>15. \A i \in 1..k : /\ g[i].tx = Wrap(w.next + i - 1)
                       /\ g[i].frag = w.all[(w.next + i - 1) + 1]
  <2>1. \A i \in 1..k : (w.next + i - 1) + 1 = w.next + i
    BY <1>1, <1>8
  <2> QED BY <1>2, <1>10, <1>11, <2>1
<1>16. Flow(p, n, Pump(x), x.out, y, ys, v)
  BY <1>7, <1>9, <1>12, <1>13, <1>14 DEF Flow
<1> QED BY <1>15, <1>16 DEF v, Numbers

LEMMA FlowPumps ==
    ASSUME NEW p, NEW n, NEW x, Working(x), NEW y, NEW ys,
           Direction(p, n, x, x.out, y, ys)
    PROVE  Direction(p, n, Pump(x), Pump(x).out, y, ys)
<1>1. x \in Engine /\ Len(x.unacked) <= Window
  BY DEF Working, Bounded
<1>2. PICK w : Flow(p, n, x, x.out, y, ys, w)
  BY DEF Direction
<1>3. CASE x.waiting
  BY <1>3 DEF Pump
<1>4. CASE ~x.waiting
  <2>1. PICK k, fresh, g : PumpsBy(x, k, fresh, g)
    BY <1>1, <1>4, Pumping
  <2> DEFINE v == [w EXCEPT !.next = w.next + k]
             ns == [i \in 1..k |-> w.next + i - 1]
  <2>0. Flow(p, n, Pump(x), x.out, y, ys, [w EXCEPT !.next = w.next + k]) /\ Numbers(w, k, g)
    BY <1>1, <1>2, <2>1, FlowNumbers
  <2>2. /\ Flow(p, n, Pump(x), x.out, y, ys, v)
        /\ \A i \in 1..k : g[i].tx = Wrap(w.next + i - 1) /\ g[i].frag = w.all[(w.next + i - 1) + 1]
    BY <2>0, Zenon DEF Numbers
  <2>3. w \in Ledger /\ w.next \in Nat /\ w.oldest \in Nat /\ w.oldest <= w.next
    BY <1>2 DEF Flow, Ordered, Ledger
  <2>4. k \in Nat /\ g \in Seq(Frames) /\ Len(g) = k
    BY <1>1, <2>1 DEF PumpsBy, Engine, Frames
  <2>5. \A i \in 1..k : /\ w.next + i - 1 \in Nat /\ w.oldest <= w.next + i - 1
                        /\ w.next + i - 1 < w.next + k
    BY <2>3, <2>4
  <2>6. ns \in Seq(Nat) /\ Len(ns) = k /\ \A i \in 1..k : ns[i] = w.next + i - 1
    BY <2>4, <2>5
  <2>7. v.all = w.all /\ v.oldest = w.oldest /\ v.next = w.next + k
    BY <2>3 DEF Ledger
  <2> HIDE DEF ns, v
  <2>8. \A i \in 1..Len(g) : /\ g[i].tx = Wrap(ns[i]) /\ g[i].frag = v.all[ns[i] + 1]
                             /\ v.oldest <= ns[i] /\ ns[i] < v.next
    BY <2>2, <2>4, <2>5, <2>6, <2>7
  <2>9. x.out \in Seq(Frames) /\ Pump(x).out = x.out \o g
    BY <1>1, <2>1 DEF PumpsBy, Engine
  <2>10. Holds(Pump(x), v)
    BY <2>2 DEF Flow
  <2>11. Flow(p, n, Pump(x), x.out \o g, y, ys, [v EXCEPT !.frames = v.frames \o ns])
    BY <2>2, <2>4, <2>6, <2>8, <2>9, <2>10, FlowCarries
  <2> QED BY <2>9, <2>11 DEF Direction
<1> QED BY <1>3, <1>4

LEMMA FlowResends ==
    ASSUME NEW p, NEW n, NEW x \in Engine, NEW y, NEW ys,
           Direction(p, n, x, x.out, y, ys)
    PROVE  Direction(p, n, RetransmitAll(x), RetransmitAll(x).out, y, ys)
<1>1. PICK w : Flow(p, n, x, x.out, y, ys, w)
  BY DEF Direction
<1>2. PICK us, g : ResendsBy(x, us, g)
  BY Resending
<1> DEFINE z == RetransmitAll(x)
<1>3. /\ z.unacked = us /\ z.queued = x.queued /\ z.nextTx = x.nextTx /\ z.out = x.out \o g
      /\ Len(us) = Len(x.unacked) /\ g \in Seq(Frames) /\ x.out \in Seq(Frames)
  BY <1>2 DEF ResendsBy, Engine, Frames
<1>4. \A i \in 1..Len(us) : us[i].tx = x.unacked[i].tx /\ us[i].frag = x.unacked[i].frag
  BY <1>2 DEF ResendsBy
<1>5. \A i \in 1..Len(g) : \E j \in 1..Len(x.unacked) : g[i].tx = x.unacked[j].tx
                                                       /\ g[i].frag = x.unacked[j].frag
  BY <1>2 DEF ResendsBy
<1> HIDE DEF z
<1>6. Holds(z, w)
  BY <1>1, <1>3, <1>4 DEF Flow, Holds
<1>7. /\ w.oldest \in Nat /\ w.next \in Nat /\ w.next = w.oldest + Len(x.unacked)
      /\ Len(x.unacked) \in Nat /\ Len(g) \in Nat
      /\ \A j \in 1..Len(x.unacked) : /\ x.unacked[j].tx = Wrap(w.oldest + j - 1)
                                      /\ x.unacked[j].frag = w.all[w.oldest + j]
  BY <1>1, <1>3, SMTT(30) DEF Flow, Holds, Ledger, Engine
<1> DEFINE Number(i, a) == /\ g[i].tx = Wrap(a) /\ g[i].frag = w.all[a + 1]
                           /\ w.oldest <= a /\ a < w.next
           ns == [i \in 1..Len(g) |-> CHOOSE a \in Nat : Number(i, a)]
<1>8. \A i \in 1..Len(g) : \E a \in Nat : Number(i, a)
  <2> SUFFICES ASSUME NEW i \in 1..Len(g) PROVE \E a \in Nat : Number(i, a)
    OBVIOUS
  <2>1. PICK j \in 1..Len(x.unacked) : g[i].tx = x.unacked[j].tx /\ g[i].frag = x.unacked[j].frag
    BY <1>5
  <2> DEFINE a == w.oldest + j - 1
             m == Len(x.unacked)
  <2>2. m \in Nat /\ j \in 1..m /\ w.next = w.oldest + m
    BY <1>7
  <2> HIDE DEF m
  <2>3. a \in Nat /\ w.oldest <= a /\ a < w.next /\ a + 1 = w.oldest + j
    BY <1>7, <2>2, SMTT(30)
  <2>4. g[i].tx = Wrap(a) /\ g[i].frag = w.all[w.oldest + j]
    BY <1>7, <2>1
  <2> HIDE DEF a
  <2>5. Number(i, a)
    BY <2>3, <2>4
  <2> HIDE DEF Number
  <2> QED BY <2>3, <2>5
<1>9. \A i \in 1..Len(g) : ns[i] \in Nat /\ Number(i, ns[i])
  <2> HIDE DEF Number
  <2> SUFFICES ASSUME NEW i \in 1..Len(g) PROVE ns[i] \in Nat /\ Number(i, ns[i])
    OBVIOUS
  <2>1. ns[i] = CHOOSE a \in Nat : Number(i, a)
    OBVIOUS
  <2> HIDE DEF ns
  <2> QED BY <1>8, <2>1
<1>10. ns \in Seq(Nat) /\ Len(ns) = Len(g)
  <2> HIDE DEF Number
  <2>1. ns = [i \in 1..Len(g) |-> ns[i]]
    OBVIOUS
  <2> HIDE DEF ns
  <2> QED BY <1>7, <1>9, <2>1
<1> HIDE DEF ns
<1>11. Flow(p, n, z, x.out \o g, y, ys, [w EXCEPT !.frames = w.frames \o ns])
  BY <1>1, <1>3, <1>6, <1>9, <1>10, FlowCarries
<1> QED BY <1>3, <1>11 DEF Direction, z

\* Within a window of each other, a frame counts as had exactly if it is before what the
\* peer asks for.
LEMMA RetiredMeans ==
    ASSUME NEW u, NEW b \in Nat, NEW a \in Nat, u.tx = Wrap(b), a <= b + Window, b < a + Window
    PROVE  Retired(u, Wrap(a)) <=> b < a
<1>1. /\ Modulo \in Nat /\ Window \in Nat /\ Modulo \div 2 \in Nat
      /\ Window <= Modulo \div 2 /\ Modulo = 2 * (Modulo \div 2) /\ Window >= 1
  <2>1. Modulo \in Nat /\ Window \in 1..(Modulo \div 2) /\ Modulo % 2 = 0
    BY ErtmAssumption
  <2>2. Modulo = 2 * (Modulo \div 2) + (Modulo % 2) /\ Modulo \div 2 \in Nat
    BY <2>1
  <2> QED BY <2>1, <2>2
<1> DEFINE half == Modulo \div 2
<1>2. half \in Nat /\ Window <= half /\ Modulo = 2 * half
  BY <1>1
<1>3. Retired(u, Wrap(a)) <=> Distance(Wrap(b), Wrap(a)) \in 1..half
  BY DEF Retired
<1> HIDE DEF half
<1>4. a - b < Modulo /\ b - a < Modulo
  BY <1>1, <1>2
<1>5. Distance(Wrap(b), Wrap(a)) = IF b <= a THEN a - b ELSE a - b + Modulo
  BY <1>4, Apart
<1> QED BY <1>1, <1>2, <1>3, <1>5

\* The oldest acknowledgement retires what comes before it, and nothing else.
LEMMA FlowRetires ==
    ASSUME NEW p, NEW n, NEW x \in Engine, Len(x.unacked) <= Window, NEW xs, NEW y,
           NEW ys \in Seq(Frames), ys # <<>>, Head(ys) # Disc,
           Direction(p, n, x, xs, y, ys)
    PROVE  Direction(p, n, Acknowledge(x, Head(ys).req), xs, y, Tail(ys))
<1>1. PICK w : Flow(p, n, x, xs, y, ys, w)
  BY DEF Direction
<1> DEFINE a == w.acks[1]
           z == Acknowledge(x, Head(ys).req)
           m == Len(x.unacked)
           rest == Tail(w.acks)
           zs == Tail(ys)
<1>2. /\ w \in Ledger /\ w.oldest \in Nat /\ w.next \in Nat /\ w.due \in Nat
      /\ w.acks \in Seq(Nat) /\ Len(w.acks) = Len(ys) /\ Window \in Nat
      /\ x.unacked \in Seq(Numbered) /\ m \in Nat /\ m = Len(x.unacked) /\ m <= Window
  BY <1>1, Constants DEF Flow, Ledger, Answers, Engine
<1>3. /\ zs \in Seq(Frames) /\ Len(zs) = Len(ys) - 1 /\ Head(ys) = ys[1] /\ 1 \in 1..Len(ys)
      /\ \A i \in 1..Len(zs) : i + 1 \in 1..Len(ys) /\ zs[i] = ys[i + 1]
      /\ Len(ys) \in Nat \ {0}
  BY Tailed
<1>4. w.acks # <<>>
  BY <1>2, <1>3
<1>5. /\ rest \in Seq(Nat) /\ Len(rest) = Len(ys) - 1
      /\ \A i \in 1..Len(rest) : i + 1 \in 1..Len(ys) /\ rest[i] = w.acks[i + 1]
  BY <1>2, <1>4, Tailed
<1>6. /\ a \in Nat /\ w.oldest <= a /\ a <= w.due /\ Head(ys).req = Wrap(a)
      /\ \A i \in 1..Len(ys) : a <= w.acks[i] /\ w.acks[i] \in Nat
  <2>1. \A i \in 1..Len(ys) : w.acks[i] \in Nat
    BY <1>2
  <2>2. w.oldest <= a /\ a <= w.due /\ Head(ys).req = Wrap(a)
    BY <1>1, <1>3 DEF Flow, Answers
  <2>3. \A i \in 1..Len(ys) : i = 1 \/ 1 < i
    BY <1>3
  <2>4. \A i \in 1..Len(ys) : 1 < i => a <= w.acks[i]
    BY <1>1, <1>3 DEF Flow, Answers
  <2> QED BY <1>3, <2>1, <2>2, <2>3, <2>4
<1> HIDE DEF a, m, rest, zs
<1>7. PICK k : RetiresBy(x, Wrap(a), k)
  BY Acknowledging
<1>8. /\ k \in 0..m
      /\ \A i \in 1..k : Retired(x.unacked[i], Wrap(a))
      /\ k < m => ~Retired(x.unacked[k + 1], Wrap(a))
      /\ z.unacked = SubSeq(x.unacked, k + 1, m) /\ z.nextTx = x.nextTx /\ z.queued = x.queued
  <2>1. /\ k \in 0..m
        /\ \A i \in 1..k : Retired(x.unacked[i], Wrap(a))
        /\ k < m => ~Retired(x.unacked[k + 1], Wrap(a))
    BY <1>2, <1>7 DEF RetiresBy
  <2>2. PICK t \in BOOLEAN :
          Acknowledge(x, Wrap(a)) = [x EXCEPT !.unacked = SubSeq(x.unacked, k + 1, m),
                                              !.retransTimer = t]
    BY <1>2, <1>7 DEF RetiresBy
  <2>3. z = Acknowledge(x, Wrap(a))
    BY <1>6
  <2> HIDE DEF z
  <2> QED BY <2>1, <2>2, <2>3 DEF Engine
<1> HIDE DEF z
<1>9. /\ w.next = w.oldest + m /\ x.nextTx = Wrap(w.next)
      /\ Len(w.all) = w.next + Len(x.queued)
      /\ \A i \in 1..m : /\ x.unacked[i].tx = Wrap(w.oldest + i - 1)
                         /\ x.unacked[i].frag = w.all[w.oldest + i]
      /\ \A i \in 1..Len(x.queued) : x.queued[i] = w.all[w.next + i]
      /\ w.due <= w.next
  BY <1>1, <1>2 DEF Flow, Holds, Ordered
<1>10. \A i \in 1..m : Retired(x.unacked[i], Wrap(a)) <=> w.oldest + i - 1 < a
  <2> SUFFICES ASSUME NEW i \in 1..m
               PROVE  Retired(x.unacked[i], Wrap(a)) <=> w.oldest + i - 1 < a
    OBVIOUS
  <2> DEFINE b == w.oldest + i - 1
  <2>1. b \in Nat /\ a <= b + Window /\ b < a + Window
    <3>1. /\ w.oldest \in Nat /\ m \in Nat /\ Window \in Nat /\ a \in Nat /\ i \in 1..m
          /\ w.oldest <= a /\ a <= w.due /\ w.due <= w.next /\ w.due \in Nat
          /\ w.next = w.oldest + m /\ m <= Window
      BY <1>2, <1>6, <1>9
    <3>2. \A o, mm, win, aa, j \in Nat :
            j >= 1 /\ j <= mm /\ o <= aa /\ aa <= o + mm /\ mm <= win =>
              o + j - 1 \in Nat /\ aa <= (o + j - 1) + win /\ o + j - 1 < aa + win
      OBVIOUS
    <3>3. a <= w.oldest + m /\ i \in Nat /\ i >= 1 /\ i <= m
      BY <3>1
    <3> QED BY <3>1, <3>2, <3>3
  <2>2. x.unacked[i].tx = Wrap(b)
    BY <1>9
  <2> HIDE DEF b
  <2>3. Retired(x.unacked[i], Wrap(a)) <=> b < a
    BY <1>6, <2>1, <2>2, RetiredMeans
  <2> QED BY <2>3 DEF b
<1>11. a = w.oldest + k /\ k \in Nat
  <2>0. k \in Nat /\ k <= m
    BY <1>2, <1>8
  <2>1. k # 0 => w.oldest + k - 1 < a
    <3>1. k # 0 => k \in 1..k /\ k \in 1..m
      BY <1>2, <2>0
    <3> QED BY <1>8, <1>10, <3>1
  <2>2. k # m => ~(w.oldest + (k + 1) - 1 < a)
    <3>1. k # m => k < m /\ k + 1 \in 1..m
      BY <1>2, <2>0
    <3> QED BY <1>8, <1>10, <3>1
  <2>3. a <= w.oldest + m
    BY <1>2, <1>6, <1>9
  <2>4. \A o, aa, kk, mm \in Nat :
          /\ kk # 0 => o + kk - 1 < aa
          /\ kk # mm => ~(o + (kk + 1) - 1 < aa)
          /\ aa <= o + mm /\ o <= aa
          => aa = o + kk
    OBVIOUS
  <2>5. w.oldest \in Nat /\ a \in Nat /\ m \in Nat /\ w.oldest <= a
    BY <1>2, <1>6
  <2> QED BY <2>0, <2>1, <2>2, <2>3, <2>4, <2>5
<1> DEFINE v == [w EXCEPT !.oldest = a, !.acks = rest]
<1>12. /\ v \in Ledger /\ v.oldest = a /\ v.due = w.due /\ v.next = w.next
       /\ v.acks = rest /\ v.all = w.all /\ v.frames = w.frames
  BY <1>2, <1>5, <1>6 DEF Ledger
<1> HIDE DEF v
<1>13. Ordered(v)
  <2>1. w.next <= w.oldest + Window
    BY <1>1 DEF Flow, Ordered
  <2>2. w.next <= a + Window
    BY <1>2, <1>6, <2>1
  <2> QED BY <1>6, <1>9, <1>12, <2>2 DEF Ordered
<1>14. Holds(z, v)
  <2> DEFINE us == SubSeq(x.unacked, k + 1, m)
  <2>0. k <= m
    BY <1>2, <1>8, <1>11
  <2>1. Len(us) = m - k /\ \A i \in 1..(m - k) : us[i] = x.unacked[k + i]
    BY <1>2, <1>8, RestOfWindow
  <2> HIDE DEF us
  <2>2. v.next = v.oldest + Len(us)
    <3>1. \A o, kk, mm \in Nat : kk <= mm => o + mm = (o + kk) + (mm - kk)
      OBVIOUS
    <3>2. w.oldest + m = (w.oldest + k) + (m - k)
      <4>1. w.oldest \in Nat /\ k \in Nat /\ m \in Nat /\ k <= m
        BY <1>2, <1>11, <2>0
      <4> QED BY <3>1, <4>1
    <3> QED BY <1>9, <1>11, <1>12, <2>1, <3>2
  <2>3. \A i \in 1..Len(us) : us[i].tx = Wrap(v.oldest + i - 1) /\ us[i].frag = v.all[v.oldest + i]
    <3> SUFFICES ASSUME NEW i \in 1..Len(us)
                 PROVE  us[i].tx = Wrap(v.oldest + i - 1) /\ us[i].frag = v.all[v.oldest + i]
      OBVIOUS
    <3>1. i \in 1..(m - k) /\ k + i \in 1..m /\ i \in Nat
      BY <1>2, <1>11, <2>0, <2>1
    <3>2. w.oldest + (k + i) = (w.oldest + k) + i
          /\ w.oldest + (k + i) - 1 = (w.oldest + k) + i - 1
      BY <1>2, <1>11, <3>1, Sums
    <3>3. us[i].tx = Wrap(w.oldest + (k + i) - 1) /\ us[i].frag = w.all[w.oldest + (k + i)]
      BY <1>9, <2>1, <3>1
    <3> QED BY <1>11, <1>12, <3>2, <3>3
  <2>4. z.unacked = us
    BY <1>8 DEF us
  <2>5. z.nextTx = Wrap(v.next) /\ Len(v.all) = v.next + Len(z.queued)
        /\ \A i \in 1..Len(z.queued) : z.queued[i] = v.all[v.next + i]
    BY <1>8, <1>9, <1>12
  <2> QED BY <2>2, <2>3, <2>4, <2>5 DEF Holds
<1>15. Answers(y, zs, v)
  <2>1. \A i \in 1..Len(zs) : i + 1 \in 1..Len(ys) /\ zs[i] = ys[i + 1] /\ rest[i] = w.acks[i + 1]
    BY <1>3, <1>5
  <2>2. \A i \in 1..Len(zs) : /\ a <= rest[i] /\ rest[i] <= w.due
                              /\ zs[i] # Disc => zs[i].req = Wrap(rest[i])
                              /\ zs[i].kind = "REJ" /\ rest[i] = w.due => y.rejected
    BY <1>1, <1>6, <2>1 DEF Flow, Answers
  <2>3. \A i, j \in 1..Len(zs) : i < j => i + 1 < j + 1
    BY <1>3
  <2>4. \A i, j \in 1..Len(zs) :
          i < j => /\ rest[i] <= rest[j]
                   /\ zs[i].kind = "REJ" /\ zs[j].kind = "REJ" => rest[i] < rest[j]
    <3> SUFFICES ASSUME NEW i \in 1..Len(zs), NEW j \in 1..Len(zs), i < j
                 PROVE  /\ rest[i] <= rest[j]
                        /\ zs[i].kind = "REJ" /\ zs[j].kind = "REJ" => rest[i] < rest[j]
      OBVIOUS
    <3> DEFINE b == i + 1
               c == j + 1
    <3>1. b \in 1..Len(ys) /\ c \in 1..Len(ys) /\ b < c
      BY <2>1, <2>3
    <3>2. zs[i] = ys[b] /\ zs[j] = ys[c] /\ rest[i] = w.acks[b] /\ rest[j] = w.acks[c]
      BY <2>1
    <3> HIDE DEF b, c
    <3> QED BY <1>1, <3>1, <3>2 DEF Flow, Answers
  <2>5. y.expected = Wrap(w.due) /\ Len(rest) = Len(zs)
    BY <1>1, <1>3, <1>5 DEF Flow, Answers
  <2> QED BY <1>12, <2>2, <2>4, <2>5 DEF Answers
<1>16. Carries(xs, v) /\ Cuts(p, n, v.all) /\ Handed(p, y, v)
  BY <1>1, <1>12 DEF Flow, Carries, Handed, Is
<1>17. Flow(p, n, z, xs, y, zs, v)
  BY <1>12, <1>13, <1>14, <1>15, <1>16 DEF Flow
<1> QED BY <1>17 DEF Direction, z, zs

LEMMA CutIs ==
    ASSUME NEW p \in Ends, NEW s \in 1..Len(SduFrames[p])
    PROVE  /\ SduFrames[p][s] \in Nat \ {0} /\ Len(Cut(p, s)) = SduFrames[p][s]
           /\ Cut(p, s) \in Seq(Fragments)
           /\ \A j \in 1..SduFrames[p][s] :
                /\ Cut(p, s)[j].sdu = s /\ Cut(p, s)[j].part = j
                /\ Cut(p, s)[j].len = SduFrames[p][s]
                /\ Cut(p, s)[j].sar = IF SduFrames[p][s] = 1 THEN "whole"
                                      ELSE IF j = 1 THEN "start"
                                      ELSE IF j = SduFrames[p][s] THEN "end" ELSE "cont"
<1> DEFINE len == SduFrames[p][s]
<1>1. SduFrames[p] \in Seq(Nat \ {0})
  BY ErtmAssumption
<1>2. len \in Nat \ {0} /\ s \in Nat /\ len = SduFrames[p][s]
  BY <1>1
<1> DEFINE c == [j \in 1..len |->
                   [sdu |-> s, part |-> j, len |-> len,
                    sar |-> IF len = 1 THEN "whole" ELSE IF j = 1 THEN "start"
                            ELSE IF j = len THEN "end" ELSE "cont"]]
<1>3. Cut(p, s) = c
  BY DEF Cut
<1> HIDE DEF len
<1>4. \A j \in 1..len : /\ c[j] \in Fragments
                        /\ c[j].sdu = s /\ c[j].part = j /\ c[j].len = len
                        /\ c[j].sar = IF len = 1 THEN "whole" ELSE IF j = 1 THEN "start"
                                      ELSE IF j = len THEN "end" ELSE "cont"
  BY <1>2 DEF Fragments
<1>5. c \in Seq(Fragments) /\ Len(c) = len
  <2>1. \A j \in 1..len : c[j] \in Fragments
    BY <1>4
  <2>2. c = [j \in 1..len |-> c[j]] /\ len \in Nat
    BY <1>2
  <2> HIDE DEF c
  <2> QED BY <2>1, <2>2
<1> HIDE DEF c
<1> QED BY <1>2, <1>3, <1>4, <1>5

\* One fragment behind a sequence of them.
LEMMA OneMore ==
    ASSUME NEW s \in Seq(Fragments), NEW f \in Fragments
    PROVE  /\ s \o <<f>> \in Seq(Fragments) /\ Len(s \o <<f>>) = Len(s) + 1
           /\ \A i \in 1..Len(s) : (s \o <<f>>)[i] = s[i]
           /\ (s \o <<f>>)[Len(s) + 1] = f
           /\ \A i \in 1..(Len(s) + 1) : i \in 1..Len(s) \/ i = Len(s) + 1
<1> DEFINE t == <<f>>
           m == Len(s)
<1>1. t \in Seq(Fragments) /\ Len(t) = 1 /\ t[1] = f /\ 1 \in 1..1 /\ m \in Nat /\ m = Len(s)
  OBVIOUS
<1> HIDE DEF t, m
<1>2. /\ s \o t \in Seq(Fragments) /\ Len(s \o t) = Len(s) + Len(t)
      /\ \A i \in 1..Len(s) : (s \o t)[i] = s[i]
      /\ \A i \in 1..Len(t) : (s \o t)[Len(s) + i] = t[i]
  BY <1>1, JoinedFragments
<1>3. \A i \in 1..(m + 1) : i \in 1..m \/ i = m + 1
  BY <1>1
<1> QED BY <1>1, <1>2, <1>3 DEF t

LEMMA OneMoreUp ==
    ASSUME NEW s \in Seq(Seq(Fragments)), NEW e \in Seq(Fragments)
    PROVE  /\ Append(s, e) \in Seq(Seq(Fragments)) /\ Len(Append(s, e)) = Len(s) + 1
           /\ \A i \in 1..Len(s) : Append(s, e)[i] = s[i]
           /\ Append(s, e)[Len(s) + 1] = e
           /\ \A i \in 1..(Len(s) + 1) : i \in 1..Len(s) \/ i = Len(s) + 1
<1>1. Len(s) \in Nat
  OBVIOUS
<1>2. \A i \in 1..(Len(s) + 1) : i \in 1..Len(s) \/ i = Len(s) + 1
  BY <1>1
<1> QED BY <1>2, AppendProperties

\* Two sequences with the same elements at the same places are the same.
LEMMA Alike ==
    ASSUME NEW s \in Seq(Fragments), NEW t \in Seq(Fragments), Len(s) = Len(t),
           \A i \in 1..Len(s) : s[i] = t[i]
    PROVE  s = t
OBVIOUS

\* The next fragment of all is the next of the SDU that is being put together, or the first
\* of the next.
LEMMA NextFragment ==
    ASSUME NEW p \in Ends, NEW n, NEW w \in Ledger, NEW y \in Engine, Cuts(p, n, w.all),
           Handed(p, y, w), w.due < Len(w.all)
    PROVE  /\ w.all[w.due + 1].sdu = Len(y.up) + 1
           /\ w.all[w.due + 1].part = Len(y.partial) + 1
<1> DEFINE d == w.due
           all == w.all
           m == Len(y.up)
           q == Len(y.partial)
<1>1. /\ d \in Nat /\ all \in Seq(Fragments) /\ m \in Nat /\ q \in Nat /\ Len(all) \in Nat
      /\ d < Len(all)
  BY DEF Ledger, Engine
<1>2. CASE d = 0
  BY <1>1, <1>2 DEF Cuts, Handed
<1>3. CASE d # 0
  <2>1. d \in 1..(Len(all) - 1)
    BY <1>1, <1>3
  <2>2. Follows(all[d], all[d + 1])
    BY <2>1 DEF Cuts
  <2>3. all[d].part \in Nat /\ all[d].len \in Nat /\ all[d].sdu \in Nat
    <3>1. all[d] \in Fragments
      BY <1>1, <2>1
    <3> QED BY <3>1 DEF Fragments
  <2>4. CASE q = 0
    <3>1. all[d].sdu = m /\ all[d].part = all[d].len
      BY <1>3, <2>4 DEF Handed
    <3>2. ~(all[d].part < all[d].len)
      BY <2>3, <3>1
    <3> QED BY <2>2, <2>4, <3>1, <3>2 DEF Follows
  <2>5. CASE q # 0
    <3>1. all[d].sdu = m + 1 /\ all[d].part = q /\ all[d].part < all[d].len
      BY <1>3, <2>5 DEF Handed
    <3> QED BY <2>2, <3>1 DEF Follows
  <2> QED BY <2>4, <2>5
<1> QED BY <1>2, <1>3

\* What is due belongs where reassembly puts it: SDUs are handed up whole, once and in order.
LEMMA HandsOn ==
    ASSUME NEW p \in Ends, NEW n \in 0..Len(SduFrames[p]), NEW w \in Ledger, NEW y \in Engine,
           Cuts(p, n, w.all), Handed(p, y, w), w.due < Len(w.all)
    PROVE  Handed(p, Reassemble(y, w.all[w.due + 1]), [w EXCEPT !.due = w.due + 1])
<1> DEFINE d == w.due
           f == w.all[d + 1]
           m == Len(y.up)
           q == Len(y.partial)
           c == Cut(p, m + 1)
           len == SduFrames[p][m + 1]
           whole == y.partial \o <<f>>
           z == Reassemble(y, f)
           v == [w EXCEPT !.due = w.due + 1]
<1>1. /\ d \in Nat /\ w.all \in Seq(Fragments) /\ m \in Nat /\ q \in Nat /\ Len(w.all) \in Nat
      /\ d < Len(w.all) /\ y.partial \in Seq(Fragments) /\ y.up \in Seq(Seq(Fragments))
      /\ m = Len(y.up) /\ q = Len(y.partial) /\ d = w.due
  BY DEF Ledger, Engine
<1>2. f \in Fragments /\ d + 1 \in 1..Len(w.all)
  BY <1>1
<1>3. f.sdu = m + 1 /\ f.part = q + 1
  BY NextFragment
<1>4. f.sdu \in 1..n /\ f.part \in 1..SduFrames[p][f.sdu] /\ f = Cut(p, f.sdu)[f.part]
  BY <1>2 DEF Cuts
<1>5. v.due = d + 1 /\ v.all = w.all /\ v.due # 0 /\ v.all[v.due] = f
  BY <1>1 DEF Ledger
<1>6. /\ \A k \in 1..m : y.up[k] = Cut(p, k)
      /\ \A i \in 1..q : y.partial[i] = c[i]
  BY DEF Handed
<1> HIDE DEF v, f, m, q, d
<1>7. m + 1 \in 1..Len(SduFrames[p])
  <2>1. Len(SduFrames[p]) \in Nat
    BY ErtmAssumption
  <2> QED BY <1>3, <1>4, <2>1
<1>8. /\ len \in Nat \ {0} /\ Len(c) = len /\ c \in Seq(Fragments)
      /\ \A j \in 1..len : /\ c[j].len = len
                           /\ c[j].sar = IF len = 1 THEN "whole" ELSE IF j = 1 THEN "start"
                                         ELSE IF j = len THEN "end" ELSE "cont"
  BY <1>7, CutIs
<1>9. f = c[q + 1] /\ q + 1 \in 1..len
  BY <1>3, <1>4
<1>10. /\ whole \in Seq(Fragments) /\ Len(whole) = q + 1
       /\ \A i \in 1..q : whole[i] = y.partial[i]
       /\ whole[q + 1] = f
       /\ \A i \in 1..(q + 1) : i \in 1..q \/ i = q + 1
  BY <1>1, <1>2, OneMore
<1> HIDE DEF whole, c, len
<1>11. \A i \in 1..(q + 1) : whole[i] = c[i]
  BY <1>6, <1>9, <1>10
<1>12. /\ f.len = len
       /\ f.sar = IF len = 1 THEN "whole" ELSE IF q + 1 = 1 THEN "start"
                  ELSE IF q + 1 = len THEN "end" ELSE "cont"
  BY <1>8, <1>9
<1>13. q + 1 = 1 <=> q = 0
  BY <1>1
\* An SDU comes up: it is the cut of its number.
<1>14. ASSUME NEW e \in Seq(Fragments), e = c, q + 1 = len, z.up = Append(y.up, e), z.partial = <<>>
       PROVE  Handed(p, z, v)
  <2>1. /\ Len(z.up) = m + 1
        /\ \A i \in 1..m : z.up[i] = y.up[i]
        /\ z.up[m + 1] = e
        /\ \A i \in 1..(m + 1) : i \in 1..m \/ i = m + 1
    BY <1>1, <1>14, OneMoreUp
  <2>2. \A k \in 1..Len(z.up) : z.up[k] = Cut(p, k)
    BY <1>6, <1>14, <2>1 DEF c
  <2>3. Len(z.partial) = 0
    BY <1>14
  <2>4. f.sdu = Len(z.up) /\ f.part = f.len
    BY <1>3, <1>12, <1>14, <2>1
  <2>5. \A i \in 1..Len(z.partial) : z.partial[i] = Cut(p, Len(z.up) + 1)[i]
    BY <2>3
  <2> HIDE DEF z
  <2> QED BY <1>5, <2>2, <2>3, <2>4, <2>5 DEF Handed
\* An SDU grows by its next fragment.
<1>15. ASSUME NEW e \in Seq(Fragments), Len(e) = q + 1, \A i \in 1..(q + 1) : e[i] = c[i],
              q + 1 # len, z.up = y.up, z.partial = e
       PROVE  Handed(p, z, v)
  <2>1. Len(z.partial) # 0 /\ Len(z.partial) = q + 1 /\ Len(z.up) = m
    BY <1>1, <1>15
  <2>2. \A k \in 1..Len(z.up) : z.up[k] = Cut(p, k)
    BY <1>6, <1>15, <2>1
  <2>3. \A i \in 1..Len(z.partial) : z.partial[i] = Cut(p, Len(z.up) + 1)[i]
    BY <1>15, <2>1 DEF c
  <2>4. f.sdu = Len(z.up) + 1 /\ f.part = Len(z.partial)
    BY <1>3, <2>1
  <2>5. f.part < f.len
    BY <1>1, <1>3, <1>8, <1>9, <1>12, <1>15
  <2> HIDE DEF z
  <2> QED BY <1>5, <2>1, <2>2, <2>3, <2>4, <2>5 DEF Handed
<1>16. <<f>> \in Seq(Fragments) /\ Len(<<f>>) = 1 /\ <<f>>[1] = f
  BY <1>2
<1>17. ASSUME len = 1 PROVE Handed(p, z, v)
  <2>1. q = 0 /\ f.sar = "whole"
    BY <1>1, <1>9, <1>12, <1>17
  <2>2. z.up = Append(y.up, <<f>>) /\ z.partial = <<>>
    BY <2>1 DEF Reassemble, Engine
  <2> DEFINE e == <<f>>
  <2>3. /\ e \in Seq(Fragments) /\ Len(e) = Len(c) /\ \A i \in 1..Len(e) : e[i] = c[i]
        /\ z.up = Append(y.up, e) /\ q + 1 = len
    BY <1>8, <1>9, <1>16, <1>17, <2>1, <2>2
  <2> HIDE DEF z, e
  <2>4. e = c
    BY <1>8, <2>3, Alike
  <2> QED BY <1>14, <2>2, <2>3, <2>4
<1>18. ASSUME len # 1 /\ q = 0 PROVE Handed(p, z, v)
  <2>1. f.sar = "start"
    BY <1>12, <1>13, <1>18
  <2>2. z.up = y.up /\ z.partial = <<f>>
    BY <2>1 DEF Reassemble, Engine
  <2>3. \A i \in 1..(q + 1) : <<f>>[i] = c[i]
    BY <1>9, <1>16, <1>18
  <2> DEFINE e == <<f>>
  <2>4. e \in Seq(Fragments) /\ Len(e) = q + 1 /\ (\A i \in 1..(q + 1) : e[i] = c[i]) /\ q + 1 # len
        /\ z.partial = e
    BY <1>16, <1>18, <2>2, <2>3
  <2> HIDE DEF z, e
  <2> QED BY <1>15, <2>2, <2>4
<1>19. ASSUME len # 1 /\ q # 0 /\ q + 1 # len PROVE Handed(p, z, v)
  <2>1. f.sar = "cont" /\ y.partial # <<>>
    BY <1>1, <1>12, <1>13, <1>19
  <2>2. z.up = y.up /\ z.partial = whole
    BY <2>1 DEF Reassemble, Engine, whole
  <2> HIDE DEF z
  <2> QED BY <1>10, <1>11, <1>15, <1>19, <2>2
<1>20. ASSUME len # 1 /\ q # 0 /\ q + 1 = len PROVE Handed(p, z, v)
  <2>1. f.sar = "end" /\ y.partial # <<>>
    BY <1>1, <1>12, <1>13, <1>20
  <2>2. whole[1].len = len
    <3>1. 1 \in 1..(q + 1) /\ 1 \in 1..len
      BY <1>1, <1>8
    <3>2. whole[1] = c[1] /\ c[1].len = len
      BY <1>8, <1>11, <3>1
    <3> QED BY <3>2
  <2>3. Len(whole) = whole[1].len
    BY <1>10, <1>20, <2>2
  <2>4. z.up = Append(y.up, whole) /\ z.partial = <<>>
    BY <2>1, <2>3 DEF Reassemble, Engine, whole
  <2>5. whole = c
    BY <1>8, <1>10, <1>11, <1>20, Alike
  <2> HIDE DEF z
  <2> QED BY <1>10, <1>14, <1>20, <2>4, <2>5
<1> HIDE DEF z
<1>21. Handed(p, z, v)
  BY <1>17, <1>18, <1>19, <1>20
<1> QED BY <1>21 DEF z, v, f, d

-----------------------------------------------------------------------------
(* What the engine does, in both directions.                               *)

\* To the sender of what it receives, an engine only says where it is.
Quiet(y, z) ==
    /\ z.expected = y.expected /\ z.rejected = y.rejected /\ z.up = y.up /\ z.partial = y.partial
    /\ \E g \in Seq(Frames) : /\ z.out = y.out \o g
                              /\ \A i \in 1..Len(g) : Answering(y.expected, g[i])

\* To the receiver of what it sends, an engine sends nothing.
Silent(x, z) ==
    /\ z.unacked = x.unacked /\ z.queued = x.queued /\ z.nextTx = x.nextTx
    /\ \E g \in Seq(Frames) : /\ z.out = x.out \o g
                              /\ \A i \in 1..Len(g) : g[i].kind # "I"

LEMMA QuietKeeps ==
    ASSUME NEW p, NEW n, NEW x, NEW xs, NEW y \in Engine, NEW z, Quiet(y, z)
    PROVE  /\ Direction(p, n, x, xs, y, y.out) => Direction(p, n, x, xs, z, z.out)
           /\ \A f : Coming(p, n, x, xs, y, y.out, f) => Coming(p, n, x, xs, z, z.out, f)
<1>1. PICK g \in Seq(Frames) : z.out = y.out \o g /\ \A i \in 1..Len(g) : Answering(y.expected, g[i])
  BY DEF Quiet
<1>2. /\ z.expected = y.expected /\ z.rejected = y.rejected /\ z.up = y.up
      /\ z.partial = y.partial /\ y.out \in Seq(Frames)
  BY DEF Quiet, Engine
<1> DEFINE More(w) == [w EXCEPT !.acks = w.acks \o Repeated(w.due, Len(g))]
<1>3. ASSUME NEW w, Flow(p, n, x, xs, y, y.out, w) PROVE Flow(p, n, x, xs, z, z.out, More(w))
  <2>1. Flow(p, n, x, xs, z, y.out \o g, [w EXCEPT !.acks = w.acks \o Repeated(w.due, Len(g))])
    BY <1>1, <1>2, <1>3, FlowAnswers
  <2> QED BY <1>1, <2>1
<1>4. ASSUME NEW w, Flow(p, n, x, xs, y, y.out, w), NEW f, NEW m, Hand(f, m, xs, w)
      PROVE  Hand(f, m, xs, More(w))
  <2>1. w \in Ledger
    BY <1>4 DEF Flow
  <2>2. /\ More(w).next = w.next /\ More(w).due = w.due /\ More(w).all = w.all
        /\ More(w).frames = w.frames
    BY <2>1 DEF Ledger
  <2> HIDE DEF More
  <2> QED BY <1>4, <2>2 DEF Hand, Is
<1> HIDE DEF More
<1>5. Direction(p, n, x, xs, y, y.out) => Direction(p, n, x, xs, z, z.out)
  BY <1>3 DEF Direction
<1>6. ASSUME NEW f, Coming(p, n, x, xs, y, y.out, f) PROVE Coming(p, n, x, xs, z, z.out, f)
  <2>1. PICK w : Flow(p, n, x, xs, y, y.out, w) /\ \E m \in Nat : Hand(f, m, xs, w)
    BY <1>6 DEF Coming
  <2>2. PICK m \in Nat : Hand(f, m, xs, w)
    BY <2>1
  <2>3. Flow(p, n, x, xs, z, z.out, More(w)) /\ Hand(f, m, xs, More(w))
    BY <1>3, <1>4, <2>1, <2>2
  <2> QED BY <2>3 DEF Coming
<1> QED BY <1>5, <1>6

LEMMA SilentKeeps ==
    ASSUME NEW p, NEW n, NEW x \in Engine, NEW z, NEW y, NEW ys, Silent(x, z),
           Direction(p, n, x, x.out, y, ys)
    PROVE  Direction(p, n, z, z.out, y, ys)
<1>1. PICK g \in Seq(Frames) : z.out = x.out \o g /\ \A i \in 1..Len(g) : g[i].kind # "I"
  BY DEF Silent
<1>2. PICK w : Flow(p, n, x, x.out, y, ys, w)
  BY DEF Direction
<1>3. Holds(z, w) /\ x.out \in Seq(Frames)
  BY <1>2 DEF Silent, Flow, Holds, Engine
<1> DEFINE ns == [i \in 1..Len(g) |-> 0]
<1>4. ns \in Seq(Nat) /\ Len(ns) = Len(g)
  OBVIOUS
<1> HIDE DEF ns
<1>5. Flow(p, n, z, x.out \o g, y, ys, [w EXCEPT !.frames = w.frames \o ns])
  BY <1>1, <1>2, <1>3, <1>4, FlowCarries
<1> QED BY <1>1, <1>5 DEF Direction

\* What does not touch the numbers leaves the directions alone.
LEMMA Untouched ==
    ASSUME NEW r \in Engine, NEW z, z.out = r.out, z.expected = r.expected,
           z.rejected = r.rejected, z.up = r.up, z.partial = r.partial,
           z.unacked = r.unacked, z.queued = r.queued, z.nextTx = r.nextTx
    PROVE  Quiet(r, z) /\ Silent(r, z)
<1> DEFINE g == <<>>
<1>1. g \in Seq(Frames) /\ Len(g) = 0
  OBVIOUS
<1>2. r.out \in Seq(Frames)
  BY DEF Engine
<1>3. r.out \o g = r.out
  BY <1>2, ConcatEmptySeq
<1>4. z.out = r.out \o g
  BY <1>3
<1> HIDE DEF g
<1>5. /\ \E e \in Seq(Frames) : /\ z.out = r.out \o e
                                /\ \A i \in 1..Len(e) : Answering(r.expected, e[i])
      /\ \E e \in Seq(Frames) : /\ z.out = r.out \o e
                                /\ \A i \in 1..Len(e) : e[i].kind # "I"
  <2>1. (\A i \in 1..Len(g) : Answering(r.expected, g[i])) /\ \A i \in 1..Len(g) : g[i].kind # "I"
    BY <1>1
  <2> QED BY <1>1, <1>4, <2>1
<1> QED BY <1>5 DEF Quiet, Silent

LEMMA SupervisoryQuiet ==
    ASSUME NEW r \in Engine, NEW poll \in BOOLEAN, NEW final \in BOOLEAN
    PROVE  /\ Quiet(r, Supervisory(r, "RR", poll, final))
           /\ Silent(r, Supervisory(r, "RR", poll, final))
<1> DEFINE c == [kind |-> "RR", req |-> r.expected, poll |-> poll, final |-> final]
           g == <<c>>
           z == Supervisory(r, "RR", poll, final)
<1>1. c \in Frames /\ c.req = r.expected /\ c.kind = "RR"
  BY DEF Frames, Control, Engine
<1>2. z = [r EXCEPT !.out = Append(r.out, c)]
  BY DEF Supervisory
<1> HIDE DEF c, z
<1>3. g \in Seq(Frames) /\ \A i \in 1..Len(g) : g[i] = c
  BY <1>1
<1>4. r.out \in Seq(Frames)
  BY DEF Engine
<1>5. Append(r.out, c) = r.out \o g
  BY <1>1, <1>4, AppendIsConcat
<1> HIDE DEF g
<1>6. /\ z.out = r.out \o g
      /\ z.expected = r.expected /\ z.rejected = r.rejected /\ z.up = r.up
      /\ z.partial = r.partial /\ z.unacked = r.unacked /\ z.queued = r.queued
      /\ z.nextTx = r.nextTx
  BY <1>2, <1>5 DEF Engine
<1> QED BY <1>1, <1>3, <1>6 DEF Quiet, Silent, Answering, z

LEMMA FailChannelQuiet ==
    ASSUME NEW r \in Engine
    PROVE  Quiet(r, FailChannel(r)) /\ Silent(r, FailChannel(r))
<1>1. CASE r.failed = "no"
  BY <1>1, Untouched DEF FailChannel
<1>2. CASE r.failed # "no"
  <2> DEFINE g == <<Disc>>
             z == FailChannel(r)
  <2>1. Disc \in Frames /\ Disc.kind = "DISC"
    BY Constants DEF Disc, Frames, Control
  <2>2. z = [r EXCEPT !.out = Append(r.out, Disc)]
    BY <1>2 DEF FailChannel
  <2> HIDE DEF z
  <2>3. g \in Seq(Frames) /\ \A i \in 1..Len(g) : g[i] = Disc
    BY <2>1
  <2>4. r.out \in Seq(Frames)
    BY DEF Engine
  <2>5. Append(r.out, Disc) = r.out \o g
    BY <2>1, <2>4, AppendIsConcat
  <2> HIDE DEF g
  <2>6. /\ z.out = r.out \o g
        /\ z.expected = r.expected /\ z.rejected = r.rejected /\ z.up = r.up
        /\ z.partial = r.partial /\ z.unacked = r.unacked /\ z.queued = r.queued
        /\ z.nextTx = r.nextTx
    BY <2>2, <2>5 DEF Engine
  <2> QED BY <2>1, <2>3, <2>6 DEF Quiet, Silent, Answering, z
<1> QED BY <1>1, <1>2

LEMMA PumpQuiet == ASSUME NEW r, Working(r) PROVE Quiet(r, Pump(r))
<1>1. r \in Engine /\ Len(r.unacked) <= Window
  BY DEF Working, Bounded
<1>2. CASE r.waiting
  BY <1>1, <1>2, Untouched DEF Pump
<1>3. CASE ~r.waiting
  <2>1. PICK k, fresh, g : PumpsBy(r, k, fresh, g)
    BY <1>1, <1>3, Pumping
  <2>2. /\ g \in Seq(Frames) /\ Len(g) = k
        /\ \A i \in 1..k : g[i].req = r.expected
        /\ \A i \in 1..k : g[i].kind = "I"
    <3>1. g \in Seq(Data) /\ Len(g) = k /\ \A i \in 1..k : g[i].req = r.expected
      BY <2>1 DEF PumpsBy
    <3>2. \A i \in 1..k : g[i] \in Data
      BY <3>1
    <3>3. \A i \in 1..k : g[i].kind = "I"
      BY <3>2 DEF Data
    <3> QED BY <3>1, <3>3 DEF Frames
  <2>3. \A i \in 1..Len(g) : Answering(r.expected, g[i])
    BY <2>2 DEF Answering
  <2>4. /\ Pump(r).out = r.out \o g /\ Pump(r).expected = r.expected
        /\ Pump(r).rejected = r.rejected /\ Pump(r).up = r.up /\ Pump(r).partial = r.partial
    BY <1>1, <2>1 DEF PumpsBy, Engine
  <2> QED BY <2>2, <2>3, <2>4 DEF Quiet
<1> QED BY <1>2, <1>3

LEMMA ResendQuiet == ASSUME NEW r \in Engine PROVE Quiet(r, RetransmitAll(r))
<1>1. PICK us, g : ResendsBy(r, us, g)
  BY Resending
<1>2. /\ g \in Seq(Data) /\ \A i \in 1..Len(g) : g[i].req = r.expected
  BY <1>1 DEF ResendsBy
<1>3. \A i \in 1..Len(g) : g[i].kind = "I"
  <2>1. \A i \in 1..Len(g) : g[i] \in Data
    BY <1>2
  <2> QED BY <2>1 DEF Data
<1>4. g \in Seq(Frames) /\ \A i \in 1..Len(g) : Answering(r.expected, g[i])
  BY <1>2, <1>3 DEF Answering, Frames
<1> DEFINE z == RetransmitAll(r)
<1>5. /\ z.out = r.out \o g /\ z.expected = r.expected /\ z.rejected = r.rejected
      /\ z.up = r.up /\ z.partial = r.partial
  BY <1>1 DEF ResendsBy, Engine
<1> HIDE DEF z
<1> QED BY <1>4, <1>5 DEF Quiet, z

LEMMA AcknowledgeQuiet ==
    ASSUME NEW r \in Engine, NEW req
    PROVE  Quiet(r, Acknowledge(r, req)) /\ Acknowledge(r, req).out = r.out
<1>1. PICK k : RetiresBy(r, req, k)
  BY Acknowledging
<1>2. PICK t \in BOOLEAN : Acknowledge(r, req)
                             = [r EXCEPT !.unacked = SubSeq(r.unacked, k + 1, Len(r.unacked)),
                                         !.retransTimer = t]
  BY <1>1 DEF RetiresBy
<1> DEFINE z == Acknowledge(r, req)
           y == [z EXCEPT !.unacked = r.unacked]
<1>3. /\ z.out = r.out /\ z.expected = r.expected /\ z.rejected = r.rejected
      /\ z.up = r.up /\ z.partial = r.partial
  BY <1>2 DEF Engine
<1>4. <<>> \in Seq(Frames) /\ r.out = r.out \o <<>>
  <2>1. r.out \in Seq(Frames)
    BY DEF Engine
  <2> QED BY <2>1, ConcatEmptySeq
<1> HIDE DEF z
<1>5. \E g \in Seq(Frames) : z.out = r.out \o g /\ \A i \in 1..Len(g) : Answering(r.expected, g[i])
  <2> DEFINE g == <<>>
  <2>1. g \in Seq(Frames) /\ z.out = r.out \o g /\ Len(g) = 0
    BY <1>3, <1>4
  <2> HIDE DEF g
  <2>2. \A i \in 1..Len(g) : Answering(r.expected, g[i])
    BY <2>1
  <2> QED BY <2>1, <2>2
<1> QED BY <1>3, <1>5 DEF Quiet, z

\* Final, in the direction in which r answers and in the one in which it sends.
LEMMA FinalFlows ==
    ASSUME NEW r, Working(r), NEW f \in Frames
    PROVE  /\ \A p, n, x, xs : Coming(p, n, x, xs, r, r.out, f)
                => Coming(p, n, x, xs, Final(r, f), Final(r, f).out, f)
           /\ \A p, n, y, ys : Direction(p, n, r, r.out, y, ys)
                => Direction(p, n, Final(r, f), Final(r, f).out, y, ys)
<1> DEFINE answered == [r EXCEPT !.waiting = FALSE, !.monitorTimer = FALSE, !.polls = 0]
           z == RetransmitAll(answered)
<1>1. r \in Engine /\ answered \in Engine
  BY DEF Working, Engine
<1>2. Final(r, f) = r \/ Final(r, f) = answered \/ Final(r, f) = z
  BY DEF Final
<1>3. Quiet(r, answered) /\ Silent(r, answered)
  <2>1. /\ answered.out = r.out /\ answered.expected = r.expected
        /\ answered.rejected = r.rejected /\ answered.up = r.up
        /\ answered.partial = r.partial /\ answered.unacked = r.unacked
        /\ answered.queued = r.queued /\ answered.nextTx = r.nextTx
    BY <1>1 DEF Engine
  <2> HIDE DEF answered
  <2> QED BY <1>1, <2>1, Untouched
<1> HIDE DEF answered
<1>4. Quiet(answered, z)
  BY <1>1, ResendQuiet
<1>5. ASSUME NEW p, NEW n, NEW x, NEW xs, Coming(p, n, x, xs, r, r.out, f)
      PROVE  Coming(p, n, x, xs, Final(r, f), Final(r, f).out, f)
  <2>1. Coming(p, n, x, xs, answered, answered.out, f)
    BY <1>1, <1>3, <1>5, QuietKeeps
  <2>2. Coming(p, n, x, xs, z, z.out, f)
    BY <1>1, <1>4, <2>1, QuietKeeps
  <2> QED BY <1>2, <1>5, <2>1, <2>2
<1>6. ASSUME NEW p, NEW n, NEW y, NEW ys, Direction(p, n, r, r.out, y, ys)
      PROVE  Direction(p, n, Final(r, f), Final(r, f).out, y, ys)
  <2>1. Direction(p, n, answered, answered.out, y, ys)
    BY <1>1, <1>3, <1>6, SilentKeeps
  <2>2. Direction(p, n, z, z.out, y, ys)
    BY <1>1, <2>1, FlowResends
  <2> QED BY <1>2, <1>6, <2>1, <2>2
<1> QED BY <1>5, <1>6

LEMMA OnSupervisoryFlows ==
    ASSUME NEW r, Working(r), NEW f \in Frames
    PROVE  /\ \A p, n, x, xs : Direction(p, n, x, xs, r, r.out)
                => Direction(p, n, x, xs, OnSupervisory(r, f), OnSupervisory(r, f).out)
           /\ \A p, n, y, ys : Direction(p, n, r, r.out, y, ys)
                => Direction(p, n, OnSupervisory(r, f), OnSupervisory(r, f).out, y, ys)
<1> DEFINE asked == IF f.kind = "REJ" THEN RetransmitAll(r) ELSE r
           z == Supervisory(asked, "RR", FALSE, TRUE)
<1>1. r \in Engine /\ asked \in Engine
  BY Resending DEF Working
<1>2. OnSupervisory(r, f) = z \/ OnSupervisory(r, f) = asked
  BY DEF OnSupervisory
<1>3. ASSUME NEW p, NEW n, NEW x, NEW xs, Direction(p, n, x, xs, r, r.out)
      PROVE  Direction(p, n, x, xs, asked, asked.out)
  BY <1>1, <1>3, ResendQuiet, QuietKeeps
<1>4. ASSUME NEW p, NEW n, NEW y, NEW ys, Direction(p, n, r, r.out, y, ys)
      PROVE  Direction(p, n, asked, asked.out, y, ys)
  BY <1>1, <1>4, FlowResends
<1> HIDE DEF asked
<1>5. Quiet(asked, z) /\ Silent(asked, z)
  BY <1>1, SupervisoryQuiet
<1>6. ASSUME NEW p, NEW n, NEW x, NEW xs, Direction(p, n, x, xs, r, r.out)
      PROVE  Direction(p, n, x, xs, z, z.out)
  BY <1>1, <1>3, <1>5, <1>6, QuietKeeps
<1>7. ASSUME NEW p, NEW n, NEW y, NEW ys, Direction(p, n, r, r.out, y, ys)
      PROVE  Direction(p, n, z, z.out, y, ys)
  BY <1>1, <1>4, <1>5, <1>7, SilentKeeps
<1> HIDE DEF z
<1> QED BY <1>2, <1>3, <1>4, <1>6, <1>7

\* The frame that is due is the only one in reach that has its number.
LEMMA DueIs ==
    ASSUME NEW p, NEW n, NEW x \in Engine, NEW xs, NEW y, NEW ys, NEW w,
           Flow(p, n, x, xs, y, ys, w), NEW f \in Data, NEW m \in Nat, Hand(f, m, xs, w),
           f.tx = y.expected
    PROVE  m = w.due /\ w.due < w.next /\ w.due < Len(w.all)
<1>1. w \in Ledger /\ w.due \in Nat /\ w.next \in Nat /\ w.oldest \in Nat
  BY DEF Flow, Ledger
<1>2. m < w.next /\ w.due <= m + Window /\ f.tx = Wrap(m)
  BY DEF Hand, Is, Data
<1>3. w.next <= w.oldest + Window /\ w.oldest <= w.due
  BY DEF Flow, Ordered
<1>4. y.expected = Wrap(w.due)
  BY DEF Flow, Answers
<1>5. \A a, b, c, d, win, mod \in Nat :
        a < b /\ c <= a + win /\ b <= d + win /\ d <= c /\ 2 * win <= mod /\ win >= 1
          => a - c < mod /\ c - a < mod
  OBVIOUS
<1>6. m - w.due < Modulo /\ w.due - m < Modulo
  BY <1>1, <1>2, <1>3, <1>5, Constants
<1>7. m = w.due
  BY <1>1, <1>2, <1>4, <1>6, Same
<1>8. Len(w.all) >= w.next
  <2>1. w.all \in Seq(Fragments) /\ Len(w.all) = w.next + Len(x.queued)
    BY <1>1 DEF Flow, Holds, Ledger
  <2>2. Len(w.all) \in Nat
    BY <2>1
  <2>3. Len(x.queued) \in Nat
    BY DEF Engine
  <2> QED BY <1>1, <2>1, <2>3
<1> QED BY <1>1, <1>2, <1>7, <1>8

LEMMA InTurn ==
    ASSUME NEW p \in Ends, NEW n \in 0..Len(SduFrames[p]), NEW x \in Engine, NEW xs,
           NEW y \in Engine, NEW f \in Data, Coming(p, n, x, xs, y, y.out, f), f.tx = y.expected
    PROVE  LET taken == [y EXCEPT !.rejected = FALSE, !.expected = NextSeq(y.expected)]
               kept == Reassemble(taken, f.frag)
           IN kept \in Engine /\ Direction(p, n, x, xs, kept, kept.out)
<1>1. PICK w : Flow(p, n, x, xs, y, y.out, w) /\ \E m \in Nat : Hand(f, m, xs, w)
  BY DEF Coming
<1>2. PICK m \in Nat : Hand(f, m, xs, w)
  BY <1>1
<1>3. m = w.due /\ w.due < w.next /\ w.due < Len(w.all)
  BY <1>1, <1>2, DueIs
<1>4. /\ w \in Ledger /\ w.due \in Nat /\ w.next \in Nat /\ w.oldest \in Nat
      /\ w.acks \in Seq(Nat) /\ w.frames \in Seq(Nat)
  BY <1>1 DEF Flow, Ledger
<1>5. /\ f.kind = "I" /\ f.frag = w.all[w.due + 1] /\ f.frag \in Fragments
      /\ \A i \in 1..Len(xs) : xs[i].kind = "I" => w.due < w.frames[i] + Window
  BY <1>2, <1>3 DEF Hand, Is, Data
<1> DEFINE taken == [y EXCEPT !.rejected = FALSE, !.expected = NextSeq(y.expected)]
           kept == Reassemble(taken, f.frag)
           v == [w EXCEPT !.due = w.due + 1]
<1>6. y.expected = Wrap(w.due) /\ NextSeq(y.expected) = Wrap(w.due + 1)
      /\ NextSeq(y.expected) \in SeqNo
  <2>1. y.expected = Wrap(w.due)
    BY <1>1 DEF Flow, Answers
  <2>2. (Wrap(w.due) + 1) % Modulo = Wrap(w.due + 1)
    BY <1>4, WrapMore
  <2>3. Wrap(w.due + 1) \in SeqNo
    <3>1. w.due + 1 \in Nat
      BY <1>4
    <3> QED BY <3>1, Quotient
  <2> QED BY <2>1, <2>2, <2>3 DEF NextSeq
<1>7. /\ taken \in Engine /\ taken.up = y.up /\ taken.partial = y.partial /\ taken.out = y.out
      /\ taken.expected = Wrap(w.due + 1) /\ taken.rejected = FALSE
  BY <1>6 DEF Engine
<1> HIDE DEF taken
<1>8. kept \in Engine
  BY <1>5, <1>7, Reassembling
<1>9. /\ kept.out = y.out /\ kept.expected = Wrap(w.due + 1) /\ kept.rejected = FALSE
  <2>1. PICK part, up : kept = [taken EXCEPT !.partial = part, !.up = up]
    BY <1>5, <1>7, Reassembling
  <2> HIDE DEF kept
  <2> QED BY <1>7, <2>1 DEF Engine
<1>10. /\ v \in Ledger /\ v.oldest = w.oldest /\ v.due = w.due + 1 /\ v.next = w.next
       /\ v.acks = w.acks /\ v.all = w.all /\ v.frames = w.frames
  <2>1. w \in Ledger /\ w.due + 1 \in Nat
    BY <1>4
  <2> QED BY <2>1 DEF Ledger
<1>11. Handed(p, kept, v)
  <2>1. Cuts(p, n, w.all) /\ Handed(p, taken, w)
    BY <1>1, <1>7 DEF Flow, Handed
  <2>2. Handed(p, Reassemble(taken, w.all[w.due + 1]), [w EXCEPT !.due = w.due + 1])
    BY <1>3, <1>4, <1>7, <2>1, HandsOn
  <2> QED BY <1>5, <2>2
<1> HIDE DEF kept, v
<1>12. Ordered(v)
  BY <1>1, <1>3, <1>4, <1>10 DEF Flow, Ordered
<1>13. Holds(x, v) /\ Cuts(p, n, v.all)
  BY <1>1, <1>10 DEF Flow, Holds
<1>14. Carries(xs, v)
  <2>1. \A i \in 1..Len(xs) : xs[i].kind = "I" => w.due + 1 <= w.frames[i] + Window
    <3>1. Len(w.frames) = Len(xs)
      BY <1>1 DEF Flow, Carries
    <3>2. \A i \in 1..Len(xs) : w.frames[i] \in Nat
      BY <1>4, <3>1, SMTT(30)
    <3>3. \A a, b, win \in Nat : a < b + win => a + 1 <= b + win
      OBVIOUS
    <3> QED BY <1>4, <1>5, <3>2, <3>3, Constants
  <2> QED BY <1>1, <1>10, <2>1 DEF Flow, Carries, Is
<1>15. Answers(kept, y.out, v)
  <2>1. Len(w.acks) = Len(y.out)
    BY <1>1 DEF Flow, Answers
  <2>2. \A i \in 1..Len(y.out) : w.acks[i] \in Nat
    BY <1>4, <2>1
  <2>3. \A a, b \in Nat : a <= b => a <= b + 1 /\ a # b + 1
    OBVIOUS
  <2>4. \A i \in 1..Len(y.out) : /\ w.oldest <= w.acks[i] /\ w.acks[i] <= w.due + 1
                                 /\ w.acks[i] # w.due + 1
                                 /\ y.out[i] # Disc => y.out[i].req = Wrap(w.acks[i])
    BY <1>1, <1>4, <2>2, <2>3 DEF Flow, Answers
  <2> QED BY <1>1, <1>9, <1>10, <2>1, <2>4 DEF Flow, Answers
<1>16. Flow(p, n, x, xs, kept, kept.out, v)
  BY <1>9, <1>10, <1>11, <1>12, <1>13, <1>14, <1>15 DEF Flow
<1>17. Direction(p, n, x, xs, kept, kept.out)
  BY <1>16 DEF Direction
<1> QED BY <1>8, <1>17 DEF kept, taken

LEMMA OnInformationFlows ==
    ASSUME NEW r, Working(r), NEW f \in Data
    PROVE  /\ \A p \in Ends : \A n \in 0..Len(SduFrames[p]) : \A x \in Engine : \A xs :
                Coming(p, n, x, xs, r, r.out, f)
                  => Direction(p, n, x, xs, OnInformation(r, f), OnInformation(r, f).out)
           /\ \A p, n, y, ys : Direction(p, n, r, r.out, y, ys)
                => Direction(p, n, OnInformation(r, f), OnInformation(r, f).out, y, ys)
<1>1. r \in Engine
  BY DEF Working
<1> DEFINE told == Supervisory(r, "RR", FALSE, FALSE)
           marked == [r EXCEPT !.rejected = TRUE]
           rejecting == Supervisory(marked, "REJ", FALSE, FALSE)
           taken == [r EXCEPT !.rejected = FALSE, !.expected = NextSeq(r.expected)]
           kept == Reassemble(taken, f.frag)
           answered == Supervisory(kept, "RR", FALSE, FALSE)
<1>2. CASE f.tx = r.expected
  <2>1. OnInformation(r, f) = answered
    BY <1>2 DEF OnInformation
  <2>2. taken \in Engine /\ f.frag \in Fragments
    <3>1. NextSeq(r.expected) \in SeqNo
      BY <1>1, NextIsNumber DEF Engine
    <3> QED BY <1>1, <3>1 DEF Engine, Data
  <2>3. kept \in Engine /\ \E part, up : kept = [taken EXCEPT !.partial = part, !.up = up]
    <3> HIDE DEF taken
    <3> QED BY <2>2, Reassembling
  <2>4. Quiet(kept, answered) /\ Silent(kept, answered)
    <3> HIDE DEF kept
    <3> QED BY <2>3, SupervisoryQuiet
  <2>5. ASSUME NEW p \in Ends, NEW n \in 0..Len(SduFrames[p]), NEW x \in Engine, NEW xs,
               Coming(p, n, x, xs, r, r.out, f)
        PROVE  Direction(p, n, x, xs, answered, answered.out)
    <3>1. Direction(p, n, x, xs, kept, kept.out)
      BY <1>1, <1>2, <2>5, InTurn
    <3> HIDE DEF kept, answered
    <3> QED BY <2>3, <2>4, <3>1, QuietKeeps
  <2>6. ASSUME NEW p, NEW n, NEW y, NEW ys, Direction(p, n, r, r.out, y, ys)
        PROVE  Direction(p, n, answered, answered.out, y, ys)
    <3>1. /\ taken.unacked = r.unacked /\ taken.queued = r.queued /\ taken.nextTx = r.nextTx
          /\ taken.out = r.out
      BY <1>1 DEF Engine
    <3>2. PICK part, up : kept = [taken EXCEPT !.partial = part, !.up = up]
      BY <2>3
    <3> HIDE DEF taken, kept
    <3>3. /\ kept.unacked = r.unacked /\ kept.queued = r.queued /\ kept.nextTx = r.nextTx
          /\ kept.out = r.out
      BY <2>2, <3>1, <3>2 DEF Engine
    <3>4. Direction(p, n, kept, kept.out, y, ys)
      BY <2>6, <3>3 DEF Direction, Flow, Holds
    <3> HIDE DEF answered
    <3> QED BY <2>3, <2>4, <3>4, SilentKeeps
  <2> HIDE DEF answered
  <2> QED BY <2>1, <2>5, <2>6
<1>3. CASE f.tx # r.expected
  <2>1. \/ OnInformation(r, f) = told
        \/ OnInformation(r, f) = rejecting /\ ~r.rejected
    BY <1>3 DEF OnInformation, OutOfTurn
  <2>2. Quiet(r, told) /\ Silent(r, told)
    BY <1>1, SupervisoryQuiet
  <2> DEFINE c == [kind |-> "REJ", req |-> r.expected, poll |-> FALSE, final |-> FALSE]
             g == <<c>>
  <2>3. c \in Frames /\ c.req = r.expected /\ c.kind = "REJ"
    BY <1>1 DEF Frames, Control, Engine
  <2>4. marked \in Engine
    BY <1>1 DEF Engine
  <2>5. /\ rejecting.out = Append(r.out, c) /\ rejecting.rejected /\ rejecting.expected = r.expected
        /\ rejecting.up = r.up /\ rejecting.partial = r.partial
        /\ rejecting.unacked = r.unacked /\ rejecting.queued = r.queued
        /\ rejecting.nextTx = r.nextTx
    BY <1>1 DEF Supervisory, Engine
  <2> HIDE DEF c, told, rejecting, marked
  <2>6. g \in Seq(Frames) /\ (\A i \in 1..Len(g) : g[i].kind # "I") /\ r.out \in Seq(Frames)
    <3>1. g \in Seq(Frames) /\ \A i \in 1..Len(g) : g[i] = c
      BY <2>3
    <3> QED BY <1>1, <2>3, <3>1 DEF Engine
  <2>7. rejecting.out = r.out \o g
    <3>1. Append(r.out, c) = r.out \o g
      BY <2>3, <2>6, AppendIsConcat
    <3> QED BY <2>5, <3>1
  <2>8. Silent(r, rejecting)
    <3> HIDE DEF g
    <3> QED BY <2>5, <2>6, <2>7 DEF Silent
  <2>9. ASSUME NEW p, NEW n, NEW x, NEW xs, Coming(p, n, x, xs, r, r.out, f)
        PROVE  Direction(p, n, x, xs, r, r.out)
    BY <2>9 DEF Coming, Direction
  <2>10. ASSUME NEW p, NEW n, NEW x, NEW xs, Coming(p, n, x, xs, r, r.out, f), ~r.rejected
         PROVE  Direction(p, n, x, xs, rejecting, rejecting.out)
    <3>1. PICK w : Flow(p, n, x, xs, r, r.out, w)
      BY <2>10 DEF Coming
    <3>2. Flow(p, n, x, xs, rejecting, r.out \o <<c>>, [w EXCEPT !.acks = w.acks \o <<w.due>>])
      BY <2>3, <2>5, <2>6, <2>10, <3>1, FlowRejects
    <3> QED BY <2>7, <3>2 DEF Direction
  <2>11. ASSUME NEW p, NEW n, NEW x, NEW xs, Coming(p, n, x, xs, r, r.out, f)
         PROVE  Direction(p, n, x, xs, told, told.out)
    BY <1>1, <2>2, <2>9, <2>11, QuietKeeps
  <2>12. ASSUME NEW p, NEW n, NEW y, NEW ys, Direction(p, n, r, r.out, y, ys)
         PROVE  Direction(p, n, told, told.out, y, ys) /\ Direction(p, n, rejecting, rejecting.out, y, ys)
    BY <1>1, <2>2, <2>8, <2>12, SilentKeeps
  <2> QED BY <2>1, <2>10, <2>11, <2>12
<1> QED BY <1>2, <1>3

-----------------------------------------------------------------------------
(* Taking and giving.                                                      *)

\* A direction is about the numbers of the two engines and nothing else of theirs.
LEMMA DirectionSame ==
    ASSUME NEW p, NEW n, NEW x, NEW xs, NEW y, NEW ys, NEW a, NEW b,
           a.unacked = x.unacked, a.queued = x.queued, a.nextTx = x.nextTx,
           b.expected = y.expected, b.rejected = y.rejected, b.up = y.up, b.partial = y.partial,
           Direction(p, n, x, xs, y, ys)
    PROVE  Direction(p, n, a, xs, b, ys)
<1>1. PICK w : Flow(p, n, x, xs, y, ys, w)
  BY DEF Direction
<1>2. Holds(a, w)
  BY <1>1 DEF Flow, Holds
<1>3. Answers(b, ys, w) /\ Handed(p, b, w)
  BY <1>1 DEF Flow, Answers, Handed
<1>4. Flow(p, n, a, xs, b, ys, w)
  BY <1>1, <1>2, <1>3 DEF Flow
<1> QED BY <1>4 DEF Direction

\* The oldest frame under way arrives, or is lost.
LEMMA FrameTaken ==
    ASSUME NEW p, NEW n, NEW x, NEW xs \in Seq(Frames), xs # <<>>, NEW y, NEW ys,
           Direction(p, n, x, xs, y, ys)
    PROVE  Coming(p, n, x, Tail(xs), y, ys, Head(xs)) /\ Direction(p, n, x, Tail(xs), y, ys)
<1>1. PICK w : Flow(p, n, x, xs, y, ys, w)
  BY DEF Direction
<1> DEFINE fs == Tail(w.frames)
           zs == Tail(xs)
           m == w.frames[1]
           v == [w EXCEPT !.frames = fs]
<1>2. w \in Ledger /\ w.frames \in Seq(Nat) /\ Len(w.frames) = Len(xs)
  BY <1>1 DEF Flow, Ledger, Carries
<1>3. /\ zs \in Seq(Frames) /\ Len(zs) = Len(xs) - 1 /\ Head(xs) = xs[1] /\ 1 \in 1..Len(xs)
      /\ \A i \in 1..Len(zs) : i + 1 \in 1..Len(xs) /\ zs[i] = xs[i + 1]
      /\ Len(xs) \in Nat \ {0}
  BY Tailed
<1>4. w.frames # <<>>
  BY <1>2, <1>3
<1>5. /\ fs \in Seq(Nat) /\ Len(fs) = Len(xs) - 1
      /\ \A i \in 1..Len(fs) : i + 1 \in 1..Len(xs) /\ fs[i] = w.frames[i + 1]
  BY <1>2, <1>4, Tailed
<1>6. m \in Nat
  BY <1>2, <1>3
<1>7. /\ v \in Ledger /\ v.oldest = w.oldest /\ v.due = w.due /\ v.next = w.next
      /\ v.acks = w.acks /\ v.all = w.all /\ v.frames = fs
  BY <1>2, <1>5 DEF Ledger
<1> HIDE DEF fs, zs, m, v
<1>8. \A i \in 1..Len(zs) : i + 1 \in 1..Len(xs) /\ zs[i] = xs[i + 1] /\ fs[i] = w.frames[i + 1]
  BY <1>3, <1>5
<1>9. \A i \in 1..Len(zs) : zs[i].kind = "I" => Is(zs[i], fs[i], v)
  BY <1>1, <1>7, <1>8 DEF Flow, Carries, Is
<1>10. \A i, j \in 1..Len(zs) : i < j /\ zs[i].kind = "I" /\ zs[j].kind = "I"
                                => fs[i] < fs[j] + Window
  <2> SUFFICES ASSUME NEW i \in 1..Len(zs), NEW j \in 1..Len(zs), i < j,
                      zs[i].kind = "I", zs[j].kind = "I"
               PROVE  fs[i] < fs[j] + Window
    OBVIOUS
  <2> DEFINE b == i + 1
             c == j + 1
  <2>1. b < c
    BY <1>3
  <2>2. /\ b \in 1..Len(xs) /\ c \in 1..Len(xs)
        /\ zs[i] = xs[b] /\ zs[j] = xs[c] /\ fs[i] = w.frames[b] /\ fs[j] = w.frames[c]
    BY <1>8
  <2> HIDE DEF b, c
  <2> QED BY <1>1, <2>1, <2>2 DEF Flow, Carries
<1>11. Carries(zs, v)
  BY <1>3, <1>5, <1>7, <1>9, <1>10 DEF Carries
<1>12. Flow(p, n, x, zs, y, ys, v)
  BY <1>1, <1>7, <1>11 DEF Flow, Ordered, Holds, Answers, Handed
<1>13. Hand(Head(xs), m, zs, v)
  <2>1. Head(xs).kind = "I" => Is(Head(xs), m, v)
    BY <1>1, <1>3, <1>7 DEF Flow, Carries, Is, m
  <2>2. ASSUME Head(xs).kind = "I", NEW i \in 1..Len(zs), zs[i].kind = "I"
        PROVE  m < fs[i] + Window
    <3> DEFINE b == i + 1
    <3>1. b \in 1..Len(xs) /\ zs[i] = xs[b] /\ fs[i] = w.frames[b]
      BY <1>8
    <3>2. 1 < b
      BY <1>3
    <3> HIDE DEF b
    <3> QED BY <1>1, <1>3, <2>2, <3>1, <3>2 DEF Flow, Carries, m
  <2> QED BY <1>7, <2>1, <2>2 DEF Hand
<1> QED BY <1>6, <1>12, <1>13 DEF Coming, Direction, zs

LEMMA AnswerTaken ==
    ASSUME NEW p, NEW n, NEW x, NEW xs, NEW y, NEW ys \in Seq(Frames), ys # <<>>,
           Direction(p, n, x, xs, y, ys)
    PROVE  Direction(p, n, x, xs, y, Tail(ys))
<1>1. PICK w : Flow(p, n, x, xs, y, ys, w)
  BY DEF Direction
<1> DEFINE rest == Tail(w.acks)
           zs == Tail(ys)
           v == [w EXCEPT !.acks = rest]
<1>2. w \in Ledger /\ w.acks \in Seq(Nat) /\ Len(w.acks) = Len(ys)
  BY <1>1 DEF Flow, Ledger, Answers
<1>3. /\ zs \in Seq(Frames) /\ Len(zs) = Len(ys) - 1
      /\ \A i \in 1..Len(zs) : i + 1 \in 1..Len(ys) /\ zs[i] = ys[i + 1]
      /\ Len(ys) \in Nat \ {0}
  BY Tailed
<1>4. w.acks # <<>>
  BY <1>2, <1>3
<1>5. /\ rest \in Seq(Nat) /\ Len(rest) = Len(ys) - 1
      /\ \A i \in 1..Len(rest) : i + 1 \in 1..Len(ys) /\ rest[i] = w.acks[i + 1]
  BY <1>2, <1>4, Tailed
<1>6. /\ v \in Ledger /\ v.oldest = w.oldest /\ v.due = w.due /\ v.next = w.next
      /\ v.acks = rest /\ v.all = w.all /\ v.frames = w.frames
  BY <1>2, <1>5 DEF Ledger
<1> HIDE DEF rest, zs, v
<1>7. \A i \in 1..Len(zs) : i + 1 \in 1..Len(ys) /\ zs[i] = ys[i + 1] /\ rest[i] = w.acks[i + 1]
  BY <1>3, <1>5
<1>8. \A i \in 1..Len(zs) : /\ w.oldest <= rest[i] /\ rest[i] <= w.due
                            /\ zs[i] # Disc => zs[i].req = Wrap(rest[i])
                            /\ zs[i].kind = "REJ" /\ rest[i] = w.due => y.rejected
  BY <1>1, <1>7 DEF Flow, Answers
<1>9. \A i, j \in 1..Len(zs) :
        i < j => /\ rest[i] <= rest[j]
                 /\ zs[i].kind = "REJ" /\ zs[j].kind = "REJ" => rest[i] < rest[j]
  <2> SUFFICES ASSUME NEW i \in 1..Len(zs), NEW j \in 1..Len(zs), i < j
               PROVE  /\ rest[i] <= rest[j]
                      /\ zs[i].kind = "REJ" /\ zs[j].kind = "REJ" => rest[i] < rest[j]
    OBVIOUS
  <2> DEFINE b == i + 1
             c == j + 1
  <2>1. b < c
    BY <1>3
  <2>2. /\ b \in 1..Len(ys) /\ c \in 1..Len(ys)
        /\ zs[i] = ys[b] /\ zs[j] = ys[c] /\ rest[i] = w.acks[b] /\ rest[j] = w.acks[c]
    BY <1>7
  <2> HIDE DEF b, c
  <2> QED BY <1>1, <2>1, <2>2 DEF Flow, Answers
<1>10. Answers(y, zs, v)
  <2>1. y.expected = Wrap(w.due) /\ Len(rest) = Len(zs)
    BY <1>1, <1>3, <1>5 DEF Flow, Answers
  <2> QED BY <1>6, <1>8, <1>9, <2>1 DEF Answers
<1>11. Flow(p, n, x, xs, y, zs, v)
  BY <1>1, <1>6, <1>10 DEF Flow, Ordered, Holds, Carries, Is, Handed
<1> QED BY <1>11 DEF Direction, zs

\* An SDU more at the end of all that was given.
LEMMA CutsGrow ==
    ASSUME NEW p \in Ends, NEW n \in Nat, n < Len(SduFrames[p]), NEW all \in Seq(Fragments),
           Cuts(p, n, all)
    PROVE  Cuts(p, n + 1, all \o Cut(p, n + 1))
<1> DEFINE c == Cut(p, n + 1)
           a == Len(all)
           l == SduFrames[p][n + 1]
           more == all \o c
<1>1. n + 1 \in 1..Len(SduFrames[p]) /\ a \in Nat /\ a = Len(all)
  <2>1. SduFrames[p] \in Seq(Nat \ {0})
    BY ErtmAssumption
  <2> QED BY <2>1
<1>2. /\ l \in Nat \ {0} /\ Len(c) = l /\ c \in Seq(Fragments)
      /\ \A j \in 1..l : c[j].sdu = n + 1 /\ c[j].part = j /\ c[j].len = l
  BY <1>1, CutIs
<1>3. /\ more \in Seq(Fragments) /\ Len(more) = a + l
      /\ \A i \in 1..a : more[i] = all[i]
      /\ \A j \in 1..l : more[a + j] = c[j]
      /\ \A i \in 1..(a + l) : i \in 1..a \/ \E j \in 1..l : i = a + j
  BY <1>2, JoinedFragments, SMTT(30)
<1>4. /\ n = 0 <=> a = 0
      /\ a # 0 => /\ all[1].sdu = 1 /\ all[1].part = 1
                  /\ all[a].sdu = n /\ all[a].part = all[a].len
  <2>1. all = <<>> <=> a = 0
    OBVIOUS
  <2> QED BY <2>1 DEF Cuts
<1>5. /\ \A i \in 1..a : /\ all[i].sdu \in 1..n /\ all[i].part \in 1..SduFrames[p][all[i].sdu]
                         /\ all[i] = Cut(p, all[i].sdu)[all[i].part]
      /\ \A i \in 1..(a - 1) : Follows(all[i], all[i + 1])
  BY DEF Cuts
<1>6. \A j \in 1..l : c[j] = Cut(p, c[j].sdu)[c[j].part] /\ c[j].part \in 1..SduFrames[p][c[j].sdu]
                      /\ c[j].sdu \in 1..(n + 1)
  BY <1>1, <1>2
<1> HIDE DEF more, c, l, a
<1>7. ASSUME NEW i \in 1..(a + l)
      PROVE  /\ more[i].sdu \in 1..(n + 1) /\ more[i].part \in 1..SduFrames[p][more[i].sdu]
             /\ more[i] = Cut(p, more[i].sdu)[more[i].part]
  <2>1. CASE i \in 1..a
    <3>1. more[i] = all[i] /\ all[i].sdu \in 1..(n + 1)
      BY <1>3, <1>5, <2>1
    <3> QED BY <1>5, <2>1, <3>1
  <2>2. ASSUME NEW j \in 1..l, i = a + j
        PROVE  /\ more[i].sdu \in 1..(n + 1) /\ more[i].part \in 1..SduFrames[p][more[i].sdu]
               /\ more[i] = Cut(p, more[i].sdu)[more[i].part]
    <3>1. more[i] = c[j]
      BY <1>3, <2>2
    <3> QED BY <1>6, <3>1
  <2> QED BY <1>3, <2>1, <2>2
<1>8. more[1].sdu = 1 /\ more[1].part = 1
  <2>1. CASE a = 0
    <3>1. 1 \in 1..l /\ a + 1 = 1 /\ n = 0
      BY <1>2, <1>4, <2>1
    <3>2. more[a + 1] = c[1]
      BY <1>3, <3>1
    <3> QED BY <1>2, <3>1, <3>2
  <2>2. CASE a # 0
    <3>1. 1 \in 1..a
      BY <1>1, <2>2
    <3> QED BY <1>3, <1>4, <2>2, <3>1
  <2> QED BY <2>1, <2>2
<1>9. ASSUME NEW i \in 1..(a + l - 1) PROVE Follows(more[i], more[i + 1])
  <2>1. CASE i \in 1..(a - 1)
    <3>1. i \in 1..a /\ i + 1 \in 1..a
      BY <1>1, <2>1
    <3> QED BY <1>3, <1>5, <2>1, <3>1
  <2>2. CASE i = a
    <3>1. a \in 1..a /\ 1 \in 1..l /\ a # 0
      BY <1>1, <1>2, <2>2
    <3>2. more[a] = all[a] /\ more[a + 1] = c[1] /\ c[1].sdu = n + 1 /\ c[1].part = 1
      BY <1>2, <1>3, <3>1
    <3>3. all[a].sdu = n /\ ~(all[a].part < all[a].len)
      <4>1. all[a] \in Fragments
        BY <3>1 DEF a
      <4>2. all[a].part \in Nat
        BY <4>1 DEF Fragments
      <4> QED BY <1>4, <3>1, <4>2
    <3> QED BY <2>2, <3>2, <3>3 DEF Follows
  <2>3. ASSUME NEW j \in 1..l, i = a + j PROVE Follows(more[i], more[i + 1])
    <3> DEFINE b == j + 1
    <3>1. b \in 1..l /\ i + 1 = a + b /\ j < l /\ b = j + 1
      BY <1>1, <1>2, <2>3
    <3> HIDE DEF b
    <3>2. more[i] = c[j] /\ more[i + 1] = c[b]
      BY <1>3, <2>3, <3>1
    <3> QED BY <1>2, <3>1, <3>2 DEF Follows
  <2>4. i \in 1..(a - 1) \/ i = a \/ i \in (a + 1)..(a + l)
    BY <1>1, <1>2
  <2>5. i \in (a + 1)..(a + l) => i - a \in 1..l /\ i = a + (i - a)
    BY <1>1, <1>2
  <2> QED BY <2>1, <2>2, <2>3, <2>4, <2>5
<1>10. more[a + l].sdu = n + 1 /\ more[a + l].part = more[a + l].len /\ more # <<>> /\ n + 1 # 0
  <2>1. l \in 1..l
    BY <1>2
  <2>2. Len(more) # 0
    BY <1>1, <1>2, <1>3
  <2> QED BY <1>2, <1>3, <2>1, <2>2
<1>11. Cuts(p, n + 1, more)
  <2>1. Len(more) = a + l
    BY <1>3
  <2>2. more[Len(more)].sdu = n + 1 /\ more[Len(more)].part = more[Len(more)].len
    BY <1>10, <2>1
  <2>3. \A i \in 1..Len(more) : /\ more[i].sdu \in 1..(n + 1)
                                 /\ more[i].part \in 1..SduFrames[p][more[i].sdu]
                                 /\ more[i] = Cut(p, more[i].sdu)[more[i].part]
    BY <1>7, <2>1
  <2>4. \A i \in 1..(Len(more) - 1) : Follows(more[i], more[i + 1])
    <3>1. Len(more) - 1 = a + l - 1
      BY <1>1, <1>2, <2>1
    <3>2. \A i \in 1..(a + l - 1) : Follows(more[i], more[i + 1])
      BY <1>9
    <3> QED BY <3>1, <3>2
  <2> QED BY <1>8, <1>10, <2>2, <2>3, <2>4 DEF Cuts
<1> QED BY <1>11 DEF more, c

\* send: another SDU waits behind what there is.
LEMMA FlowGiven ==
    ASSUME NEW p \in Ends, NEW n \in Nat, n < Len(SduFrames[p]), NEW x \in Engine, NEW xs,
           NEW y, NEW ys, Direction(p, n, x, xs, y, ys)
    PROVE  Direction(p, n + 1, [x EXCEPT !.queued = x.queued \o Cut(p, n + 1)], xs, y, ys)
<1>1. PICK w : Flow(p, n, x, xs, y, ys, w)
  BY DEF Direction
<1> DEFINE c == Cut(p, n + 1)
           more == w.all \o c
           v == [w EXCEPT !.all = more]
           z == [x EXCEPT !.queued = x.queued \o c]
           q == x.queued \o c
           a == Len(w.all)
           m == Len(x.queued)
<1>2. /\ w \in Ledger /\ w.all \in Seq(Fragments) /\ a \in Nat /\ w.next \in Nat
      /\ w.oldest \in Nat /\ w.due \in Nat /\ a = Len(w.all)
      /\ x.queued \in Seq(Fragments) /\ m \in Nat /\ m = Len(x.queued) /\ Len(x.unacked) \in Nat
  <2>1. w \in Ledger
    BY <1>1 DEF Flow
  <2>2. /\ w.all \in Seq(Fragments) /\ w.next \in Nat /\ w.oldest \in Nat /\ w.due \in Nat
    BY <2>1 DEF Ledger
  <2>3. x.queued \in Seq(Fragments) /\ x.unacked \in Seq(Numbered)
    BY DEF Engine
  <2> QED BY <2>1, <2>2, <2>3
<1>3. c \in Seq(Fragments) /\ Len(c) \in Nat
  BY Cutting
<1>4. Cuts(p, n + 1, more)
  BY <1>1, <1>2, CutsGrow DEF Flow
<1>5. /\ more \in Seq(Fragments) /\ Len(more) = a + Len(c)
      /\ \A i \in 1..a : more[i] = w.all[i]
      /\ \A j \in 1..Len(c) : more[a + j] = c[j]
  BY <1>2, <1>3, JoinedFragments
<1>6. /\ q \in Seq(Fragments) /\ Len(q) = m + Len(c)
      /\ \A i \in 1..m : q[i] = x.queued[i]
      /\ \A j \in 1..Len(c) : q[m + j] = c[j]
      /\ \A i \in 1..Len(q) : i \in 1..m \/ \E j \in 1..Len(c) : i = m + j
  BY <1>2, <1>3, JoinedFragments
<1>7. z.queued = q /\ z.unacked = x.unacked /\ z.nextTx = x.nextTx
  BY DEF Engine
<1> HIDE DEF more, q, c, z
<1>8. /\ v \in Ledger /\ v.oldest = w.oldest /\ v.due = w.due /\ v.next = w.next
      /\ v.acks = w.acks /\ v.all = more /\ v.frames = w.frames
  BY <1>2, <1>5 DEF Ledger
<1> HIDE DEF v, a, m
<1>9. /\ w.next = w.oldest + Len(x.unacked) /\ x.nextTx = Wrap(w.next) /\ a = w.next + m
      /\ \A i \in 1..Len(x.unacked) : /\ x.unacked[i].tx = Wrap(w.oldest + i - 1)
                                      /\ x.unacked[i].frag = w.all[w.oldest + i]
      /\ \A i \in 1..m : x.queued[i] = w.all[w.next + i]
  BY <1>1, <1>2 DEF Flow, Holds
<1>10. Holds(z, v)
  <2>1. a + Len(c) = w.next + (m + Len(c))
    BY <1>2, <1>3, <1>9
  <2>0. \A b, u, e \in Nat : \A i \in 1..u : b + i \in 1..((b + u) + e)
    OBVIOUS
  <2>2. \A i \in 1..Len(x.unacked) : w.oldest + i \in 1..a
    <3>1. a = (w.oldest + Len(x.unacked)) + m
      BY <1>9
    <3>2. \A i \in 1..Len(x.unacked) : w.oldest + i \in 1..((w.oldest + Len(x.unacked)) + m)
      BY <1>2, <2>0, Zenon
    <3> QED BY <3>1, <3>2, Zenon
  <2>3. \A i \in 1..m : w.next + i \in 1..a
    <3>1. \A b, u \in Nat : \A i \in 1..u : b + i \in 1..(b + u)
      OBVIOUS
    <3> QED BY <1>2, <1>9, <3>1
  <2>4. \A j \in 1..Len(c) : w.next + (m + j) = a + j
    BY <1>2, <1>3, <1>9
  <2>5. \A i \in 1..Len(x.unacked) : x.unacked[i].frag = more[w.oldest + i]
    BY <1>5, <1>9, <2>2
  <2>6. \A i \in 1..m : q[i] = more[w.next + i]
    BY <1>5, <1>6, <1>9, <2>3
  <2>7. \A j \in 1..Len(c) : q[m + j] = more[w.next + (m + j)]
    BY <1>5, <1>6, <2>4
  <2>8. \A i \in 1..Len(q) : q[i] = more[w.next + i]
    BY <1>6, <2>6, <2>7, SMTT(30)
  <2> QED BY <1>5, <1>6, <1>7, <1>8, <1>9, <2>1, <2>5, <2>8 DEF Holds
<1>11. Carries(xs, v)
  <2>1. /\ Len(w.frames) = Len(xs) /\ w.frames \in Seq(Nat)
        /\ \A i \in 1..Len(xs) : xs[i].kind = "I" => Is(xs[i], w.frames[i], w)
        /\ \A i, j \in 1..Len(xs) : i < j /\ xs[i].kind = "I" /\ xs[j].kind = "I"
                                    => w.frames[i] < w.frames[j] + Window
    BY <1>1, <1>2 DEF Flow, Carries, Ledger
  <2>2. \A b \in Nat : b < w.next => b + 1 \in 1..a
    BY <1>2, <1>9
  <2>3. \A i \in 1..Len(xs) : w.frames[i] \in Nat
    BY <2>1
  <2>4. \A i \in 1..Len(xs) : xs[i].kind = "I" => Is(xs[i], w.frames[i], v)
    <3> SUFFICES ASSUME NEW i \in 1..Len(xs), xs[i].kind = "I" PROVE Is(xs[i], w.frames[i], v)
      OBVIOUS
    <3>1. Is(xs[i], w.frames[i], w)
      BY <2>1
    <3>2. w.frames[i] + 1 \in 1..a
      BY <2>2, <2>3, <3>1 DEF Is
    <3>3. more[w.frames[i] + 1] = w.all[w.frames[i] + 1]
      BY <1>5, <3>2
    <3> QED BY <1>8, <3>1, <3>3 DEF Is
  <2> QED BY <1>8, <2>1, <2>4 DEF Carries
<1>12. Handed(p, y, v)
  <2>1. w.due # 0 => w.due \in 1..a
    BY <1>1, <1>2, <1>9 DEF Flow, Ordered
  <2>2. w.due # 0 => more[w.due] = w.all[w.due]
    BY <1>5, <2>1
  <2>3. Handed(p, y, w)
    BY <1>1 DEF Flow
  <2> QED BY <1>8, <2>2, <2>3 DEF Handed
<1>13. Ordered(v) /\ Answers(y, ys, v)
  BY <1>1, <1>8 DEF Flow, Ordered, Answers
<1>14. Flow(p, n + 1, z, xs, y, ys, v)
  BY <1>4, <1>8, <1>10, <1>11, <1>12, <1>13 DEF Flow
<1> QED BY <1>14 DEF Direction, z, c

\* What Pump and the timer after it leave of a direction.
LEMMA PumpedFlows ==
    ASSUME NEW r, Working(r)
    PROVE  LET pumped == Pump(r)
               timed == [pumped EXCEPT !.retransTimer =
                            ArmTimers(pumped.unacked, pumped.retransTimer, pumped.monitorTimer)]
               z == FailChannel(timed)
           IN /\ \A p, n, x, xs : Direction(p, n, x, xs, r, r.out) => Direction(p, n, x, xs, z, z.out)
              /\ \A p, n, y, ys : Direction(p, n, r, r.out, y, ys) => Direction(p, n, z, z.out, y, ys)
<1> DEFINE pumped == Pump(r)
           t == ArmTimers(pumped.unacked, pumped.retransTimer, pumped.monitorTimer)
           timed == [pumped EXCEPT !.retransTimer = t]
           z == FailChannel(timed)
<1>1. r \in Engine /\ pumped \in Engine
  BY PumpWorks DEF Working
<1>2. Quiet(r, pumped)
  BY PumpQuiet
<1>3. \A p, n, y, ys : Direction(p, n, r, r.out, y, ys) => Direction(p, n, pumped, pumped.out, y, ys)
  BY FlowPumps
<1>4. t \in BOOLEAN
  <2> HIDE DEF pumped
  <2> QED BY <1>1 DEF ArmTimers, Engine
<1> HIDE DEF pumped, t
<1>5. timed \in Engine /\ Quiet(pumped, timed) /\ Silent(pumped, timed)
  <2>1. /\ timed.out = pumped.out /\ timed.expected = pumped.expected
        /\ timed.rejected = pumped.rejected /\ timed.up = pumped.up
        /\ timed.partial = pumped.partial /\ timed.unacked = pumped.unacked
        /\ timed.queued = pumped.queued /\ timed.nextTx = pumped.nextTx
        /\ timed \in Engine
    BY <1>1, <1>4 DEF Engine
  <2> HIDE DEF timed
  <2> QED BY <1>1, <2>1, Untouched
<1> HIDE DEF timed
<1>6. Quiet(timed, z) /\ Silent(timed, z)
  BY <1>5, FailChannelQuiet
<1> HIDE DEF z
<1>7. ASSUME NEW p, NEW n, NEW x, NEW xs, Direction(p, n, x, xs, r, r.out)
      PROVE  Direction(p, n, x, xs, z, z.out)
  <2>1. Direction(p, n, x, xs, pumped, pumped.out)
    BY <1>1, <1>2, <1>7, QuietKeeps
  <2>2. Direction(p, n, x, xs, timed, timed.out)
    BY <1>1, <1>5, <2>1, QuietKeeps
  <2> QED BY <1>5, <1>6, <2>2, QuietKeeps
<1>8. ASSUME NEW p, NEW n, NEW y, NEW ys, Direction(p, n, r, r.out, y, ys)
      PROVE  Direction(p, n, z, z.out, y, ys)
  <2>1. Direction(p, n, pumped, pumped.out, y, ys)
    BY <1>3, <1>8
  <2>2. Direction(p, n, timed, timed.out, y, ys)
    BY <1>1, <1>5, <2>1, SilentKeeps
  <2> QED BY <1>5, <1>6, <2>2, SilentKeeps
<1> QED BY <1>7, <1>8 DEF z, timed, t, pumped

\* Took, in the direction in which its engine sends: the frame is an answer.
LEMMA TookRetires ==
    ASSUME NEW p, NEW n, NEW r, Working(r), NEW y, NEW ys \in Seq(Frames), ys # <<>>,
           Head(ys) # Disc, Direction(p, n, r, r.out, y, ys)
    PROVE  Direction(p, n, Took(r, Head(ys)), Took(r, Head(ys)).out, y, Tail(ys))
<1> DEFINE f == Head(ys)
           zs == Tail(ys)
           acked == Acknowledge(r, f.req)
           told == Final(acked, f)
           done == IF f.kind = "I" THEN OnInformation(told, f) ELSE OnSupervisory(told, f)
<1>1. f \in Frames /\ (f.kind = "I" => f \in Data)
  <2>1. f \in Frames
    BY Tailed
  <2> QED BY <2>1 DEF Frames, Control
<1>2. r \in Engine /\ Len(r.unacked) <= Window
  BY DEF Working, Bounded
<1>3. Direction(p, n, acked, acked.out, y, zs)
  <2>1. Direction(p, n, acked, r.out, y, zs)
    BY <1>2, FlowRetires
  <2> QED BY <1>2, <2>1, AcknowledgeQuiet
<1>4. Working(acked)
  BY AcknowledgeWorks
<1> HIDE DEF acked, f, zs
<1>5. Working(told) /\ Direction(p, n, told, told.out, y, zs)
  BY <1>1, <1>3, <1>4, FinalWorks, FinalFlows
<1> HIDE DEF told
<1>6. CASE f.kind = "I"
  <2>1. Working(OnInformation(told, f))
    BY <1>1, <1>5, <1>6, OnInformationWorks
  <2>2. Direction(p, n, OnInformation(told, f), OnInformation(told, f).out, y, zs)
    BY <1>1, <1>5, <1>6, OnInformationFlows
  <2> QED BY <1>6, <2>1, <2>2, PumpedFlows DEF Took, told, acked, f, zs
<1>7. CASE f.kind # "I"
  <2>1. Working(OnSupervisory(told, f))
    BY <1>1, <1>5, OnSupervisoryWorks
  <2>2. Direction(p, n, OnSupervisory(told, f), OnSupervisory(told, f).out, y, zs)
    BY <1>1, <1>5, OnSupervisoryFlows
  <2> QED BY <1>7, <2>1, <2>2, PumpedFlows DEF Took, told, acked, f, zs
<1> QED BY <1>6, <1>7

\* Took, in the direction in which its engine receives: the frame has come.
LEMMA TookTakes ==
    ASSUME NEW p \in Ends, NEW n \in 0..Len(SduFrames[p]), NEW x \in Engine, NEW xs,
           NEW r, Working(r), NEW f \in Frames, Coming(p, n, x, xs, r, r.out, f)
    PROVE  Direction(p, n, x, xs, Took(r, f), Took(r, f).out)
<1> DEFINE acked == Acknowledge(r, f.req)
           told == Final(acked, f)
<1>1. f.kind = "I" => f \in Data
  BY DEF Frames, Control
<1>2. Working(acked) /\ Coming(p, n, x, xs, acked, acked.out, f)
  <2>1. r \in Engine
    BY DEF Working
  <2> QED BY <2>1, AcknowledgeWorks, AcknowledgeQuiet, QuietKeeps
<1> HIDE DEF acked
<1>3. Working(told) /\ Coming(p, n, x, xs, told, told.out, f)
  BY <1>2, FinalWorks, FinalFlows
<1> HIDE DEF told
<1>4. CASE f.kind = "I"
  <2>1. Working(OnInformation(told, f))
    BY <1>1, <1>3, <1>4, OnInformationWorks
  <2>2. Direction(p, n, x, xs, OnInformation(told, f), OnInformation(told, f).out)
    BY <1>1, <1>3, <1>4, OnInformationFlows
  <2> QED BY <1>4, <2>1, <2>2, PumpedFlows DEF Took, told, acked
<1>5. CASE f.kind # "I"
  <2>1. Working(OnSupervisory(told, f))
    BY <1>3, OnSupervisoryWorks
  <2>2. Direction(p, n, x, xs, told, told.out)
    BY <1>3 DEF Coming, Direction
  <2>3. Direction(p, n, x, xs, OnSupervisory(told, f), OnSupervisory(told, f).out)
    BY <1>3, <2>2, OnSupervisoryFlows
  <2> QED BY <1>5, <2>1, <2>3, PumpedFlows DEF Took, told, acked
<1> QED BY <1>4, <1>5

-----------------------------------------------------------------------------
(* The ledger is kept by every step.                                       *)

\* Both directions of the channel between x, which is end p, and y.
Between(p, n, m, x, y) ==
    /\ Direction(p, n, x, x.out, y, y.out)
    /\ Direction(Peer(p), m, y, y.out, x, x.out)

AgreesIn(e, given) ==
    \A p \in Ends : Direction(p, given[p], e[p], e[p].out, e[Peer(p)], e[Peer(p)].out)

Agrees == AgreesIn(end, sent)

LEMMA BothWays ==
    ASSUME NEW e, NEW given, NEW p \in Ends
    PROVE  AgreesIn(e, given) <=> Between(p, given[p], given[Peer(p)], e[p], e[Peer(p)])
<1>1. ASSUME AgreesIn(e, given)
      PROVE  Between(p, given[p], given[Peer(p)], e[p], e[Peer(p)])
  BY <1>1, Peers DEF AgreesIn, Between
<1>2. ASSUME Between(p, given[p], given[Peer(p)], e[p], e[Peer(p)])
      PROVE  AgreesIn(e, given)
  <2> SUFFICES ASSUME NEW q \in Ends
               PROVE  Direction(q, given[q], e[q], e[q].out, e[Peer(q)], e[Peer(q)].out)
    BY DEF AgreesIn
  <2>1. q = p \/ (q = Peer(p) /\ Peer(q) = p)
    BY Peers
  <2> QED BY <1>2, <2>1 DEF Between
<1> QED BY <1>1, <1>2

LEMMA InitAgrees == Init => Agrees
<1> SUFFICES ASSUME Init, NEW p \in Ends
             PROVE  Direction(p, sent[p], end[p], end[p].out, end[Peer(p)], end[Peer(p)].out)
  BY DEF Agrees, AgreesIn
<1> DEFINE w == [oldest |-> 0, next |-> 0, due |-> 0, frames |-> <<>>, acks |-> <<>>, all |-> <<>>]
           x == NewEnd
<1>1. sent[p] = 0 /\ end[p] = x /\ end[Peer(p)] = x
  BY Peers DEF Init
<1>2. /\ w \in Ledger /\ w.oldest = 0 /\ w.next = 0 /\ w.due = 0 /\ w.frames = <<>>
      /\ w.acks = <<>> /\ w.all = <<>>
  BY DEF Ledger
<1>3. /\ x.unacked = <<>> /\ x.queued = <<>> /\ x.nextTx = 0 /\ x.expected = 0 /\ x.out = <<>>
      /\ x.up = <<>> /\ x.partial = <<>>
  BY DEF NewEnd
<1>4. Wrap(0) = 0
  <2>1. (Modulo * 0 + 0) % Modulo = 0
    BY Constants, Remainder
  <2>2. Modulo * 0 + 0 = 0
    BY Constants
  <2> QED BY <2>1, <2>2 DEF Wrap
<1>5. Len(<<>>) = 0 /\ \A i \in 1..0 : FALSE
  OBVIOUS
<1> HIDE DEF w, x
<1>6. Ordered(w) /\ Holds(x, w)
  BY <1>2, <1>3, <1>4, <1>5, Constants DEF Ordered, Holds
<1>7. Carries(x.out, w) /\ Answers(x, x.out, w)
  BY <1>2, <1>3, <1>4, <1>5 DEF Carries, Answers
<1>8. Cuts(p, 0, w.all) /\ Handed(p, x, w)
  BY <1>2, <1>3, <1>5 DEF Cuts, Handed
<1>9. Flow(p, 0, x, x.out, x, x.out, w)
  BY <1>2, <1>6, <1>7, <1>8 DEF Flow
<1> QED BY <1>1, <1>9 DEF Direction

\* What an engine does on its own account leaves both directions as they were.
Keeps(r, z) ==
    /\ \A p, n, x, xs : Direction(p, n, x, xs, r, r.out) => Direction(p, n, x, xs, z, z.out)
    /\ \A p, n, y, ys : Direction(p, n, r, r.out, y, ys) => Direction(p, n, z, z.out, y, ys)

LEMMA BothKeep ==
    ASSUME NEW r \in Engine, NEW z, Quiet(r, z), Silent(r, z) PROVE Keeps(r, z)
<1>1. ASSUME NEW p, NEW n, NEW x, NEW xs, Direction(p, n, x, xs, r, r.out)
      PROVE  Direction(p, n, x, xs, z, z.out)
  BY <1>1, QuietKeeps
<1>2. ASSUME NEW p, NEW n, NEW y, NEW ys, Direction(p, n, r, r.out, y, ys)
      PROVE  Direction(p, n, z, z.out, y, ys)
  BY <1>2, SilentKeeps
<1> QED BY <1>1, <1>2 DEF Keeps

LEMMA PollKeeps ==
    ASSUME NEW r, Working(r), r.polls \in 0..MaxTransmit PROVE Keeps(r, Pump(Poll(r)))
<1> DEFINE x == [r EXCEPT !.polls = r.polls + 1, !.waiting = TRUE, !.monitorTimer = TRUE,
                          !.retransTimer = FALSE]
           polled == Poll(r)
           z == Pump(polled)
<1>1. r \in Engine /\ r.polls + 1 \in Nat
  BY DEF Working, Engine
<1>2. x \in Engine /\ Quiet(r, x) /\ Silent(r, x)
  <2>1. /\ x.out = r.out /\ x.expected = r.expected /\ x.rejected = r.rejected /\ x.up = r.up
        /\ x.partial = r.partial /\ x.unacked = r.unacked /\ x.queued = r.queued
        /\ x.nextTx = r.nextTx /\ x \in Engine
    BY <1>1 DEF Engine
  <2> HIDE DEF x
  <2> QED BY <1>1, <2>1, Untouched
<1>3. polled = Supervisory(x, "RR", TRUE, FALSE)
  BY DEF Poll
<1> HIDE DEF x, polled
<1>4. Quiet(x, polled) /\ Silent(x, polled)
  BY <1>2, <1>3, SupervisoryQuiet
<1>5. Working(polled)
  BY PollWorks DEF polled
<1>6. polled \in Engine /\ Quiet(polled, z)
  BY <1>5, PumpQuiet DEF Working
<1> HIDE DEF z
<1>7. Keeps(r, x) /\ Keeps(x, polled)
  BY <1>1, <1>2, <1>4, BothKeep
<1>8. ASSUME NEW p, NEW n, NEW y, NEW ys, Direction(p, n, polled, polled.out, y, ys)
      PROVE  Direction(p, n, z, z.out, y, ys)
  BY <1>5, <1>8, FlowPumps DEF z
<1>9. ASSUME NEW p, NEW n, NEW y, NEW ys, Direction(p, n, y, ys, polled, polled.out)
      PROVE  Direction(p, n, y, ys, z, z.out)
  BY <1>6, <1>9, QuietKeeps
<1> QED BY <1>7, <1>8, <1>9 DEF Keeps, z, polled

LEMMA KeepingAgrees ==
    ASSUME Types, Agrees, NEW p \in Ends, NEW z, Keeps(end[p], z),
           end' = [end EXCEPT ![p] = z], sent' = sent
    PROVE  Agrees'
<1>1. end \in [Ends -> Engine] /\ Peer(p) \in Ends /\ Peer(p) # p
  BY Peers DEF Types
<1>2. end'[p] = z /\ end'[Peer(p)] = end[Peer(p)]
  BY <1>1
<1>3. Between(p, sent[p], sent[Peer(p)], end[p], end[Peer(p)])
  BY BothWays DEF Agrees
<1>4. Between(p, sent[p], sent[Peer(p)], z, end[Peer(p)])
  BY <1>3 DEF Between, Keeps
<1>5. Between(p, sent'[p], sent'[Peer(p)], end'[p], end'[Peer(p)])
  BY <1>2, <1>4
<1> QED BY <1>5, BothWays DEF Agrees

\* A frame that is not received: the one who would have answered it is as he was.
LEMMA DroppingAgrees ==
    ASSUME Types, Agrees, NEW p \in Ends, Arriving(p) # <<>>, NEW z,
           z = end[p] \/ z = [end[p] EXCEPT !.failed = "peer"],
           end' = [Taken(p) EXCEPT ![p] = z], sent' = sent
    PROVE  Agrees'
<1> DEFINE q == Peer(p)
           x == end[p]
           y == end[q]
           b == [y EXCEPT !.out = Tail(y.out)]
<1>1. /\ q \in Ends /\ q # p /\ Peer(q) = p
      /\ x \in Engine /\ y \in Engine /\ y.out \in Seq(Frames) /\ y.out # <<>>
  BY Peers DEF Types, Arriving, Engine
<1>2. Taken(p) = [end EXCEPT ![q] = b] /\ end \in [Ends -> Engine]
  BY DEF Taken, Types
<1>3. end'[p] = z /\ end'[q] = b
  BY <1>1, <1>2
<1>4. /\ z.unacked = x.unacked /\ z.queued = x.queued /\ z.nextTx = x.nextTx /\ z.out = x.out
      /\ z.expected = x.expected /\ z.rejected = x.rejected /\ z.up = x.up
      /\ z.partial = x.partial
  BY <1>1 DEF Engine
<1>5. /\ b.unacked = y.unacked /\ b.queued = y.queued /\ b.nextTx = y.nextTx
      /\ b.out = Tail(y.out) /\ b.expected = y.expected /\ b.rejected = y.rejected
      /\ b.up = y.up /\ b.partial = y.partial
  BY <1>1 DEF Engine
<1>6. Direction(p, sent[p], x, x.out, y, y.out) /\ Direction(q, sent[q], y, y.out, x, x.out)
  BY BothWays DEF Agrees, Between
<1> HIDE DEF q, x, y, b
<1>7. Direction(p, sent[p], z, z.out, b, b.out)
  <2>1. Direction(p, sent[p], x, x.out, y, Tail(y.out))
    BY <1>1, <1>6, AnswerTaken
  <2> QED BY <1>4, <1>5, <2>1, DirectionSame
<1>8. Direction(q, sent[q], b, b.out, z, z.out)
  <2>1. Direction(q, sent[q], y, Tail(y.out), x, x.out)
    BY <1>1, <1>6, FrameTaken
  <2> QED BY <1>4, <1>5, <2>1, DirectionSame
<1>9. Between(p, sent[p], sent[q], z, b)
  BY <1>7, <1>8 DEF Between, q
<1> QED BY <1>3, <1>9, BothWays DEF Agrees, q

LEMMA ReceiveAgrees ==
    ASSUME Types, Agrees, NEW p \in Ends, Receive(p) PROVE Agrees'
<1> DEFINE q == Peer(p)
           x == end[p]
           y == end[q]
           f == Head(y.out)
           b == [y EXCEPT !.out = Tail(y.out)]
           z == Took(x, f)
<1>1. /\ q \in Ends /\ q # p /\ Peer(q) = p
      /\ x \in Engine /\ y \in Engine /\ y.out \in Seq(Frames) /\ y.out # <<>>
      /\ Working(x) /\ f # Disc
  BY Peers DEF Types, Arriving, Engine, Working, Receive
<1>2. /\ Taken(p) = [end EXCEPT ![q] = b] /\ end \in [Ends -> Engine]
      /\ end' = [Taken(p) EXCEPT ![p] = z] /\ sent' = sent
  BY ReceiveTakes DEF Taken, Types, Arriving, Receive
<1>3. sent[q] \in 0..Len(SduFrames[q]) /\ f \in Frames
  BY <1>1, Tailed DEF Types
<1> HIDE DEF z
<1>4. end'[p] = z /\ end'[q] = b
  BY <1>1, <1>2
<1>5. /\ b.unacked = y.unacked /\ b.queued = y.queued /\ b.nextTx = y.nextTx
      /\ b.out = Tail(y.out) /\ b.expected = y.expected /\ b.rejected = y.rejected
      /\ b.up = y.up /\ b.partial = y.partial
  BY <1>1 DEF Engine
<1>6. Direction(p, sent[p], x, x.out, y, y.out) /\ Direction(q, sent[q], y, y.out, x, x.out)
  BY BothWays DEF Agrees, Between
<1> HIDE DEF q, x, y, b
<1>7. Direction(p, sent[p], z, z.out, b, b.out)
  <2>1. Direction(p, sent[p], z, z.out, y, Tail(y.out))
    BY <1>1, <1>6, TookRetires DEF z
  <2> QED BY <1>5, <2>1, DirectionSame
<1>8. Direction(q, sent[q], b, b.out, z, z.out)
  <2>1. Coming(q, sent[q], y, Tail(y.out), x, x.out, f)
    BY <1>1, <1>6, FrameTaken
  <2>2. Direction(q, sent[q], y, Tail(y.out), z, z.out)
    <3> HIDE DEF f
    <3> QED BY <1>1, <1>3, <2>1, TookTakes DEF z
  <2> QED BY <1>5, <2>2, DirectionSame
<1>9. Between(p, sent[p], sent[q], z, b)
  BY <1>7, <1>8 DEF Between, q
<1> QED BY <1>2, <1>4, <1>9, BothWays DEF Agrees, q

LEMMA SendAgrees ==
    ASSUME Types, Agrees, NEW p \in Ends, SendSdu(p) PROVE Agrees'
<1> DEFINE q == Peer(p)
           x == end[p]
           y == end[q]
           n == sent[p]
           given == [x EXCEPT !.queued = x.queued \o Cut(p, n + 1)]
           z == Pump(given)
<1>1. /\ q \in Ends /\ q # p /\ Peer(q) = p /\ n \in Nat /\ n < Len(SduFrames[p])
      /\ x \in Engine /\ y \in Engine /\ Working(x)
      /\ end \in [Ends -> Engine] /\ sent \in [Ends -> Nat]
  BY Peers DEF Types, Working, SendSdu
<1>2. end' = [end EXCEPT ![p] = z] /\ sent' = [sent EXCEPT ![p] = n + 1]
  BY DEF SendSdu
<1> HIDE DEF z, n
<1>3. end'[p] = z /\ end'[q] = y /\ sent'[p] = n + 1 /\ sent'[q] = sent[q]
  BY <1>1, <1>2
<1>4. Direction(p, n, x, x.out, y, y.out) /\ Direction(q, sent[q], y, y.out, x, x.out)
  BY BothWays DEF Agrees, Between, n
<1> HIDE DEF q, x, y
<1>5. /\ given.unacked = x.unacked /\ given.nextTx = x.nextTx /\ given.out = x.out
      /\ given.expected = x.expected /\ given.rejected = x.rejected /\ given.up = x.up
      /\ given.partial = x.partial
  BY <1>1 DEF Engine
<1>6. Working(given)
  <2>1. x.queued \o Cut(p, n + 1) \in Seq(Fragments)
    <3>1. Cut(p, n + 1) \in Seq(Fragments)
      BY <1>1, Cutting
    <3>2. x.queued \in Seq(Fragments)
      BY <1>1 DEF Engine
    <3> QED BY <3>1, <3>2
  <2> QED BY <1>1, <2>1 DEF Working, Bounded, Engine
<1>7. Direction(p, n + 1, given, given.out, y, y.out)
  BY <1>1, <1>4, <1>5, FlowGiven
<1> HIDE DEF given
<1>8. Direction(p, n + 1, z, z.out, y, y.out)
  BY <1>6, <1>7, FlowPumps DEF z
<1>9. Direction(q, sent[q], y, y.out, z, z.out)
  <2>1. Direction(q, sent[q], y, y.out, given, x.out)
    BY <1>4, <1>5, DirectionSame
  <2>2. Quiet(given, z) /\ given \in Engine
    BY <1>6, PumpQuiet DEF z, Working
  <2> QED BY <1>5, <2>1, <2>2, QuietKeeps
<1>10. Between(p, n + 1, sent[q], z, y)
  BY <1>8, <1>9 DEF Between, q
<1> QED BY <1>3, <1>10, BothWays DEF Agrees, q

LEMMA StepAgrees == Types /\ Agrees /\ [Next]_vars => Agrees'
<1> SUFFICES ASSUME Types, Agrees, [Next]_vars PROVE Agrees'
  OBVIOUS
<1>1. CASE UNCHANGED vars
  BY <1>1 DEF vars, Agrees
<1>2. ASSUME NEW p \in Ends, SendSdu(p) PROVE Agrees'
  BY <1>2, SendAgrees
<1>3. ASSUME NEW p \in Ends, Receive(p) PROVE Agrees'
  BY <1>3, ReceiveAgrees
<1>4. ASSUME NEW p \in Ends, HearDisconnect(p) PROVE Agrees'
  <2>1. Arriving(p) # <<>> /\ sent' = sent
    BY <1>4 DEF HearDisconnect
  <2>2. /\ Taken(p) \in [Ends -> Engine]
        /\ Taken(p) = [end EXCEPT ![Peer(p)] = [end[Peer(p)] EXCEPT !.out = Tail(@)]]
    BY <2>1, Taking
  <2>3. Taken(p)[p] = end[p]
    BY <2>2, Peers DEF Types
  <2>4. \/ end' = [Taken(p) EXCEPT ![p] = [end[p] EXCEPT !.failed = "peer"]]
        \/ end' = [Taken(p) EXCEPT ![p] = end[p]]
    BY <1>4, <2>2, <2>3 DEF HearDisconnect
  <2> QED BY <2>1, <2>4, DroppingAgrees
<1>5. ASSUME NEW p \in Ends, Lose(p) PROVE Agrees'
  <2>1. Arriving(p) # <<>> /\ sent' = sent /\ end' = Taken(p)
    BY <1>5 DEF Lose
  <2>2. /\ Taken(p) \in [Ends -> Engine]
        /\ Taken(p) = [end EXCEPT ![Peer(p)] = [end[Peer(p)] EXCEPT !.out = Tail(@)]]
    BY <2>1, Taking
  <2>3. Taken(p)[p] = end[p]
    BY <2>2, Peers DEF Types
  <2>4. end' = [Taken(p) EXCEPT ![p] = end[p]]
    BY <2>1, <2>2, <2>3
  <2> QED BY <2>1, <2>4, DroppingAgrees
<1>6. ASSUME NEW p \in Ends, MonitorExpires(p) PROVE Agrees'
  <2> DEFINE r == end[p]
             x == [r EXCEPT !.monitorTimer = FALSE, !.failed = "polls"]
  <2>1. /\ sent' = sent /\ r \in Engine /\ Working(r)
        /\ end' = [end EXCEPT ![p] = IF r.polls >= MaxTransmit THEN FailChannel(x)
                                                               ELSE Pump(Poll(r))]
    BY <1>6 DEF MonitorExpires, Types, Working
  <2>2. x \in Engine /\ Quiet(r, x) /\ Silent(r, x)
    <3>1. /\ x.out = r.out /\ x.expected = r.expected /\ x.rejected = r.rejected
          /\ x.up = r.up /\ x.partial = r.partial /\ x.unacked = r.unacked
          /\ x.queued = r.queued /\ x.nextTx = r.nextTx /\ x \in Engine
      BY <2>1 DEF Engine
    <3> HIDE DEF x, r
    <3> QED BY <2>1, <3>1, Untouched
  <2> HIDE DEF x
  <2>3. Keeps(r, FailChannel(x))
    <3>1. Keeps(r, x) /\ Keeps(x, FailChannel(x))
      BY <2>1, <2>2, FailChannelQuiet, BothKeep
    <3> HIDE DEF r
    <3> QED BY <3>1 DEF Keeps
  <2>4. ~(r.polls >= MaxTransmit) => Keeps(r, Pump(Poll(r)))
    <3>1. ~(r.polls >= MaxTransmit) => r.polls \in 0..MaxTransmit
      BY <2>1, ErtmAssumption DEF Engine
    <3> QED BY <2>1, <3>1, PollKeeps
  <2> QED BY <2>1, <2>3, <2>4, KeepingAgrees
<1>7. ASSUME NEW p \in Ends, RetransmissionExpires(p) PROVE Agrees'
  <2>1. /\ sent' = sent /\ Working(end[p]) /\ end[p].failed = "no" /\ ~end[p].monitorTimer
        /\ end' = [end EXCEPT ![p] = Pump(Poll(end[p]))]
    BY <1>7 DEF RetransmissionExpires, Types, Working, Open
  <2>2. end[p].polls \in 0..MaxTransmit
    BY <2>1, ErtmAssumption DEF Working, Bounded, Engine
  <2> QED BY <2>1, <2>2, PollKeeps, KeepingAgrees
<1> QED BY <1>1, <1>2, <1>3, <1>4, <1>5, <1>6, <1>7 DEF Next

LEMMA AlwaysAgrees == Spec => [](Types /\ Agrees)
BY InitTypes, StepTypes, InitAgrees, StepAgrees, PTL DEF Spec

\* The two halves of the engine agree modulo the wrap: what a receiver expects next is
\* something its sender still holds, or the very next frame it will number.
THEOREM HalvesAgree == Spec => []NeitherEndIsAhead
<1>1. Types /\ Agrees => NeitherEndIsAhead
  <2> SUFFICES ASSUME Types, Agrees, NEW p \in Ends
               PROVE  LET u == end[p].unacked
                          oldest == IF u = <<>> THEN end[p].nextTx ELSE u[1].tx
                      IN /\ Distance(oldest, end[p].nextTx) = Len(u)
                         /\ Distance(oldest, end[Peer(p)].expected) <= Len(u)
    BY DEF NeitherEndIsAhead
  <2> DEFINE x == end[p]
             y == end[Peer(p)]
             u == x.unacked
             oldest == IF u = <<>> THEN x.nextTx ELSE u[1].tx
  <2>1. x \in Engine /\ Len(u) <= Window /\ u \in Seq(Numbered) /\ Len(u) \in Nat
    BY DEF Types, Bounded, Engine
  <2>2. PICK w : Flow(p, sent[p], x, x.out, y, y.out, w)
    BY DEF Agrees, AgreesIn, Direction
  <2>3. /\ w.oldest \in Nat /\ w.next \in Nat /\ w.due \in Nat
        /\ w.next = w.oldest + Len(u) /\ x.nextTx = Wrap(w.next) /\ y.expected = Wrap(w.due)
        /\ w.oldest <= w.due /\ w.due <= w.next
        /\ \A i \in 1..Len(u) : u[i].tx = Wrap(w.oldest + i - 1)
    BY <2>2 DEF Flow, Ledger, Holds, Answers, Ordered
  <2>4. oldest = Wrap(w.oldest)
    <3>1. CASE u = <<>>
      <4>1. Len(u) = 0
        BY <3>1
      <4>2. w.next = w.oldest
        BY <2>3, <4>1
      <4> QED BY <2>3, <3>1, <4>2
    <3>2. CASE u # <<>>
      <4>1. 1 \in 1..Len(u) /\ w.oldest + 1 - 1 = w.oldest
        BY <2>1, <2>3, <3>2
      <4>2. u[1].tx = Wrap(w.oldest + 1 - 1)
        BY <2>3, <4>1
      <4> QED BY <3>2, <4>1, <4>2
    <3> QED BY <3>1, <3>2
  <2> DEFINE m == Len(u)
  <2>5. m \in Nat /\ m <= Window /\ w.next = w.oldest + m /\ m = Len(u)
    BY <2>1, <2>3
  <2> HIDE DEF m, oldest, x, y, u
  <2>6. m < Modulo
    BY <2>5, Constants
  <2>7. Distance(Wrap(w.oldest), Wrap(w.next)) = m
    <3>1. w.next - w.oldest < Modulo /\ w.oldest - w.next < Modulo /\ w.oldest <= w.next
          /\ w.next - w.oldest = m
      BY <2>3, <2>5, <2>6, Constants
    <3> QED BY <2>3, <3>1, Apart
  <2>8. Distance(Wrap(w.oldest), Wrap(w.due)) <= m
    <3>1. w.due - w.oldest < Modulo /\ w.oldest - w.due < Modulo /\ w.oldest <= w.due
          /\ w.due - w.oldest <= m
      BY <2>3, <2>5, <2>6, Constants
    <3> QED BY <2>3, <3>1, Apart
  <2> QED BY <2>3, <2>4, <2>5, <2>7, <2>8 DEF m, oldest, x, y, u
<1> QED BY <1>1, AlwaysAgrees, PTL

\* receive rejects each gap once: no two rejections of the same frame are ever under way
\* from one end, for the second would have the peer send its window twice.
THEOREM GapsAreRejectedOnce == Spec => []OneRejectPerGap
<1>1. Types /\ Agrees => OneRejectPerGap
  <2> SUFFICES ASSUME Types, Agrees, NEW p \in Ends,
                      NEW i \in DOMAIN end[p].out, NEW j \in DOMAIN end[p].out,
                      end[p].out[i].kind = "REJ", end[p].out[j].kind = "REJ",
                      end[p].out[i].req = end[p].out[j].req
               PROVE  i = j
    BY DEF OneRejectPerGap
  <2> DEFINE q == Peer(p)
             x == end[q]
             y == end[p]
  <2>1. q \in Ends /\ Peer(q) = p /\ y \in Engine /\ y.out \in Seq(Frames)
    BY Peers DEF Types, Engine
  <2>2. PICK w : Flow(q, sent[q], x, x.out, y, y.out, w)
    BY <2>1 DEF Agrees, AgreesIn, Direction
  <2>3. i \in 1..Len(y.out) /\ j \in 1..Len(y.out) /\ i \in Nat /\ j \in Nat
    BY <2>1
  <2>4. w \in Ledger /\ w.acks \in Seq(Nat) /\ Len(w.acks) = Len(y.out)
        /\ w.oldest \in Nat /\ w.next \in Nat /\ w.due \in Nat
        /\ w.oldest <= w.due /\ w.due <= w.next /\ w.next <= w.oldest + Window
    BY <2>2 DEF Flow, Ledger, Answers, Ordered
  <2> DEFINE a == w.acks[i]
             b == w.acks[j]
  <2>5. a \in Nat /\ b \in Nat
    BY <2>3, <2>4, SMTT(30)
  <2>6. y.out[i] # Disc /\ y.out[j] # Disc
    BY DEF Disc
  <2>7. /\ w.oldest <= a /\ a <= w.due /\ w.oldest <= b /\ b <= w.due
        /\ Wrap(a) = Wrap(b) /\ (i < j => a < b) /\ (j < i => b < a)
    BY <2>2, <2>3, <2>6 DEF Flow, Answers
  <2> HIDE DEF a, b, y
  <2>8. a - b < Modulo /\ b - a < Modulo
    BY <2>4, <2>5, <2>7, Constants
  <2>9. a = b
    BY <2>5, <2>7, <2>8, Same
  <2> QED BY <2>3, <2>5, <2>7, <2>9
<1> QED BY <1>1, AlwaysAgrees, PTL

-----------------------------------------------------------------------------
(* The stream of SDUs.                                                     *)

\* One step of the stream from p to its peer, or a stutter.
Streams(p) ==
    LET q == Peer(p)
    IN \/ /\ Open(p) /\ \E s \in AllSdus : Accepted(p)' = Append(Accepted(p), s)
          /\ end'[q].up = end[q].up /\ Open(p)'
       \/ /\ Len(end[q].up) < Len(Accepted(p))
          /\ end'[q].up = Append(end[q].up, Accepted(p)[Len(end[q].up) + 1])
          /\ Accepted(p)' = Accepted(p) /\ (Open(p)' <=> Open(p))
       \/ /\ Open(p) /\ ~Open(p)'
          /\ Accepted(p)' = Accepted(p) /\ end'[q].up = end[q].up
       \/ Accepted(p)' = Accepted(p) /\ end'[q].up = end[q].up /\ (Open(p)' <=> Open(p))

LEMMA PeersAre == "A" \in Ends /\ "B" \in Ends /\ Peer("A") = "B" /\ Peer("B") = "A"
BY Peers DEF Ends

LEMMA StreamBegins ==
    Init => \A p \in Ends : Accepted(p) = <<>> /\ end[Peer(p)].up = <<>> /\ Open(p)
BY Peers DEF Init, Accepted, Open, NewEnd

LEMMA InitStreams == Init => AtoB!Init /\ BtoA!Init
BY StreamBegins, PeersAre DEF AtoB!Init, BtoA!Init

LEMMA NextStreams ==
    (\A p \in Ends : Streams(p))
      => [AtoB!Next]_(AtoB!streamVars) /\ [BtoA!Next]_(BtoA!streamVars)
<1>1. Streams("A") => [AtoB!Next]_(AtoB!streamVars)
  BY PeersAre DEF Streams, AtoB!Next, AtoB!streamVars, AtoB!Accept, AtoB!Deliver, AtoB!Close
<1>2. Streams("B") => [BtoA!Next]_(BtoA!streamVars)
  BY PeersAre DEF Streams, BtoA!Next, BtoA!streamVars, BtoA!Accept, BtoA!Deliver, BtoA!Close
<1> QED BY <1>1, <1>2, PeersAre

\* What has been handed up is what was given, as far as it goes.
LEMMA HandedUp ==
    ASSUME NEW p, NEW n \in Nat, NEW x \in Engine, NEW xs, NEW y \in Engine, NEW ys,
           Direction(p, n, x, xs, y, ys)
    PROVE  Len(y.up) \in 0..n /\ \A k \in 1..Len(y.up) : y.up[k] = Cut(p, k)
<1>1. PICK w : Flow(p, n, x, xs, y, ys, w)
  BY DEF Direction
<1> DEFINE a == Len(w.all)
           d == w.due
           k == Len(y.up)
<1>2. /\ d \in Nat /\ a \in Nat /\ k \in Nat /\ k = Len(y.up) /\ Len(y.partial) \in Nat
      /\ w.next \in Nat /\ Len(x.queued) \in Nat /\ a = Len(w.all)
  <2>1. /\ w \in Ledger /\ x.queued \in Seq(Fragments) /\ y.up \in Seq(Seq(Fragments))
        /\ y.partial \in Seq(Fragments)
    BY <1>1 DEF Flow, Engine
  <2>2. w.all \in Seq(Fragments) /\ w.due \in Nat /\ w.next \in Nat
    BY <2>1 DEF Ledger
  <2> QED BY <2>1, <2>2
<1>3. /\ d <= w.next /\ a = w.next + Len(x.queued)
      /\ \A i \in 1..a : w.all[i].sdu \in 1..n
      /\ d = 0 => k = 0
      /\ d # 0 /\ Len(y.partial) = 0 => w.all[d].sdu = k
      /\ d # 0 /\ Len(y.partial) # 0 => w.all[d].sdu = k + 1
      /\ \A i \in 1..k : y.up[i] = Cut(p, i)
  BY <1>1 DEF Flow, Ordered, Holds, Cuts, Handed
<1> HIDE DEF a, d, k
<1>4. d # 0 => d \in 1..a
  BY <1>2, <1>3
<1>5. k \in 0..n
  BY <1>2, <1>3, <1>4
<1> QED BY <1>2, <1>3, <1>5

\* A step hands up one SDU at most.
Gives(r, z) == z.up = r.up \/ \E e : z.up = Append(r.up, e)

LEMMA OnInformationGives ==
    ASSUME NEW r, Working(r), NEW f \in Data PROVE Gives(r, OnInformation(r, f))
<1> DEFINE taken == [r EXCEPT !.rejected = FALSE, !.expected = NextSeq(r.expected)]
           kept == Reassemble(taken, f.frag)
<1>1. r \in Engine /\ f.frag \in Fragments
  BY DEF Working, Data
<1>2. \A x \in Engine : /\ Supervisory(x, "RR", FALSE, FALSE).up = x.up
                         /\ Supervisory(x, "REJ", FALSE, FALSE).up = x.up
  BY DEF Supervisory, Engine
<1>3. CASE f.tx # r.expected
  <2> DEFINE marked == [r EXCEPT !.rejected = TRUE]
  <2>1. marked \in Engine /\ marked.up = r.up
    BY <1>1 DEF Engine
  <2>2. \/ OnInformation(r, f) = Supervisory(marked, "REJ", FALSE, FALSE)
        \/ OnInformation(r, f) = Supervisory(r, "RR", FALSE, FALSE)
    BY <1>3 DEF OnInformation, OutOfTurn
  <2> HIDE DEF marked
  <2>3. /\ Supervisory(marked, "REJ", FALSE, FALSE).up = r.up
        /\ Supervisory(r, "RR", FALSE, FALSE).up = r.up
    BY <1>1, <1>2, <2>1
  <2> QED BY <2>2, <2>3 DEF Gives
<1>4. CASE f.tx = r.expected
  <2>1. taken \in Engine /\ taken.up = r.up
    <3>1. NextSeq(r.expected) \in SeqNo
      BY <1>1, NextIsNumber DEF Engine
    <3> QED BY <1>1, <3>1 DEF Engine
  <2> HIDE DEF taken
  <2>2. kept \in Engine
    BY <1>1, <2>1, Reassembling
  <2>3. Gives(r, kept)
    <3>1. f.frag.sar \in {"whole", "start", "cont", "end"}
      BY <1>1 DEF Fragments
    <3>2. CASE f.frag.sar = "whole"
      BY <2>1, <3>2 DEF Reassemble, Engine, Gives
    <3>3. CASE f.frag.sar = "start"
      BY <2>1, <3>3 DEF Reassemble, Engine, Gives
    <3>4. CASE f.frag.sar = "cont"
      BY <2>1, <3>4 DEF Reassemble, Engine, Gives
    <3>5. CASE f.frag.sar = "end"
      <4> DEFINE whole == taken.partial \o <<f.frag>>
                 up == IF taken.partial # <<>> /\ Len(whole) = whole[1].len
                       THEN Append(taken.up, whole) ELSE taken.up
      <4>1. kept = [taken EXCEPT !.partial = <<>>, !.up = up]
        BY <3>5 DEF Reassemble
      <4>2. up = taken.up \/ up = Append(taken.up, whole)
        OBVIOUS
      <4> HIDE DEF whole, up, kept
      <4>3. kept.up = up
        BY <2>1, <4>1 DEF Engine
      <4> QED BY <2>1, <4>2, <4>3 DEF Gives
    <3> QED BY <3>1, <3>2, <3>3, <3>4, <3>5
  <2>4. OnInformation(r, f) = Supervisory(kept, "RR", FALSE, FALSE)
    BY <1>4 DEF OnInformation, taken
  <2> HIDE DEF kept
  <2>5. OnInformation(r, f).up = kept.up
    BY <1>2, <2>2, <2>4
  <2> QED BY <2>3, <2>5 DEF Gives
<1> QED BY <1>3, <1>4

LEMMA TookGives ==
    ASSUME NEW r, Working(r), NEW f \in Frames PROVE Gives(r, Took(r, f))
<1> DEFINE acked == Acknowledge(r, f.req)
           answered == [acked EXCEPT !.waiting = FALSE, !.monitorTimer = FALSE, !.polls = 0]
           told == Final(acked, f)
           done == IF f.kind = "I" THEN OnInformation(told, f) ELSE OnSupervisory(told, f)
           pumped == Pump(done)
           timed == [pumped EXCEPT !.retransTimer =
                        ArmTimers(pumped.unacked, pumped.retransTimer, pumped.monitorTimer)]
<1>1. f.kind = "I" => f \in Data
  BY DEF Frames, Control
<1>2. Working(acked) /\ acked.up = r.up
  <2>1. r \in Engine
    BY DEF Working
  <2> QED BY <2>1, AcknowledgeWorks, AcknowledgeQuiet DEF Quiet
<1>3. told = acked \/ told = answered \/ told = RetransmitAll(answered)
  BY DEF Final
<1> HIDE DEF acked
<1>4. Working(told)
  BY <1>2, FinalWorks
<1>5. answered \in Engine /\ answered.up = acked.up
  BY <1>2 DEF Working, Engine
<1> HIDE DEF answered
<1>6. told.up = r.up
  <2>1. RetransmitAll(answered).up = answered.up
    BY <1>5, ResendQuiet DEF Quiet
  <2> QED BY <1>2, <1>3, <1>5, <2>1
<1> HIDE DEF told
<1>7. Working(done) /\ Gives(r, done)
  <2>1. CASE f.kind = "I"
    <3>1. Gives(told, OnInformation(told, f)) /\ Working(OnInformation(told, f))
      BY <1>1, <1>4, <2>1, OnInformationGives, OnInformationWorks
    <3> QED BY <1>6, <2>1, <3>1 DEF Gives
  <2>2. CASE f.kind # "I"
    <3>1. \A x \in Engine : Supervisory(x, "RR", FALSE, TRUE).up = x.up
      BY DEF Supervisory, Engine
    <3>2. RetransmitAll(told) \in Engine /\ RetransmitAll(told).up = told.up /\ told \in Engine
      BY <1>4, Resending, ResendQuiet DEF Working, Quiet
    <3>3. OnSupervisory(told, f).up = told.up
      BY <3>1, <3>2 DEF OnSupervisory
    <3> QED BY <1>4, <1>6, <2>2, <3>3, OnSupervisoryWorks DEF Gives
  <2> QED BY <2>1, <2>2
<1> HIDE DEF done
<1>8. pumped \in Engine /\ pumped.up = done.up
  BY <1>7, PumpWorks, PumpQuiet DEF Working, Quiet
<1> HIDE DEF pumped
<1>9. FailChannel(timed).up = pumped.up
  BY <1>8 DEF FailChannel, Engine
<1>10. Took(r, f) = FailChannel(timed)
  BY DEF Took, acked, told, done, pumped
<1> QED BY <1>7, <1>8, <1>9, <1>10 DEF Gives

\* A step of end p that gives it no SDU: p may hand one up, and close.
LEMMA StreamsGoOn ==
    ASSUME Types, Types', Agrees, Agrees', sent' = sent, NEW p \in Ends, Open(p) \/ ~Open(p)',
           Gives(end[p], end'[p]),
           end'[Peer(p)].up = end[Peer(p)].up, Open(Peer(p))' <=> Open(Peer(p))
    PROVE  Streams(p) /\ Streams(Peer(p))
<1> DEFINE q == Peer(p)
<1>1. q \in Ends /\ Peer(q) = p /\ sent[q] \in Nat
  BY Peers DEF Types
<1>2. Accepted(p)' = Accepted(p) /\ Accepted(q)' = Accepted(q)
  BY DEF Accepted
<1>3. Streams(p)
  BY <1>2 DEF Streams
<1>4. Streams(q)
  <2>1. CASE end'[p].up = end[p].up
    BY <1>1, <1>2, <2>1 DEF Streams
  <2>2. ASSUME NEW e, end'[p].up = Append(end[p].up, e) PROVE Streams(q)
    <3> DEFINE u == end[p].up
               v == end'[p].up
               k == Len(u)
    <3>1. /\ end[p] \in Engine /\ end'[p] \in Engine /\ end[q] \in Engine /\ end'[q] \in Engine
      BY <1>1 DEF Types
    <3>2. k \in Nat /\ Len(v) = k + 1 /\ v[k + 1] = e
      <4>1. u \in Seq(Seq(Fragments)) /\ v \in Seq(Seq(Fragments))
        BY <3>1 DEF Engine
      <4> QED BY <2>2, <4>1
    <3>3. Direction(q, sent[q], end'[q], end'[q].out, end'[p], end'[p].out)
      BY <1>1 DEF Agrees, AgreesIn
    <3>4. Len(v) \in 0..sent[q] /\ \A i \in 1..Len(v) : v[i] = Cut(q, i)
      BY <1>1, <3>1, <3>3, HandedUp
    <3> HIDE DEF q, u, v
    <3>5. k < sent[q] /\ e = Cut(q, k + 1)
      <4>1. k + 1 \in 1..Len(v)
        BY <3>2
      <4> QED BY <1>1, <3>2, <3>4, <4>1
    <3> HIDE DEF k
    <3>6. Len(Accepted(q)) = sent[q] /\ Accepted(q)[k + 1] = Cut(q, k + 1)
      BY <1>1, <3>2, <3>5 DEF Accepted
    <3> QED BY <1>1, <1>2, <2>2, <3>5, <3>6 DEF Streams, q, u, v, k
  <2> QED BY <2>1, <2>2 DEF Gives
<1> QED BY <1>3, <1>4 DEF q

LEMMA SendStreams ==
    ASSUME Types, NEW p \in Ends, SendSdu(p) PROVE Streams(p) /\ Streams(Peer(p))
<1> DEFINE q == Peer(p)
           n == sent[p]
           x == [end[p] EXCEPT !.queued = end[p].queued \o Cut(p, n + 1)]
<1>1. /\ q \in Ends /\ q # p /\ Peer(q) = p /\ n \in Nat /\ n < Len(SduFrames[p])
      /\ end \in [Ends -> Engine] /\ end[p] \in Engine /\ Working(end[p])
      /\ sent \in [Ends -> Nat] /\ Open(p)
  BY Peers DEF Types, Working, SendSdu
<1>2. end' = [end EXCEPT ![p] = Pump(x)] /\ sent' = [sent EXCEPT ![p] = n + 1]
  BY DEF SendSdu
<1>3. Working(x) /\ x.up = end[p].up /\ x.failed = end[p].failed
  <2>1. end[p].queued \o Cut(p, n + 1) \in Seq(Fragments)
    <3>1. Cut(p, n + 1) \in Seq(Fragments)
      BY <1>1, Cutting
    <3>2. end[p].queued \in Seq(Fragments)
      BY <1>1 DEF Engine
    <3> QED BY <3>1, <3>2
  <2> QED BY <1>1, <2>1 DEF Working, Bounded, Engine
<1> HIDE DEF x, n, q
<1>4. Pump(x).up = end[p].up /\ Pump(x).failed = end[p].failed
  <2>1. Pump(x).up = x.up
    BY <1>3, PumpQuiet DEF Quiet
  <2>2. Pump(x).failed = x.failed
    BY <1>3 DEF Pump, Working, Engine
  <2> QED BY <1>3, <2>1, <2>2
<1>5. /\ end'[p].up = end[p].up /\ (Open(p)' <=> Open(p))
      /\ end'[q] = end[q] /\ (Open(q)' <=> Open(q))
      /\ sent'[p] = n + 1 /\ sent'[q] = sent[q]
  BY <1>1, <1>2, <1>4 DEF Open
<1>6. Cut(p, n + 1) \in AllSdus
  <2>1. SduFrames[p] \in Seq(Nat \ {0})
    BY ErtmAssumption
  <2>2. n + 1 \in DOMAIN SduFrames[p]
    BY <1>1, <2>1
  <2> QED BY <2>2 DEF AllSdus
<1>7. Accepted(p)' = Append(Accepted(p), Cut(p, n + 1))
  <2>1. Accepted(p) = [k \in 1..n |-> Cut(p, k)] /\ Accepted(p)' = [k \in 1..(n + 1) |-> Cut(p, k)]
    BY <1>5 DEF Accepted, n
  <2> QED BY <1>1, <2>1
<1>8. Streams(p)
  BY <1>1, <1>5, <1>6, <1>7 DEF Streams, q
<1>9. Streams(q)
  <2>1. Accepted(q)' = Accepted(q)
    BY <1>5 DEF Accepted
  <2> QED BY <1>1, <1>5, <2>1 DEF Streams
<1> QED BY <1>8, <1>9 DEF q

LEMMA StepStreams ==
    Types /\ Agrees /\ Types' /\ Agrees' /\ [Next]_vars => \A p \in Ends : Streams(p)
<1> SUFFICES ASSUME Types, Agrees, Types', Agrees', [Next]_vars PROVE \A p \in Ends : Streams(p)
  OBVIOUS
<1> DEFINE Both == \A p \in Ends : Streams(p)
<1>1. CASE UNCHANGED vars
  BY <1>1 DEF vars, Streams, Accepted, Open
<1>2. ASSUME NEW p \in Ends, Streams(p) /\ Streams(Peer(p)) PROVE Both
  BY <1>2, Peers
<1>3. ASSUME NEW p \in Ends, SendSdu(p) PROVE Both
  BY <1>2, <1>3, SendStreams
<1>4. ASSUME NEW p \in Ends, Arriving(p) # <<>>
      PROVE  /\ Taken(p) \in [Ends -> Engine] /\ Taken(p)[p] = end[p]
             /\ Taken(p)[Peer(p)].up = end[Peer(p)].up
             /\ Taken(p)[Peer(p)].failed = end[Peer(p)].failed
  <2> DEFINE b == [end[Peer(p)] EXCEPT !.out = Tail(@)]
  <2>1. /\ Taken(p) \in [Ends -> Engine] /\ end \in [Ends -> Engine]
        /\ Taken(p) = [end EXCEPT ![Peer(p)] = b]
        /\ Peer(p) \in Ends /\ Peer(p) # p /\ end[Peer(p)] \in Engine
    BY <1>4, Taking, Peers DEF Types
  <2>2. b.up = end[Peer(p)].up /\ b.failed = end[Peer(p)].failed
    BY <2>1 DEF Engine
  <2> HIDE DEF b
  <2> QED BY <2>1, <2>2
<1>5. ASSUME NEW p \in Ends, Receive(p) PROVE Both
  <2> DEFINE z == Took(end[p], Head(Arriving(p)))
  <2>1. Arriving(p) # <<>> /\ sent' = sent /\ Open(p) /\ end' = [Taken(p) EXCEPT ![p] = z]
    BY <1>5, ReceiveTakes DEF Receive
  <2>2. Gives(end[p], z)
    <3>1. Head(Arriving(p)) \in Frames
      BY <2>1, Taking
    <3>2. Working(end[p])
      BY DEF Types, Working
    <3> QED BY <3>1, <3>2, TookGives
  <2> HIDE DEF z
  <2>3. /\ end'[p] = z /\ end'[Peer(p)].up = end[Peer(p)].up
        /\ (Open(Peer(p))' <=> Open(Peer(p)))
    BY <1>4, <2>1, Peers DEF Open
  <2>4. Streams(p) /\ Streams(Peer(p))
    BY <2>1, <2>2, <2>3, StreamsGoOn
  <2> QED BY <1>2, <2>4
<1>6. ASSUME NEW p \in Ends, HearDisconnect(p) PROVE Both
  <2> DEFINE z == [end[p] EXCEPT !.failed = "peer"]
  <2>1. Arriving(p) # <<>> /\ sent' = sent
    BY <1>6 DEF HearDisconnect
  <2>2. \/ Open(p) /\ end' = [Taken(p) EXCEPT ![p] = z]
        \/ ~Open(p) /\ end' = Taken(p)
    BY <1>4, <1>6, <2>1 DEF HearDisconnect
  <2>3. z.up = end[p].up
    BY DEF Types, Engine
  <2> HIDE DEF z
  <2>4. /\ end'[p].up = end[p].up /\ end'[Peer(p)].up = end[Peer(p)].up
        /\ (Open(Peer(p))' <=> Open(Peer(p))) /\ (Open(p) \/ ~Open(p)')
    BY <1>4, <2>1, <2>2, <2>3, Peers DEF Open
  <2>5. Streams(p) /\ Streams(Peer(p))
    BY <2>1, <2>4, StreamsGoOn DEF Gives
  <2> QED BY <1>2, <2>5
<1>7. ASSUME NEW p \in Ends, Lose(p) PROVE Both
  <2>1. Arriving(p) # <<>> /\ sent' = sent /\ end' = Taken(p)
    BY <1>7 DEF Lose
  <2>2. /\ end'[p] = end[p] /\ end'[Peer(p)].up = end[Peer(p)].up
        /\ (Open(Peer(p))' <=> Open(Peer(p))) /\ (Open(p) \/ ~Open(p)')
    BY <1>4, <2>1, Peers DEF Open
  <2>3. Streams(p) /\ Streams(Peer(p))
    BY <2>1, <2>2, StreamsGoOn DEF Gives
  <2> QED BY <1>2, <2>3
<1>8. ASSUME NEW p \in Ends, NEW z, z.up = end[p].up, Open(p), sent' = sent,
             end' = [end EXCEPT ![p] = z]
      PROVE  Both
  <2>1. end'[p] = z /\ end'[Peer(p)] = end[Peer(p)]
    BY <1>8, Peers DEF Types
  <2>2. Streams(p) /\ Streams(Peer(p))
    BY <1>8, <2>1, StreamsGoOn DEF Gives, Open
  <2> QED BY <1>2, <2>2
<1>9. ASSUME NEW r, Working(r), r.polls \in 0..MaxTransmit PROVE Pump(Poll(r)).up = r.up
  <2>1. Pump(Poll(r)).up = Poll(r).up
    BY <1>9, PollWorks, PumpQuiet DEF Quiet
  <2>2. Poll(r).up = r.up
    BY <1>9 DEF Poll, Supervisory, Working, Engine
  <2> QED BY <2>1, <2>2
<1>10. ASSUME NEW p \in Ends, MonitorExpires(p) PROVE Both
  <2> DEFINE r == end[p]
             x == [r EXCEPT !.monitorTimer = FALSE, !.failed = "polls"]
             z == IF r.polls >= MaxTransmit THEN FailChannel(x) ELSE Pump(Poll(r))
  <2>1. /\ sent' = sent /\ r \in Engine /\ Working(r) /\ Open(p)
        /\ end' = [end EXCEPT ![p] = z]
    BY <1>10 DEF MonitorExpires, Types, Working
  <2>2. FailChannel(x).up = r.up
    <3>1. x \in Engine /\ x.up = r.up
      BY <2>1 DEF Engine
    <3> HIDE DEF x, r
    <3> QED BY <3>1 DEF FailChannel, Engine
  <2>3. ~(r.polls >= MaxTransmit) => Pump(Poll(r)).up = r.up
    <3>1. ~(r.polls >= MaxTransmit) => r.polls \in 0..MaxTransmit
      BY <2>1, ErtmAssumption DEF Engine
    <3> HIDE DEF r
    <3> QED BY <1>9, <2>1, <3>1
  <2>4. z.up = end[p].up
    BY <2>2, <2>3
  <2> HIDE DEF z
  <2> QED BY <1>8, <2>1, <2>4
<1>11. ASSUME NEW p \in Ends, RetransmissionExpires(p) PROVE Both
  <2>1. /\ sent' = sent /\ Working(end[p]) /\ Open(p) /\ ~end[p].monitorTimer
        /\ end' = [end EXCEPT ![p] = Pump(Poll(end[p]))]
    BY <1>11 DEF RetransmissionExpires, Types, Working
  <2>2. end[p].polls \in 0..MaxTransmit
    BY <2>1, ErtmAssumption DEF Working, Bounded, Engine, Open
  <2>3. Pump(Poll(end[p])).up = end[p].up
    BY <1>9, <2>1, <2>2
  <2> QED BY <1>8, <2>1, <2>3
<1> QED BY <1>1, <1>3, <1>5, <1>6, <1>7, <1>10, <1>11 DEF Next

\* Each direction of the channel implements the stream.
THEOREM ChannelIsAStream == Spec => ImplementsStream
<1>1. Spec => AtoB!Init /\ BtoA!Init
  BY InitStreams DEF Spec
<1>2. Types /\ Agrees /\ Types' /\ Agrees' /\ [Next]_vars
        => [AtoB!Next]_(AtoB!streamVars) /\ [BtoA!Next]_(BtoA!streamVars)
  BY StepStreams, NextStreams
<1> QED BY <1>1, <1>2, AlwaysAgrees, PTL DEF Spec, ImplementsStream, AtoB!Spec, BtoA!Spec

\* SDUs, whole.
Whole == Seq(Fragments)

\* A stream that takes in or hands on its next SDU still hands on the beginning of what it took.
LEMMA BeginningGrows ==
    ASSUME NEW a \in Seq(Whole), NEW d \in Seq(Whole),
           NEW a2 \in Seq(Whole), NEW d2 \in Seq(Whole),
           Len(d) <= Len(a), \A i \in 1..Len(d) : d[i] = a[i],
           \/ d2 = d /\ \E s \in AllSdus : a2 = Append(a, s)
           \/ Len(d) < Len(a) /\ d2 = Append(d, a[Len(d) + 1]) /\ a2 = a
           \/ d2 = d /\ a2 = a
    PROVE  Len(d2) <= Len(a2) /\ \A i \in 1..Len(d2) : d2[i] = a2[i]
<1>1. CASE d2 = d /\ \E s \in AllSdus : a2 = Append(a, s)
  <2>1. PICK s \in AllSdus : a2 = Append(a, s)
    BY <1>1
  <2>2. Len(a2) = Len(a) + 1 /\ \A i \in 1..Len(a) : a2[i] = a[i]
    BY <2>1
  <2> QED BY <1>1, <2>2
<1>2. CASE Len(d) < Len(a) /\ d2 = Append(d, a[Len(d) + 1]) /\ a2 = a
  <2>1. /\ Len(d2) = Len(d) + 1 /\ d2[Len(d) + 1] = a[Len(d) + 1]
        /\ \A i \in 1..Len(d) : d2[i] = d[i]
    BY <1>2
  <2> QED BY <1>2, <2>1
<1>3. CASE d2 = d /\ a2 = a
  BY <1>3
<1> QED BY <1>1, <1>2, <1>3

\* The first SDUs at an end, cut up.
LEMMA FirstSdus ==
    ASSUME NEW p \in Ends, NEW n \in 0..Len(SduFrames[p])
    PROVE  [k \in 1..n |-> Cut(p, k)] \in Seq(Whole)
<1>1. SduFrames[p] \in Seq(Nat \ {0}) /\ n \in Nat
  BY ErtmAssumption
<1>2. \A k \in 1..n : Cut(p, k) \in Whole
  BY <1>1, CutIs DEF Whole
<1> QED BY <1>1, <1>2

\* At either end and at any time, what a channel has handed up is the beginning of what the
\* other end has accepted: whatever is lost, sent again or rejected on the way, no SDU is
\* skipped, repeated, mixed with another or made up.
THEOREM HandsUpTheBeginning == Spec => [](AtoB!Faithful /\ BtoA!Faithful)
<1>1. Init => AtoB!Faithful /\ BtoA!Faithful
  <2>1. AtoB!Init => AtoB!Faithful
    BY DEF AtoB!Init, AtoB!Faithful
  <2>2. BtoA!Init => BtoA!Faithful
    BY DEF BtoA!Init, BtoA!Faithful
  <2> QED BY <2>1, <2>2, InitStreams
<1>2. ASSUME Types, Types', AtoB!Faithful, [AtoB!Next]_(AtoB!streamVars) PROVE AtoB!Faithful'
  <2> DEFINE a == Accepted("A")
             d == end["B"].up
  <2>1. a \in Seq(Whole) /\ d \in Seq(Whole) /\ a' \in Seq(Whole) /\ d' \in Seq(Whole)
    <3>1. "A" \in Ends /\ "B" \in Ends
      BY DEF Ends
    <3>2. a \in Seq(Whole) /\ a' \in Seq(Whole)
      BY <1>2, <3>1, FirstSdus DEF Types, Accepted
    <3>3. d \in Seq(Whole) /\ d' \in Seq(Whole)
      BY <1>2, <3>1 DEF Types, Engine, Whole
    <3> QED BY <3>2, <3>3
  <2>2. \/ d' = d /\ \E s \in AllSdus : a' = Append(a, s)
        \/ Len(d) < Len(a) /\ d' = Append(d, a[Len(d) + 1]) /\ a' = a
        \/ d' = d /\ a' = a
    BY <1>2 DEF AtoB!Next, AtoB!Accept, AtoB!Deliver, AtoB!Close, AtoB!streamVars
  <2>3. Len(d) <= Len(a) /\ \A i \in 1..Len(d) : d[i] = a[i]
    BY <1>2 DEF AtoB!Faithful
  <2> HIDE DEF a, d
  <2>4. Len(d') <= Len(a') /\ \A i \in 1..Len(d') : d'[i] = a'[i]
    BY <2>1, <2>2, <2>3, BeginningGrows
  <2> QED BY <2>4 DEF AtoB!Faithful, a, d
<1>3. ASSUME Types, Types', BtoA!Faithful, [BtoA!Next]_(BtoA!streamVars) PROVE BtoA!Faithful'
  <2> DEFINE a == Accepted("B")
             d == end["A"].up
  <2>1. a \in Seq(Whole) /\ d \in Seq(Whole) /\ a' \in Seq(Whole) /\ d' \in Seq(Whole)
    <3>1. "B" \in Ends /\ "A" \in Ends
      BY DEF Ends
    <3>2. a \in Seq(Whole) /\ a' \in Seq(Whole)
      BY <1>3, <3>1, FirstSdus DEF Types, Accepted
    <3>3. d \in Seq(Whole) /\ d' \in Seq(Whole)
      BY <1>3, <3>1 DEF Types, Engine, Whole
    <3> QED BY <3>2, <3>3
  <2>2. \/ d' = d /\ \E s \in AllSdus : a' = Append(a, s)
        \/ Len(d) < Len(a) /\ d' = Append(d, a[Len(d) + 1]) /\ a' = a
        \/ d' = d /\ a' = a
    BY <1>3 DEF BtoA!Next, BtoA!Accept, BtoA!Deliver, BtoA!Close, BtoA!streamVars
  <2>3. Len(d) <= Len(a) /\ \A i \in 1..Len(d) : d[i] = a[i]
    BY <1>3 DEF BtoA!Faithful
  <2> HIDE DEF a, d
  <2>4. Len(d') <= Len(a') /\ \A i \in 1..Len(d') : d'[i] = a'[i]
    BY <2>1, <2>2, <2>3, BeginningGrows
  <2> QED BY <2>4 DEF BtoA!Faithful, a, d
<1>4. Types /\ Agrees /\ Types' /\ Agrees' /\ [Next]_vars
        => [AtoB!Next]_(AtoB!streamVars) /\ [BtoA!Next]_(BtoA!streamVars)
  BY StepStreams, NextStreams
<1>5. Types /\ Types' /\ AtoB!Faithful /\ [AtoB!Next]_(AtoB!streamVars) => AtoB!Faithful'
  BY <1>2
<1>6. Types /\ Types' /\ BtoA!Faithful /\ [BtoA!Next]_(BtoA!streamVars) => BtoA!Faithful'
  BY <1>3
<1> QED BY <1>1, <1>4, <1>5, <1>6, AlwaysAgrees, PTL DEF Spec
=============================================================================
