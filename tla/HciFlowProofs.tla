------------------------------- MODULE HciFlowProofs -------------------------------
(***************************************************************************)
(* HCI flow control, for any window, any number of commands and any number *)
(* of lost answers: every command goes out once and in order, and a        *)
(* controller with a single slot is never sent what it has no room for     *)
(* while its answers come.  And ACL flow control, for any handles, buffers,*)
(* links and PDUs: no credit leaks, and a controller is handed no fragment *)
(* it has no buffer for while every fragment goes out on its own link.     *)
(***************************************************************************)
EXTENDS AclWriter, CommandWindow, Integers,
        FiniteSetTheorems, SequenceTheorems, WellFoundedInduction, TLAPS

Cmd == 1..MaxCommands

\* The credits in the middle of a step, with what the step sends.
Work == [available : 0..Window, waiting : Seq(Cmd), inFlight : Seq({0, 1}), out : Seq(Cmd)]

\* Commands wait only for want of a credit.
Metered(w) == w.available > 0 => w.waiting = <<>>

Types ==
    /\ commands \in [available : 0..Window, waiting : Seq(Cmd), inFlight : Seq({0, 1})]
    /\ submitted \in 0..MaxCommands
    /\ sent \in Seq(Cmd) /\ accepted \in Seq(Cmd) /\ Len(accepted) <= Window
    /\ answers \in Seq([op : {0, 1}, allowed : 0..Window])
    /\ losses \in 0..MaxLosses
    /\ abandoned \in BOOLEAN /\ discarded \in BOOLEAN

\* Nothing is in flight that was not sent.
FlightIsSent == Len(commands.inFlight) <= Len(sent)

Inv == Types /\ Metered(commands) /\ FlightIsSent /\ SentOnceInOrder

\* A controller of one slot: the credit is with the host, or the command in the controller,
\* or the answer on its way, or it was lost.
OneCredit ==
    ~abandoned => /\ ~discarded
                  /\ commands.available + Len(accepted) + Len(answers) <= 1
                  /\ \A i \in DOMAIN answers : answers[i].allowed = 1

-----------------------------------------------------------------------------
(* Sequences. *)

\* A bounded sequence is a sequence that is no longer than the bound.
LEMMA ShortIsBounded ==
    ASSUME NEW S, NEW n \in Nat, NEW s \in Seq(S), Len(s) <= n
    PROVE  s \in BoundedSeq(S, n)
<1>1. s \in [1..Len(s) -> S] /\ Len(s) \in 0..n
  OBVIOUS
<1> QED BY <1>1 DEF BoundedSeq, SeqOf

\* Every set of naturals with an element has a least one.
LEMMA Least ==
    ASSUME NEW T, T \subseteq Nat, T # {}
    PROVE  \E x \in T : \A y \in T : x <= y
<1> DEFINE R == OpToRel(<, Nat)
<1>1. IsWellFoundedOn(R, Nat)
  BY NatLessThanWellFounded
<1>2. \A x, y \in Nat : <<x, y>> \in R <=> x < y
  BY DEF OpToRel
<1> HIDE DEF R
<1>3. PICK x \in T : \A y \in T : ~ (<<y, x>> \in R)
  BY <1>1, WFMin
<1>4. ASSUME NEW y \in T PROVE x <= y
  <2>1. x \in Nat /\ y \in Nat
    OBVIOUS
  <2>2. ~ (y < x)
    BY <1>2, <1>3, <2>1
  <2> QED BY <2>1, <2>2
<1> QED BY <1>3, <1>4

\* Taking an element out leaves a sequence that is one shorter.
LEMMA Removing ==
    ASSUME NEW S, NEW s \in Seq(S), NEW i \in 1..Len(s)
    PROVE  RemoveAt(s, i) \in Seq(S) /\ Len(RemoveAt(s, i)) = Len(s) - 1
<1> DEFINE a == SubSeq(s, 1, i - 1)
           b == SubSeq(s, i + 1, Len(s))
<1>1. a \in Seq(S) /\ Len(a) = i - 1
  BY SubSeqProperties
<1>2. b \in Seq(S) /\ Len(b) = Len(s) - i
  BY SubSeqProperties
<1> HIDE DEF a, b
<1>3. a \o b \in Seq(S) /\ Len(a \o b) = Len(a) + Len(b)
  BY <1>1, <1>2, ConcatProperties
<1>4. Len(a) + Len(b) = Len(s) - 1
  BY <1>1, <1>2
<1>5. RemoveAt(s, i) = a \o b
  BY DEF RemoveAt, a, b
<1> QED BY <1>3, <1>4, <1>5

\* The first occurrence is one of the places there are.
LEMMA RemovingFirst ==
    ASSUME NEW S, NEW s \in Seq(S), NEW e, Contains(s, e)
    PROVE  RemoveFirst(s, e) \in Seq(S) /\ Len(RemoveFirst(s, e)) = Len(s) - 1
<1> DEFINE I == {i \in 1..Len(s) : s[i] = e}
<1>1. I # {} /\ I \subseteq Nat /\ I \subseteq 1..Len(s)
  BY DEF Contains
<1>2. SelectInSeq(s, LAMBDA v : v = e) = Min(I)
  BY <1>1 DEF SelectInSeq
<1> HIDE DEF I
<1>3. Min(I) \in I
  <2>1. \E x \in I : \A y \in I : x =< y
    BY <1>1, Least
  <2> QED BY <2>1, Zenon DEF Min
<1>4. RemoveFirst(s, e) = RemoveAt(s, Min(I))
  BY <1>2 DEF RemoveFirst, Contains
<1> QED BY <1>1, <1>3, <1>4, Removing
-----------------------------------------------------------------------------
(* CommandCredits. *)

\* What a step has sent and what still waits, in order.
Order(w) == w.out \o w.waiting

\* submit() keeps the order if commands wait only for want of a credit.
LEMMA SubmittedKeepsOrder ==
    ASSUME NEW w \in Work, NEW c \in Cmd, Metered(w)
    PROVE  /\ Submitted(w, c) \in Work
           /\ Metered(Submitted(w, c))
           /\ Order(Submitted(w, c)) = Append(Order(w), c)
           /\ Len(Submitted(w, c).inFlight) - Len(Submitted(w, c).out)
                = Len(w.inFlight) - Len(w.out)
           /\ Submitted(w, c).available + Len(Submitted(w, c).out) = w.available + Len(w.out)
<1>1. Opcode(c) \in {0, 1}
  BY DEF Opcode, Cmd
<1>2. /\ w.waiting \in Seq(Cmd) /\ w.out \in Seq(Cmd) /\ w.inFlight \in Seq({0, 1})
      /\ w.available \in 0..Window
      /\ w = [available |-> w.available, waiting |-> w.waiting, inFlight |-> w.inFlight,
              out |-> w.out]
  BY DEF Work
<1>3. CASE w.available = 0
  <2> DEFINE q == Append(w.waiting, c)
  <2>1. q \in Seq(Cmd)
    BY <1>2, AppendProperties
  <2>2. w.out \o q = Append(w.out \o w.waiting, c)
    BY <1>2
  <2>3. Submitted(w, c) = [w EXCEPT !.waiting = q]
    BY <1>3 DEF Submitted
  <2> HIDE DEF q
  <2>4. Submitted(w, c) = [available |-> w.available, waiting |-> q,
                           inFlight |-> w.inFlight, out |-> w.out]
    BY <1>2, <2>3
  <2> QED BY <1>2, <1>3, <2>1, <2>2, <2>4 DEF Metered, Order, Work
<1>4. CASE w.available # 0
  <2> DEFINE f == Append(w.inFlight, Opcode(c))
             o == Append(w.out, c)
  <2>1. f \in Seq({0, 1}) /\ Len(f) = Len(w.inFlight) + 1
    BY <1>1, <1>2, AppendProperties
  <2>2. o \in Seq(Cmd) /\ Len(o) = Len(w.out) + 1
    BY <1>2, AppendProperties
  <2>3. w.waiting = <<>>
    BY <1>2, <1>4 DEF Metered
  <2>4. o \o <<>> = Append(w.out \o <<>>, c)
    BY <1>2
  <2>5. w.available - 1 \in 0..Window
    BY <1>2, <1>4, CommandAssumption
  <2>6. Submitted(w, c) = [w EXCEPT !.available = w.available - 1, !.inFlight = f, !.out = o]
    BY <1>4 DEF Submitted
  <2> HIDE DEF f, o
  <2>7. Submitted(w, c) = [available |-> w.available - 1, waiting |-> w.waiting,
                           inFlight |-> f, out |-> o]
    BY <1>2, <2>6
  <2>8. Submitted(w, c) \in Work
    BY <1>2, <2>1, <2>2, <2>5, <2>7 DEF Work
  <2>9. Metered(Submitted(w, c)) /\ Order(Submitted(w, c)) = Append(Order(w), c)
    BY <2>3, <2>4, <2>7 DEF Metered, Order
  <2>10. Len(f) - Len(o) = Len(w.inFlight) - Len(w.out)
    BY <1>2, <2>1, <2>2
  <2>11. w.available - 1 + Len(o) = w.available + Len(w.out)
    BY <1>2, <2>2
  <2> QED BY <2>7, <2>8, <2>9, <2>10, <2>11
<1> QED BY <1>3, <1>4

\* release() takes a prefix of what waits, as long as the window has room.
LEMMA ReleaseKeepsOrder ==
    ASSUME NEW w \in Work
    PROVE  /\ Release(w) \in Work
           /\ Metered(Release(w))
           /\ Order(Release(w)) = Order(w)
           /\ Len(Release(w).inFlight) - Len(Release(w).out) = Len(w.inFlight) - Len(w.out)
           /\ Release(w).available + Len(Release(w).out) = w.available + Len(w.out)
<1> USE CommandAssumption
<1>1. /\ w.waiting \in Seq(Cmd) /\ w.out \in Seq(Cmd) /\ w.inFlight \in Seq({0, 1})
      /\ w.available \in 0..Window
  BY DEF Work
<1> DEFINE n == IF Len(w.waiting) < w.available THEN Len(w.waiting) ELSE w.available
           go == SubSeq(w.waiting, 1, n)
           stay == SubSeq(w.waiting, n + 1, Len(w.waiting))
           ops == [i \in 1..n |-> Opcode(go[i])]
<1>2. n \in Nat /\ n <= Len(w.waiting) /\ n <= w.available
  BY <1>1
<1>3. n = Len(w.waiting) \/ n = w.available
  BY <1>1
<1>4. Release(w) = [available |-> w.available - n, waiting |-> stay,
                    inFlight |-> w.inFlight \o ops, out |-> w.out \o go]
  BY DEF Release
<1> HIDE DEF n
<1>5. go \in Seq(Cmd) /\ Len(go) = n
  BY <1>1, <1>2, SubSeqProperties
<1>6. stay \in Seq(Cmd) /\ Len(stay) = Len(w.waiting) - n
  BY <1>1, <1>2, SubSeqProperties
<1>7. go \o stay = w.waiting
  <2> DEFINE q == w.waiting
  <2>1. q \in Seq(Cmd) /\ Len(q) \in Nat
    BY <1>1
  <2> HIDE DEF q
  <2>2. 1 \in 1..(Len(q) + 1)
    BY <2>1
  <2>3. n \in (1 - 1)..Len(q)
    BY <1>2, <2>1 DEF q
  <2>4. Len(q) \in n..Len(q)
    BY <1>2, <2>1 DEF q
  <2>5. SubSeq(q, 1, n) \o SubSeq(q, n + 1, Len(q)) = SubSeq(q, 1, Len(q))
    BY <2>1, <2>2, <2>3, <2>4, ConcatAdjacentSubSeq
  <2>6. SubSeq(q, 1, Len(q)) = q
    BY <2>1, SubSeqFull
  <2> QED BY <2>5, <2>6 DEF q
<1> HIDE DEF go, stay
<1>8. ops \in Seq({0, 1}) /\ Len(ops) = n
  <2>1. \A i \in 1..n : Opcode(go[i]) \in {0, 1}
    BY <1>5 DEF Opcode, Cmd
  <2> QED BY <1>2, <2>1
<1> HIDE DEF ops
<1>9. w.inFlight \o ops \in Seq({0, 1}) /\ Len(w.inFlight \o ops) = Len(w.inFlight) + n
  BY <1>1, <1>8, ConcatProperties
<1>10. w.out \o go \in Seq(Cmd) /\ Len(w.out \o go) = Len(w.out) + n
  BY <1>1, <1>5, ConcatProperties
<1>11. Release(w) \in Work
  BY <1>1, <1>2, <1>4, <1>6, <1>9, <1>10 DEF Work
<1>12. Metered(Release(w))
  <2>1. CASE n = Len(w.waiting)
    BY <2>1, <1>4, <1>6 DEF Metered
  <2>2. CASE n = w.available
    BY <2>2, <1>1, <1>4 DEF Metered
  <2> QED BY <1>3, <2>1, <2>2
<1>13. Order(Release(w)) = Order(w)
  <2> DEFINE o == w.out
  <2>1. o \in Seq(Cmd) /\ go \in Seq(Cmd) /\ stay \in Seq(Cmd)
    BY <1>1, <1>5, <1>6
  <2> HIDE DEF o
  <2>2. (o \o go) \o stay = o \o (go \o stay)
    BY <2>1, ConcatAssociative
  <2>3. Order(Release(w)) = (o \o go) \o stay
    BY <1>4 DEF Order, o
  <2> QED BY <1>7, <2>2, <2>3 DEF Order, o
<1>14. Len(w.inFlight \o ops) - Len(w.out \o go) = Len(w.inFlight) - Len(w.out)
  <2>1. Len(w.inFlight) \in Nat /\ Len(w.out) \in Nat
    BY <1>1
  <2> QED BY <1>2, <1>9, <1>10, <2>1
<1>15. w.available - n + Len(w.out \o go) = w.available + Len(w.out)
  <2>1. Len(w.out) \in Nat /\ w.available \in Nat
    BY <1>1
  <2> QED BY <1>2, <1>10, <2>1
<1>16. /\ Release(w).inFlight = w.inFlight \o ops
       /\ Release(w).out = w.out \o go
       /\ Release(w).available = w.available - n
  BY <1>4
<1> QED BY <1>11, <1>12, <1>13, <1>14, <1>15, <1>16

\* answered(), before its release.
LEMMA AnsweredTakesOne ==
    ASSUME NEW w \in Work, NEW op, NEW allowed \in 0..Window
    PROVE  /\ Answered(w, op, allowed) \in Work
           /\ Order(Answered(w, op, allowed)) = Order(w)
           /\ Answered(w, op, allowed).available = allowed
           /\ Answered(w, op, allowed).out = w.out
           /\ Len(Answered(w, op, allowed).inFlight) <= Len(w.inFlight)
<1> DEFINE f == IF Contains(w.inFlight, op) THEN RemoveFirst(w.inFlight, op) ELSE w.inFlight
<1>1. w.inFlight \in Seq({0, 1})
  BY DEF Work
<1>2. f \in Seq({0, 1}) /\ Len(f) <= Len(w.inFlight)
  BY <1>1, RemovingFirst
<1>3. Answered(w, op, allowed) = [w EXCEPT !.available = allowed, !.inFlight = f]
  BY DEF Answered, Work
<1> HIDE DEF f
<1> QED BY <1>2, <1>3 DEF Work, Order

\* abandon_oldest(), before its release.
LEMMA AbandonedTakesOne ==
    ASSUME NEW w \in Work, w.inFlight # <<>>
    PROVE  /\ Abandoned(w) \in Work
           /\ Order(Abandoned(w)) = Order(w)
           /\ Abandoned(w).out = w.out
           /\ Len(Abandoned(w).inFlight) <= Len(w.inFlight)
<1>1. w.inFlight \in Seq({0, 1}) /\ w.available \in 0..Window
  BY DEF Work
<1>2. Tail(w.inFlight) \in Seq({0, 1}) /\ Len(Tail(w.inFlight)) <= Len(w.inFlight)
  BY <1>1
<1>3. (IF w.available > 1 THEN w.available ELSE 1) \in 0..Window
  BY <1>1, CommandAssumption
<1> QED BY <1>2, <1>3 DEF Abandoned, Work, Order

-----------------------------------------------------------------------------
(* The host.                                                               *)

\* pace() leaves the credits as it finds them, or submits the next command.
LEMMA PacedKeepsOrder ==
    ASSUME NEW w \in Work, Metered(w), NEW fresh \in {0, 1},
           submitted \in Nat, submitted + fresh <= MaxCommands
    PROVE  /\ Paced(w, fresh) \in Work
           /\ Metered(Paced(w, fresh))
           /\ Order(Paced(w, fresh))
                = IF fresh = 0 THEN Order(w) ELSE Append(Order(w), submitted + 1)
           /\ Len(Paced(w, fresh).inFlight) - Len(Paced(w, fresh).out)
                = Len(w.inFlight) - Len(w.out)
           /\ Paced(w, fresh).available + Len(Paced(w, fresh).out) = w.available + Len(w.out)
<1>1. CASE fresh = 0
  BY <1>1 DEF Paced
<1>2. CASE fresh = 1
  <2>1. submitted + 1 \in Cmd
    BY <1>2, CommandAssumption DEF Cmd
  <2> QED BY <1>2, <2>1, SubmittedKeepsOrder DEF Paced
<1> QED BY <1>1, <1>2

\* One more number at the end of the numbers so far.
LEMMA OneMore ==
    ASSUME NEW n \in Nat
    PROVE  Append([i \in 1..n |-> i], n + 1) = [i \in 1..(n + 1) |-> i]
<1> DEFINE a == [i \in 1..n |-> i]
           b == [i \in 1..(n + 1) |-> i]
<1>1. a \in Seq(Nat) /\ Len(a) = n /\ b \in Seq(Nat) /\ Len(b) = n + 1
  OBVIOUS
<1>2. /\ Append(a, n + 1) \in Seq(Nat)
      /\ Len(Append(a, n + 1)) = n + 1
      /\ \A i \in 1..n : Append(a, n + 1)[i] = i
      /\ Append(a, n + 1)[n + 1] = n + 1
  <2>1. \A i \in 1..n : a[i] = i
    OBVIOUS
  <2> HIDE DEF a
  <2> QED BY <1>1, <2>1, AppendProperties
<1>3. \A i \in 1..(n + 1) : b[i] = i
  OBVIOUS
<1> HIDE DEF a, b
<1>4. \A i \in 1..(n + 1) : Append(a, n + 1)[i] = b[i]
  <2>1. \A i \in 1..(n + 1) : i \in 1..n \/ i = n + 1
    OBVIOUS
  <2> QED BY <1>2, <1>3, <2>1
<1>5. Append(a, n + 1) = b
  BY <1>1, <1>2, <1>4, SeqEqual
<1> QED BY <1>5 DEF a, b

\* A prefix is no longer than the sequence.
LEMMA Prefix ==
    ASSUME NEW S, NEW s \in Seq(S), NEW n \in 0..Len(s)
    PROVE  SubSeq(s, 1, n) \in Seq(S) /\ Len(SubSeq(s, 1, n)) = n
BY SubSeqProperties

\* What a step sends is no longer waiting, and what it submits waits last.
LEMMA Passing ==
    ASSUME NEW s \in Seq(Cmd)
    PROVE  /\ \A w \in Work : (s \o w.out) \o w.waiting = s \o Order(w)
           /\ \A q \in Seq(Cmd), c \in Cmd : s \o Append(q, c) = Append(s \o q, c)
<1>1. ASSUME NEW w \in Work PROVE (s \o w.out) \o w.waiting = s \o Order(w)
  <2> DEFINE o == w.out
             r == w.waiting
  <2>1. o \in Seq(Cmd) /\ r \in Seq(Cmd)
    BY DEF Work
  <2> HIDE DEF o, r
  <2>2. (s \o o) \o r = s \o (o \o r)
    BY <2>1, ConcatAssociative
  <2> QED BY <2>2 DEF o, r, Order
<1>2. ASSUME NEW q \in Seq(Cmd), NEW c \in Cmd PROVE s \o Append(q, c) = Append(s \o q, c)
  OBVIOUS
<1> QED BY <1>1, <1>2

\* A step of the host that works on the commands in their order keeps the
\* invariant, and the controller has room for them or discards the rest.
LEMMA Settles ==
    ASSUME Inv, NEW fresh \in {0, 1}, submitted + fresh <= MaxCommands,
           NEW w \in Work, Metered(w),
           Order(w) = IF fresh = 0 THEN commands.waiting
                      ELSE Append(commands.waiting, submitted + 1),
           Len(w.inFlight) - Len(w.out) <= Len(sent),
           Settle(w, fresh)
    PROVE  /\ commands' \in [available : 0..Window, waiting : Seq(Cmd), inFlight : Seq({0, 1})]
           /\ submitted' \in 0..MaxCommands
           /\ sent' \in Seq(Cmd)
           /\ accepted' \in Seq(Cmd) /\ Len(accepted') <= Window
           /\ discarded' \in BOOLEAN
           /\ Metered(commands') /\ FlightIsSent' /\ SentOnceInOrder'
           /\ commands'.available = w.available
           /\ Len(accepted') <= Len(accepted) + Len(w.out)
           /\ Len(accepted) + Len(w.out) <= Window => discarded' = discarded
<1>1. /\ w.waiting \in Seq(Cmd) /\ w.out \in Seq(Cmd) /\ w.inFlight \in Seq({0, 1})
      /\ w.available \in 0..Window
  BY DEF Work
<1>2. /\ sent \in Seq(Cmd) /\ accepted \in Seq(Cmd) /\ Len(accepted) <= Window
      /\ commands.waiting \in Seq(Cmd)
      /\ submitted \in 0..MaxCommands /\ discarded \in BOOLEAN
  BY DEF Inv, Types
<1> DEFINE room == IF Len(accepted) < Window THEN Window - Len(accepted) ELSE 0
           n == IF Len(w.out) < room THEN Len(w.out) ELSE room
           go == SubSeq(w.out, 1, n)
<1>3. /\ commands' = [available |-> w.available, waiting |-> w.waiting,
                      inFlight |-> w.inFlight]
      /\ submitted' = submitted + fresh
      /\ sent' = sent \o w.out
      /\ accepted' = accepted \o go
      /\ discarded' = (discarded \/ n < Len(w.out))
  BY DEF Settle
<1>4. Len(accepted) \in Nat /\ Len(w.out) \in Nat /\ Window \in Nat
  BY <1>1, <1>2, CommandAssumption
<1>5. /\ n \in 0..Len(w.out) /\ Len(accepted) + n <= Window
      /\ Len(accepted) + Len(w.out) <= Window => n = Len(w.out)
  BY <1>2, <1>4, SMTT(30)
<1> HIDE DEF n
<1>6. go \in Seq(Cmd) /\ Len(go) = n
  BY <1>1, <1>5, Prefix
<1> HIDE DEF go
<1>7. /\ accepted' \in Seq(Cmd) /\ Len(accepted') = Len(accepted) + n
  BY <1>2, <1>3, <1>6, ConcatProperties
<1>8. sent' \in Seq(Cmd) /\ Len(sent') = Len(sent) + Len(w.out)
  BY <1>1, <1>2, <1>3, ConcatProperties
<1>9. submitted' \in 0..MaxCommands
  BY <1>2, <1>3, CommandAssumption
<1>10. discarded' \in BOOLEAN
  BY <1>2, <1>3
<1>11. Metered(commands')
  BY <1>3 DEF Metered
<1>12. FlightIsSent'
  <2>1. Len(w.inFlight) \in Nat /\ Len(sent) \in Nat
    BY <1>1, <1>2
  <2>2. Len(w.inFlight) <= Len(sent')
    BY <1>4, <1>8, <2>1
  <2> QED BY <1>3, <2>2 DEF FlightIsSent
<1>13. SentOnceInOrder'
  <2>1. /\ sent \o commands.waiting = [i \in 1..submitted |-> i]
        /\ SentOnceInOrder' <=> (sent \o w.out) \o w.waiting = [i \in 1..(submitted + fresh) |-> i]
    BY <1>3 DEF Inv, SentOnceInOrder
  <2>2. (sent \o w.out) \o w.waiting = sent \o Order(w)
    BY <1>2, Passing
  <2>3. sent \o Order(w) = [i \in 1..(submitted + fresh) |-> i]
    <3>1. CASE fresh = 0
      <4>1. Order(w) = commands.waiting /\ submitted + fresh = submitted
        BY <1>2, <3>1
      <4> QED BY <2>1, <4>1, Zenon
    <3>2. CASE fresh = 1
      <4>1. submitted + 1 \in Cmd
        BY <1>2, <3>2, CommandAssumption DEF Cmd
      <4>2. sent \o Append(commands.waiting, submitted + 1)
              = Append(sent \o commands.waiting, submitted + 1)
        BY <1>2, <4>1, Passing
      <4>3. Append([i \in 1..submitted |-> i], submitted + 1) = [i \in 1..(submitted + 1) |-> i]
        BY <1>2, OneMore
      <4>4. Order(w) = Append(commands.waiting, submitted + 1)
            /\ submitted + fresh = submitted + 1
        BY <1>2, <3>2
      <4> QED BY <2>1, <4>2, <4>3, <4>4, Zenon
    <3> QED BY <3>1, <3>2
  <2> QED BY <2>1, <2>2, <2>3
<1>14. commands' \in [available : 0..Window, waiting : Seq(Cmd), inFlight : Seq({0, 1})]
  BY <1>1, <1>3
<1>15. commands'.available = w.available
  BY <1>3
<1>16. Len(accepted') <= Len(accepted) + Len(w.out)
  BY <1>4, <1>5, <1>7
<1>17. Len(accepted) + Len(w.out) <= Window => discarded' = discarded
  BY <1>2, <1>3, <1>4, <1>5
<1>18. Len(accepted') <= Window
  BY <1>5, <1>7
<1> QED BY <1>7, <1>8, <1>9, <1>10, <1>11, <1>12, <1>13, <1>14, <1>15, <1>16, <1>17, <1>18

-----------------------------------------------------------------------------
(* The invariant.                                                          *)

\* What the host starts a step from.
LEMMA IdleIsWork ==
    ASSUME Inv
    PROVE  /\ Idle \in Work /\ Metered(Idle) /\ Order(Idle) = commands.waiting
           /\ Len(Idle.inFlight) - Len(Idle.out) <= Len(sent)
           /\ Idle.available + Len(Idle.out) = commands.available
<1>1. /\ commands.available \in 0..Window /\ commands.waiting \in Seq(Cmd)
      /\ commands.inFlight \in Seq({0, 1}) /\ sent \in Seq(Cmd)
  BY DEF Inv, Types
<1>2. Idle \in Work /\ Metered(Idle)
  BY <1>1 DEF Idle, Work, Inv, Metered
<1>3. Order(Idle) = commands.waiting
  BY <1>1 DEF Idle, Order
<1>4. Len(Idle.inFlight) - Len(Idle.out) <= Len(sent)
  BY <1>1 DEF Idle, Inv, FlightIsSent
<1>5. Idle.available + Len(Idle.out) = commands.available
  BY <1>1 DEF Idle
<1> QED BY <1>2, <1>3, <1>4, <1>5

\* The start.
LEMMA InitInv == CommandInit => Inv
<1> SUFFICES ASSUME CommandInit PROVE Inv
  OBVIOUS
<1> USE DEF CommandInit
<1>1. Types
  <2>1. commands \in [available : 0..Window, waiting : Seq(Cmd), inFlight : Seq({0, 1})]
    <3>1. 1 \in 0..Window /\ <<>> \in Seq(Cmd) /\ <<>> \in Seq({0, 1})
      BY CommandAssumption
    <3> QED BY <3>1
  <2>2. submitted \in 0..MaxCommands /\ losses \in 0..MaxLosses
    BY CommandAssumption
  <2>3. /\ sent \in Seq(Cmd) /\ accepted \in Seq(Cmd) /\ Len(accepted) <= Window
        /\ answers \in Seq([op : {0, 1}, allowed : 0..Window])
    BY CommandAssumption
  <2> QED BY <2>1, <2>2, <2>3 DEF Types
<1>2. Metered(commands) /\ FlightIsSent
  BY DEF Metered, FlightIsSent
<1>3. SentOnceInOrder
  <2>1. <<>> \o <<>> = [i \in 1..0 |-> i]
    OBVIOUS
  <2> QED BY <2>1 DEF SentOnceInOrder
<1> QED BY <1>1, <1>2, <1>3 DEF Inv

\* What of the invariant an operation of the credits must establish.
LEMMA HostStep ==
    ASSUME Inv, NEW fresh \in {0, 1}, submitted + fresh <= MaxCommands,
           NEW w \in Work, Metered(w), Order(w) = commands.waiting,
           Len(w.inFlight) - Len(w.out) <= Len(sent),
           Settle(Paced(w, fresh), fresh)
    PROVE  /\ commands' \in [available : 0..Window, waiting : Seq(Cmd), inFlight : Seq({0, 1})]
           /\ submitted' \in 0..MaxCommands
           /\ sent' \in Seq(Cmd)
           /\ accepted' \in Seq(Cmd) /\ Len(accepted') <= Window
           /\ discarded' \in BOOLEAN
           /\ Metered(commands') /\ FlightIsSent' /\ SentOnceInOrder'
           /\ commands'.available + Len(accepted')
                <= Len(accepted) + w.available + Len(w.out)
           /\ Len(accepted) + w.available + Len(w.out) <= Window => discarded' = discarded
<1>1. submitted \in Nat
  BY DEF Inv, Types
<1> DEFINE v == Paced(w, fresh)
<1>2. /\ v \in Work /\ Metered(v)
      /\ Order(v) = IF fresh = 0 THEN commands.waiting
                    ELSE Append(commands.waiting, submitted + 1)
      /\ Len(v.inFlight) - Len(v.out) = Len(w.inFlight) - Len(w.out)
      /\ v.available + Len(v.out) = w.available + Len(w.out)
  BY <1>1, PacedKeepsOrder
<1>3. Settle(v, fresh)
  OBVIOUS
<1> HIDE DEF v
<1>4. Len(v.inFlight) - Len(v.out) <= Len(sent)
  BY <1>2
<1>5. /\ commands' \in [available : 0..Window, waiting : Seq(Cmd), inFlight : Seq({0, 1})]
      /\ submitted' \in 0..MaxCommands
      /\ sent' \in Seq(Cmd)
      /\ accepted' \in Seq(Cmd) /\ Len(accepted') <= Window
      /\ discarded' \in BOOLEAN
      /\ Metered(commands') /\ FlightIsSent' /\ SentOnceInOrder'
      /\ commands'.available = v.available
      /\ Len(accepted') <= Len(accepted) + Len(v.out)
      /\ Len(accepted) + Len(v.out) <= Window => discarded' = discarded
  BY <1>2, <1>3, <1>4, Settles
<1>6. /\ Len(accepted) \in Nat /\ Len(accepted') \in Nat /\ Len(v.out) \in Nat
      /\ Len(w.out) \in Nat /\ v.available \in Nat /\ w.available \in Nat /\ Window \in Nat
  <2>1. accepted \in Seq(Cmd) /\ Window \in Nat
    BY CommandAssumption DEF Inv, Types
  <2>2. /\ v.out \in Seq(Cmd) /\ w.out \in Seq(Cmd)
        /\ v.available \in 0..Window /\ w.available \in 0..Window
    BY <1>2 DEF Work
  <2>3. Len(v.out) \in Nat /\ Len(w.out) \in Nat
    BY <2>2
  <2>4. Len(accepted) \in Nat /\ Len(accepted') \in Nat
    BY <1>5, <2>1
  <2>5. v.available \in Nat /\ w.available \in Nat
    BY <2>1, <2>2
  <2> QED BY <2>1, <2>3, <2>4, <2>5
<1> DEFINE va == v.available
           vo == Len(v.out)
           wa == w.available
           wo == Len(w.out)
           a == Len(accepted)
           b == Len(accepted')
<1>7. /\ va \in Nat /\ vo \in Nat /\ wa \in Nat /\ wo \in Nat /\ a \in Nat /\ b \in Nat
      /\ va + vo = wa + wo /\ b <= a + vo /\ Window \in Nat
      /\ commands'.available = va
      /\ a + vo <= Window => discarded' = discarded
  BY <1>2, <1>5, <1>6
<1> HIDE DEF va, vo, wa, wo, a, b
<1>8. va + b <= a + wa + wo
  BY <1>7
<1>9. a + wa + wo <= Window => a + vo <= Window
  BY <1>7
<1>10. commands'.available + b <= a + wa + wo
  BY <1>7, <1>8
<1>11. a + wa + wo <= Window => discarded' = discarded
  BY <1>7, <1>9
<1> QED BY <1>5, <1>10, <1>11 DEF a, b, wa, wo

\* An answer that is taken.
LEMMA AnswerIsTaken ==
    ASSUME Inv, answers # <<>>
    PROVE  /\ Head(answers).allowed \in 0..Window
           /\ Tail(answers) \in Seq([op : {0, 1}, allowed : 0..Window])
           /\ Len(Tail(answers)) = Len(answers) - 1
           /\ \A i \in DOMAIN Tail(answers) : i + 1 \in DOMAIN answers
                                              /\ Tail(answers)[i] = answers[i + 1]
           /\ 1 \in DOMAIN answers /\ Head(answers) = answers[1]
<1> DEFINE A == [op : {0, 1}, allowed : 0..Window]
           q == answers
<1>1. q \in Seq(A) /\ q # <<>> /\ \A e \in A : e.allowed \in 0..Window
  BY DEF Inv, Types
<1> HIDE DEF A, q
<1>2. /\ Head(q) \in A /\ Tail(q) \in Seq(A) /\ Len(Tail(q)) = Len(q) - 1
      /\ \A i \in 1..Len(Tail(q)) : Tail(q)[i] = q[i + 1]
  BY <1>1, HeadTailProperties
<1>3. Len(q) \in Nat /\ Len(q) # 0 /\ DOMAIN q = 1..Len(q)
      /\ DOMAIN Tail(q) = 1..Len(Tail(q)) /\ Head(q) = q[1]
  BY <1>1, <1>2
<1>4. \A i \in DOMAIN Tail(q) : i + 1 \in DOMAIN q /\ Tail(q)[i] = q[i + 1]
  BY <1>2, <1>3
<1>5. Head(q).allowed \in 0..Window
  BY <1>1, <1>2
<1> QED BY <1>2, <1>3, <1>4, <1>5 DEF q, A

\* What release() after an answer, or after a command is given up on, leaves
\* for the host to go on with.
LEMMA Releases ==
    ASSUME Inv, NEW w \in Work, Order(w) = commands.waiting, w.out = <<>>,
           Len(w.inFlight) <= Len(commands.inFlight)
    PROVE  /\ Release(w) \in Work /\ Metered(Release(w)) /\ Order(Release(w)) = commands.waiting
           /\ Len(Release(w).inFlight) - Len(Release(w).out) <= Len(sent)
           /\ Release(w).available + Len(Release(w).out) = w.available
<1>1. /\ commands.inFlight \in Seq({0, 1}) /\ sent \in Seq(Cmd)
      /\ Len(commands.inFlight) <= Len(sent)
  BY DEF Inv, Types, FlightIsSent
<1>2. w.inFlight \in Seq({0, 1}) /\ w.available \in 0..Window /\ Len(w.out) = 0
  BY DEF Work
<1>3. Len(w.inFlight) - Len(w.out) <= Len(sent)
  BY <1>1, <1>2
<1>4. w.available + Len(w.out) = w.available
  BY <1>2, CommandAssumption
<1>5. /\ Release(w) \in Work /\ Metered(Release(w)) /\ Order(Release(w)) = Order(w)
      /\ Len(Release(w).inFlight) - Len(Release(w).out) = Len(w.inFlight) - Len(w.out)
      /\ Release(w).available + Len(Release(w).out) = w.available + Len(w.out)
  BY ReleaseKeepsOrder
<1> QED BY <1>3, <1>4, <1>5

\* Every step keeps the invariant.
LEMMA StepInv == Inv /\ [CommandNext]_commandVars => Inv'
<1> SUFFICES ASSUME Inv, [CommandNext]_commandVars PROVE Inv'
  OBVIOUS
<1>1. /\ submitted \in 0..MaxCommands
      /\ answers \in Seq([op : {0, 1}, allowed : 0..Window]) /\ losses \in 0..MaxLosses
      /\ abandoned \in BOOLEAN /\ discarded \in BOOLEAN
      /\ accepted \in Seq(Cmd) /\ Len(accepted) <= Window
  BY DEF Inv, Types
<1>2. /\ Idle \in Work /\ Metered(Idle) /\ Order(Idle) = commands.waiting
      /\ Len(Idle.inFlight) - Len(Idle.out) <= Len(sent)
      /\ Idle.out = <<>> /\ Idle.inFlight = commands.inFlight
  BY IdleIsWork DEF Idle
<1>3. CASE Command
  <2>1. submitted + 1 <= MaxCommands
    BY <1>1, <1>3, CommandAssumption DEF Command
  <2>2. /\ commands' \in [available : 0..Window, waiting : Seq(Cmd), inFlight : Seq({0, 1})]
        /\ submitted' \in 0..MaxCommands
        /\ sent' \in Seq(Cmd) /\ accepted' \in Seq(Cmd) /\ Len(accepted') <= Window
        /\ discarded' \in BOOLEAN
        /\ Metered(commands') /\ FlightIsSent' /\ SentOnceInOrder'
    <3>1. Settle(Paced(Idle, 1), 1)
      BY <1>3 DEF Command
    <3> QED BY <1>2, <2>1, <3>1, HostStep
  <2>3. answers' = answers /\ losses' = losses /\ abandoned' = abandoned
    BY <1>3 DEF Command
  <2> QED BY <1>1, <2>2, <2>3 DEF Inv, Types
<1>4. ASSUME NEW fresh \in {0, 1}, OnEvent(fresh) PROVE Inv'
  <2> DEFINE e == Head(answers)
             w == Answered(Idle, e.op, e.allowed)
  <2>1. answers # <<>> /\ submitted + fresh <= MaxCommands /\ answers' = Tail(answers)
        /\ losses' = losses /\ abandoned' = abandoned
        /\ Settle(Paced(Release(w), fresh), fresh)
    BY <1>4 DEF OnEvent
  <2>2. e.allowed \in 0..Window /\ answers' \in Seq([op : {0, 1}, allowed : 0..Window])
    BY <2>1, AnswerIsTaken
  <2>3. /\ w \in Work /\ Order(w) = commands.waiting /\ w.out = <<>>
        /\ Len(w.inFlight) <= Len(commands.inFlight)
    BY <1>2, <2>2, AnsweredTakesOne
  <2> HIDE DEF e, w
  <2>4. /\ Release(w) \in Work /\ Metered(Release(w)) /\ Order(Release(w)) = commands.waiting
        /\ Len(Release(w).inFlight) - Len(Release(w).out) <= Len(sent)
    BY <2>3, Releases
  <2>5. /\ commands' \in [available : 0..Window, waiting : Seq(Cmd), inFlight : Seq({0, 1})]
        /\ submitted' \in 0..MaxCommands
        /\ sent' \in Seq(Cmd) /\ accepted' \in Seq(Cmd) /\ Len(accepted') <= Window
        /\ discarded' \in BOOLEAN
        /\ Metered(commands') /\ FlightIsSent' /\ SentOnceInOrder'
    BY <2>1, <2>4, HostStep
  <2> QED BY <1>1, <2>1, <2>2, <2>5 DEF Inv, Types
<1>5. ASSUME NEW fresh \in {0, 1}, Tick(fresh) PROVE Inv'
  <2> DEFINE w == Abandoned(Idle)
  <2>1. commands.inFlight # <<>> /\ submitted + fresh <= MaxCommands /\ answers' = answers
        /\ losses' = losses /\ abandoned' = TRUE
        /\ Settle(Paced(Release(w), fresh), fresh)
    BY <1>5 DEF Tick
  <2>2. /\ w \in Work /\ Order(w) = commands.waiting /\ w.out = <<>>
        /\ Len(w.inFlight) <= Len(commands.inFlight)
    BY <1>2, <2>1, AbandonedTakesOne
  <2> HIDE DEF w
  <2>3. /\ Release(w) \in Work /\ Metered(Release(w)) /\ Order(Release(w)) = commands.waiting
        /\ Len(Release(w).inFlight) - Len(Release(w).out) <= Len(sent)
    BY <2>2, Releases
  <2>4. /\ commands' \in [available : 0..Window, waiting : Seq(Cmd), inFlight : Seq({0, 1})]
        /\ submitted' \in 0..MaxCommands
        /\ sent' \in Seq(Cmd) /\ accepted' \in Seq(Cmd) /\ Len(accepted') <= Window
        /\ discarded' \in BOOLEAN
        /\ Metered(commands') /\ FlightIsSent' /\ SentOnceInOrder'
    BY <2>1, <2>3, HostStep
  <2> QED BY <1>1, <2>1, <2>4 DEF Inv, Types
<1>6. ASSUME NEW i \in 1..Window, Answer(i) PROVE Inv'
  <2>1. /\ i \in 1..Len(accepted) /\ accepted' = RemoveAt(accepted, i)
        /\ UNCHANGED <<commands, submitted, sent, abandoned, discarded>>
    BY <1>1, <1>6 DEF Answer
  <2>2. accepted' \in Seq(Cmd) /\ Len(accepted') <= Window
    <3>1. accepted' \in Seq(Cmd) /\ Len(accepted') = Len(accepted) - 1
      BY <1>1, <2>1, Removing
    <3> QED BY <1>1, <3>1, CommandAssumption
  <2>3. answers' \in Seq([op : {0, 1}, allowed : 0..Window]) /\ losses' \in 0..MaxLosses
    <3>1. Opcode(accepted[i]) \in {0, 1}
      <4>1. accepted[i] \in Cmd
        BY <1>1, <2>1
      <4> QED BY <4>1 DEF Opcode, Cmd
    <3>2. Window - Len(accepted) + 1 \in 0..Window
      BY <1>1, <2>1, CommandAssumption
    <3> DEFINE a == [op |-> Opcode(accepted[i]), allowed |-> Window - Len(accepted) + 1]
    <3>3. a \in [op : {0, 1}, allowed : 0..Window]
      BY <3>1, <3>2
    <3>4. (answers' = Append(answers, a) /\ losses' = losses)
          \/ (answers' = answers /\ losses < MaxLosses /\ losses' = losses + 1)
      BY <1>6 DEF Answer
    <3> HIDE DEF a
    <3>5. Append(answers, a) \in Seq([op : {0, 1}, allowed : 0..Window])
      BY <1>1, <3>3, AppendProperties
    <3>6. losses < MaxLosses => losses + 1 \in 0..MaxLosses
      BY <1>1, CommandAssumption
    <3> QED BY <1>1, <3>4, <3>5, <3>6
  <2> QED BY <2>1, <2>2, <2>3 DEF Inv, Types, FlightIsSent, SentOnceInOrder
<1>7. CASE UNCHANGED commandVars
  BY <1>7 DEF commandVars, Inv, Types, FlightIsSent, SentOnceInOrder
<1> QED BY <1>3, <1>4, <1>5, <1>6, <1>7 DEF CommandNext

LEMMA Invariant == CommandSpec => []Inv
BY InitInv, StepInv, PTL DEF CommandSpec

-----------------------------------------------------------------------------
(* The theorems.                                                           *)

\* CommandCredits and the controller keep their types: the queue, the window
\* and what is in flight stay within the commands submitted.
THEOREM Typing == CommandSpec => []CommandTypeOK
<1>1. Inv => CommandTypeOK
  <2> SUFFICES ASSUME Inv PROVE CommandTypeOK
    OBVIOUS
  <2>1. /\ commands.available \in 0..Window /\ commands.waiting \in Seq(Cmd)
        /\ commands.inFlight \in Seq({0, 1})
        /\ submitted \in 0..MaxCommands /\ sent \in Seq(Cmd)
        /\ accepted \in Seq(Cmd) /\ Len(accepted) <= Window
        /\ losses \in 0..MaxLosses /\ abandoned \in BOOLEAN /\ discarded \in BOOLEAN
        /\ Len(commands.inFlight) <= Len(sent)
    BY DEF Inv, Types, FlightIsSent
  <2>2. Len(sent) + Len(commands.waiting) = submitted
    <3>1. Len(sent \o commands.waiting) = Len(sent) + Len(commands.waiting)
      BY <2>1, ConcatProperties
    <3>2. Len([i \in 1..submitted |-> i]) = submitted
      BY <2>1
    <3> QED BY <3>1, <3>2 DEF Inv, SentOnceInOrder
  <2>3. /\ Len(sent) <= MaxCommands /\ Len(commands.waiting) <= MaxCommands
        /\ Len(commands.inFlight) <= MaxCommands
    BY <2>1, <2>2, CommandAssumption
  <2>4. sent \in BoundedSeq(Cmd, MaxCommands)
    BY <2>1, <2>3, ShortIsBounded, CommandAssumption
  <2>5. commands.waiting \in BoundedSeq(Cmd, MaxCommands)
    BY <2>1, <2>3, ShortIsBounded, CommandAssumption
  <2>6. commands.inFlight \in BoundedSeq({0, 1}, MaxCommands)
    BY <2>1, <2>3, ShortIsBounded, CommandAssumption
  <2>7. accepted \in BoundedSeq(Cmd, Window)
    BY <2>1, ShortIsBounded, CommandAssumption
  <2> QED BY <2>1, <2>4, <2>5, <2>6, <2>7 DEF CommandTypeOK, Cmd
<1> QED BY <1>1, Invariant, PTL

\* For any window, and any order of answers, losses and timeouts: submit,
\* release and abandon_oldest send every command once, in order.
THEOREM EachGoesOutOnce == CommandSpec => []SentOnceInOrder
<1>1. Inv => SentOnceInOrder
  BY DEF Inv
<1> QED BY <1>1, Invariant, PTL

\* With one slot the credit is in one place.
LEMMA OneCreditStep ==
    ASSUME Window = 1
    PROVE  Inv /\ OneCredit /\ [CommandNext]_commandVars => OneCredit'
<1> SUFFICES ASSUME Inv, OneCredit, [CommandNext]_commandVars, ~abandoned'
             PROVE  /\ ~discarded'
                    /\ commands'.available + Len(accepted') + Len(answers') <= 1
                    /\ \A i \in DOMAIN answers' : answers'[i].allowed = 1
  BY DEF OneCredit
<1>1. /\ answers \in Seq([op : {0, 1}, allowed : 0..Window])
      /\ accepted \in Seq(Cmd) /\ Len(accepted) \in Nat /\ Len(answers) \in Nat
      /\ commands.available \in Nat
      /\ submitted \in 0..MaxCommands /\ abandoned \in BOOLEAN
  BY CommandAssumption DEF Inv, Types
<1>2. ~abandoned
  BY <1>1 DEF CommandNext, Command, OnEvent, Tick, Answer, commandVars
<1>3. /\ ~discarded /\ commands.available + Len(accepted) + Len(answers) <= 1
      /\ \A i \in DOMAIN answers : answers[i].allowed = 1
  BY <1>2 DEF OneCredit
<1>4. CASE Command
  <2>1. submitted + 1 <= MaxCommands /\ answers' = answers /\ Settle(Paced(Idle, 1), 1)
    BY <1>1, <1>4, CommandAssumption DEF Command
  <2>2. /\ Idle \in Work /\ Metered(Idle) /\ Order(Idle) = commands.waiting
        /\ Len(Idle.inFlight) - Len(Idle.out) <= Len(sent)
        /\ Idle.available = commands.available /\ Len(Idle.out) = 0
    BY IdleIsWork DEF Idle
  <2>3. /\ accepted' \in Seq(Cmd)
        /\ commands' \in [available : 0..Window, waiting : Seq(Cmd), inFlight : Seq({0, 1})]
        /\ commands'.available + Len(accepted') <= Len(accepted) + Idle.available + Len(Idle.out)
        /\ Len(accepted) + Idle.available + Len(Idle.out) <= Window => discarded' = discarded
    BY <2>1, <2>2, HostStep
  <2>4. commands'.available \in Nat /\ Len(accepted') \in Nat
    BY <2>3, CommandAssumption
  <2>5. Len(accepted) + Idle.available + Len(Idle.out) <= 1
    BY <1>1, <1>3, <2>2
  <2>6. commands'.available + Len(accepted') + Len(answers) <= 1
    BY <1>1, <1>3, <2>2, <2>3, <2>4
  <2> QED BY <1>3, <2>1, <2>3, <2>5, <2>6
<1>5. ASSUME NEW fresh \in {0, 1}, OnEvent(fresh)
      PROVE  /\ ~discarded'
             /\ commands'.available + Len(accepted') + Len(answers') <= 1
             /\ \A i \in DOMAIN answers' : answers'[i].allowed = 1
  <2> DEFINE e == Head(answers)
             w == Answered(Idle, e.op, e.allowed)
  <2>1. answers # <<>> /\ submitted + fresh <= MaxCommands /\ answers' = Tail(answers)
        /\ Settle(Paced(Release(w), fresh), fresh)
    BY <1>5 DEF OnEvent
  <2>2. /\ e.allowed = 1 /\ e.allowed \in 0..Window /\ Len(answers') = Len(answers) - 1
        /\ \A i \in DOMAIN answers' : answers'[i].allowed = 1
    BY <1>3, <2>1, AnswerIsTaken
  <2>3. /\ Idle \in Work /\ Order(Idle) = commands.waiting /\ Idle.out = <<>>
        /\ Idle.inFlight = commands.inFlight
    BY IdleIsWork DEF Idle
  <2>4. /\ w \in Work /\ Order(w) = commands.waiting /\ w.out = <<>>
        /\ Len(w.inFlight) <= Len(commands.inFlight) /\ w.available = 1
    BY <2>2, <2>3, AnsweredTakesOne
  <2> HIDE DEF e, w
  <2>5. /\ Release(w) \in Work /\ Metered(Release(w)) /\ Order(Release(w)) = commands.waiting
        /\ Len(Release(w).inFlight) - Len(Release(w).out) <= Len(sent)
        /\ Release(w).available + Len(Release(w).out) = 1
    BY <2>4, Releases
  <2> DEFINE v == Release(w)
  <2> HIDE DEF v
  <2>6. /\ accepted' \in Seq(Cmd)
        /\ commands' \in [available : 0..Window, waiting : Seq(Cmd), inFlight : Seq({0, 1})]
        /\ commands'.available + Len(accepted') <= Len(accepted) + v.available + Len(v.out)
        /\ Len(accepted) + v.available + Len(v.out) <= Window => discarded' = discarded
    BY <2>1, <2>5, HostStep DEF v
  <2>7. v.available \in Nat /\ Len(v.out) \in Nat /\ v.available + Len(v.out) = 1
    BY <2>5, CommandAssumption DEF v, Work
  <2>8. commands'.available \in Nat /\ Len(accepted') \in Nat
    BY <2>6, CommandAssumption
  <2>9. Len(accepted) = 0 /\ Len(answers') = 0
    <3>1. Len(answers) # 0
      BY <1>1, <2>1
    <3> QED BY <1>1, <1>3, <2>2, <3>1
  <2>10. Len(accepted) + v.available + Len(v.out) <= 1
    BY <2>7, <2>9
  <2>11. commands'.available + Len(accepted') + Len(answers') <= 1
    BY <2>6, <2>8, <2>9, <2>7
  <2> QED BY <1>3, <2>2, <2>6, <2>10, <2>11
<1>6. ASSUME NEW fresh \in {0, 1}, Tick(fresh) PROVE FALSE
  BY <1>6 DEF Tick
<1>7. ASSUME NEW i \in 1..Window, Answer(i)
      PROVE  /\ ~discarded'
             /\ commands'.available + Len(accepted') + Len(answers') <= 1
             /\ \A k \in DOMAIN answers' : answers'[k].allowed = 1
  <2>1. i \in 1..Len(accepted) /\ accepted' = RemoveAt(accepted, i)
        /\ UNCHANGED <<commands, discarded>>
    BY <1>1, <1>7 DEF Answer
  <2>2. Len(accepted') = Len(accepted) - 1
    BY <1>1, <2>1, Removing
  <2> DEFINE a == [op |-> Opcode(accepted[i]), allowed |-> Window - Len(accepted) + 1]
  <2>3. answers' = Append(answers, a) \/ answers' = answers
    BY <1>7 DEF Answer
  <2>4. a.allowed = 1
    BY <1>1, <1>3, <2>1
  <2> HIDE DEF a
  <2>5. Len(answers') <= Len(answers) + 1 /\ Len(answers') \in Nat
    BY <1>1, <2>3
  <2>6. \A k \in DOMAIN answers' : answers'[k].allowed = 1
    BY <1>1, <1>3, <2>3, <2>4
  <2>7. commands'.available + Len(accepted') + Len(answers') <= 1
    BY <1>1, <1>3, <2>1, <2>2, <2>5
  <2> QED BY <1>3, <2>1, <2>6, <2>7
<1>8. CASE UNCHANGED commandVars
  BY <1>3, <1>8 DEF commandVars
<1> QED BY <1>4, <1>5, <1>6, <1>7, <1>8 DEF CommandNext

\* A controller with one slot, whatever it is sent and however it answers:
\* until a command is given up on, none reaches it that it has no room for
\* (flow.rs submit and answered, #90).
THEOREM OneSlotIsEnough == ASSUME Window = 1 PROVE CommandSpec => []CommandsFit
<1>1. CommandInit => OneCredit
  <2> SUFFICES ASSUME CommandInit PROVE OneCredit
    OBVIOUS
  <2> QED BY DEF CommandInit, OneCredit
<1>2. Inv /\ OneCredit /\ [CommandNext]_commandVars => OneCredit'
  BY OneCreditStep
<1>3. OneCredit => CommandsFit
  BY DEF OneCredit, CommandsFit
<1> QED BY <1>1, <1>2, <1>3, Invariant, PTL DEF CommandSpec

-----------------------------------------------------------------------------
(* Sums.  The total of a function is a fold, defined by recursion on sets; *)
(* what the writer needs of it is proved from that recursion.              *)

\* Induction, for a set of numbers.
LEMMA Counting ==
    ASSUME NEW G, 0 \in G, \A n \in Nat : n \in G => n + 1 \in G
    PROVE  Nat \subseteq G
<1> DEFINE T == {n \in Nat : n \notin G}
<1> SUFFICES ASSUME T # {} PROVE FALSE
  OBVIOUS
<1>1. T \subseteq Nat
  OBVIOUS
<1> HIDE DEF T
<1>2. PICK n \in T : \A m \in T : n <= m
  BY <1>1, Least
<1> USE DEF T
<1>3. n \in Nat /\ n # 0
  BY <1>2
<1>4. n - 1 \in Nat /\ n - 1 \in G
  BY <1>2, <1>3
<1>5. (n - 1) + 1 \in G
  BY <1>4
<1> QED BY <1>2, <1>3, <1>5

\* Induction, for the subsets of a finite set.
LEMMA Growing ==
    ASSUME NEW S, IsFiniteSet(S), NEW G, {} \in G,
           \A T \in SUBSET S : \A x \in S \ T : T \in G => T \cup {x} \in G
    PROVE  S \in G
<1> DEFINE N == {n \in Nat : \A T \in SUBSET S : Cardinality(T) = n => T \in G}
<1>1. \A T \in SUBSET S : IsFiniteSet(T) /\ Cardinality(T) \in Nat
  BY FS_Subset, FS_CardinalityType
<1>2. 0 \in N
  <2>1. \A T \in SUBSET S : Cardinality(T) = 0 => T = {}
    BY <1>1, FS_EmptySet
  <2> QED BY <2>1
<1>3. ASSUME NEW n \in Nat, n \in N PROVE n + 1 \in N
  <2> SUFFICES ASSUME NEW T \in SUBSET S, Cardinality(T) = n + 1 PROVE T \in G
    OBVIOUS
  <2>0. IsFiniteSet(T) /\ Cardinality({}) = 0 /\ n + 1 # 0
    BY <1>1, FS_EmptySet
  <2>1. T # {}
    BY <2>0
  <2>2. PICK x \in T : TRUE
    BY <2>1
  <2>3. Cardinality(T \ {x}) = n
    <3>1. Cardinality(T \ {x}) = Cardinality(T) - 1
      BY <2>0, <2>2, FS_RemoveElement
    <3> QED BY <3>1
  <2>4. T \ {x} \in SUBSET S /\ T \ {x} \in G /\ x \in S \ (T \ {x})
    BY <1>3, <2>3
  <2>5. (T \ {x}) \cup {x} \in G
    BY <2>4
  <2>6. (T \ {x}) \cup {x} = T
    OBVIOUS
  <2> QED BY <2>5, <2>6
<1> HIDE DEF N
<1>4. Nat \subseteq N
  BY <1>2, <1>3, Counting
<1> QED BY <1>1, <1>4 DEF N

First(s) == CHOOSE x \in s : TRUE

\* One step of the fold: what the sum of s is, given the sums of smaller sets.
Adding(f, g, s) == IF s = {} THEN 0 ELSE f[First(s)] + g[s \ {First(s)}]

\* The fold's recursion, on the subsets of S.
Sums(g, f, S) == g = [s \in SUBSET S |-> Adding(f, g, s)]

\* The function that the recursion names exists: it is built up with the size of the sets.
LEMMA SumsExist ==
    ASSUME NEW f, NEW S, IsFiniteSet(S)
    PROVE  \E g : Sums(g, f, S)
<1> DEFINE Within(n) == {s \in SUBSET S : Cardinality(s) <= n}
           N == {n \in Nat : \E g : g = [s \in Within(n) |-> Adding(f, g, s)]}
<1>1. \A T \in SUBSET S : IsFiniteSet(T) /\ Cardinality(T) \in Nat
                          /\ Cardinality(T) <= Cardinality(S)
  BY FS_Subset, FS_CardinalityType
<1>2. 0 \in N
  <2> DEFINE g == [s \in Within(0) |-> 0]
  <2>1. \A s \in Within(0) : s = {}
    BY <1>1, FS_EmptySet
  <2>2. [s \in Within(0) |-> Adding(f, g, s)] = g
    BY <2>1 DEF Adding
  <2> QED BY <2>2
<1>3. ASSUME NEW n \in Nat, n \in N PROVE n + 1 \in N
  <2>1. PICK g : g = [s \in Within(n) |-> Adding(f, g, s)]
    BY <1>3
  <2> DEFINE h == [s \in Within(n + 1) |-> Adding(f, g, s)]
  <2>2. ASSUME NEW s \in Within(n + 1) PROVE Adding(f, h, s) = Adding(f, g, s)
    <3>1. CASE s = {}
      BY <3>1 DEF Adding
    <3>2. CASE s # {}
      <4> DEFINE r == s \ {First(s)}
      <4>1. First(s) \in s
        BY <3>2 DEF First
      <4>2. r \in SUBSET S /\ Cardinality(r) = Cardinality(s) - 1
        BY <1>1, <4>1, FS_RemoveElement
      <4>3. r \in Within(n) /\ r \in Within(n + 1)
        BY <1>1, <4>2
      <4> HIDE DEF r
      <4>4. g[r] = Adding(f, g, r) /\ h[r] = Adding(f, g, r)
        BY <2>1, <4>3
      <4> QED BY <3>2, <4>4 DEF Adding, r
    <3> QED BY <3>1, <3>2
  <2>3. h = [s \in Within(n + 1) |-> Adding(f, h, s)]
    BY <2>2
  <2> HIDE DEF h, Within
  <2> QED BY <2>3
<1>4. Nat \subseteq N
  <2> HIDE DEF N
  <2> QED BY <1>2, <1>3, Counting
<1>5. Cardinality(S) \in Nat /\ Within(Cardinality(S)) = SUBSET S
  BY <1>1, FS_CardinalityType
<1>6. PICK g : g = [s \in Within(Cardinality(S)) |-> Adding(f, g, s)]
  BY <1>4, <1>5
<1> HIDE DEF Within
<1> QED BY <1>5, <1>6 DEF Sums

\* A sum is the value, at the whole set, of some function that obeys the recursion.
LEMMA SumIs ==
    ASSUME NEW f, NEW S, IsFiniteSet(S)
    PROVE  \E g : Sums(g, f, S) /\ SumFunctionOnSet(f, S) = g[S]
<1> DEFINE g == CHOOSE g : Sums(g, f, S)
<1>1. Sums(g, f, S)
  BY SumsExist
<1>2. SumFunctionOnSet(f, S) = g[S]
  BY DEF SumFunctionOnSet, FoldFunctionOnSet, MapThenFoldSet, Sums, Adding, First
<1> QED BY <1>1, <1>2

\* What the recursion computes for a set depends on the values at its elements alone.
LEMMA SumsAgree ==
    ASSUME NEW f, NEW S, NEW g, Sums(g, f, S),
           NEW f2, NEW S2, NEW g2, Sums(g2, f2, S2),
           NEW U, IsFiniteSet(U), U \subseteq S, U \subseteq S2, \A x \in U : f[x] = f2[x]
    PROVE  g[U] = g2[U]
<1> DEFINE N == {n \in Nat : \A T \in SUBSET U : Cardinality(T) = n => g[T] = g2[T]}
<1>1. \A T \in SUBSET U : IsFiniteSet(T) /\ Cardinality(T) \in Nat
  BY FS_Subset, FS_CardinalityType
<1>2. \A T \in SUBSET U : g[T] = Adding(f, g, T) /\ g2[T] = Adding(f2, g2, T)
  BY DEF Sums
<1>3. 0 \in N
  <2>1. \A T \in SUBSET U : Cardinality(T) = 0 => T = {}
    BY <1>1, FS_EmptySet
  <2> QED BY <1>2, <2>1 DEF Adding
<1>4. ASSUME NEW n \in Nat, n \in N PROVE n + 1 \in N
  <2> SUFFICES ASSUME NEW T \in SUBSET U, Cardinality(T) = n + 1 PROVE g[T] = g2[T]
    OBVIOUS
  <2>1. IsFiniteSet(T) /\ Cardinality({}) = 0 /\ n + 1 # 0
    BY <1>1, FS_EmptySet
  <2>2. First(T) \in T
    BY <2>1 DEF First
  <2> DEFINE r == T \ {First(T)}
  <2>3. r \in SUBSET U /\ Cardinality(r) = n
    <3>1. Cardinality(r) = Cardinality(T) - 1
      BY <2>1, <2>2, FS_RemoveElement
    <3> QED BY <3>1
  <2>4. g[r] = g2[r]
    BY <1>4, <2>3
  <2>5. f[First(T)] = f2[First(T)]
    BY <2>2
  <2> QED BY <1>2, <2>2, <2>4, <2>5 DEF Adding
<1> HIDE DEF N
<1>5. Nat \subseteq N
  BY <1>3, <1>4, Counting
<1> QED BY <1>1, <1>5 DEF N

\* The sums of two functions that agree on the set agree.
LEMMA SameSum ==
    ASSUME NEW S, IsFiniteSet(S), NEW f, NEW f2, \A x \in S : f[x] = f2[x]
    PROVE  SumFunctionOnSet(f, S) = SumFunctionOnSet(f2, S)
<1>1. PICK g : Sums(g, f, S) /\ SumFunctionOnSet(f, S) = g[S]
  BY SumIs
<1>2. PICK g2 : Sums(g2, f2, S) /\ SumFunctionOnSet(f2, S) = g2[S]
  BY SumIs
<1>3. g[S] = g2[S]
  BY <1>1, <1>2, SumsAgree
<1> QED BY <1>1, <1>2, <1>3

\* The sum over nothing.
LEMMA NoSum == ASSUME NEW f PROVE SumFunctionOnSet(f, {}) = 0
<1>1. PICK g : Sums(g, f, {}) /\ SumFunctionOnSet(f, {}) = g[{}]
  BY SumIs, FS_EmptySet
<1>2. g[{}] = Adding(f, g, {})
  BY <1>1 DEF Sums
<1> QED BY <1>1, <1>2 DEF Adding

\* The recursion adds each element's value whichever element it takes first.
LEMMA SumsAdd ==
    ASSUME NEW f, NEW S, NEW g, Sums(g, f, S), IsFiniteSet(S), \A x \in S : f[x] \in Nat,
           NEW U \in SUBSET S, NEW x \in S \ U
    PROVE  g[U] \in Nat /\ g[U \cup {x}] = g[U] + f[x]
<1> DEFINE N == {n \in Nat : \A T \in SUBSET S : Cardinality(T) = n =>
                   g[T] \in Nat /\ \A y \in S \ T : g[T \cup {y}] = g[T] + f[y]}
<1>1. \A T \in SUBSET S : IsFiniteSet(T) /\ Cardinality(T) \in Nat
  BY FS_Subset, FS_CardinalityType
<1>2. \A T \in SUBSET S : g[T] = Adding(f, g, T)
  BY DEF Sums
<1>a. \A y : First({y}) = y
  BY DEF First
<1>3. 0 \in N
  <2> SUFFICES ASSUME NEW T \in SUBSET S, Cardinality(T) = 0
               PROVE  g[T] \in Nat /\ \A y \in S \ T : g[T \cup {y}] = g[T] + f[y]
    OBVIOUS
  <2>1. T = {}
    BY <1>1, FS_EmptySet
  <2>2. g[{}] = 0
    BY <1>2 DEF Adding
  <2>3. ASSUME NEW y \in S PROVE g[{y}] = f[y]
    <3>1. g[{y}] = f[y] + g[{y} \ {y}]
      BY <1>2, <1>a DEF Adding
    <3>2. {y} \ {y} = {}
      OBVIOUS
    <3> QED BY <2>2, <3>1, <3>2
  <2>4. ASSUME NEW y \in S \ T PROVE g[T \cup {y}] = g[T] + f[y]
    <3>1. T \cup {y} = {y} /\ f[y] \in Nat
      BY <2>1
    <3>2. g[T] = 0 /\ g[T \cup {y}] = f[y]
      BY <2>1, <2>2, <2>3, <3>1
    <3> QED BY <3>1, <3>2
  <2>5. g[T] \in Nat
    BY <2>1, <2>2
  <2> QED BY <2>4, <2>5
<1>4. ASSUME NEW n \in Nat, n \in N PROVE n + 1 \in N
  <2> SUFFICES ASSUME NEW T \in SUBSET S, Cardinality(T) = n + 1
               PROVE  g[T] \in Nat /\ \A y \in S \ T : g[T \cup {y}] = g[T] + f[y]
    OBVIOUS
  <2>0. \A V \in SUBSET S : Cardinality(V) = n =>
            g[V] \in Nat /\ \A y \in S \ V : g[V \cup {y}] = g[V] + f[y]
    BY <1>4
  <2>1. IsFiniteSet(T) /\ Cardinality({}) = 0 /\ n + 1 # 0
    BY <1>1, FS_EmptySet
  \* Whichever element is taken out of T, its value and the rest's make up the sum.
  <2>2. ASSUME NEW V \in SUBSET S, Cardinality(V) = n, NEW z \in S \ V
        PROVE  g[V \cup {z}] = g[V] + f[z] /\ g[V] \in Nat /\ f[z] \in Nat
    BY <2>0, <2>2
  <2>3. ASSUME NEW z \in T
        PROVE  /\ T \ {z} \in SUBSET S /\ Cardinality(T \ {z}) = n /\ f[z] \in Nat
               /\ g[T] = g[T \ {z}] + f[z] /\ g[T \ {z}] \in Nat
    <3>1. Cardinality(T \ {z}) = Cardinality(T) - 1
      BY <2>1, FS_RemoveElement
    <3>2. (T \ {z}) \cup {z} = T /\ z \in S \ (T \ {z}) /\ T \ {z} \in SUBSET S
      OBVIOUS
    <3> QED BY <2>2, <3>1, <3>2
  <2>4. g[T] \in Nat
    <3>1. PICK z \in T : TRUE
      BY <2>1
    <3> DEFINE a == g[T \ {z}]
               b == f[z]
    <3>2. g[T] = a + b /\ a \in Nat /\ b \in Nat
      BY <2>3
    <3> HIDE DEF a, b
    <3> QED BY <3>2
  <2>5. ASSUME NEW y \in S \ T PROVE g[T \cup {y}] = g[T] + f[y]
    <3> DEFINE W == T \cup {y}
               z == First(W)
    <3>1. z \in W
      BY DEF First
    <3>2. g[W] = f[z] + g[W \ {z}]
      <4>1. W \in SUBSET S /\ W # {}
        OBVIOUS
      <4> HIDE DEF W
      <4> QED BY <1>2, <4>1 DEF Adding
    <3> HIDE DEF z
    <3>3. CASE z = y
      <4>1. W \ {z} = T /\ f[y] \in Nat
        BY <3>3
      <4> HIDE DEF W
      <4> DEFINE a == g[T]
                 b == f[y]
      <4>2. g[W] = b + a /\ a \in Nat /\ b \in Nat
        BY <2>4, <3>2, <3>3, <4>1
      <4> HIDE DEF a, b
      <4>3. g[W] = a + b
        BY <4>2
      <4> QED BY <4>3 DEF W, a, b
    <3>4. CASE z # y
      <4>1. z \in T /\ W \ {z} = (T \ {z}) \cup {y} /\ y \in S \ (T \ {z}) /\ f[y] \in Nat
        BY <3>1, <3>4
      <4>2. g[(T \ {z}) \cup {y}] = g[T \ {z}] + f[y]
        BY <2>2, <2>3, <4>1
      <4>3. g[T] = g[T \ {z}] + f[z] /\ g[T \ {z}] \in Nat /\ f[z] \in Nat
        BY <2>3, <4>1
      <4> HIDE DEF W
      <4> DEFINE a == g[T \ {z}]
                 b == f[y]
                 c == f[z]
      <4>4. g[W] = c + (a + b) /\ g[T] = a + c /\ a \in Nat /\ b \in Nat /\ c \in Nat
        BY <3>2, <4>1, <4>2, <4>3
      <4> HIDE DEF a, b, c
      <4>5. g[W] = g[T] + b
        BY <4>4
      <4> QED BY <4>5 DEF W, b
    <3> QED BY <3>3, <3>4
  <2> QED BY <2>4, <2>5
<1> HIDE DEF N
<1>5. Nat \subseteq N
  BY <1>3, <1>4, Counting
<1> QED BY <1>1, <1>5 DEF N

\* A sum grows by the value of what joins the set.
LEMMA MoreSum ==
    ASSUME NEW S, IsFiniteSet(S), NEW x, x \notin S, NEW f,
           f[x] \in Nat, \A y \in S : f[y] \in Nat
    PROVE  /\ SumFunctionOnSet(f, S) \in Nat
           /\ SumFunctionOnSet(f, S \cup {x}) = SumFunctionOnSet(f, S) + f[x]
<1> DEFINE W == S \cup {x}
<1>1. IsFiniteSet(W)
  BY FS_AddElement
<1>2. PICK g : Sums(g, f, W) /\ SumFunctionOnSet(f, W) = g[W]
  <2> HIDE DEF W
  <2> QED BY <1>1, SumIs
<1>3. PICK h : Sums(h, f, S) /\ SumFunctionOnSet(f, S) = h[S]
  BY SumIs
<1>4. g[S] = h[S]
  <2>1. S \subseteq W
    OBVIOUS
  <2> HIDE DEF W
  <2> QED BY <1>2, <1>3, <2>1, SumsAgree
<1>5. g[S] \in Nat /\ g[S \cup {x}] = g[S] + f[x]
  <2>1. S \in SUBSET W /\ x \in W \ S /\ \A y \in W : f[y] \in Nat
    OBVIOUS
  <2> HIDE DEF W
  <2> QED BY <1>1, <1>2, <2>1, SumsAdd
<1> QED BY <1>2, <1>3, <1>4, <1>5

\* A sum of numbers is a number.
LEMMA SumType ==
    ASSUME NEW S, IsFiniteSet(S), NEW f, \A y \in S : f[y] \in Nat
    PROVE  SumFunctionOnSet(f, S) \in Nat
<1> DEFINE G == {T \in SUBSET S : SumFunctionOnSet(f, T) \in Nat}
<1>1. {} \in G
  BY NoSum
<1>2. ASSUME NEW T \in SUBSET S, NEW x \in S \ T, T \in G PROVE T \cup {x} \in G
  <2>1. SumFunctionOnSet(f, T \cup {x}) = SumFunctionOnSet(f, T) + f[x]
    BY FS_Subset, MoreSum
  <2>2. f[x] \in Nat /\ SumFunctionOnSet(f, T) \in Nat
    BY <1>2
  <2>3. SumFunctionOnSet(f, T) + f[x] \in Nat
    BY <2>2
  <2> QED BY <2>1, <2>3
<1> HIDE DEF G
<1>3. S \in G
  BY <1>1, <1>2, Growing
<1> QED BY <1>3 DEF G

\* Sums of smaller values are smaller.
LEMMA SmallerSum ==
    ASSUME NEW S, IsFiniteSet(S), NEW f, \A y \in S : f[y] \in Nat,
           NEW f2, \A y \in S : f2[y] \in Nat /\ f[y] <= f2[y]
    PROVE  SumFunctionOnSet(f, S) <= SumFunctionOnSet(f2, S)
<1> DEFINE G == {T \in SUBSET S : SumFunctionOnSet(f, T) <= SumFunctionOnSet(f2, T)}
<1>1. {} \in G
  BY NoSum
<1>2. ASSUME NEW T \in SUBSET S, NEW x \in S \ T, T \in G PROVE T \cup {x} \in G
  <2>0. IsFiniteSet(T)
    BY FS_Subset
  <2> DEFINE a == SumFunctionOnSet(f, T)
             b == SumFunctionOnSet(f2, T)
  <2>1. SumFunctionOnSet(f, T \cup {x}) = a + f[x] /\ a \in Nat
    BY <2>0, MoreSum
  <2>2. SumFunctionOnSet(f2, T \cup {x}) = b + f2[x] /\ b \in Nat
    BY <2>0, MoreSum
  <2>3. a <= b
    BY <1>2
  <2> HIDE DEF a, b
  <2>4. f[x] \in Nat /\ f2[x] \in Nat /\ f[x] <= f2[x]
    OBVIOUS
  <2>5. a + f[x] <= b + f2[x]
    BY <2>1, <2>2, <2>3, <2>4
  <2> QED BY <2>1, <2>2, <2>5
<1> HIDE DEF G
<1>3. S \in G
  BY <1>1, <1>2, Growing
<1> QED BY <1>3 DEF G

\* A sum of zeros.
LEMMA ZeroSum ==
    ASSUME NEW S, IsFiniteSet(S), NEW f, \A y \in S : f[y] = 0
    PROVE  SumFunctionOnSet(f, S) = 0
<1> DEFINE G == {T \in SUBSET S : SumFunctionOnSet(f, T) = 0}
<1>1. {} \in G
  BY NoSum
<1>2. ASSUME NEW T \in SUBSET S, NEW x \in S \ T, T \in G PROVE T \cup {x} \in G
  <2>0. IsFiniteSet(T) /\ \A y \in T : f[y] \in Nat
    BY FS_Subset
  <2>1. f[x] = 0 /\ f[x] \in Nat
    OBVIOUS
  <2>2. SumFunctionOnSet(f, T \cup {x}) = SumFunctionOnSet(f, T) + f[x]
    BY <2>0, <2>1, MoreSum
  <2> QED BY <1>2, <2>1, <2>2
<1> HIDE DEF G
<1>3. S \in G
  BY <1>1, <1>2, Growing
<1> QED BY <1>3 DEF G

-----------------------------------------------------------------------------
(* Totals.                                                                 *)

Counts == [Handles -> Nat]

\* A total is the sum over all of the domain.
LEMMA TotalIs == ASSUME NEW f PROVE Total(f) = SumFunctionOnSet(f, DOMAIN f)
<1> QED BY DEF Total, SumFunction

\* One handle's value and the rest's.
LEMMA TotalParts ==
    ASSUME NEW f \in Counts, NEW h \in Handles
    PROVE  /\ SumFunctionOnSet(f, Handles \ {h}) \in Nat
           /\ Total(f) = SumFunctionOnSet(f, Handles \ {h}) + f[h]
<1> DEFINE S == Handles \ {h}
<1>1. IsFiniteSet(S) /\ h \notin S /\ DOMAIN f = S \cup {h} /\ f[h] \in Nat
      /\ \A y \in S : f[y] \in Nat
  BY WriterAssumption, FS_Subset DEF Counts
<1> HIDE DEF S
<1>2. /\ SumFunctionOnSet(f, S) \in Nat
      /\ SumFunctionOnSet(f, S \cup {h}) = SumFunctionOnSet(f, S) + f[h]
  BY <1>1, MoreSum
<1> QED BY <1>1, <1>2, TotalIs DEF S

\* Giving one handle another value moves the total by the difference.
LEMMA TotalMoves ==
    ASSUME NEW f \in Counts, NEW h \in Handles, NEW v \in Nat
    PROVE  /\ Total(f) \in Nat /\ f[h] \in Nat /\ f[h] <= Total(f)
           /\ [f EXCEPT ![h] = v] \in Counts
           /\ Total([f EXCEPT ![h] = v]) = Total(f) - f[h] + v
<1> DEFINE f2 == [f EXCEPT ![h] = v]
           a == SumFunctionOnSet(f, Handles \ {h})
           b == SumFunctionOnSet(f2, Handles \ {h})
<1>1. f2 \in Counts /\ f2[h] = v /\ f[h] \in Nat
  BY DEF Counts
<1>2. a = b
  <2>1. IsFiniteSet(Handles \ {h}) /\ \A x \in Handles \ {h} : f[x] = f2[x]
    BY WriterAssumption, FS_Subset DEF Counts
  <2> HIDE DEF f2
  <2> QED BY <2>1, SameSum
<1> HIDE DEF f2
<1>3. Total(f) = a + f[h] /\ a \in Nat /\ Total(f2) = b + f2[h]
  BY <1>1, TotalParts
<1> HIDE DEF a, b
<1>4. Total(f) \in Nat /\ f[h] <= Total(f) /\ Total(f2) = Total(f) - f[h] + v
  BY <1>1, <1>2, <1>3
<1> QED BY <1>1, <1>4 DEF f2

\* No handle has more, so neither do all of them.
LEMMA SmallerTotal ==
    ASSUME NEW f \in Counts, NEW f2 \in Counts, \A h \in Handles : f[h] <= f2[h]
    PROVE  Total(f) <= Total(f2) /\ Total(f) \in Nat /\ Total(f2) \in Nat
<1>1. /\ DOMAIN f = Handles /\ DOMAIN f2 = Handles /\ IsFiniteSet(Handles)
      /\ \A h \in Handles : f[h] \in Nat /\ f2[h] \in Nat
  BY WriterAssumption DEF Counts
<1>2. SumFunctionOnSet(f, Handles) <= SumFunctionOnSet(f2, Handles)
  BY <1>1, SmallerSum
<1>3. SumFunctionOnSet(f, Handles) \in Nat /\ SumFunctionOnSet(f2, Handles) \in Nat
  BY <1>1, SumType
<1> QED BY <1>1, <1>2, <1>3, TotalIs

\* Nothing for any handle is nothing in total.
LEMMA NothingTotal == Total([h \in Handles |-> 0]) = 0
<1> DEFINE f == [h \in Handles |-> 0]
<1>1. DOMAIN f = Handles /\ IsFiniteSet(Handles) /\ \A h \in Handles : f[h] = 0
  BY WriterAssumption
<1> HIDE DEF f
<1>2. SumFunctionOnSet(f, Handles) = 0
  BY <1>1, ZeroSum
<1> QED BY <1>1, <1>2, TotalIs DEF f

\* The first n numbers are finitely many.
LEMMA Upto == ASSUME NEW n \in Nat PROVE IsFiniteSet(1..n)
<1>1. 1 \in Int /\ n \in Int
  OBVIOUS
<1> QED BY <1>1, FS_Interval

\* A sum along a sequence is its first value and the sum along the rest.
LEMMA ShiftedSum ==
    ASSUME NEW n \in Nat, NEW f, \A i \in 1..(n + 1) : f[i] \in Nat,
           NEW f2, \A i \in 1..n : f2[i] = f[i + 1]
    PROVE  SumFunctionOnSet(f, 1..(n + 1)) = f[1] + SumFunctionOnSet(f2, 1..n)
<1> DEFINE G == {m \in Nat : m <= n =>
                   SumFunctionOnSet(f, 1..(m + 1)) = f[1] + SumFunctionOnSet(f2, 1..m)}
<1>1. 0 \in G
  <2>1. IsFiniteSet({}) /\ 1 \notin {} /\ {} \cup {1} = 1..(0 + 1) /\ {} = 1..0
    BY FS_EmptySet
  <2>2. f[1] \in Nat
    OBVIOUS
  <2>3. SumFunctionOnSet(f, {} \cup {1}) = SumFunctionOnSet(f, {}) + f[1]
    BY <2>1, <2>2, MoreSum
  <2>4. SumFunctionOnSet(f, {}) = 0 /\ SumFunctionOnSet(f2, {}) = 0
    BY NoSum
  <2> QED BY <2>1, <2>2, <2>3, <2>4
<1>2. ASSUME NEW m \in Nat, m \in G PROVE m + 1 \in G
  <2> SUFFICES ASSUME m + 1 <= n
               PROVE  SumFunctionOnSet(f, 1..(m + 2)) = f[1] + SumFunctionOnSet(f2, 1..(m + 1))
    OBVIOUS
  <2>1. SumFunctionOnSet(f, 1..(m + 1)) = f[1] + SumFunctionOnSet(f2, 1..m)
    BY <1>2
  <2>2. /\ IsFiniteSet(1..(m + 1)) /\ IsFiniteSet(1..m)
        /\ m + 2 \notin 1..(m + 1) /\ 1..(m + 2) = (1..(m + 1)) \cup {m + 2}
        /\ m + 1 \notin 1..m /\ 1..(m + 1) = (1..m) \cup {m + 1}
    <3>1. IsFiniteSet(1..(m + 1)) /\ IsFiniteSet(1..m)
      BY Upto
    <3> QED BY <3>1
  <2>3. /\ \A i \in 1..(m + 1) : f[i] \in Nat
        /\ \A i \in 1..m : f2[i] \in Nat
        /\ f[m + 2] \in Nat /\ f2[m + 1] = f[m + 2] /\ f[1] \in Nat
    OBVIOUS
  <2> DEFINE a == SumFunctionOnSet(f, 1..(m + 1))
             b == SumFunctionOnSet(f2, 1..m)
  <2>4. SumFunctionOnSet(f, 1..(m + 2)) = a + f[m + 2] /\ a \in Nat
    <3> DEFINE S == 1..(m + 1)
    <3>1. IsFiniteSet(S) /\ m + 2 \notin S /\ 1..(m + 2) = S \cup {m + 2}
          /\ \A i \in S : f[i] \in Nat
      BY <2>2, <2>3
    <3> HIDE DEF S
    <3>2. SumFunctionOnSet(f, S \cup {m + 2}) = SumFunctionOnSet(f, S) + f[m + 2]
          /\ SumFunctionOnSet(f, S) \in Nat
      BY <2>3, <3>1, MoreSum
    <3> QED BY <3>1, <3>2 DEF S
  <2>5. SumFunctionOnSet(f2, 1..(m + 1)) = b + f2[m + 1] /\ b \in Nat
    <3> DEFINE S == 1..m
    <3>1. IsFiniteSet(S) /\ m + 1 \notin S /\ 1..(m + 1) = S \cup {m + 1}
          /\ \A i \in S : f2[i] \in Nat
      BY <2>2, <2>3
    <3> HIDE DEF S
    <3>2. SumFunctionOnSet(f2, S \cup {m + 1}) = SumFunctionOnSet(f2, S) + f2[m + 1]
          /\ SumFunctionOnSet(f2, S) \in Nat
      BY <2>3, <3>1, MoreSum
    <3> QED BY <3>1, <3>2 DEF S
  <2> HIDE DEF a, b
  <2>6. a = f[1] + b
    BY <2>1 DEF a, b
  <2> QED BY <2>3, <2>4, <2>5, <2>6
<1> HIDE DEF G
<1>3. n \in G
  BY <1>1, <1>2, Counting
<1> QED BY <1>3 DEF G

-----------------------------------------------------------------------------
(* The events on their way.                                                *)

Event == [is : {"up", "down", "completed"}, to : Handles, link : Nat]

Given(es, h) == Total([i \in DOMAIN es |-> Reports(es[i], h)])

\* What the events give back is a sum along the sequence.
LEMMA GivenIs ==
    ASSUME NEW es \in Seq(Event), NEW h,
           NEW f, \A i \in 1..Len(es) : f[i] = Reports(es[i], h)
    PROVE  /\ Given(es, h) = SumFunctionOnSet(f, 1..Len(es))
           /\ Given(es, h) \in Nat
           /\ \A i \in 1..Len(es) : f[i] \in Nat
<1> DEFINE n == Len(es)
           g == [i \in DOMAIN es |-> Reports(es[i], h)]
<1>1. DOMAIN g = 1..n /\ n \in Nat /\ \A i \in 1..n : g[i] = f[i]
  OBVIOUS
<1>2. \A i \in 1..n : g[i] \in Nat
  <2>1. ASSUME NEW i \in 1..n PROVE Reports(es[i], h) \in Nat
    <3>1. es[i] \in Event
      OBVIOUS
    <3> QED BY <3>1 DEF Reports, Event
  <2> QED BY <2>1
<1>3. Given(es, h) = Total(g)
  BY DEF Given
<1> HIDE DEF g, n
<1>4. IsFiniteSet(1..n)
  BY <1>1, Upto
<1>5. Total(g) = SumFunctionOnSet(g, 1..n)
  BY <1>1, TotalIs
<1>6. SumFunctionOnSet(g, 1..n) = SumFunctionOnSet(f, 1..n)
  BY <1>1, <1>4, SameSum
<1>7. SumFunctionOnSet(g, 1..n) \in Nat
  BY <1>2, <1>4, SumType
<1> QED BY <1>1, <1>2, <1>3, <1>5, <1>6, <1>7 DEF n

\* An event put on its way adds what it reports.
LEMMA GivenMore ==
    ASSUME NEW es \in Seq(Event), NEW e \in Event, NEW h
    PROVE  Given(Append(es, e), h) = Given(es, h) + Reports(e, h) /\ Given(es, h) \in Nat
<1> DEFINE n == Len(es)
           all == Append(es, e)
           f == [i \in 1..(n + 1) |-> Reports(all[i], h)]
<1>1. /\ all \in Seq(Event) /\ Len(all) = n + 1 /\ n \in Nat
      /\ \A i \in 1..n : all[i] = es[i]
      /\ all[n + 1] = e
  OBVIOUS
<1>2. /\ \A i \in 1..(n + 1) : f[i] = Reports(all[i], h)
      /\ \A i \in 1..n : f[i] = Reports(es[i], h)
      /\ f[n + 1] = Reports(e, h)
  BY <1>1
<1> HIDE DEF n, all, f
<1>3. /\ Given(all, h) = SumFunctionOnSet(f, 1..(n + 1)) /\ \A i \in 1..(n + 1) : f[i] \in Nat
  <2>1. Len(all) = n + 1 /\ \A i \in 1..Len(all) : f[i] = Reports(all[i], h)
    BY <1>1, <1>2
  <2>2. Given(all, h) = SumFunctionOnSet(f, 1..Len(all)) /\ \A i \in 1..Len(all) : f[i] \in Nat
    BY <1>1, <2>1, GivenIs
  <2> QED BY <2>1, <2>2
<1>4. Given(es, h) = SumFunctionOnSet(f, 1..n) /\ Given(es, h) \in Nat
  BY <1>1, <1>2, GivenIs DEF n
<1>5. SumFunctionOnSet(f, 1..(n + 1)) = SumFunctionOnSet(f, 1..n) + f[n + 1]
  <2> DEFINE S == 1..n
  <2>1. IsFiniteSet(S) /\ n + 1 \notin S /\ 1..(n + 1) = S \cup {n + 1}
        /\ (\A i \in S : f[i] \in Nat) /\ f[n + 1] \in Nat
    <3>1. IsFiniteSet(S)
      BY <1>1, Upto
    <3>2. n + 1 \notin S /\ 1..(n + 1) = S \cup {n + 1} /\ n + 1 \in 1..(n + 1)
      BY <1>1
    <3>3. (\A i \in S : f[i] \in Nat) /\ f[n + 1] \in Nat
      BY <1>1, <1>3, <3>2
    <3> QED BY <3>1, <3>2, <3>3
  <2> HIDE DEF S
  <2>2. SumFunctionOnSet(f, S \cup {n + 1}) = SumFunctionOnSet(f, S) + f[n + 1]
    BY <2>1, MoreSum
  <2> QED BY <2>1, <2>2 DEF S
<1> QED BY <1>2, <1>3, <1>4, <1>5 DEF all

\* An event that is taken takes what it reports along.
LEMMA GivenFewer ==
    ASSUME NEW es \in Seq(Event), es # <<>>, NEW h
    PROVE  Given(es, h) = Reports(Head(es), h) + Given(Tail(es), h)
           /\ Given(Tail(es), h) \in Nat /\ Reports(Head(es), h) \in Nat
<1> DEFINE n == Len(es) - 1
           rest == Tail(es)
           f == [i \in 1..(n + 1) |-> Reports(es[i], h)]
           f2 == [i \in 1..n |-> Reports(rest[i], h)]
<1>1. /\ rest \in Seq(Event) /\ Len(rest) = n /\ n \in Nat /\ Len(es) = n + 1
      /\ \A i \in 1..n : rest[i] = es[i + 1]
      /\ Head(es) = es[1]
  OBVIOUS
<1>2. /\ \A i \in 1..(n + 1) : f[i] = Reports(es[i], h)
      /\ \A i \in 1..n : f2[i] = Reports(rest[i], h)
      /\ \A i \in 1..n : f2[i] = f[i + 1]
      /\ f[1] = Reports(Head(es), h)
  BY <1>1
<1> HIDE DEF n, rest, f, f2
<1>3. Given(es, h) = SumFunctionOnSet(f, 1..(n + 1)) /\ \A i \in 1..(n + 1) : f[i] \in Nat
  <2>1. Len(es) = n + 1 /\ \A i \in 1..Len(es) : f[i] = Reports(es[i], h)
    BY <1>1, <1>2
  <2>2. Given(es, h) = SumFunctionOnSet(f, 1..Len(es)) /\ \A i \in 1..Len(es) : f[i] \in Nat
    BY <2>1, GivenIs
  <2> QED BY <2>1, <2>2
<1>4. Given(rest, h) = SumFunctionOnSet(f2, 1..n) /\ Given(rest, h) \in Nat
  <2>1. rest \in Seq(Event) /\ Len(rest) = n
        /\ \A i \in 1..Len(rest) : f2[i] = Reports(rest[i], h)
    BY <1>1, <1>2
  <2>2. Given(rest, h) = SumFunctionOnSet(f2, 1..Len(rest)) /\ Given(rest, h) \in Nat
    BY <2>1, GivenIs
  <2> QED BY <2>1, <2>2
<1>5. SumFunctionOnSet(f, 1..(n + 1)) = f[1] + SumFunctionOnSet(f2, 1..n)
  BY <1>1, <1>2, <1>3, ShiftedSum
<1>6. f[1] \in Nat
  BY <1>1, <1>3
<1> QED BY <1>2, <1>3, <1>4, <1>5, <1>6 DEF rest

\* Events that report nothing of a handle give nothing back to it.
LEMMA NothingGiven ==
    ASSUME NEW es \in Seq(Event), NEW h,
           \A i \in DOMAIN es : ~(es[i].is = "completed" /\ es[i].to = h)
    PROVE  Given(es, h) = 0
<1> DEFINE f == [i \in DOMAIN es |-> Reports(es[i], h)]
<1>1. DOMAIN f = 1..Len(es) /\ Len(es) \in Nat /\ \A i \in 1..Len(es) : f[i] = 0
  BY DEF Reports
<1> HIDE DEF f
<1>2. IsFiniteSet(1..Len(es))
  BY <1>1, Upto
<1>3. SumFunctionOnSet(f, 1..Len(es)) = 0
  BY <1>1, <1>2, ZeroSum
<1> QED BY <1>1, <1>3, TotalIs DEF Given, f

Up(e, h) == e.is = "up" /\ e.to = h
Down(e, h) == e.is = "down" /\ e.to = h
Report(e, h) == e.is = "completed" /\ e.to = h

\* The coming or the going of a link on h is still to reach the actor.
Pending(es, h) == \E i \in DOMAIN es : Up(es[i], h) \/ Down(es[i], h)

Downs(es, h) == \E i \in DOMAIN es : Down(es[i], h)

\* Every link that has come up on h goes down again.
UpsEnd(es, h) ==
    \A i \in DOMAIN es : Up(es[i], h) => \E j \in DOMAIN es : i < j /\ Down(es[j], h)

\* Link n, once up on h, is the last there.
UpIsLast(es, h, n) ==
    \A i \in DOMAIN es : Up(es[i], h) /\ es[i].link = n =>
        \A j \in DOMAIN es : i < j => ~Up(es[j], h) /\ ~Down(es[j], h)

\* Link n is not among those that come up.
NoUp(es, h, n) == \A i \in DOMAIN es : Up(es[i], h) => es[i].link # n

\* What is reported complete of h comes before the end of its link.
ReportsFirst(es, h) ==
    \A i, j \in DOMAIN es : Down(es[i], h) /\ i < j => ~Report(es[j], h)

\* What an event put on its way does to each of these.
LEMMA EventsGrow ==
    ASSUME NEW es \in Seq(Event), NEW e \in Event, NEW h, NEW all, all = Append(es, e)
    PROVE  /\ all \in Seq(Event)
           /\ Given(all, h) = Given(es, h) + Reports(e, h) /\ Given(es, h) \in Nat
           /\ Downs(all, h) <=> Downs(es, h) \/ Down(e, h)
           /\ Pending(all, h) <=> Pending(es, h) \/ Up(e, h) \/ Down(e, h)
           /\ Down(e, h) \/ (UpsEnd(es, h) /\ ~Up(e, h)) => UpsEnd(all, h)
           /\ \A n : UpIsLast(es, h, n) /\ ~Up(e, h) /\ ~Down(e, h) => UpIsLast(all, h, n)
           /\ \A n : NoUp(es, h, n) /\ UpIsLast(es, h, n) => UpIsLast(all, h, n)
           /\ \A n : NoUp(es, h, n) /\ (Up(e, h) => e.link # n) => NoUp(all, h, n)
           /\ ReportsFirst(es, h) /\ (~Report(e, h) \/ ~Downs(es, h)) => ReportsFirst(all, h)
<1> DEFINE n == Len(es)
<1>1. /\ all \in Seq(Event) /\ DOMAIN all = 1..(n + 1) /\ DOMAIN es = 1..n /\ n \in Nat
      /\ \A i \in 1..n : all[i] = es[i]
      /\ all[n + 1] = e
  OBVIOUS
<1>2. Given(all, h) = Given(es, h) + Reports(e, h) /\ Given(es, h) \in Nat
  BY GivenMore
<1> HIDE DEF n
<1>3. \A i \in 1..(n + 1) : i \in 1..n \/ i = n + 1
  BY <1>1
<1>4. n + 1 \in 1..(n + 1) /\ \A i \in 1..n : i \in 1..(n + 1) /\ i < n + 1 /\ ~(n + 1 < i)
  BY <1>1
<1>5. Downs(all, h) <=> Downs(es, h) \/ Down(e, h)
  BY <1>1, <1>3, <1>4 DEF Downs
<1>6. Pending(all, h) <=> Pending(es, h) \/ Up(e, h) \/ Down(e, h)
  BY <1>1, <1>3, <1>4 DEF Pending
<1>7. ASSUME Down(e, h) \/ (UpsEnd(es, h) /\ ~Up(e, h)) PROVE UpsEnd(all, h)
  <2> SUFFICES ASSUME NEW i \in 1..(n + 1), Up(all[i], h)
               PROVE  \E j \in 1..(n + 1) : i < j /\ Down(all[j], h)
    BY <1>1 DEF UpsEnd
  <2>1. CASE Down(e, h)
    <3>1. ~Up(e, h)
      BY <2>1 DEF Up, Down
    <3> QED BY <1>1, <1>3, <1>4, <2>1, <3>1
  <2>2. CASE UpsEnd(es, h) /\ ~Up(e, h)
    BY <1>1, <1>3, <1>4, <2>2 DEF UpsEnd
  <2> QED BY <1>7, <2>1, <2>2
<1>8. ASSUME NEW m, UpIsLast(es, h, m), ~Up(e, h), ~Down(e, h) PROVE UpIsLast(all, h, m)
  BY <1>1, <1>3, <1>4, <1>8 DEF UpIsLast
<1>9. ASSUME NEW m, NoUp(es, h, m) PROVE UpIsLast(all, h, m)
  <2>1. ASSUME NEW i \in 1..(n + 1), Up(all[i], h), all[i].link = m PROVE i = n + 1
    BY <1>1, <1>3, <1>9, <2>1 DEF NoUp
  <2>2. \A j \in 1..(n + 1) : ~(n + 1 < j)
    BY <1>1
  <2> QED BY <1>1, <2>1, <2>2 DEF UpIsLast
<1>10. ASSUME NEW m, NoUp(es, h, m), Up(e, h) => e.link # m PROVE NoUp(all, h, m)
  BY <1>1, <1>3, <1>10 DEF NoUp
<1>11. ASSUME ReportsFirst(es, h), ~Report(e, h) \/ ~Downs(es, h) PROVE ReportsFirst(all, h)
  <2> SUFFICES ASSUME NEW i \in 1..(n + 1), NEW j \in 1..(n + 1), Down(all[i], h), i < j,
                      Report(all[j], h)
               PROVE  FALSE
    BY <1>1 DEF ReportsFirst
  <2>1. i \in 1..n
    BY <1>1
  <2>2. Downs(es, h) /\ Down(es[i], h)
    BY <1>1, <2>1 DEF Downs
  <2>3. j \in 1..n
    BY <1>1, <1>3, <1>11, <2>2
  <2> QED BY <1>1, <1>11, <2>1, <2>2, <2>3 DEF ReportsFirst
<1> QED BY <1>1, <1>2, <1>5, <1>6, <1>7, <1>8, <1>9, <1>10, <1>11

\* What taking the first event does to each of these.
LEMMA EventsShrink ==
    ASSUME NEW es \in Seq(Event), es # <<>>, NEW h,
           NEW e, e = Head(es), NEW rest, rest = Tail(es)
    PROVE  /\ rest \in Seq(Event) /\ e \in Event
           /\ Given(es, h) = Reports(e, h) + Given(rest, h)
           /\ Given(rest, h) \in Nat /\ Reports(e, h) \in Nat
           /\ Downs(es, h) <=> Downs(rest, h) \/ Down(e, h)
           /\ Pending(es, h) <=> Pending(rest, h) \/ Up(e, h) \/ Down(e, h)
           /\ UpsEnd(es, h) => UpsEnd(rest, h) /\ (Up(e, h) => Downs(rest, h))
           /\ \A n : UpIsLast(es, h, n) =>
                UpIsLast(rest, h, n) /\ (Up(e, h) /\ e.link = n => ~Pending(rest, h))
           /\ \A n : NoUp(es, h, n) => NoUp(rest, h, n) /\ (Up(e, h) => e.link # n)
           /\ ReportsFirst(es, h) =>
                ReportsFirst(rest, h) /\ (Down(e, h) => Given(rest, h) = 0)
<1> DEFINE n == Len(rest)
<1>1. /\ rest \in Seq(Event) /\ DOMAIN rest = 1..n /\ DOMAIN es = 1..(n + 1) /\ n \in Nat
      /\ \A i \in 1..n : rest[i] = es[i + 1]
      /\ es[1] = e /\ e \in Event
  OBVIOUS
<1>2. Given(es, h) = Reports(e, h) + Given(rest, h) /\ Given(rest, h) \in Nat
      /\ Reports(e, h) \in Nat
  BY GivenFewer
<1> HIDE DEF n
<1>3. \A i \in 1..(n + 1) : i = 1 \/ (i - 1 \in 1..n /\ rest[i - 1] = es[i])
  BY <1>1
<1>4. 1 \in 1..(n + 1) /\ \A i \in 1..n : i + 1 \in 1..(n + 1) /\ 1 < i + 1
  BY <1>1
<1>5. Downs(es, h) <=> Downs(rest, h) \/ Down(e, h)
  BY <1>1, <1>3, <1>4 DEF Downs
<1>6. Pending(es, h) <=> Pending(rest, h) \/ Up(e, h) \/ Down(e, h)
  BY <1>1, <1>3, <1>4 DEF Pending
<1>7. ASSUME UpsEnd(es, h) PROVE UpsEnd(rest, h) /\ (Up(e, h) => Downs(rest, h))
  <2>1. ASSUME NEW i \in 1..(n + 1), Up(es[i], h)
        PROVE  \E j \in 1..n : i < j + 1 /\ Down(rest[j], h)
    <3>1. PICK j \in 1..(n + 1) : i < j /\ Down(es[j], h)
      BY <1>1, <1>7, <2>1 DEF UpsEnd
    <3>2. j - 1 \in 1..n /\ rest[j - 1] = es[j] /\ i < (j - 1) + 1
      BY <1>1, <1>3, <3>1
    <3> QED BY <3>1, <3>2
  <2>2. UpsEnd(rest, h)
    <3> SUFFICES ASSUME NEW i \in 1..n, Up(rest[i], h)
                 PROVE  \E j \in 1..n : i < j /\ Down(rest[j], h)
      BY <1>1 DEF UpsEnd
    <3>1. i + 1 \in 1..(n + 1) /\ Up(es[i + 1], h)
      BY <1>1
    <3>2. PICK j \in 1..n : i + 1 < j + 1 /\ Down(rest[j], h)
      BY <2>1, <3>1
    <3>3. i < j
      BY <1>1, <3>2
    <3> QED BY <3>2, <3>3
  <2>3. ASSUME Up(e, h) PROVE Downs(rest, h)
    <3>1. \E j \in 1..n : 1 < j + 1 /\ Down(rest[j], h)
      BY <1>1, <1>4, <2>1, <2>3
    <3> QED BY <1>1, <3>1 DEF Downs
  <2> QED BY <2>2, <2>3
<1>8. ASSUME NEW m, UpIsLast(es, h, m)
      PROVE  UpIsLast(rest, h, m) /\ (Up(e, h) /\ e.link = m => ~Pending(rest, h))
  <2>1. \A i, j \in 1..(n + 1) : Up(es[i], h) /\ es[i].link = m /\ i < j
                                    => ~Up(es[j], h) /\ ~Down(es[j], h)
    BY <1>1, <1>8 DEF UpIsLast
  <2>2. UpIsLast(rest, h, m)
    <3> SUFFICES ASSUME NEW i \in 1..n, Up(rest[i], h), rest[i].link = m,
                        NEW j \in 1..n, i < j
                 PROVE  ~Up(rest[j], h) /\ ~Down(rest[j], h)
      BY <1>1 DEF UpIsLast
    <3>1. i + 1 \in 1..(n + 1) /\ j + 1 \in 1..(n + 1) /\ i + 1 < j + 1
      BY <1>1
    <3> QED BY <1>1, <2>1, <3>1
  <2>3. ASSUME Up(e, h), e.link = m PROVE ~Pending(rest, h)
    <3> SUFFICES ASSUME NEW j \in 1..n PROVE ~Up(rest[j], h) /\ ~Down(rest[j], h)
      BY <1>1 DEF Pending
    <3>1. j + 1 \in 1..(n + 1) /\ 1 < j + 1 /\ rest[j] = es[j + 1] /\ 1 \in 1..(n + 1)
      BY <1>1
    <3> QED BY <1>1, <2>1, <2>3, <3>1
  <2> QED BY <2>2, <2>3
<1>9. ASSUME NEW m, NoUp(es, h, m) PROVE NoUp(rest, h, m) /\ (Up(e, h) => e.link # m)
  <2>1. NoUp(rest, h, m)
    BY <1>1, <1>4, <1>9 DEF NoUp
  <2> QED BY <1>1, <1>4, <1>9, <2>1 DEF NoUp
<1>10. ASSUME ReportsFirst(es, h)
       PROVE  ReportsFirst(rest, h) /\ (Down(e, h) => Given(rest, h) = 0)
  <2>1. \A i, j \in 1..(n + 1) : Down(es[i], h) /\ i < j => ~Report(es[j], h)
    BY <1>1, <1>10 DEF ReportsFirst
  <2>2. ReportsFirst(rest, h)
    <3> SUFFICES ASSUME NEW i \in 1..n, NEW j \in 1..n, Down(rest[i], h), i < j
                 PROVE  ~Report(rest[j], h)
      BY <1>1 DEF ReportsFirst
    <3>1. i + 1 \in 1..(n + 1) /\ j + 1 \in 1..(n + 1) /\ i + 1 < j + 1
      BY <1>1
    <3> QED BY <1>1, <2>1, <3>1
  <2>3. ASSUME Down(e, h) PROVE Given(rest, h) = 0
    <3>1. ASSUME NEW j \in 1..n PROVE ~Report(rest[j], h)
      <4>1. j + 1 \in 1..(n + 1) /\ 1 < j + 1 /\ rest[j] = es[j + 1] /\ 1 \in 1..(n + 1)
        BY <1>1
      <4> QED BY <1>1, <2>1, <2>3, <4>1
    <3>2. \A j \in DOMAIN rest : ~(rest[j].is = "completed" /\ rest[j].to = h)
      BY <1>1, <3>1 DEF Report
    <3> QED BY <1>1, <3>2, NothingGiven
  <2> QED BY <2>2, <2>3
<1> QED BY <1>1, <1>2, <1>5, <1>6, <1>7, <1>8, <1>9, <1>10

-----------------------------------------------------------------------------
(* The invariant of the writer.                                            *)

WJob == [to : Handles, link : Nat \ {0}, left : 1..MaxFragments]

Working == writer.at \in {"claim", "parked", "send"}

\* The PDUs that wait and the one at hand.
Jobs == {jobs[i] : i \in DOMAIN jobs} \cup (IF Working THEN {writer.job} ELSE {})

CreditTypes ==
    /\ credits \in [capacity : {1, Buffers}, outstanding : Counts, total : Nat]
    /\ credits.total = Total(credits.outstanding) /\ credits.total <= credits.capacity

QueueTypes ==
    /\ jobs \in Seq(WJob)
    /\ writer \in [at : {"idle", "claim", "parked", "send", "gone"},
                   job : [to : Handles, link : Nat, left : Nat]]
    /\ IF Working THEN writer.job \in WJob ELSE writer.job = NoJob
    /\ \A j \in Jobs : j.link <= ups
    /\ pdus \in 0..MaxPdus

LinkTypes ==
    /\ links \in [Handles -> 0..ups] /\ link \in [Handles -> 0..ups]
    /\ events \in Seq(Event) /\ \A h \in Handles : \A n : n \notin 1..ups => NoUp(events, h, n)
    /\ ups \in 0..MaxLinks
    /\ held \in Counts
    /\ dead \subseteq Handles /\ permit \in BOOLEAN /\ crossed \in BOOLEAN

\* A handle without a link: every link it had has ended, or its end is on the way.
UpsGoDown(h) == link[h] = 0 => UpsEnd(events, h)

NewestIsLast(h) == UpIsLast(events, h, link[h])

\* While the actor has yet to hear of the link on a handle, nothing was queued for it.
Unheard(h) ==
    Pending(events, h) /\ link[h] # 0 =>
        links[h] # link[h] /\ \A j \in Jobs : j.to = h => j.link # link[h]

\* Once the actor has heard of the end of a handle's link, no credit is out for it.
Settled(h) ==
    link[h] = 0 /\ ~Downs(events, h) =>
        /\ credits.outstanding[h] = 0 /\ links[h] = 0
        /\ h \in dead \/ \A j \in Jobs : j.to # h

\* While the end of a link is on its way, the controller holds nothing for the handle, nor
\* will it report anything, unless a fragment went out on another link than its own.
Flushed(h) == ~crossed => ReportsFirst(events, h) /\ (Downs(events, h) => held[h] = 0)

\* The fragment the writer hands to the link it was queued for.
Handing(h) ==
    IF writer.at = "send" /\ writer.job.to = h /\ writer.job.link = link[h] THEN 1 ELSE 0

\* The other way round from NoCreditLeaks: all that the controller has is paid for.
PaidFor(h) == ~crossed => held[h] + Given(events, h) + Handing(h) <= credits.outstanding[h]

NoLeak(h) ==
    \/ Downs(events, h)
    \/ writer.at = "gone"
    \/ credits.outstanding[h] <= held[h] + Given(events, h) + InHand(h)

PerHandle(h) ==
    /\ UpsGoDown(h) /\ NewestIsLast(h) /\ Unheard(h) /\ Settled(h)
    /\ Flushed(h) /\ PaidFor(h) /\ NoLeak(h)

WriterInv == CreditTypes /\ QueueTypes /\ LinkTypes /\ \A h \in Handles : PerHandle(h)

\* Every PDU of the queue was queued for a link that has come up.
LEMMA JobsAre ==
    ASSUME WriterInv
    PROVE  \A j \in Jobs : j \in WJob /\ j.link \in Nat \ {0} /\ j.link <= ups
<1>1. \A j \in Jobs : j.link <= ups
  BY DEF WriterInv, QueueTypes
<1>2. ASSUME NEW j \in Jobs PROVE j \in WJob
  <2>1. CASE \E i \in DOMAIN jobs : j = jobs[i]
    <3>1. jobs \in Seq(WJob)
      BY DEF WriterInv, QueueTypes
    <3> QED BY <2>1, <3>1
  <2>2. CASE Working /\ j = writer.job
    BY <2>2 DEF WriterInv, QueueTypes
  <2> QED BY <2>1, <2>2 DEF Jobs
<1>3. \A j \in WJob : j.link \in Nat \ {0}
  BY DEF WJob
<1> QED BY <1>1, <1>2, <1>3

\* A link comes up: nothing was queued for it yet.
LEMMA Connecting ==
    ASSUME WriterInv, NEW c \in Handles, Connect(c) PROVE WriterInv'
<1> DEFINE e == [is |-> "up", to |-> c, link |-> ups + 1]
<1>1. /\ link[c] = 0 /\ ups < MaxLinks /\ ups' = ups + 1
      /\ link' = [link EXCEPT ![c] = ups + 1]
      /\ events' = Append(events, e)
      /\ UNCHANGED <<credits, dead, permit, links, jobs, writer, pdus, held, crossed>>
  BY DEF Connect, host
<1>2. /\ events \in Seq(Event) /\ ups \in Nat /\ MaxLinks \in Nat
      /\ link \in [Handles -> 0..ups] /\ links \in [Handles -> 0..ups]
      /\ \A h \in Handles : \A n : n \notin 1..ups => NoUp(events, h, n)
  BY WriterAssumption DEF WriterInv, LinkTypes
<1>3. e \in Event /\ ~Down(e, c) /\ e.link = ups + 1
      /\ (\A h : Reports(e, h) = 0 /\ ~Report(e, h))
      /\ (\A h : h # c => ~Up(e, h) /\ ~Down(e, h))
  BY <1>2 DEF Event, Up, Down, Report, Reports
<1> HIDE DEF e
<1>4. CreditTypes'
  BY <1>1 DEF WriterInv, CreditTypes
<1>5. Jobs' = Jobs
  BY <1>1 DEF Jobs, Working
<1>6. QueueTypes'
  <2>1. \A j \in Jobs : j.link <= ups'
    <3>1. \A j \in Jobs : j.link \in Nat /\ j.link <= ups
      BY JobsAre
    <3> QED BY <1>1, <1>2, <3>1
  <2> QED BY <1>1, <1>5, <2>1 DEF WriterInv, QueueTypes, Working
<1>7. LinkTypes'
  <2>1. links' \in [Handles -> 0..ups'] /\ link' \in [Handles -> 0..ups']
    BY <1>1, <1>2
  <2>2. events' \in Seq(Event)
    BY <1>1, <1>2, <1>3
  <2>3. ASSUME NEW h \in Handles, NEW n, n \notin 1..ups' PROVE NoUp(events', h, n)
    <3>1. n \notin 1..ups /\ n # e.link
      BY <1>1, <1>2, <1>3, <2>3
    <3> QED BY <1>1, <1>2, <1>3, <3>1, EventsGrow
  <2>4. ups' \in 0..MaxLinks
    BY <1>1, <1>2
  <2> QED BY <1>1, <2>1, <2>2, <2>3, <2>4 DEF WriterInv, LinkTypes
<1>8. ASSUME NEW h \in Handles PROVE PerHandle(h)'
  <2>1. /\ Given(events', h) = Given(events, h) /\ Given(events, h) \in Nat
        /\ Downs(events', h) <=> Downs(events, h)
        /\ h # c => /\ Pending(events', h) <=> Pending(events, h)
                    /\ UpsEnd(events, h) => UpsEnd(events', h)
                    /\ \A n : UpIsLast(events, h, n) => UpIsLast(events', h, n)
        /\ ReportsFirst(events, h) => ReportsFirst(events', h)
    <3>1. ~Down(e, h) /\ Reports(e, h) = 0 /\ ~Report(e, h)
      BY <1>3
    <3>2. /\ Given(events', h) = Given(events, h) + Reports(e, h) /\ Given(events, h) \in Nat
          /\ Downs(events', h) <=> Downs(events, h) \/ Down(e, h)
          /\ Pending(events', h) <=> Pending(events, h) \/ Up(e, h) \/ Down(e, h)
          /\ Down(e, h) \/ (UpsEnd(events, h) /\ ~Up(e, h)) => UpsEnd(events', h)
          /\ \A n : UpIsLast(events, h, n) /\ ~Up(e, h) /\ ~Down(e, h) => UpIsLast(events', h, n)
          /\ ReportsFirst(events, h) /\ (~Report(e, h) \/ ~Downs(events, h))
                => ReportsFirst(events', h)
      BY <1>1, <1>2, <1>3, EventsGrow
    <3> QED BY <1>3, <3>1, <3>2
  <2>2. PerHandle(h)
    BY DEF WriterInv
  <2>3. CASE h # c
    <3>1. link'[h] = link[h]
      BY <1>1, <1>2, <2>3
    <3>2. UpsGoDown(h)' /\ NewestIsLast(h)' /\ Unheard(h)' /\ Settled(h)' /\ Flushed(h)'
      BY <1>1, <1>5, <2>1, <2>2, <2>3, <3>1
         DEF PerHandle, UpsGoDown, NewestIsLast, Unheard, Settled, Flushed
    <3>3. PaidFor(h)' /\ NoLeak(h)'
      BY <1>1, <2>1, <2>2, <3>1 DEF PerHandle, PaidFor, NoLeak, Handing, InHand
    <3> QED BY <3>2, <3>3 DEF PerHandle
  <2>4. CASE h = c
    <3>1. link'[c] = ups + 1 /\ link'[c] # 0 /\ link[c] = 0
      BY <1>1, <1>2
    <3>2. NewestIsLast(c)'
      <4>1. NoUp(events, c, ups + 1)
        <5>1. ups + 1 \notin 1..ups
          BY <1>2
        <5> QED BY <1>2, <5>1
      <4>2. UpIsLast(events, c, ups + 1)
        BY <4>1 DEF NoUp, UpIsLast
      <4>3. UpIsLast(events', c, ups + 1)
        BY <1>1, <1>2, <1>3, <4>1, <4>2, EventsGrow
      <4> QED BY <3>1, <4>3 DEF NewestIsLast
    <3>3. Unheard(c)'
      <4>1. \A j \in Jobs : j.link \in Nat /\ j.link <= ups
        BY JobsAre
      <4>2. links[c] \in Nat /\ links[c] <= ups
        BY <1>2
      <4> QED BY <1>1, <1>2, <1>5, <3>1, <4>1, <4>2 DEF Unheard
    <3>4. UpsGoDown(c)' /\ Settled(c)'
      BY <3>1 DEF UpsGoDown, Settled
    <3>5. Flushed(c)'
      BY <1>1, <2>1, <2>2, <2>4 DEF PerHandle, Flushed
    <3>6. Handing(c) = 0 /\ Handing(c)' = 0
      <4>1. writer.at = "send" => writer.job.link \in Nat \ {0} /\ writer.job.link <= ups
        BY DEF WriterInv, QueueTypes, Working, Jobs, WJob
      <4> QED BY <1>1, <1>2, <3>1, <4>1 DEF Handing
    <3>7. PaidFor(c)' /\ NoLeak(c)'
      BY <1>1, <2>1, <2>2, <2>4, <3>6 DEF PerHandle, PaidFor, NoLeak, InHand
    <3> QED BY <2>4, <3>2, <3>3, <3>4, <3>5, <3>7 DEF PerHandle
  <2> QED BY <2>3, <2>4
<1> QED BY <1>4, <1>6, <1>7, <1>8 DEF WriterInv

\* A handle nothing happens to.
LEMMA Elsewhere ==
    ASSUME NEW h, PerHandle(h),
           link'[h] = link[h], links'[h] = links[h], held'[h] = held[h],
           credits'.outstanding[h] = credits.outstanding[h],
           Given(events', h) = Given(events, h), Downs(events', h) <=> Downs(events, h),
           Pending(events', h) => Pending(events, h),
           UpsEnd(events, h) => UpsEnd(events', h),
           UpIsLast(events, h, link[h]) => UpIsLast(events', h, link[h]),
           ReportsFirst(events, h) => ReportsFirst(events', h),
           \A k \in Jobs' : k.to = h => \E j \in Jobs : j.to = h /\ j.link = k.link,
           h \in dead => h \in dead', crossed => crossed',
           Handing(h)' = Handing(h), InHand(h)' = InHand(h),
           writer.at = "gone" => writer'.at = "gone"
    PROVE  PerHandle(h)'
<1>1. UpsGoDown(h)' /\ NewestIsLast(h)' /\ Flushed(h)'
  BY DEF PerHandle, UpsGoDown, NewestIsLast, Flushed
<1>2. Unheard(h)' /\ Settled(h)'
  BY DEF PerHandle, Unheard, Settled
<1>3. PaidFor(h)' /\ NoLeak(h)'
  BY DEF PerHandle, PaidFor, NoLeak
<1> QED BY <1>1, <1>2, <1>3 DEF PerHandle

\* A handle that the event put on its way is not about.
LEMMA OthersEvent ==
    ASSUME WriterInv, NEW e \in Event, events' = Append(events, e), NEW h, e.to # h
    PROVE  /\ Given(events', h) = Given(events, h) /\ Given(events, h) \in Nat
           /\ Downs(events', h) <=> Downs(events, h)
           /\ Pending(events', h) <=> Pending(events, h)
           /\ UpsEnd(events, h) => UpsEnd(events', h)
           /\ \A n : UpIsLast(events, h, n) => UpIsLast(events', h, n)
           /\ ReportsFirst(events, h) => ReportsFirst(events', h)
<1>1. events \in Seq(Event)
  BY DEF WriterInv, LinkTypes
<1>2. ~Up(e, h) /\ ~Down(e, h) /\ ~Report(e, h) /\ Reports(e, h) = 0
  BY DEF Up, Down, Report, Reports
<1>3. /\ Given(events', h) = Given(events, h) + Reports(e, h) /\ Given(events, h) \in Nat
      /\ Downs(events', h) <=> Downs(events, h) \/ Down(e, h)
      /\ Pending(events', h) <=> Pending(events, h) \/ Up(e, h) \/ Down(e, h)
      /\ Down(e, h) \/ (UpsEnd(events, h) /\ ~Up(e, h)) => UpsEnd(events', h)
      /\ \A n : UpIsLast(events, h, n) /\ ~Up(e, h) /\ ~Down(e, h) => UpIsLast(events', h, n)
      /\ ReportsFirst(events, h) /\ (~Report(e, h) \/ ~Downs(events, h))
            => ReportsFirst(events', h)
  BY <1>1, EventsGrow
<1> QED BY <1>2, <1>3

\* A link drops: from now on the end of it is on the way.
LEMMA Disconnecting ==
    ASSUME WriterInv, NEW c \in Handles, Disconnect(c) PROVE WriterInv'
<1> DEFINE e == [is |-> "down", to |-> c, link |-> link[c]]
<1>1. /\ link[c] # 0 /\ link' = [link EXCEPT ![c] = 0] /\ held' = [held EXCEPT ![c] = 0]
      /\ events' = Append(events, e)
      /\ UNCHANGED <<credits, dead, permit, links, jobs, writer, pdus, ups, crossed>>
  BY DEF Disconnect, host
<1>2. /\ events \in Seq(Event) /\ ups \in Nat /\ held \in Counts
      /\ link \in [Handles -> 0..ups] /\ links \in [Handles -> 0..ups]
      /\ \A h \in Handles : \A n : n \notin 1..ups => NoUp(events, h, n)
  BY DEF WriterInv, LinkTypes
<1>3. e \in Event /\ Down(e, c) /\ ~Report(e, c) /\ Reports(e, c) = 0 /\ e.to = c
      /\ \A h : ~Up(e, h)
  BY <1>2 DEF Event, Up, Down, Report, Reports
<1> HIDE DEF e
<1>4. CreditTypes'
  BY <1>1 DEF WriterInv, CreditTypes
<1>5. Jobs' = Jobs
  BY <1>1 DEF Jobs, Working
<1>6. QueueTypes'
  BY <1>1, <1>5 DEF WriterInv, QueueTypes, Working
<1>7. LinkTypes'
  <2>1. link' \in [Handles -> 0..ups] /\ held' \in Counts
    BY <1>1, <1>2 DEF Counts
  <2>2. events' \in Seq(Event)
    BY <1>1, <1>2, <1>3
  <2>3. ASSUME NEW h \in Handles, NEW n, n \notin 1..ups' PROVE NoUp(events', h, n)
    <3>1. n \notin 1..ups /\ ~Up(e, h)
      BY <1>1, <1>3, <2>3
    <3> QED BY <1>1, <1>2, <1>3, <3>1, EventsGrow
  <2> QED BY <1>1, <2>1, <2>2, <2>3 DEF WriterInv, LinkTypes
<1>8. ASSUME NEW h \in Handles PROVE PerHandle(h)'
  <2>1. PerHandle(h)
    BY DEF WriterInv
  <2>2. CASE h # c
    <3>1. link'[h] = link[h] /\ held'[h] = held[h]
      BY <1>1, <1>2, <2>2 DEF Counts
    <3>2. Handing(h)' = Handing(h) /\ InHand(h)' = InHand(h)
      BY <1>1, <3>1 DEF Handing, InHand
    <3>3. /\ Given(events', h) = Given(events, h) /\ Given(events, h) \in Nat
          /\ Downs(events', h) <=> Downs(events, h)
          /\ Pending(events', h) <=> Pending(events, h)
          /\ UpsEnd(events, h) => UpsEnd(events', h)
          /\ \A n : UpIsLast(events, h, n) => UpIsLast(events', h, n)
          /\ ReportsFirst(events, h) => ReportsFirst(events', h)
      BY <1>1, <1>3, <2>2, OthersEvent
    <3> QED BY <1>1, <1>5, <2>1, <3>1, <3>2, <3>3, Elsewhere
  <2>3. CASE h = c
    <3>1. link'[c] = 0 /\ held'[c] = 0 /\ held[c] \in Nat
      BY <1>1, <1>2 DEF Counts
    <3>2. /\ Given(events', c) = Given(events, c) /\ Given(events, c) \in Nat
          /\ Downs(events', c)
          /\ UpsEnd(events', c)
          /\ ReportsFirst(events, c) => ReportsFirst(events', c)
      <4>1. /\ Given(events', c) = Given(events, c) + Reports(e, c) /\ Given(events, c) \in Nat
            /\ Downs(events', c) <=> Downs(events, c) \/ Down(e, c)
            /\ Down(e, c) \/ (UpsEnd(events, c) /\ ~Up(e, c)) => UpsEnd(events', c)
            /\ ReportsFirst(events, c) /\ (~Report(e, c) \/ ~Downs(events, c))
                  => ReportsFirst(events', c)
        BY <1>1, <1>2, <1>3, EventsGrow
      <4> QED BY <1>3, <4>1
    <3>3. UpsGoDown(c)' /\ Unheard(c)' /\ Settled(c)' /\ NoLeak(c)'
      BY <3>1, <3>2 DEF UpsGoDown, Unheard, Settled, NoLeak
    <3>4. NewestIsLast(c)'
      <4>1. NoUp(events, c, 0)
        <5>1. 0 \notin 1..ups
          BY <1>2
        <5> QED BY <1>2, <5>1
      <4>2. NoUp(events', c, 0)
        BY <1>1, <1>2, <1>3, <4>1, EventsGrow
      <4> QED BY <3>1, <4>2 DEF NewestIsLast, NoUp, UpIsLast
    <3>5. Flushed(c)'
      BY <1>1, <2>1, <2>3, <3>1, <3>2 DEF PerHandle, Flushed
    <3>6. PaidFor(c)'
      <4>1. Handing(c) \in {0, 1} /\ Handing(c)' = 0
        <5>1. writer.at = "send" => writer.job.link \in Nat \ {0}
          BY DEF WriterInv, QueueTypes, Working, WJob
        <5> QED BY <1>1, <3>1, <5>1 DEF Handing
      <4>2. credits.outstanding[c] \in Nat
        BY DEF WriterInv, CreditTypes, Counts
      <4> QED BY <1>1, <2>1, <2>3, <3>1, <3>2, <4>1, <4>2 DEF PerHandle, PaidFor
    <3> QED BY <2>3, <3>3, <3>4, <3>5, <3>6 DEF PerHandle
  <2> QED BY <2>2, <2>3
<1> QED BY <1>4, <1>6, <1>7, <1>8 DEF WriterInv

\* What the controller held is now on its way to be given back.
LEMMA Completing ==
    ASSUME WriterInv, NEW c \in Handles, Complete(c) PROVE WriterInv'
<1> DEFINE e == [is |-> "completed", to |-> c, link |-> held[c]]
<1>1. /\ held[c] > 0 /\ held' = [held EXCEPT ![c] = 0]
      /\ events' = Append(events, e)
      /\ UNCHANGED <<credits, dead, permit, links, jobs, writer, pdus, link, ups, crossed>>
  BY DEF Complete, host
<1>2. /\ events \in Seq(Event) /\ ups \in Nat /\ held \in Counts
      /\ link \in [Handles -> 0..ups] /\ links \in [Handles -> 0..ups]
      /\ \A h \in Handles : \A n : n \notin 1..ups => NoUp(events, h, n)
  BY DEF WriterInv, LinkTypes
<1>3. e \in Event /\ ~Down(e, c) /\ Report(e, c) /\ Reports(e, c) = held[c] /\ e.to = c
      /\ \A h : ~Up(e, h)
  BY <1>2 DEF Event, Up, Down, Report, Reports, Counts
<1> HIDE DEF e
<1>4. CreditTypes'
  BY <1>1 DEF WriterInv, CreditTypes
<1>5. Jobs' = Jobs
  BY <1>1 DEF Jobs, Working
<1>6. QueueTypes'
  BY <1>1, <1>5 DEF WriterInv, QueueTypes, Working
<1>7. LinkTypes'
  <2>1. held' \in Counts
    BY <1>1, <1>2 DEF Counts
  <2>2. events' \in Seq(Event)
    BY <1>1, <1>2, <1>3
  <2>3. ASSUME NEW h \in Handles, NEW n, n \notin 1..ups' PROVE NoUp(events', h, n)
    <3>1. n \notin 1..ups /\ ~Up(e, h)
      BY <1>1, <1>3, <2>3
    <3> QED BY <1>1, <1>2, <1>3, <3>1, EventsGrow
  <2> QED BY <1>1, <2>1, <2>2, <2>3 DEF WriterInv, LinkTypes
<1>8. ASSUME NEW h \in Handles PROVE PerHandle(h)'
  <2>1. PerHandle(h)
    BY DEF WriterInv
  <2>2. Handing(h)' = Handing(h) /\ InHand(h)' = InHand(h)
    BY <1>1 DEF Handing, InHand
  <2>3. CASE h # c
    <3>1. held'[h] = held[h]
      BY <1>1, <1>2, <2>3 DEF Counts
    <3>3. /\ Given(events', h) = Given(events, h) /\ Given(events, h) \in Nat
          /\ Downs(events', h) <=> Downs(events, h)
          /\ Pending(events', h) <=> Pending(events, h)
          /\ UpsEnd(events, h) => UpsEnd(events', h)
          /\ \A n : UpIsLast(events, h, n) => UpIsLast(events', h, n)
          /\ ReportsFirst(events, h) => ReportsFirst(events', h)
      BY <1>1, <1>3, <2>3, OthersEvent
    <3> QED BY <1>1, <1>5, <2>1, <2>2, <3>1, <3>3, Elsewhere
  <2>4. CASE h = c
    <3>1. held'[c] = 0 /\ held[c] \in Nat /\ held[c] # 0
      BY <1>1, <1>2 DEF Counts
    <3>2. /\ Given(events', c) = Given(events, c) + held[c] /\ Given(events, c) \in Nat
          /\ Downs(events', c) <=> Downs(events, c)
          /\ Pending(events', c) <=> Pending(events, c)
          /\ UpsEnd(events, c) => UpsEnd(events', c)
          /\ \A n : UpIsLast(events, c, n) => UpIsLast(events', c, n)
          /\ ReportsFirst(events, c) /\ ~Downs(events, c) => ReportsFirst(events', c)
      <4>1. /\ Given(events', c) = Given(events, c) + Reports(e, c) /\ Given(events, c) \in Nat
            /\ Downs(events', c) <=> Downs(events, c) \/ Down(e, c)
            /\ Pending(events', c) <=> Pending(events, c) \/ Up(e, c) \/ Down(e, c)
            /\ Down(e, c) \/ (UpsEnd(events, c) /\ ~Up(e, c)) => UpsEnd(events', c)
            /\ \A n : UpIsLast(events, c, n) /\ ~Up(e, c) /\ ~Down(e, c)
                        => UpIsLast(events', c, n)
            /\ ReportsFirst(events, c) /\ (~Report(e, c) \/ ~Downs(events, c))
                  => ReportsFirst(events', c)
        BY <1>1, <1>2, <1>3, EventsGrow
      <4> QED BY <1>3, <4>1
    <3>3. UpsGoDown(c)' /\ NewestIsLast(c)' /\ Unheard(c)' /\ Settled(c)'
      BY <1>1, <1>5, <2>1, <2>4, <3>2
         DEF PerHandle, UpsGoDown, NewestIsLast, Unheard, Settled
    <3>4. Flushed(c)'
      BY <1>1, <2>1, <2>4, <3>1, <3>2 DEF PerHandle, Flushed
    <3>5. credits.outstanding[c] \in Nat /\ Handing(c) \in Nat /\ InHand(c) \in Nat
      BY DEF WriterInv, CreditTypes, Counts, Handing, InHand
    <3>6. PaidFor(c)'
      BY <1>1, <2>1, <2>2, <2>4, <3>1, <3>2, <3>5 DEF PerHandle, PaidFor
    <3>7. NoLeak(c)'
      BY <1>1, <2>1, <2>2, <2>4, <3>1, <3>2, <3>5 DEF PerHandle, NoLeak
    <3> QED BY <2>4, <3>3, <3>4, <3>6, <3>7 DEF PerHandle
  <2> QED BY <2>3, <2>4
<1> QED BY <1>4, <1>6, <1>7, <1>8 DEF WriterInv

\* The pool only grows, so no more is out than it has.
LEMMA Configuring == ASSUME WriterInv, Configure PROVE WriterInv'
<1>1. /\ credits' = [credits EXCEPT !.capacity = Buffers] /\ permit' = TRUE
      /\ UNCHANGED <<dead, links, jobs, writer, pdus, link, events, ups, held, crossed>>
  BY DEF Configure, controller
<1>2. /\ credits \in [capacity : {1, Buffers}, outstanding : Counts, total : Nat]
      /\ credits.total <= credits.capacity /\ Buffers \in Nat \ {0}
  BY WriterAssumption DEF WriterInv, CreditTypes
<1>3. CreditTypes'
  <2>1. credits'.total <= credits'.capacity
    BY <1>1, <1>2
  <2> QED BY <1>1, <1>2, <2>1 DEF WriterInv, CreditTypes
<1>4. Jobs' = Jobs
  BY <1>1 DEF Jobs, Working
<1>5. QueueTypes' /\ LinkTypes'
  BY <1>1, <1>4 DEF WriterInv, QueueTypes, LinkTypes, Working
<1>6. ASSUME NEW h \in Handles PROVE PerHandle(h)'
  <2>1. PerHandle(h)
    BY DEF WriterInv
  <2>2. Handing(h)' = Handing(h) /\ InHand(h)' = InHand(h)
    BY <1>1 DEF Handing, InHand
  <2>3. credits'.outstanding = credits.outstanding
    BY <1>1, <1>2
  <2> QED BY <1>1, <1>4, <2>1, <2>2, <2>3, Elsewhere
<1> QED BY <1>3, <1>5, <1>6 DEF WriterInv

\* The actor queues for a link it has heard of, so none is queued for one it has not.
LEMMA Queueing ==
    ASSUME WriterInv, NEW c \in Handles, NEW n \in 1..MaxFragments, Queue(c, n)
    PROVE  WriterInv'
<1> DEFINE k == [to |-> c, link |-> links[c], left |-> n]
<1>1. /\ links[c] # 0 /\ pdus < MaxPdus /\ pdus' = pdus + 1
      /\ jobs' = IF writer.at = "gone" THEN jobs ELSE Append(jobs, k)
      /\ UNCHANGED <<credits, dead, permit, links, writer, link, events, ups, held, crossed>>
  BY DEF Queue, host, controller
<1>2. /\ jobs \in Seq(WJob) /\ ups \in Nat /\ links \in [Handles -> 0..ups]
      /\ pdus \in 0..MaxPdus /\ MaxPdus \in Nat
  BY WriterAssumption DEF WriterInv, LinkTypes, QueueTypes
<1>3. k \in WJob /\ k.to = c /\ k.link = links[c] /\ k.link <= ups
  BY <1>1, <1>2 DEF WJob
<1> HIDE DEF k
<1>4. jobs' \in Seq(WJob) /\ \A j \in Jobs' : j \in Jobs \/ j = k
  <2>1. CASE writer.at = "gone"
    BY <1>1, <1>2, <2>1 DEF Jobs, Working
  <2>2. CASE writer.at # "gone"
    <3>1. jobs' = Append(jobs, k)
      BY <1>1, <2>2
    <3>2. /\ jobs' \in Seq(WJob) /\ DOMAIN jobs' = 1..(Len(jobs) + 1) /\ Len(jobs) \in Nat
          /\ DOMAIN jobs = 1..Len(jobs)
          /\ jobs'[Len(jobs) + 1] = k /\ \A i \in 1..Len(jobs) : jobs'[i] = jobs[i]
      BY <1>2, <1>3, <3>1
    <3>3. ASSUME NEW i \in DOMAIN jobs'
          PROVE  jobs'[i] = k \/ \E q \in DOMAIN jobs : jobs'[i] = jobs[q]
      <4>1. i \in 1..Len(jobs) \/ i = Len(jobs) + 1
        BY <3>2
      <4> QED BY <3>2, <4>1
    <3> QED BY <1>1, <3>2, <3>3 DEF Jobs, Working
  <2> QED BY <2>1, <2>2
<1>5. CreditTypes' /\ LinkTypes'
  BY <1>1 DEF WriterInv, CreditTypes, LinkTypes
<1>6. QueueTypes'
  <2>1. pdus' \in 0..MaxPdus
    BY <1>1, <1>2
  <2>2. \A j \in Jobs' : j.link <= ups
    BY <1>3, <1>4, JobsAre
  <2> QED BY <1>1, <1>4, <2>1, <2>2 DEF WriterInv, QueueTypes, Working
<1>7. ASSUME NEW h \in Handles PROVE PerHandle(h)'
  <2>1. PerHandle(h)
    BY DEF WriterInv
  <2>2. Handing(h)' = Handing(h) /\ InHand(h)' = InHand(h)
    BY <1>1 DEF Handing, InHand
  <2>3. CASE h # c
    <3>1. \A j \in Jobs' : j.to = h => j \in Jobs
      BY <1>3, <1>4, <2>3
    <3> QED BY <1>1, <2>1, <2>2, <3>1, Elsewhere
  <2>4. CASE h = c
    <3>1. Unheard(c)'
      BY <1>1, <1>3, <1>4, <2>1, <2>4 DEF PerHandle, Unheard
    <3>2. Settled(c)'
      BY <1>1, <2>1, <2>4 DEF PerHandle, Settled
    <3>3. UpsGoDown(c)' /\ NewestIsLast(c)' /\ Flushed(c)' /\ PaidFor(c)' /\ NoLeak(c)'
      BY <1>1, <2>1, <2>2, <2>4
         DEF PerHandle, UpsGoDown, NewestIsLast, Flushed, PaidFor, NoLeak
    <3> QED BY <2>4, <3>1, <3>2, <3>3 DEF PerHandle
  <2> QED BY <2>3, <2>4
<1> QED BY <1>5, <1>6, <1>7 DEF WriterInv

-----------------------------------------------------------------------------
(* The actor takes an event.                                               *)

\* What every event leaves alone.
Taking(e) ==
    /\ events # <<>> /\ e = Head(events) /\ events' = Tail(events)
    /\ UNCHANGED <<jobs, writer, pdus, link, ups, held, crossed>>

\* What holds of whichever event is taken.
LEMMA TakenTypes ==
    ASSUME WriterInv, NEW e, Taking(e)
    PROVE  /\ e \in Event /\ Jobs' = Jobs /\ QueueTypes'
           /\ events \in Seq(Event) /\ events' \in Seq(Event)
           /\ \A h \in Handles : \A n : n \notin 1..ups => NoUp(events', h, n)
           /\ \A h \in Handles : Handing(h)' = Handing(h) /\ InHand(h)' = InHand(h)
           /\ e.is = "up" => e.link \in 1..ups
<1>1. /\ events \in Seq(Event) /\ events # <<>> /\ e = Head(events) /\ events' = Tail(events)
      /\ \A h \in Handles : \A n : n \notin 1..ups => NoUp(events, h, n)
  BY DEF WriterInv, LinkTypes, Taking
<1>2. e \in Event /\ events' \in Seq(Event)
      /\ \A h : \A n : NoUp(events, h, n) => NoUp(events', h, n) /\ (Up(e, h) => e.link # n)
  BY <1>1, EventsShrink
<1>3. Jobs' = Jobs
  BY DEF Taking, Jobs, Working
<1>4. QueueTypes'
  BY <1>3 DEF Taking, WriterInv, QueueTypes, Working
<1>5. \A h \in Handles : Handing(h)' = Handing(h) /\ InHand(h)' = InHand(h)
  BY DEF Taking, Handing, InHand
<1>6. ASSUME e.is = "up" PROVE e.link \in 1..ups
  <2>1. e.to \in Handles /\ Up(e, e.to)
    BY <1>2, <1>6 DEF Event, Up
  <2> QED BY <1>1, <1>2, <2>1
<1> QED BY <1>1, <1>2, <1>3, <1>4, <1>5, <1>6

\* A handle that the event is not about.
LEMMA OthersTaken ==
    ASSUME WriterInv, NEW e, Taking(e), NEW h, e.to # h
    PROVE  /\ Given(events', h) = Given(events, h)
           /\ Downs(events', h) <=> Downs(events, h)
           /\ Pending(events', h) => Pending(events, h)
           /\ UpsEnd(events, h) => UpsEnd(events', h)
           /\ \A n : UpIsLast(events, h, n) => UpIsLast(events', h, n)
           /\ ReportsFirst(events, h) => ReportsFirst(events', h)
<1>1. events \in Seq(Event) /\ events # <<>> /\ e = Head(events) /\ events' = Tail(events)
  BY DEF WriterInv, LinkTypes, Taking
<1>2. ~Up(e, h) /\ ~Down(e, h) /\ Reports(e, h) = 0
  BY DEF Up, Down, Report, Reports
<1>3. /\ Given(events, h) = Reports(e, h) + Given(events', h) /\ Given(events', h) \in Nat
      /\ Downs(events, h) <=> Downs(events', h) \/ Down(e, h)
      /\ Pending(events, h) <=> Pending(events', h) \/ Up(e, h) \/ Down(e, h)
      /\ UpsEnd(events, h) => UpsEnd(events', h)
      /\ \A n : UpIsLast(events, h, n) => UpIsLast(events', h, n)
      /\ ReportsFirst(events, h) => ReportsFirst(events', h)
  BY <1>1, EventsShrink
<1> QED BY <1>2, <1>3

\* Giving back no more than what is out for a handle.
LEMMA GivingBack ==
    ASSUME CreditTypes, NEW c \in Handles, NEW r \in Nat, r <= credits.outstanding[c],
           credits' = Returned(credits, c, r)
    PROVE  /\ CreditTypes'
           /\ credits'.outstanding[c] = credits.outstanding[c] - r
           /\ credits.outstanding[c] \in Nat
           /\ \A h \in Handles \ {c} : credits'.outstanding[h] = credits.outstanding[h]
<1> DEFINE o == credits.outstanding
           v == o[c] - r
<1>1. /\ credits \in [capacity : {1, Buffers}, outstanding : Counts, total : Nat]
      /\ credits.total = Total(o) /\ credits.total <= credits.capacity
      /\ credits.capacity \in Nat /\ o \in Counts /\ o[c] \in Nat
  BY WriterAssumption DEF CreditTypes, Counts
<1>2. v \in Nat
  BY <1>1
<1>3. /\ credits'.outstanding = [o EXCEPT ![c] = v]
      /\ credits'.total = credits.total - r
      /\ credits'.capacity = credits.capacity
      /\ credits' = [capacity |-> credits.capacity, outstanding |-> [o EXCEPT ![c] = v],
                     total |-> credits.total - r]
  BY <1>1 DEF Returned
<1>4. /\ Total(o) \in Nat /\ o[c] <= Total(o) /\ [o EXCEPT ![c] = v] \in Counts
      /\ Total([o EXCEPT ![c] = v]) = Total(o) - o[c] + v
  BY <1>1, <1>2, TotalMoves
<1> HIDE DEF o
<1>5. /\ credits.total - r \in Nat /\ credits.total - r = Total(o) - o[c] + v
      /\ credits.total - r <= credits.capacity
  BY <1>1, <1>4 DEF o
<1> HIDE DEF v
<1>6. CreditTypes'
  BY <1>1, <1>3, <1>4, <1>5 DEF CreditTypes
<1>7. [o EXCEPT ![c] = v][c] = v /\ \A h \in Handles \ {c} : [o EXCEPT ![c] = v][h] = o[h]
  BY <1>1 DEF Counts
<1> QED BY <1>1, <1>3, <1>6, <1>7 DEF o, v

\* complete() gives back what the event reports, or all that is out.
LEMMA HearingCompleted ==
    ASSUME WriterInv, NEW e, Taking(e), e.is = "completed", OnCompleted(e.to, e.link)
    PROVE  WriterInv'
<1> DEFINE c == e.to
           r == Released(credits, c, e.link)
<1>1. /\ credits' = Returned(credits, c, r) /\ permit' \in BOOLEAN
      /\ UNCHANGED <<dead, links, jobs, writer, pdus, link, ups, held, crossed>>
  BY DEF OnCompleted, Taking, WriterInv, LinkTypes
<1>2. /\ e \in Event /\ Jobs' = Jobs /\ QueueTypes'
      /\ events \in Seq(Event) /\ events' \in Seq(Event)
      /\ \A h \in Handles : \A n : n \notin 1..ups => NoUp(events', h, n)
      /\ \A h \in Handles : Handing(h)' = Handing(h) /\ InHand(h)' = InHand(h)
  BY TakenTypes
<1>3. c \in Handles /\ e.link \in Nat /\ Reports(e, c) = e.link /\ ~Up(e, c) /\ ~Down(e, c)
  BY <1>2 DEF Event, Reports, Up, Down
<1>4. /\ r \in Nat /\ r <= credits.outstanding[c] /\ credits.outstanding[c] \in Nat
      /\ r = e.link \/ (r = credits.outstanding[c] /\ credits.outstanding[c] <= e.link)
  BY <1>3 DEF WriterInv, CreditTypes, Counts, Released
<1> HIDE DEF c, r
<1>5. /\ CreditTypes'
      /\ credits'.outstanding[c] = credits.outstanding[c] - r
      /\ \A h \in Handles \ {c} : credits'.outstanding[h] = credits.outstanding[h]
  BY <1>1, <1>3, <1>4, GivingBack DEF WriterInv
<1>6. LinkTypes'
  BY <1>1, <1>2 DEF WriterInv, LinkTypes
<1>7. ASSUME NEW h \in Handles PROVE PerHandle(h)'
  <2>1. PerHandle(h)
    BY DEF WriterInv
  <2>2. CASE h # c
    <3>1. /\ Given(events', h) = Given(events, h)
          /\ Downs(events', h) <=> Downs(events, h)
          /\ Pending(events', h) => Pending(events, h)
          /\ UpsEnd(events, h) => UpsEnd(events', h)
          /\ \A n : UpIsLast(events, h, n) => UpIsLast(events', h, n)
          /\ ReportsFirst(events, h) => ReportsFirst(events', h)
      BY <2>2, OthersTaken DEF c
    <3> QED BY <1>1, <1>2, <1>5, <2>1, <2>2, <3>1, Elsewhere
  <2>3. CASE h = c
    <3>1. events # <<>> /\ e = Head(events) /\ events' = Tail(events)
      BY DEF Taking
    <3>2. /\ Given(events, c) = Reports(e, c) + Given(events', c) /\ Given(events', c) \in Nat
          /\ Downs(events, c) <=> Downs(events', c) \/ Down(e, c)
          /\ Pending(events, c) <=> Pending(events', c) \/ Up(e, c) \/ Down(e, c)
          /\ UpsEnd(events, c) => UpsEnd(events', c)
          /\ \A n : UpIsLast(events, c, n) => UpIsLast(events', c, n)
          /\ ReportsFirst(events, c) => ReportsFirst(events', c)
      BY <1>2, <3>1, EventsShrink
    <3>3. UpsGoDown(c)' /\ NewestIsLast(c)' /\ Unheard(c)' /\ Flushed(c)'
      BY <1>1, <1>2, <1>3, <2>1, <2>3, <3>2
         DEF PerHandle, UpsGoDown, NewestIsLast, Unheard, Flushed
    <3>4. Settled(c)'
      <4>1. credits.outstanding[c] = 0 => credits'.outstanding[c] = 0
        BY <1>4, <1>5
      <4> QED BY <1>1, <1>2, <1>3, <2>1, <2>3, <3>2, <4>1 DEF PerHandle, Settled
    <3>5. Handing(c) \in Nat /\ InHand(c) \in Nat /\ held[c] \in Nat
      BY <1>3 DEF Handing, InHand, WriterInv, LinkTypes, Counts
    <3>6. Handing(c)' = Handing(c) /\ InHand(c)' = InHand(c) /\ held'[c] = held[c]
      BY <1>1, <1>2, <1>3
    <3>7. /\ PaidFor(c) /\ NoLeak(c)
          /\ crossed' = crossed /\ writer' = writer /\ (Downs(events', c) <=> Downs(events, c))
          /\ Given(events, c) = e.link + Given(events', c)
      BY <1>1, <1>3, <2>1, <2>3, <3>2 DEF PerHandle
    <3>8. PaidFor(c)'
      BY <1>3, <1>4, <1>5, <3>2, <3>5, <3>6, <3>7 DEF PaidFor
    <3>9. NoLeak(c)'
      BY <1>3, <1>4, <1>5, <3>2, <3>5, <3>6, <3>7 DEF NoLeak
    <3> QED BY <2>3, <3>3, <3>4, <3>8, <3>9 DEF PerHandle
  <2> QED BY <2>2, <2>3
<1> QED BY <1>2, <1>5, <1>6, <1>7 DEF WriterInv

\* link_down(): nothing is left in the controller for the credits it gives back.
LEMMA HearingDown ==
    ASSUME WriterInv, NEW e, Taking(e), e.is = "down", OnLinkDown(e.to)
    PROVE  WriterInv'
<1> DEFINE c == e.to
           r == credits.outstanding[c]
<1>1. /\ credits' = Returned(credits, c, r) /\ permit' = TRUE
      /\ dead' = dead \cup {c} /\ links' = [links EXCEPT ![c] = 0]
      /\ UNCHANGED <<jobs, writer, pdus, link, ups, held, crossed>>
  BY DEF OnLinkDown, Taking
<1>2. /\ e \in Event /\ Jobs' = Jobs /\ QueueTypes'
      /\ events \in Seq(Event) /\ events' \in Seq(Event)
      /\ \A h \in Handles : \A n : n \notin 1..ups => NoUp(events', h, n)
      /\ \A h \in Handles : Handing(h)' = Handing(h) /\ InHand(h)' = InHand(h)
  BY TakenTypes
<1>3. c \in Handles /\ Reports(e, c) = 0 /\ ~Up(e, c) /\ Down(e, c)
  BY <1>2 DEF Event, Reports, Up, Down
<1>4. r \in Nat /\ r <= credits.outstanding[c]
  BY <1>3 DEF WriterInv, CreditTypes, Counts
<1> HIDE DEF c, r
<1>5. /\ CreditTypes'
      /\ credits'.outstanding[c] = 0
      /\ \A h \in Handles \ {c} : credits'.outstanding[h] = credits.outstanding[h]
  <2>1. /\ CreditTypes'
        /\ credits'.outstanding[c] = credits.outstanding[c] - r
        /\ \A h \in Handles \ {c} : credits'.outstanding[h] = credits.outstanding[h]
    BY <1>1, <1>3, <1>4, GivingBack DEF WriterInv
  <2>2. r - r = 0
    BY <1>4
  <2> QED BY <2>1, <2>2 DEF r
<1>6. /\ links \in [Handles -> 0..ups] /\ ups \in Nat
      /\ link \in [Handles -> 0..ups] /\ held \in Counts
  BY DEF WriterInv, LinkTypes
<1>7. LinkTypes'
  <2>1. links' \in [Handles -> 0..ups] /\ dead' \subseteq Handles
    BY <1>1, <1>3, <1>6 DEF WriterInv, LinkTypes
  <2> QED BY <1>1, <1>2, <2>1 DEF WriterInv, LinkTypes
<1>8. ASSUME NEW h \in Handles PROVE PerHandle(h)'
  <2>1. PerHandle(h)
    BY DEF WriterInv
  <2>2. CASE h # c
    <3>1. /\ Given(events', h) = Given(events, h)
          /\ Downs(events', h) <=> Downs(events, h)
          /\ Pending(events', h) => Pending(events, h)
          /\ UpsEnd(events, h) => UpsEnd(events', h)
          /\ \A n : UpIsLast(events, h, n) => UpIsLast(events', h, n)
          /\ ReportsFirst(events, h) => ReportsFirst(events', h)
      BY <2>2, OthersTaken DEF c
    <3>2. links'[h] = links[h]
      BY <1>1, <1>6, <2>2
    <3> QED BY <1>1, <1>2, <1>5, <2>1, <2>2, <3>1, <3>2, Elsewhere
  <2>3. CASE h = c
    <3>1. events # <<>> /\ e = Head(events) /\ events' = Tail(events)
      BY DEF Taking
    <3>2. /\ Given(events', c) \in Nat
          /\ Downs(events, c)
          /\ Pending(events, c)
          /\ UpsEnd(events, c) => UpsEnd(events', c)
          /\ \A n : UpIsLast(events, c, n) => UpIsLast(events', c, n)
          /\ ReportsFirst(events, c) => ReportsFirst(events', c) /\ Given(events', c) = 0
      <4>1. /\ Given(events', c) \in Nat
            /\ Downs(events, c) <=> Downs(events', c) \/ Down(e, c)
            /\ Pending(events, c) <=> Pending(events', c) \/ Up(e, c) \/ Down(e, c)
            /\ UpsEnd(events, c) => UpsEnd(events', c)
            /\ \A n : UpIsLast(events, c, n) => UpIsLast(events', c, n)
            /\ ReportsFirst(events, c)
                  => ReportsFirst(events', c) /\ (Down(e, c) => Given(events', c) = 0)
        BY <1>2, <3>1, EventsShrink
      <4> QED BY <1>3, <4>1
    <3>3. UpsGoDown(c)' /\ NewestIsLast(c)' /\ Flushed(c)'
      BY <1>1, <2>1, <2>3, <3>2 DEF PerHandle, UpsGoDown, NewestIsLast, Flushed
    <3>4. links'[c] = 0 /\ c \in dead'
      BY <1>1, <1>3, <1>6
    <3>5. Unheard(c)'
      BY <1>1, <1>2, <2>1, <2>3, <3>2, <3>4 DEF PerHandle, Unheard
    <3>6. Settled(c)'
      BY <1>5, <3>4 DEF Settled
    <3>7. PaidFor(c)'
      <4> SUFFICES ASSUME ~crossed PROVE held[c] + Given(events', c) + Handing(c) <= 0
        BY <1>1, <1>2, <1>3, <1>5 DEF PaidFor
      <4>1. held[c] = 0 /\ Given(events', c) = 0
        BY <2>1, <2>3, <3>2 DEF PerHandle, Flushed
      <4>2. Handing(c) = 0
        <5> SUFFICES ASSUME writer.at = "send", writer.job.to = c, writer.job.link = link[c]
                     PROVE  FALSE
          BY DEF Handing
        <5>1. writer.job \in Jobs
          BY DEF Jobs, Working
        <5>2. writer.job.link # 0
          BY <5>1, JobsAre
        <5>3. writer.job.link # link[c]
          BY <2>1, <2>3, <3>2, <5>1, <5>2 DEF PerHandle, Unheard
        <5> QED BY <5>3
      <4> QED BY <4>1, <4>2
    <3>8. NoLeak(c)'
      <4>1. held'[c] + Given(events', c) + InHand(c)' \in Nat
        <5>1. held[c] \in Nat /\ InHand(c) \in Nat
          BY <1>3, <1>6 DEF Counts, InHand
        <5> QED BY <1>1, <1>2, <1>3, <3>2, <5>1
      <4> QED BY <1>5, <4>1 DEF NoLeak
    <3> QED BY <2>3, <3>3, <3>5, <3>6, <3>7, <3>8 DEF PerHandle
  <2> QED BY <2>2, <2>3
<1> QED BY <1>2, <1>5, <1>7, <1>8 DEF WriterInv

\* link_up(): the handle stops being dead, and its link is the newest or has ended again.
LEMMA HearingUp ==
    ASSUME WriterInv, NEW e, Taking(e), e.is = "up", OnLinkUp(e.to, e.link)
    PROVE  WriterInv'
<1> DEFINE c == e.to
<1>1. /\ dead' = dead \ {c} /\ links' = [links EXCEPT ![c] = e.link]
      /\ UNCHANGED <<credits, permit, jobs, writer, pdus, link, ups, held, crossed>>
  BY DEF OnLinkUp, Taking
<1>2. /\ e \in Event /\ Jobs' = Jobs /\ QueueTypes'
      /\ events \in Seq(Event) /\ events' \in Seq(Event)
      /\ \A h \in Handles : \A n : n \notin 1..ups => NoUp(events', h, n)
      /\ \A h \in Handles : Handing(h)' = Handing(h) /\ InHand(h)' = InHand(h)
      /\ e.link \in 1..ups
  BY TakenTypes
<1>3. c \in Handles /\ Reports(e, c) = 0 /\ Up(e, c) /\ ~Down(e, c)
  BY <1>2 DEF Event, Reports, Up, Down
<1> HIDE DEF c
<1>4. links \in [Handles -> 0..ups] /\ ups \in Nat /\ link \in [Handles -> 0..ups]
  BY DEF WriterInv, LinkTypes
<1>5. CreditTypes'
  BY <1>1 DEF WriterInv, CreditTypes
<1>6. LinkTypes'
  <2>1. links' \in [Handles -> 0..ups] /\ dead' \subseteq Handles
    BY <1>1, <1>2, <1>3, <1>4 DEF WriterInv, LinkTypes
  <2> QED BY <1>1, <1>2, <2>1 DEF WriterInv, LinkTypes
<1>7. ASSUME NEW h \in Handles PROVE PerHandle(h)'
  <2>1. PerHandle(h)
    BY DEF WriterInv
  <2>2. CASE h # c
    <3>1. /\ Given(events', h) = Given(events, h)
          /\ Downs(events', h) <=> Downs(events, h)
          /\ Pending(events', h) => Pending(events, h)
          /\ UpsEnd(events, h) => UpsEnd(events', h)
          /\ \A n : UpIsLast(events, h, n) => UpIsLast(events', h, n)
          /\ ReportsFirst(events, h) => ReportsFirst(events', h)
      BY <2>2, OthersTaken DEF c
    <3>2. links'[h] = links[h] /\ (h \in dead => h \in dead')
      BY <1>1, <1>4, <2>2
    <3> QED BY <1>1, <1>2, <2>1, <3>1, <3>2, Elsewhere
  <2>3. CASE h = c
    <3>1. events # <<>> /\ e = Head(events) /\ events' = Tail(events)
      BY DEF Taking
    <3>2. /\ Given(events, c) = Reports(e, c) + Given(events', c) /\ Given(events', c) \in Nat
          /\ Downs(events, c) <=> Downs(events', c) \/ Down(e, c)
          /\ Pending(events, c) <=> Pending(events', c) \/ Up(e, c) \/ Down(e, c)
          /\ UpsEnd(events, c) => UpsEnd(events', c) /\ (Up(e, c) => Downs(events', c))
          /\ \A n : UpIsLast(events, c, n) =>
                UpIsLast(events', c, n) /\ (Up(e, c) /\ e.link = n => ~Pending(events', c))
          /\ ReportsFirst(events, c) => ReportsFirst(events', c)
      BY <1>2, <3>1, EventsShrink
    <3>3. Given(events', c) = Given(events, c) /\ (Downs(events, c) <=> Downs(events', c))
      BY <1>3, <3>2
    <3>4. UpsGoDown(c)' /\ NewestIsLast(c)' /\ Flushed(c)'
      BY <1>1, <2>1, <2>3, <3>2, <3>3 DEF PerHandle, UpsGoDown, NewestIsLast, Flushed
    <3>5. Unheard(c)'
      <4>1. links'[c] = e.link /\ Pending(events, c)
        BY <1>1, <1>3, <1>4, <3>2
      <4>2. Pending(events', c) => e.link # link[c]
        BY <1>3, <2>1, <2>3, <3>2 DEF PerHandle, NewestIsLast
      <4> QED BY <1>1, <1>2, <2>1, <2>3, <4>1, <4>2 DEF PerHandle, Unheard
    <3>6. Settled(c)'
      <4>1. link[c] = 0 => Downs(events', c)
        BY <1>3, <2>1, <2>3, <3>2 DEF PerHandle, UpsGoDown
      <4> QED BY <1>1, <4>1 DEF Settled
    <3>7. PaidFor(c)' /\ NoLeak(c)'
      BY <1>1, <1>2, <2>1, <2>3, <3>3 DEF PerHandle, PaidFor, NoLeak
    <3> QED BY <2>3, <3>4, <3>5, <3>6, <3>7 DEF PerHandle
  <2> QED BY <2>2, <2>3
<1> QED BY <1>2, <1>5, <1>6, <1>7 DEF WriterInv

\* The actor takes an event.
LEMMA Handling == ASSUME WriterInv, Handle PROVE WriterInv'
<1> DEFINE e == Head(events)
<1>1. Taking(e)
  BY DEF Handle, Taking
<1>2. e \in Event
  BY <1>1, TakenTypes
<1>3. e.is \in {"completed", "down", "up"}
  BY <1>2 DEF Event
<1>4. CASE e.is = "completed"
  <2>1. OnCompleted(e.to, e.link)
    BY <1>4 DEF Handle
  <2> HIDE DEF e
  <2> QED BY <1>1, <1>4, <2>1, HearingCompleted
<1>5. CASE e.is = "down"
  <2>1. OnLinkDown(e.to)
    BY <1>5 DEF Handle
  <2> HIDE DEF e
  <2> QED BY <1>1, <1>5, <2>1, HearingDown
<1>6. CASE e.is = "up"
  <2>1. OnLinkUp(e.to, e.link)
    BY <1>6 DEF Handle
  <2> HIDE DEF e
  <2> QED BY <1>1, <1>6, <2>1, HearingUp
<1> QED BY <1>3, <1>4, <1>5, <1>6

-----------------------------------------------------------------------------
(* The writer moves.                                                       *)

\* The placeholder of a writer without a PDU.
LEMMA NoJobIs == NoJob \in [to : Handles, link : Nat, left : Nat]
<1>1. (CHOOSE h \in Handles : TRUE) \in Handles
  BY WriterAssumption
<1> QED BY <1>1 DEF NoJob

\* A step of the writer that takes and transmits nothing.
LEMMA Idling ==
    ASSUME WriterInv,
           UNCHANGED <<credits, dead, links, pdus, link, events, ups, held, crossed>>,
           permit' \in BOOLEAN, QueueTypes', \A k \in Jobs' : k \in Jobs,
           writer.at \notin {"send", "gone"}, writer'.at \notin {"send", "gone"}
    PROVE  WriterInv'
<1>1. CreditTypes' /\ LinkTypes'
  BY DEF WriterInv, CreditTypes, LinkTypes
<1>2. ASSUME NEW h \in Handles PROVE PerHandle(h)'
  <2>1. PerHandle(h)
    BY DEF WriterInv
  <2>2. Handing(h)' = Handing(h) /\ InHand(h)' = InHand(h)
    BY DEF Handing, InHand
  <2> QED BY <2>1, <2>2, Elsewhere
<1> QED BY <1>1, <1>2 DEF WriterInv

\* The writer takes the next PDU.
LEMMA Pumping == ASSUME WriterInv, Pump PROVE WriterInv'
<1>1. /\ writer.at = "idle" /\ jobs # <<>> /\ jobs' = Tail(jobs)
      /\ writer' = IF Head(jobs).to \in dead THEN writer
                   ELSE [at |-> "claim", job |-> Head(jobs)]
      /\ UNCHANGED <<credits, dead, links, pdus, link, events, ups, held, crossed, permit>>
  BY DEF Pump, host, controller
<1>2. /\ jobs \in Seq(WJob) /\ permit \in BOOLEAN /\ \A j \in Jobs : j.link <= ups
      /\ writer \in [at : {"idle", "claim", "parked", "send", "gone"},
                     job : [to : Handles, link : Nat, left : Nat]]
      /\ writer.job = NoJob
  BY <1>1 DEF WriterInv, LinkTypes, QueueTypes, Working
<1>3. /\ jobs' \in Seq(WJob) /\ Head(jobs) \in WJob /\ 1 \in DOMAIN jobs /\ Head(jobs) = jobs[1]
      /\ \A i \in DOMAIN jobs' : i + 1 \in DOMAIN jobs /\ jobs'[i] = jobs[i + 1]
  BY <1>1, <1>2
<1>4. Head(jobs) \in [to : Handles, link : Nat, left : Nat]
  BY <1>3 DEF WJob
<1>5. \A k \in Jobs' : k \in Jobs
  <2>1. \A i \in DOMAIN jobs' : jobs'[i] \in Jobs
    BY <1>3 DEF Jobs
  <2>2. Head(jobs) \in Jobs
    BY <1>3 DEF Jobs
  <2>3. Working' => writer'.job = Head(jobs)
    BY <1>1 DEF Working
  <2> QED BY <2>1, <2>2, <2>3 DEF Jobs
<1>6. QueueTypes'
  <2>1. \A k \in Jobs' : k.link <= ups'
    BY <1>1, <1>2, <1>5
  <2>2. writer' \in [at : {"idle", "claim", "parked", "send", "gone"},
                     job : [to : Handles, link : Nat, left : Nat]]
    BY <1>1, <1>2, <1>4
  <2>3. IF Working' THEN writer'.job \in WJob ELSE writer'.job = NoJob
    BY <1>1, <1>2, <1>3 DEF Working
  <2> QED BY <1>1, <1>3, <2>1, <2>2, <2>3 DEF WriterInv, QueueTypes
<1>7. writer'.at \notin {"send", "gone"}
  BY <1>1
<1> QED BY <1>1, <1>2, <1>5, <1>6, <1>7, Idling

\* The writer wakes and tries again.
LEMMA Waking == ASSUME WriterInv, Wake PROVE WriterInv'
<1>1. /\ writer.at = "parked" /\ writer' = [writer EXCEPT !.at = "claim"] /\ permit' = FALSE
      /\ UNCHANGED <<credits, dead, links, jobs, pdus, link, events, ups, held, crossed>>
  BY DEF Wake, controller
<1>2. writer \in [at : {"idle", "claim", "parked", "send", "gone"},
                  job : [to : Handles, link : Nat, left : Nat]]
  BY DEF WriterInv, QueueTypes
<1>3. Working /\ Working' /\ writer'.job = writer.job /\ writer'.at = "claim"
  BY <1>1, <1>2 DEF Working
<1>4. Jobs' = Jobs
  BY <1>1, <1>3 DEF Jobs
<1>5. QueueTypes'
  BY <1>1, <1>2, <1>3, <1>4 DEF WriterInv, QueueTypes
<1> QED BY <1>1, <1>3, <1>4, <1>5, Idling

\* claim(): a credit goes out for a link that is up, or whose end is still on its way.
LEMMA Claiming == ASSUME WriterInv, Claim PROVE WriterInv'
<1>1. /\ writer.at = "claim"
      /\ UNCHANGED <<dead, permit, links, jobs, pdus, link, events, ups, held, crossed>>
  BY DEF Claim, controller
<1>2. /\ writer \in [at : {"idle", "claim", "parked", "send", "gone"},
                     job : [to : Handles, link : Nat, left : Nat]]
      /\ permit \in BOOLEAN /\ \A j \in Jobs : j.link <= ups
      /\ Working /\ writer.job \in WJob /\ jobs \in Seq(WJob) /\ pdus \in 0..MaxPdus
  BY <1>1 DEF WriterInv, QueueTypes, LinkTypes, Working
<1>3. PICK c \in Handles : c = writer.job.to
  BY <1>2
<1>4. CASE c \in dead
  <2>1. writer' = [at |-> "idle", job |-> NoJob] /\ UNCHANGED credits
    BY <1>3, <1>4 DEF Claim
  <2>2. ~Working' /\ \A k \in Jobs' : k \in Jobs
    BY <1>1, <2>1 DEF Working, Jobs
  <2>3. QueueTypes'
    BY <1>1, <1>2, <2>1, <2>2, NoJobIs DEF QueueTypes
  <2> QED BY <1>1, <1>2, <2>1, <2>2, <2>3, Idling
<1>5. CASE c \notin dead /\ ~(Available(credits) > 0)
  <2>1. writer' = [writer EXCEPT !.at = "parked"] /\ UNCHANGED credits
    BY <1>3, <1>5 DEF Claim
  <2>2. Working' /\ writer'.job = writer.job /\ writer'.at = "parked"
    BY <1>2, <2>1 DEF Working
  <2>3. Jobs' = Jobs
    BY <1>1, <1>2, <2>2 DEF Jobs
  <2>4. QueueTypes'
    BY <1>1, <1>2, <2>1, <2>2, <2>3 DEF QueueTypes
  <2> QED BY <1>1, <1>2, <2>1, <2>2, <2>3, <2>4, Idling
<1>6. CASE c \notin dead /\ Available(credits) > 0
  <2>1. writer' = [writer EXCEPT !.at = "send"] /\ credits' = Claimed(credits, c)
    BY <1>3, <1>6 DEF Claim
  <2>2. Working' /\ writer'.job = writer.job /\ writer'.at = "send"
    BY <1>2, <2>1 DEF Working
  <2>3. Jobs' = Jobs
    BY <1>1, <1>2, <2>2 DEF Jobs
  <2>4. QueueTypes' /\ LinkTypes'
    BY <1>1, <1>2, <2>1, <2>2, <2>3 DEF WriterInv, QueueTypes, LinkTypes
  <2> DEFINE o == credits.outstanding
             v == o[c] + 1
  <2>5. /\ credits \in [capacity : {1, Buffers}, outstanding : Counts, total : Nat]
        /\ credits.total = Total(o) /\ credits.total < credits.capacity
        /\ credits.capacity \in Nat /\ o \in Counts /\ o[c] \in Nat /\ v \in Nat
    <3>1. /\ credits \in [capacity : {1, Buffers}, outstanding : Counts, total : Nat]
          /\ credits.total = Total(o) /\ credits.capacity \in Nat
      BY WriterAssumption DEF WriterInv, CreditTypes
    <3> QED BY <1>3, <1>6, <3>1 DEF Available, Counts
  <2>6. credits' = [capacity |-> credits.capacity, outstanding |-> [o EXCEPT ![c] = v],
                    total |-> credits.total + 1]
    BY <2>1, <2>5 DEF Claimed
  <2>7. /\ Total(o) \in Nat /\ [o EXCEPT ![c] = v] \in Counts
        /\ Total([o EXCEPT ![c] = v]) = Total(o) - o[c] + v
    <3> HIDE DEF o, v
    <3> QED BY <1>3, <2>5, TotalMoves
  <2>8. /\ [o EXCEPT ![c] = v][c] = v
        /\ \A h \in Handles : h # c => [o EXCEPT ![c] = v][h] = o[h]
    BY <1>3, <2>5 DEF Counts
  <2>9. CreditTypes'
    <3>1. Total([o EXCEPT ![c] = v]) = credits.total + 1
      <4> DEFINE t == Total([o EXCEPT ![c] = v])
                 u == Total(o)
                 w == o[c]
      <4>1. t = u - w + (w + 1) /\ u \in Nat /\ w \in Nat /\ credits.total = u
        BY <2>5, <2>7
      <4> HIDE DEF t, u, w
      <4>2. t = credits.total + 1
        BY <4>1
      <4> QED BY <4>2 DEF t
    <3>2. credits.total + 1 \in Nat /\ credits.total + 1 <= credits.capacity
      BY <2>5
    <3> HIDE DEF o, v
    <3> QED BY <2>5, <2>6, <2>7, <3>1, <3>2 DEF CreditTypes
  <2>10. ASSUME NEW h \in Handles PROVE PerHandle(h)'
    <3>1. PerHandle(h)
      BY DEF WriterInv
    <3>2. CASE h # c
      <4>1. credits'.outstanding[h] = credits.outstanding[h]
        BY <2>6, <2>8, <3>2
      <4>2. Handing(h)' = Handing(h) /\ InHand(h)' = InHand(h)
        BY <1>1, <1>3, <2>2, <3>2 DEF Handing, InHand
      <4> QED BY <1>1, <2>2, <2>3, <3>1, <4>1, <4>2, Elsewhere
    <3>3. CASE h = c
      <4>1. credits'.outstanding[c] = o[c] + 1 /\ o[c] \in Nat
        BY <2>5, <2>6, <2>8
      <4>2. InHand(c) = 0 /\ InHand(c)' = 1 /\ Handing(c) = 0 /\ Handing(c)' \in {0, 1}
        BY <1>1, <1>3, <2>2 DEF InHand, Handing
      <4>3. held[c] \in Nat /\ Given(events, c) \in Nat
        <5>1. held \in Counts /\ events \in Seq(Event)
          BY DEF WriterInv, LinkTypes
        <5>2. Given(events, c) \in Nat
          <6> DEFINE f == [i \in 1..Len(events) |-> Reports(events[i], c)]
          <6>1. \A i \in 1..Len(events) : f[i] = Reports(events[i], c)
            OBVIOUS
          <6> HIDE DEF f
          <6> QED BY <5>1, <6>1, GivenIs
        <5> QED BY <1>3, <5>1, <5>2 DEF Counts
      <4>4. UpsGoDown(c)' /\ NewestIsLast(c)' /\ Unheard(c)' /\ Flushed(c)'
        BY <1>1, <2>3, <3>1, <3>3
           DEF PerHandle, UpsGoDown, NewestIsLast, Unheard, Flushed
      <4>5. Settled(c)'
        <5>1. writer.job \in Jobs /\ writer.job.to = c
          BY <1>2, <1>3 DEF Jobs
        <5>2. ~(link[c] = 0 /\ ~Downs(events, c))
          BY <1>6, <3>1, <3>3, <5>1 DEF PerHandle, Settled
        <5> QED BY <1>1, <5>2 DEF Settled
      <4>6. PaidFor(c)'
        <5>1. ~crossed => held[c] + Given(events, c) + Handing(c) <= o[c]
          BY <3>1, <3>3 DEF PerHandle, PaidFor
        <5> QED BY <1>1, <4>1, <4>2, <4>3, <5>1 DEF PaidFor
      <4>7. NoLeak(c)'
        <5>1. \/ Downs(events, c)
              \/ o[c] <= held[c] + Given(events, c) + InHand(c)
          BY <1>1, <3>1, <3>3 DEF PerHandle, NoLeak
        <5> QED BY <1>1, <4>1, <4>2, <4>3, <5>1 DEF NoLeak
      <4> QED BY <3>3, <4>4, <4>5, <4>6, <4>7 DEF PerHandle
    <3> QED BY <3>2, <3>3
  <2> QED BY <2>4, <2>9, <2>10 DEF WriterInv
<1> QED BY <1>4, <1>5, <1>6

\* What the events give back is a number.
LEMMA GivenType == ASSUME WriterInv, NEW h PROVE Given(events, h) \in Nat
<1>1. events \in Seq(Event)
  BY DEF WriterInv, LinkTypes
<1> DEFINE f == [i \in 1..Len(events) |-> Reports(events[i], h)]
<1>2. \A i \in 1..Len(events) : f[i] = Reports(events[i], h)
  OBVIOUS
<1> HIDE DEF f
<1> QED BY <1>1, <1>2, GivenIs

\* A fragment leaves the hand of the writer for the controller, or the writer ends.
LEMMA Transmitting == ASSUME WriterInv, Transmit PROVE WriterInv'
<1>1. /\ writer.at = "send"
      /\ UNCHANGED <<credits, dead, permit, links, pdus, link, events, ups>>
  BY DEF Transmit, host, controller
<1>2. /\ writer.job \in WJob /\ jobs \in Seq(WJob) /\ pdus \in 0..MaxPdus
      /\ \A j \in Jobs : j.link <= ups
      /\ held \in Counts /\ crossed \in BOOLEAN
      /\ Working /\ writer.job \in Jobs
  BY <1>1 DEF WriterInv, QueueTypes, LinkTypes, Working, Jobs
<1>3. PICK c \in Handles : c = writer.job.to
  BY <1>2 DEF WJob
<1>4. CreditTypes'
  BY <1>1 DEF WriterInv, CreditTypes
<1>5. CASE /\ held' = [held EXCEPT ![c] = IF link[c] = 0 THEN @ ELSE @ + 1]
           /\ crossed' = (crossed \/ link[c] \notin {0, writer.job.link})
           /\ writer' = IF writer.job.left = 1
                        THEN [at |-> "idle", job |-> NoJob]
                        ELSE [at |-> "claim", job |-> [writer.job EXCEPT !.left = @ - 1]]
           /\ UNCHANGED jobs
  <2>1. writer'.at \in {"idle", "claim"} /\ (writer'.at = "idle" => writer'.job = NoJob)
        /\ (writer'.at = "claim" => writer'.job = [writer.job EXCEPT !.left = @ - 1]
                                    /\ writer.job.left # 1)
    BY <1>5
  <2>2. writer.job.left \in 1..MaxFragments /\ MaxFragments \in Nat
    BY <1>2, WriterAssumption DEF WJob
  <2>3. writer'.at = "claim" =>
          /\ writer'.job \in WJob
          /\ writer'.job.to = c /\ writer'.job.link = writer.job.link
    <3> SUFFICES ASSUME writer'.at = "claim"
                 PROVE  /\ writer'.job \in WJob
                        /\ writer'.job.to = c /\ writer'.job.link = writer.job.link
      OBVIOUS
    <3>1. writer'.job = [writer.job EXCEPT !.left = @ - 1] /\ writer.job.left # 1
      BY <2>1
    <3>2. writer.job.left - 1 \in 1..MaxFragments
      BY <2>2, <3>1
    <3> QED BY <1>2, <1>3, <3>1, <3>2 DEF WJob
  <2>4. \A k \in Jobs' : \E j \in Jobs : j.to = k.to /\ j.link = k.link
    <3>1. \A i \in DOMAIN jobs' : jobs'[i] \in Jobs
      BY <1>5 DEF Jobs
    <3>2. Working' => writer'.at = "claim"
      BY <2>1 DEF Working
    <3> QED BY <1>2, <1>3, <2>3, <3>1, <3>2 DEF Jobs
  <2>5. QueueTypes'
    <3>1. \A k \in Jobs' : k.link <= ups'
      BY <1>1, <1>2, <2>4
    <3>2. writer' \in [at : {"idle", "claim", "parked", "send", "gone"},
                       job : [to : Handles, link : Nat, left : Nat]]
      <4>1. CASE writer.job.left = 1
        BY <1>5, <4>1, NoJobIs
      <4>2. CASE writer.job.left # 1
        <5>1. writer'.at = "claim" /\ writer' = [at |-> "claim", job |-> writer'.job]
          BY <1>5, <4>2
        <5>2. writer'.job \in [to : Handles, link : Nat, left : Nat]
          BY <2>3, <5>1 DEF WJob
        <5> QED BY <5>1, <5>2
      <4> QED BY <4>1, <4>2
    <3>3. IF Working' THEN writer'.job \in WJob ELSE writer'.job = NoJob
      BY <2>1, <2>3 DEF Working
    <3> QED BY <1>1, <1>2, <1>5, <3>1, <3>2, <3>3 DEF QueueTypes
  <2>6. LinkTypes'
    <3>1. held' \in Counts /\ crossed' \in BOOLEAN
      BY <1>2, <1>5 DEF Counts
    <3> QED BY <1>1, <3>1 DEF WriterInv, LinkTypes
  <2>7. ASSUME NEW h \in Handles PROVE PerHandle(h)'
    <3>1. PerHandle(h)
      BY DEF WriterInv
    <3>2. Handing(h)' = 0 /\ InHand(h)' = 0
      BY <2>1 DEF Handing, InHand
    <3>3. UpsGoDown(h)' /\ NewestIsLast(h)' /\ Unheard(h)' /\ Settled(h)'
      BY <1>1, <2>4, <3>1 DEF PerHandle, UpsGoDown, NewestIsLast, Unheard, Settled
    <3>4. /\ held[h] \in Nat /\ Given(events, h) \in Nat /\ credits.outstanding[h] \in Nat
          /\ Handing(h) \in {0, 1} /\ InHand(h) \in {0, 1}
      BY <1>2, GivenType DEF Counts, WriterInv, CreditTypes, Handing, InHand
    <3>5. crossed => crossed'
      BY <1>5
    <3>6. CASE h # c \/ link[h] = 0
      <4>1. held'[h] = held[h]
        BY <1>2, <1>5, <3>6 DEF Counts
      <4>2. Flushed(h)'
        BY <1>1, <3>1, <3>5, <4>1 DEF PerHandle, Flushed
      <4>3. PaidFor(h)'
        BY <1>1, <3>1, <3>2, <3>4, <3>5, <4>1 DEF PerHandle, PaidFor
      <4>4. NoLeak(h)'
        <5>1. CASE h # c
          <6>1. InHand(h) = 0
            BY <1>3, <5>1 DEF InHand
          <6> QED BY <1>1, <3>1, <3>2, <4>1, <6>1 DEF PerHandle, NoLeak
        <5>2. CASE link[h] = 0
          <6>1. Downs(events, h) \/ credits.outstanding[h] = 0
            BY <3>1, <5>2 DEF PerHandle, Settled
          <6>2. held[h] + Given(events, h) + 0 \in Nat
            BY <3>4
          <6> QED BY <1>1, <3>2, <4>1, <6>1, <6>2 DEF NoLeak
        <5> QED BY <3>6, <5>1, <5>2
      <4> QED BY <3>3, <4>2, <4>3, <4>4 DEF PerHandle
    <3>7. CASE h = c /\ link[h] # 0
      <4>1. held'[h] = held[h] + 1
        BY <1>2, <1>5, <3>7 DEF Counts
      <4>2. ~crossed' => ~crossed /\ writer.job.link = link[h]
        BY <1>2, <1>5, <3>7
      <4>3. Flushed(h)'
        <5> SUFFICES ASSUME ~crossed' PROVE ReportsFirst(events, h) /\ ~Downs(events, h)
          BY <1>1 DEF Flushed
        <5>1. ReportsFirst(events, h)
          BY <3>1, <4>2 DEF PerHandle, Flushed
        <5>2. ~Pending(events, h)
          BY <1>2, <1>3, <3>1, <3>7, <4>2 DEF PerHandle, Unheard
        <5> QED BY <5>1, <5>2 DEF Pending, Downs
      <4>4. PaidFor(h)'
        <5> SUFFICES ASSUME ~crossed'
                     PROVE  held[h] + 1 + Given(events, h) + 0 <= credits.outstanding[h]
          BY <1>1, <3>2, <4>1 DEF PaidFor
        <5>1. Handing(h) = 1
          BY <1>1, <1>3, <3>7, <4>2 DEF Handing
        <5>2. held[h] + Given(events, h) + Handing(h) <= credits.outstanding[h]
          BY <3>1, <4>2 DEF PerHandle, PaidFor
        <5> QED BY <3>4, <5>1, <5>2
      <4>5. NoLeak(h)'
        <5>1. InHand(h) = 1
          BY <1>1, <1>3, <3>7 DEF InHand
        <5>2. \/ Downs(events, h)
              \/ credits.outstanding[h] <= held[h] + Given(events, h) + InHand(h)
          BY <1>1, <3>1 DEF PerHandle, NoLeak
        <5> QED BY <1>1, <3>2, <3>4, <4>1, <5>1, <5>2 DEF NoLeak
      <4> QED BY <3>3, <4>3, <4>4, <4>5 DEF PerHandle
    <3> QED BY <3>6, <3>7
  <2> QED BY <1>4, <2>5, <2>6, <2>7 DEF WriterInv
<1>6. CASE /\ writer' = [at |-> "gone", job |-> NoJob] /\ jobs' = <<>>
           /\ UNCHANGED <<held, crossed>>
  <2>1. ~Working' /\ Jobs' = {} /\ writer'.at = "gone"
    BY <1>6 DEF Working, Jobs
  <2>2. QueueTypes'
    BY <1>1, <1>2, <1>6, <2>1, NoJobIs DEF QueueTypes
  <2>3. LinkTypes'
    BY <1>1, <1>6 DEF WriterInv, LinkTypes
  <2>4. ASSUME NEW h \in Handles PROVE PerHandle(h)'
    <3>1. PerHandle(h)
      BY DEF WriterInv
    <3>2. UpsGoDown(h)' /\ NewestIsLast(h)' /\ Unheard(h)' /\ Settled(h)' /\ Flushed(h)'
      BY <1>1, <1>6, <2>1, <3>1
         DEF PerHandle, UpsGoDown, NewestIsLast, Unheard, Settled, Flushed
    <3>3. NoLeak(h)'
      BY <2>1 DEF NoLeak
    <3>4. PaidFor(h)'
      <4>1. Handing(h)' = 0 /\ Handing(h) \in {0, 1}
        BY <2>1 DEF Handing
      <4>2. /\ held[h] \in Nat /\ Given(events, h) \in Nat /\ credits.outstanding[h] \in Nat
        BY <1>2, GivenType DEF Counts, WriterInv, CreditTypes
      <4> QED BY <1>1, <1>6, <3>1, <4>1, <4>2 DEF PerHandle, PaidFor
    <3> QED BY <3>2, <3>3, <3>4 DEF PerHandle
  <2> QED BY <1>4, <2>2, <2>3, <2>4 DEF WriterInv
<1> QED BY <1>3, <1>5, <1>6 DEF Transmit

-----------------------------------------------------------------------------
\* The start: nothing is out, queued or on its way.
LEMMA WriterStarts == WriterInit => WriterInv
<1> SUFFICES ASSUME WriterInit PROVE WriterInv
  OBVIOUS
<1>1. /\ credits = [capacity |-> 1, outstanding |-> [h \in Handles |-> 0], total |-> 0]
      /\ dead = {} /\ permit = FALSE /\ jobs = <<>>
      /\ writer = [at |-> "idle", job |-> NoJob]
      /\ links = [h \in Handles |-> 0] /\ pdus = 0
      /\ link = [h \in Handles |-> 0] /\ held = [h \in Handles |-> 0]
      /\ events = <<>> /\ ups = 0 /\ crossed = FALSE
  BY DEF WriterInit
<1>2. CreditTypes
  BY <1>1, NothingTotal DEF CreditTypes, Counts
<1>3. ~Working /\ Jobs = {}
  BY <1>1 DEF Working, Jobs
<1>4. QueueTypes
  BY <1>1, <1>3, NoJobIs, WriterAssumption DEF QueueTypes
<1>5. LinkTypes
  <2>1. /\ links \in [Handles -> 0..ups] /\ link \in [Handles -> 0..ups] /\ held \in Counts
        /\ events \in Seq(Event) /\ DOMAIN events = {} /\ ups \in 0..MaxLinks
    BY <1>1, WriterAssumption DEF Counts
  <2>2. \A h, n : NoUp(events, h, n)
    BY <2>1 DEF NoUp
  <2> QED BY <1>1, <2>1, <2>2 DEF LinkTypes
<1>6. ASSUME NEW h \in Handles PROVE PerHandle(h)
  <2>1. events \in Seq(Event) /\ DOMAIN events = {}
    BY <1>1
  <2>2. Given(events, h) = 0
    BY <2>1, NothingGiven
  <2>3. UpsGoDown(h) /\ NewestIsLast(h) /\ Unheard(h) /\ Settled(h) /\ Flushed(h)
    BY <1>1, <1>3, <2>1 DEF UpsGoDown, NewestIsLast, Unheard, Settled, Flushed,
                            UpsEnd, UpIsLast, ReportsFirst, Pending, Downs
  <2>4. PaidFor(h) /\ NoLeak(h)
    BY <1>1, <2>2 DEF PaidFor, NoLeak, Handing, InHand
  <2> QED BY <2>3, <2>4 DEF PerHandle
<1> QED BY <1>2, <1>4, <1>5, <1>6 DEF WriterInv

\* Every step keeps the invariant.
LEMMA WriterSteps == WriterInv /\ [WriterNext]_writerVars => WriterInv'
<1> SUFFICES ASSUME WriterInv, [WriterNext]_writerVars PROVE WriterInv'
  OBVIOUS
<1>1. ASSUME NEW h \in Handles, Connect(h) PROVE WriterInv'
  BY <1>1, Connecting
<1>2. ASSUME NEW h \in Handles, Disconnect(h) PROVE WriterInv'
  BY <1>2, Disconnecting
<1>3. ASSUME NEW h \in Handles, Complete(h) PROVE WriterInv'
  BY <1>3, Completing
<1>4. ASSUME NEW h \in Handles, NEW n \in 1..MaxFragments, Queue(h, n) PROVE WriterInv'
  BY <1>4, Queueing
<1>5. CASE Configure
  BY <1>5, Configuring
<1>6. CASE Handle
  BY <1>6, Handling
<1>7. CASE Writer
  BY <1>7, Pumping, Claiming, Waking, Transmitting DEF Writer
<1>8. CASE UNCHANGED writerVars
  <2>1. UNCHANGED <<credits, dead, permit, links, jobs, writer, pdus, link, events, ups, held,
                    crossed>>
    BY <1>8 DEF writerVars, host, controller
  <2>2. CreditTypes' /\ LinkTypes' /\ QueueTypes' /\ Jobs' = Jobs
    BY <2>1 DEF WriterInv, CreditTypes, LinkTypes, QueueTypes, Jobs, Working
  <2>3. ASSUME NEW h \in Handles PROVE PerHandle(h)'
    <3>1. PerHandle(h) /\ Handing(h)' = Handing(h) /\ InHand(h)' = InHand(h)
      BY <2>1 DEF WriterInv, Handing, InHand
    <3> QED BY <2>1, <2>2, <3>1, Elsewhere
  <2> QED BY <2>2, <2>3 DEF WriterInv
<1> QED BY <1>1, <1>2, <1>3, <1>4, <1>5, <1>6, <1>7, <1>8 DEF WriterNext

\* The invariant holds throughout.
LEMMA WriterInvariant == WriterSpec => []WriterInv
<1> QED BY WriterStarts, WriterSteps, PTL DEF WriterSpec

\* The types of the credit pool, of the queue and of the writer, of the links and of the
\* controller: in particular, no more credits are out than the pool has.
THEOREM WriterTyping == WriterSpec => []WriterTypeOK
<1>1. WriterInv => WriterTypeOK
  <2> SUFFICES ASSUME WriterInv PROVE WriterTypeOK
    OBVIOUS
  <2>1. /\ credits \in [capacity : {1, Buffers}, outstanding : Counts, total : Nat]
        /\ credits.total = Total(credits.outstanding) /\ credits.total <= credits.capacity
        /\ Buffers \in Nat \ {0}
    BY WriterAssumption DEF WriterInv, CreditTypes
  <2>2. credits.total \in 0..Buffers
    BY <2>1
  <2>3. credits.outstanding \in [Handles -> 0..Buffers]
    <3> DEFINE o == credits.outstanding
    <3>1. o \in Counts /\ Total(o) \in 0..Buffers
      BY <2>1, <2>2
    <3> HIDE DEF o
    <3>2. ASSUME NEW h \in Handles PROVE o[h] \in 0..Buffers
      <4>1. Total(o) \in Nat /\ o[h] \in Nat /\ o[h] <= Total(o)
        BY <3>1, TotalMoves
      <4> QED BY <2>1, <3>1, <4>1
    <3> QED BY <3>1, <3>2 DEF Counts, o
  <2>4. credits \in [capacity : {1, Buffers}, outstanding : [Handles -> 0..Buffers],
                     total : 0..Buffers]
    BY <2>1, <2>2, <2>3
  <2>5. ups \in 0..MaxLinks /\ MaxLinks \in Nat /\ MaxFragments \in Nat
    BY WriterAssumption DEF WriterInv, LinkTypes
  <2>6. \A j \in {writer.job} \cup Range(jobs) :
          j \in [to : Handles, link : 0..MaxLinks, left : 0..MaxFragments]
    <3>1. ASSUME NEW j \in Jobs
          PROVE  j \in [to : Handles, link : 0..MaxLinks, left : 0..MaxFragments]
      <4>1. j \in WJob /\ j.link \in Nat /\ j.link <= ups
        BY JobsAre
      <4> QED BY <2>5, <4>1 DEF WJob
    <3>2. NoJob \in [to : Handles, link : 0..MaxLinks, left : 0..MaxFragments]
      <4>1. NoJob.to \in Handles
        BY NoJobIs
      <4> QED BY <2>5, <4>1 DEF NoJob
    <3>3. \A j \in Range(jobs) : j \in Jobs
      BY DEF Range, Jobs
    <3>4. writer.job \in Jobs \/ writer.job = NoJob
      BY DEF WriterInv, QueueTypes, Jobs
    <3> QED BY <3>1, <3>2, <3>3, <3>4
  <2>7. links \in [Handles -> 0..MaxLinks] /\ link \in [Handles -> 0..MaxLinks]
    <3>1. links \in [Handles -> 0..ups] /\ link \in [Handles -> 0..ups]
      BY DEF WriterInv, LinkTypes
    <3> QED BY <2>5, <3>1
  <2>8. writer.at \in {"idle", "claim", "parked", "send", "gone"} /\ pdus \in 0..MaxPdus
    BY DEF WriterInv, QueueTypes
  <2>9. held \in [Handles -> Nat] /\ dead \subseteq Handles /\ permit \in BOOLEAN
        /\ crossed \in BOOLEAN
    BY DEF WriterInv, LinkTypes, Counts
  <2> QED BY <2>4, <2>5, <2>6, <2>7, <2>8, <2>9 DEF WriterTypeOK
<1> QED BY <1>1, WriterInvariant, PTL

\* AclCredits: every credit that is out for a handle is a fragment the controller holds, one it
\* is reporting complete, or the one at hand, unless the end of the link is on its way.
THEOREM CreditsDoNotLeak == WriterSpec => []NoCreditLeaks
<1>1. WriterInv => NoCreditLeaks
  <2> SUFFICES ASSUME WriterInv PROVE NoCreditLeaks
    OBVIOUS
  <2>1. credits.total = Total(credits.outstanding)
    BY DEF WriterInv, CreditTypes
  <2>2. ASSUME NEW h \in Handles
        PROVE  \/ DownOnTheWay(h)
               \/ writer.at = "gone"
               \/ credits.outstanding[h] <= held[h] + OnTheWay(h) + InHand(h)
    <3>1. NoLeak(h)
      BY DEF WriterInv, PerHandle
    <3>2. OnTheWay(h) = Given(events, h) /\ (Downs(events, h) => DownOnTheWay(h))
      BY DEF OnTheWay, Given, Downs, Down, DownOnTheWay
    <3> QED BY <3>1, <3>2 DEF NoLeak
  <2> QED BY <2>1, <2>2 DEF NoCreditLeaks
<1> QED BY <1>1, WriterInvariant, PTL

\* As long as every fragment goes out on the link it was queued for, the controller has a buffer
\* for each one it is handed (acl.rs, the pool that every link shares).
THEOREM FragmentsHaveRoom == WriterSpec => []FragmentsFit
<1>1. WriterInv => FragmentsFit
  <2> SUFFICES ASSUME WriterInv, ~crossed PROVE Total(held) <= Buffers
    BY DEF FragmentsFit
  <2> DEFINE o == credits.outstanding
  <2>1. /\ o \in Counts /\ held \in Counts
        /\ Total(o) \in Nat /\ Total(o) <= Buffers
    BY WriterAssumption DEF WriterInv, CreditTypes, LinkTypes
  <2>2. ASSUME NEW h \in Handles PROVE held[h] <= o[h]
    <3>1. held[h] + Given(events, h) + Handing(h) <= o[h]
      BY DEF WriterInv, PerHandle, PaidFor
    <3>2. held[h] \in Nat /\ o[h] \in Nat /\ Given(events, h) \in Nat /\ Handing(h) \in Nat
      BY <2>1, GivenType DEF Counts, Handing
    <3> HIDE DEF o
    <3> QED BY <3>1, <3>2
  <2> HIDE DEF o
  <2>3. Total(held) <= Total(o) /\ Total(held) \in Nat
    BY <2>1, <2>2, SmallerTotal
  <2> QED BY <2>1, <2>3, WriterAssumption
<1> QED BY <1>1, WriterInvariant, PTL
=============================================================================
