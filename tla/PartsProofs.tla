----------------------------- MODULE PartsProofs -----------------------------
(***************************************************************************)
(* Two parts of the receivers, the FCast player and the reorder buffer,    *)
(* and what HciFlowProofs proves of HCI flow control: the reorder buffer,  *)
(* the writer of ACL data and the window of commands share nothing, and    *)
(* what holds of one holds of it among the others.                         *)
(*                                                                         *)
(* The FCast player, for any senders, any cap of the queue, any number of  *)
(* items and any room in the session manager's channel: whatever senders   *)
(* and the panel do to the queue, once their events are heard the pipeline *)
(* plays the item the player stands at and the card shows what follows it, *)
(* as long as they do not change the player before each other's events are *)
(* sent.  The argument is about the events on their way: while one caller  *)
(* at most has any to send, the last of them to start or stop the pipeline *)
(* sets it right, and the last of all tells the card what follows.         *)
(*                                                                         *)
(* The RTP reorder buffer under the Miracast receiver, for any depth and   *)
(* any network that displaces packets by less than half the sequence       *)
(* space: packets come out in order and the count of the lost is exact.    *)
(***************************************************************************)
EXTENDS MCParts, FCastPlayer, HciFlowProofs, Integers, FiniteSetTheorems, SequenceTheorems,
        WellFoundedInduction, TLAPS

-----------------------------------------------------------------------------
(* The FCast player.                                                       *)

LoadedType == [queue : Seq(Item), index : Nat, playlist : BOOLEAN, autoplay : BOOLEAN,
               v4 : BOOLEAN]

PlayerTypes ==
    /\ loaded \in LoadedType
    /\ state \in {"Idle", "Playing"}
    /\ items \in 0..MaxItems /\ overlaps \in 0..MaxOverlaps /\ mixed \in BOOLEAN
    /\ calls \in [Callers -> Seq(Said)]
    /\ channel \in Seq(Said) /\ Len(channel) <= Room
    /\ active \in BOOLEAN /\ remote \in BOOLEAN /\ telling \in BOOLEAN
    /\ playing \in Item \cup {0} /\ ended \in BOOLEAN
    /\ card \in Seq(Item)

\* What is loaded has a current item, and neither more items than have appeared nor, in a v4
\* queue, more than the cap.
AtAnItem ==
    /\ IsLoaded => loaded.index \in 1..Len(loaded.queue)
    /\ Len(loaded.queue) <= items
    /\ loaded.v4 => Len(loaded.queue) <= MaxQueue

\* The pipeline plays FCast's item while FCast holds the screen, and only then.
OffScreen == ~active => playing = 0

-----------------------------------------------------------------------------
(* What events on their way come to.  In these p is what the session       *)
(* manager has still to hear, l what is loaded, i the item the pipeline    *)
(* plays and up what the card shows to follow.                             *)

Starts(e) == e.is \in {"Play", "Stop"}

\* An event that has the pipeline play, or not play, what is loaded.
Sets(e, l) ==
    \/ e.is = "Play" /\ l # Nothing /\ e.item = l.queue[l.index]
    \/ e.is = "Stop" /\ l = Nothing

\* The last event to start or stop the pipeline sets it right, or none is on its way and the
\* pipeline is right already.
PlaysRight(p, l, i) ==
    \/ \E k \in 1..Len(p) : Sets(p[k], l) /\ \A j \in (k + 1)..Len(p) : ~Starts(p[j])
    \/ /\ \A k \in 1..Len(p) : ~Starts(p[k])
       /\ i # 0 => l # Nothing /\ i = l.queue[l.index]

\* The last event on its way tells the card what follows, or there is none and it shows it.
ShowsRight(p, l, i, up) ==
    l # Nothing /\ UpNext(l) # <<>> =>
        IF p = <<>> THEN i # 0 => up = UpNext(l) ELSE p[Len(p)] = WhatFollows(l)

\* Nobody but c has events to send, and those in the channel and after them c's come to what
\* is loaded.
Undisturbed(c) ==
    /\ \A d \in Callers \ {c} : calls[d] = <<>>
    /\ PlaysRight(channel \o calls[c], loaded, playing)
    /\ ShowsRight(channel \o calls[c], loaded, playing, card)

Agreed == ~mixed => \E c \in Callers : Undisturbed(c)

PlayerInv == PlayerTypes /\ AtAnItem /\ OffScreen /\ Agreed

-----------------------------------------------------------------------------
(* Sequences. *)

\* An item put in makes the queue one longer and moves those from its place on along.
LEMMA PuttingIn ==
    ASSUME NEW S, NEW s \in Seq(S), NEW e \in S, NEW at \in 1..(Len(s) + 1)
    PROVE  /\ InsertAt(s, at, e) \in Seq(S)
           /\ Len(InsertAt(s, at, e)) = Len(s) + 1
           /\ \A i \in 1..Len(s) :
                InsertAt(s, at, e)[IF at <= i THEN i + 1 ELSE i] = s[i]
<1> DEFINE a == SubSeq(s, 1, at - 1)
           b == SubSeq(s, at, Len(s))
<1>1. /\ a \in Seq(S) /\ Len(a) = at - 1
      /\ \A i \in 1..(at - 1) : a[i] = s[i]
  BY SubSeqProperties
<1>2. /\ b \in Seq(S) /\ Len(b) = Len(s) - at + 1
      /\ \A i \in 1..(Len(s) - at + 1) : b[i] = s[at + i - 1]
  BY SubSeqProperties
<1>3. <<e>> \in Seq(S) /\ Len(<<e>>) = 1
  OBVIOUS
<1> HIDE DEF a, b
<1>4. /\ a \o <<e>> \in Seq(S) /\ Len(a \o <<e>>) = at
      /\ \A i \in 1..(at - 1) : (a \o <<e>>)[i] = a[i]
  BY <1>1, <1>3, ConcatProperties
<1>5. /\ (a \o <<e>>) \o b \in Seq(S) /\ Len((a \o <<e>>) \o b) = Len(s) + 1
      /\ \A i \in 1..(Len(s) + 1) :
            ((a \o <<e>>) \o b)[i] = IF i <= at THEN (a \o <<e>>)[i] ELSE b[i - at]
  <2> DEFINE c == a \o <<e>>
  <2>1. c \in Seq(S) /\ Len(c) = at
    BY <1>4
  <2> HIDE DEF c
  <2>2. /\ c \o b \in Seq(S) /\ Len(c \o b) = Len(c) + Len(b)
        /\ \A i \in 1..(Len(c) + Len(b)) :
              (c \o b)[i] = IF i <= Len(c) THEN c[i] ELSE b[i - Len(c)]
    BY <2>1, <1>2, ConcatProperties
  <2>3. Len(c) + Len(b) = Len(s) + 1
    BY <2>1, <1>2
  <2> QED BY <2>1, <2>2, <2>3 DEF c
<1>6. InsertAt(s, at, e) = (a \o <<e>>) \o b
  BY DEF InsertAt, a, b
<1>7. ASSUME NEW i \in 1..Len(s)
      PROVE InsertAt(s, at, e)[IF at <= i THEN i + 1 ELSE i] = s[i]
  <2>1. CASE at <= i
    <3>1. i + 1 \in 1..(Len(s) + 1) /\ ~(i + 1 <= at) /\ i + 1 - at \in 1..(Len(s) - at + 1)
      BY <2>1
    <3>2. InsertAt(s, at, e)[i + 1] = b[i + 1 - at]
      BY <3>1, <1>5, <1>6
    <3>3. b[i + 1 - at] = s[at + (i + 1 - at) - 1]
      BY <3>1, <1>2
    <3> QED BY <2>1, <3>2, <3>3
  <2>2. CASE at > i
    <3>1. i \in 1..(at - 1) /\ i \in 1..(Len(s) + 1) /\ i <= at
      BY <2>2
    <3> QED BY <2>2, <3>1, <1>1, <1>4, <1>5, <1>6
  <2> QED BY <2>1, <2>2
<1> QED BY <1>5, <1>6, <1>7

\* An item taken out makes the queue one shorter and moves those after it back.
LEMMA TakingOut ==
    ASSUME NEW S, NEW s \in Seq(S), NEW at \in 1..Len(s)
    PROVE  /\ RemoveAt(s, at) \in Seq(S)
           /\ Len(RemoveAt(s, at)) = Len(s) - 1
           /\ \A i \in 1..Len(s) :
                i # at => RemoveAt(s, at)[IF at < i THEN i - 1 ELSE i] = s[i]
<1> DEFINE a == SubSeq(s, 1, at - 1)
           b == SubSeq(s, at + 1, Len(s))
<1>1. /\ a \in Seq(S) /\ Len(a) = at - 1
      /\ \A i \in 1..(at - 1) : a[i] = s[i]
  BY SubSeqProperties
<1>2. /\ b \in Seq(S) /\ Len(b) = Len(s) - at
      /\ \A i \in 1..(Len(s) - at) : b[i] = s[at + i]
  BY SubSeqProperties
<1> HIDE DEF a, b
<1>3. /\ a \o b \in Seq(S) /\ Len(a \o b) = Len(s) - 1
      /\ \A i \in 1..(Len(s) - 1) :
            (a \o b)[i] = IF i <= at - 1 THEN a[i] ELSE b[i - (at - 1)]
  <2>1. /\ a \o b \in Seq(S) /\ Len(a \o b) = Len(a) + Len(b)
        /\ \A i \in 1..(Len(a) + Len(b)) :
              (a \o b)[i] = IF i <= Len(a) THEN a[i] ELSE b[i - Len(a)]
    BY <1>1, <1>2, ConcatProperties
  <2>2. Len(a) + Len(b) = Len(s) - 1
    BY <1>1, <1>2
  <2> QED BY <1>1, <2>1, <2>2
<1>4. RemoveAt(s, at) = a \o b
  BY DEF RemoveAt, a, b
<1>5. ASSUME NEW i \in 1..Len(s), i # at
      PROVE RemoveAt(s, at)[IF at < i THEN i - 1 ELSE i] = s[i]
  <2>1. CASE at < i
    <3>1. /\ i - 1 \in 1..(Len(s) - 1) /\ ~(i - 1 <= at - 1)
          /\ (i - 1) - (at - 1) = i - at /\ i - at \in 1..(Len(s) - at) /\ at + (i - at) = i
      BY <2>1
    <3>2. RemoveAt(s, at)[i - 1] = b[i - at]
      BY <3>1, <1>3, <1>4
    <3>3. b[i - at] = s[at + (i - at)]
      BY <3>1, <1>2
    <3> QED BY <2>1, <3>1, <3>2, <3>3
  <2>2. CASE at > i
    <3>1. i \in 1..(at - 1) /\ i \in 1..(Len(s) - 1) /\ i <= at - 1
      BY <2>2
    <3> QED BY <2>2, <3>1, <1>1, <1>3, <1>4
  <2> QED BY <1>5, <2>1, <2>2
<1> QED BY <1>3, <1>4, <1>5
-----------------------------------------------------------------------------
(* The events. *)

\* What follows the current item is part of the queue.
LEMMA Following ==
    ASSUME NEW l \in LoadedType
    PROVE  UpNext(l) \in Seq(Item) /\ Len(UpNext(l)) <= Len(l.queue)
<1>1. l.queue \in Seq(Item) /\ l.index \in Nat
  BY DEF LoadedType
<1>2. \A i \in (l.index + 1)..Len(l.queue) : l.queue[i] \in Item
  BY <1>1
<1> QED BY <1>1, <1>2, SubSeqProperties DEF UpNext

\* Events are what they should be.
LEMMA EventsAreSaid ==
    ASSUME NEW l \in LoadedType
    PROVE  /\ WhatFollows(l) \in Said /\ ~Starts(WhatFollows(l))
           /\ Stop \in Said /\ Stop.is = "Stop"
<1>1. UpNext(l) \in Seq(Item) /\ <<>> \in Seq(Item)
  BY Following
<1> QED BY <1>1 DEF WhatFollows, Stop, SessionEvent, Said, Starts

\* What starting an item has to say: the item first, and last what follows it if anything
\* does.
LEMMA SayingStart ==
    ASSUME NEW l \in LoadedType, l.index \in 1..Len(l.queue), NEW c
    PROVE  LET s == StartCurrent(l, c)
           IN /\ s \in Seq(Said) /\ Len(s) >= 1
              /\ s[1] = Play(l.queue[l.index])
              /\ \A j \in 2..Len(s) : ~Starts(s[j])
              /\ UpNext(l) # <<>> => s[Len(s)] = WhatFollows(l)
<1> DEFINE item == l.queue[l.index]
           t == IF c = "panel" THEN <<Play(item), NowPlaying(item)>>
                ELSE <<Play(item), ControlSurface, NowPlaying(item)>>
           s == StartCurrent(l, c)
           w == WhatFollows(l)
<1>1. item \in Item /\ l.queue \in Seq(Item)
  BY DEF LoadedType
<1>2. /\ Play(item) \in Said /\ ControlSurface \in Said /\ NowPlaying(item) \in Said
      /\ ~Starts(ControlSurface) /\ ~Starts(NowPlaying(item))
  <2>1. <<>> \in Seq(Item)
    OBVIOUS
  <2> QED BY <1>1, <2>1 DEF Play, ControlSurface, NowPlaying, SessionEvent, Said, Starts
<1>3. /\ t \in Seq(Said) /\ Len(t) >= 1 /\ t[1] = Play(item)
      /\ \A j \in 2..Len(t) : ~Starts(t[j])
  <2>1. CASE c = "panel"
    <3>1. t = <<Play(item), NowPlaying(item)>>
      BY <2>1
    <3> HIDE DEF t, item
    <3>2. Len(t) = 2 /\ t \in Seq(Said) /\ t[1] = Play(item) /\ t[2] = NowPlaying(item)
      BY <3>1, <1>2
    <3> QED BY <3>2, <1>2
  <2>2. CASE c # "panel"
    <3>1. t = <<Play(item), ControlSurface, NowPlaying(item)>>
      BY <2>2
    <3> HIDE DEF t, item
    <3>2. /\ Len(t) = 3 /\ t \in Seq(Said) /\ t[1] = Play(item) /\ t[2] = ControlSurface
          /\ t[3] = NowPlaying(item)
      BY <3>1, <1>2
    <3>3. \A j \in 2..3 : j = 2 \/ j = 3
      OBVIOUS
    <3> QED BY <3>2, <3>3, <1>2
  <2> QED BY <2>1, <2>2
<1>4. s = IF UpNext(l) = <<>> THEN t ELSE Append(t, w)
  BY DEF StartCurrent
<1>5. w \in Said /\ ~Starts(w)
  BY EventsAreSaid
<1> HIDE DEF t, s, w, item
<1>6. CASE UpNext(l) = <<>>
  BY <1>3, <1>4, <1>6 DEF s, item
<1>7. CASE UpNext(l) # <<>>
  <2>1. s = Append(t, w)
    BY <1>4, <1>7
  <2>2. /\ Append(t, w) \in Seq(Said) /\ Len(Append(t, w)) = Len(t) + 1
        /\ \A j \in 1..Len(t) : Append(t, w)[j] = t[j]
        /\ Append(t, w)[Len(t) + 1] = w
    BY <1>3, <1>5, AppendProperties
  <2>3. \A j \in 2..Len(s) : j \in 2..Len(t) \/ j = Len(t) + 1
    BY <1>3, <2>1, <2>2
  <2>4. \A j \in 2..Len(s) : ~Starts(s[j])
    BY <1>3, <1>5, <2>1, <2>2, <2>3
  <2> QED BY <1>3, <2>1, <2>2, <2>4 DEF s, w, item
<1> QED BY <1>6, <1>7

\* Started undisturbed, the player is right whatever was on its way before.
LEMMA RightOnceStarted ==
    ASSUME NEW p \in Seq(Said), NEW l \in LoadedType, l # Nothing,
           l.index \in 1..Len(l.queue), NEW c, NEW i, NEW up
    PROVE  /\ PlaysRight(p \o StartCurrent(l, c), l, i)
           /\ ShowsRight(p \o StartCurrent(l, c), l, i, up)
<1> DEFINE s == StartCurrent(l, c)
           q == p \o s
           item == l.queue[l.index]
<1>1. /\ s \in Seq(Said) /\ Len(s) >= 1 /\ s[1] = Play(item)
      /\ \A j \in 2..Len(s) : ~Starts(s[j])
      /\ UpNext(l) # <<>> => s[Len(s)] = WhatFollows(l)
  BY SayingStart
<1>2. Sets(Play(item), l)
  BY DEF Sets, Play, SessionEvent
<1> HIDE DEF s, item
<1>3. /\ q \in Seq(Said) /\ Len(q) = Len(p) + Len(s)
      /\ \A j \in 1..(Len(p) + Len(s)) : q[j] = IF j <= Len(p) THEN p[j] ELSE s[j - Len(p)]
  BY <1>1, ConcatProperties
<1> HIDE DEF q
<1> DEFINE k == Len(p) + 1
<1>4. k \in 1..Len(q) /\ q[k] = s[1]
  <2>1. k \in 1..(Len(p) + Len(s)) /\ ~(k <= Len(p)) /\ k - Len(p) = 1
    BY <1>1
  <2>2. q[k] = s[k - Len(p)]
    BY <1>3, <2>1
  <2> QED BY <1>3, <2>1, <2>2
<1>5. \A j \in (k + 1)..Len(q) : ~Starts(q[j])
  <2> SUFFICES ASSUME NEW j \in (k + 1)..Len(q) PROVE ~Starts(q[j])
    OBVIOUS
  <2>1. j \in 1..(Len(p) + Len(s)) /\ ~(j <= Len(p)) /\ j - Len(p) \in 2..Len(s)
    BY <1>1, <1>3
  <2> QED BY <1>1, <1>3, <2>1
<1>6. PlaysRight(q, l, i)
  BY <1>1, <1>2, <1>4, <1>5 DEF PlaysRight
<1>7. q # <<>> /\ q[Len(q)] = s[Len(s)]
  <2>1. Len(q) \in 1..(Len(p) + Len(s)) /\ ~(Len(q) <= Len(p)) /\ Len(q) - Len(p) = Len(s)
    BY <1>1, <1>3
  <2> QED BY <1>3, <2>1
<1>8. ShowsRight(q, l, i, up)
  BY <1>1, <1>7 DEF ShowsRight
<1> QED BY <1>6, <1>8 DEF q, s

\* Stopped undisturbed, so is it.
LEMMA RightOnceStopped ==
    ASSUME NEW p \in Seq(Said), NEW i, NEW up
    PROVE  /\ PlaysRight(p \o <<Stop>>, Nothing, i)
           /\ ShowsRight(p \o <<Stop>>, Nothing, i, up)
<1>1. Stop \in Said /\ Sets(Stop, Nothing)
  <2>1. <<>> \in Seq(Item)
    OBVIOUS
  <2> QED BY <2>1 DEF Stop, SessionEvent, Said, Sets
<1> DEFINE q == p \o <<Stop>>
           k == Len(p) + 1
<1>2. Len(q) = k /\ q[k] = Stop /\ k \in 1..Len(q)
  <2>1. q = Append(p, Stop)
    BY <1>1, AppendIsConcat
  <2> HIDE DEF q
  <2> QED BY <2>1, <1>1, AppendProperties
<1> HIDE DEF q
<1>3. PlaysRight(q, Nothing, i)
  BY <1>1, <1>2 DEF PlaysRight
<1> QED BY <1>3 DEF ShowsRight, q

\* An edit around the current item leaves the pipeline right and tells the card.
LEMMA RightOnceEdited ==
    ASSUME NEW p \in Seq(Said), NEW l \in LoadedType, NEW m \in LoadedType,
           l # Nothing, m # Nothing, m.queue[m.index] = l.queue[l.index],
           NEW i, NEW up, PlaysRight(p, l, i)
    PROVE  /\ PlaysRight(p \o <<WhatFollows(m)>>, m, i)
           /\ ShowsRight(p \o <<WhatFollows(m)>>, m, i, up)
<1> DEFINE w == WhatFollows(m)
           q == p \o <<w>>
<1>1. w \in Said /\ ~Starts(w)
  BY EventsAreSaid
<1> HIDE DEF w
<1>2. /\ Len(q) = Len(p) + 1 /\ q[Len(p) + 1] = w /\ q \in Seq(Said)
      /\ \A j \in 1..Len(p) : q[j] = p[j]
  <2>1. q = Append(p, w)
    BY <1>1, AppendIsConcat
  <2> HIDE DEF q
  <2> QED BY <2>1, <1>1, AppendProperties
<1> HIDE DEF q
<1>3. \A e : Sets(e, l) => Sets(e, m)
  BY DEF Sets
<1>4. ASSUME NEW j \in 1..Len(q) PROVE j \in 1..Len(p) \/ j = Len(p) + 1
  BY <1>2
<1>5. PlaysRight(q, m, i)
  <2>1. CASE \E k \in 1..Len(p) : Sets(p[k], l) /\ \A j \in (k + 1)..Len(p) : ~Starts(p[j])
    <3>1. PICK k \in 1..Len(p) : Sets(p[k], l) /\ \A j \in (k + 1)..Len(p) : ~Starts(p[j])
      BY <2>1
    <3>2. k \in 1..Len(q) /\ Sets(q[k], m)
      BY <1>2, <1>3, <3>1
    <3>3. ASSUME NEW j \in (k + 1)..Len(q) PROVE ~Starts(q[j])
      <4>1. j \in (k + 1)..Len(p) \/ j = Len(p) + 1
        BY <1>2
      <4>2. CASE j \in (k + 1)..Len(p)
        <5>1. j \in 1..Len(p)
          BY <4>2
        <5> QED BY <1>2, <3>1, <4>2, <5>1
      <4> QED BY <1>1, <1>2, <4>1, <4>2
    <3> QED BY <3>2, <3>3 DEF PlaysRight
  <2>2. CASE /\ \A k \in 1..Len(p) : ~Starts(p[k])
             /\ i # 0 => l # Nothing /\ i = l.queue[l.index]
    <3>1. \A k \in 1..Len(q) : ~Starts(q[k])
      BY <1>1, <1>2, <1>4, <2>2
    <3> QED BY <2>2, <3>1 DEF PlaysRight
  <2> QED BY <2>1, <2>2 DEF PlaysRight
<1>6. q # <<>> /\ q[Len(q)] = w
  BY <1>2
<1>7. ShowsRight(q, m, i, up)
  BY <1>6 DEF ShowsRight, w
<1> QED BY <1>5, <1>7 DEF q, w

\* The session manager hears the first event, and plays by it.
LEMMA RightOnceHeard ==
    ASSUME NEW p \in Seq(Said), p # <<>>, NEW l \in LoadedType, NEW i, NEW n,
           PlaysRight(p, l, i),
           n = IF Head(p).is = "Play" THEN Head(p).item
               ELSE IF Head(p).is = "Stop" THEN 0 ELSE i
    PROVE  PlaysRight(Tail(p), l, n)
<1> DEFINE t == Tail(p)
<1>1. /\ t \in Seq(Said) /\ Len(t) = Len(p) - 1 /\ Len(p) \in Nat /\ Len(p) >= 1
      /\ \A j \in 1..Len(t) : t[j] = p[j + 1]
      /\ Head(p) = p[1]
  BY HeadTailProperties
<1> HIDE DEF t
<1>2. CASE \E k \in 1..Len(p) : Sets(p[k], l) /\ \A j \in (k + 1)..Len(p) : ~Starts(p[j])
  <2>1. PICK k \in 1..Len(p) : Sets(p[k], l) /\ \A j \in (k + 1)..Len(p) : ~Starts(p[j])
    BY <1>2
  <2>2. CASE k = 1
    <3>1. n # 0 => l # Nothing /\ n = l.queue[l.index]
      BY <1>1, <2>1, <2>2 DEF Sets
    <3>2. ASSUME NEW j \in 1..Len(t) PROVE ~Starts(t[j])
      <4>1. j + 1 \in (k + 1)..Len(p)
        BY <1>1, <2>2
      <4> QED BY <1>1, <2>1, <4>1
    <3> QED BY <3>1, <3>2 DEF PlaysRight, t
  <2>3. CASE k # 1
    <3>1. k - 1 \in 1..Len(t) /\ t[k - 1] = p[k]
      BY <1>1, <2>3
    <3>2. ASSUME NEW j \in ((k - 1) + 1)..Len(t) PROVE ~Starts(t[j])
      <4>1. j \in 1..Len(t) /\ j + 1 \in (k + 1)..Len(p)
        BY <1>1, <2>3
      <4> QED BY <1>1, <2>1, <4>1
    <3> QED BY <2>1, <3>1, <3>2 DEF PlaysRight, t
  <2> QED BY <2>2, <2>3
<1>3. CASE /\ \A k \in 1..Len(p) : ~Starts(p[k])
           /\ i # 0 => l # Nothing /\ i = l.queue[l.index]
  <2>1. ~Starts(p[1])
    BY <1>1, <1>3
  <2>2. n = i
    BY <1>1, <2>1 DEF Starts
  <2>3. ASSUME NEW j \in 1..Len(t) PROVE ~Starts(t[j])
    <3>1. j + 1 \in 1..Len(p)
      BY <1>1
    <3> QED BY <1>1, <1>3, <3>1
  <2> QED BY <1>3, <2>2, <2>3 DEF PlaysRight, t
<1> QED BY <1>2, <1>3 DEF PlaysRight

\* ... and shows by it.
LEMMA RightOnceShown ==
    ASSUME NEW p \in Seq(Said), p # <<>>, NEW l \in LoadedType, NEW i, NEW n, NEW up, NEW vp,
           ShowsRight(p, l, i, up),
           Head(p).is = "UpNext" => n = 0 \/ vp = Head(p).list
    PROVE  ShowsRight(Tail(p), l, n, vp)
<1> SUFFICES ASSUME l # Nothing, UpNext(l) # <<>>
             PROVE  IF Tail(p) = <<>> THEN n # 0 => vp = UpNext(l)
                    ELSE Tail(p)[Len(Tail(p))] = WhatFollows(l)
  BY DEF ShowsRight
<1> DEFINE t == Tail(p)
<1>1. /\ t \in Seq(Said) /\ Len(t) = Len(p) - 1 /\ Len(p) \in Nat
      /\ \A j \in 1..Len(t) : t[j] = p[j + 1]
      /\ Head(p) = p[1]
  BY HeadTailProperties
<1> HIDE DEF t
<1>2. p[Len(p)] = WhatFollows(l)
  BY DEF ShowsRight
<1>3. CASE t = <<>>
  <2>1. Len(t) = 0
    BY <1>3
  <2>2. Len(p) = 1
    BY <1>1, <2>1
  <2>3. Head(p) = WhatFollows(l)
    BY <1>1, <1>2, <2>2
  <2> QED BY <1>3, <2>3 DEF WhatFollows, SessionEvent, t
<1>4. CASE t # <<>>
  <2>1. Len(t) \in 1..Len(t) /\ Len(t) + 1 = Len(p)
    BY <1>1, <1>4
  <2> QED BY <1>1, <1>2, <1>4, <2>1 DEF t
<1> QED BY <1>3, <1>4

\* Silencing the pipeline wrongs nobody.
LEMMA RightWhenSilent ==
    ASSUME NEW p, NEW l, NEW i, NEW up, NEW vp, PlaysRight(p, l, i), ShowsRight(p, l, i, up)
    PROVE  PlaysRight(p, l, 0) /\ ShowsRight(p, l, 0, vp)
  BY DEF PlaysRight, ShowsRight

\* Sending an event of one's own moves it from behind the channel into it.
LEMMA Sending ==
    ASSUME NEW p \in Seq(Said), NEW s \in Seq(Said), s # <<>>
    PROVE  /\ Append(p, Head(s)) \o Tail(s) = p \o s
           /\ Append(p, Head(s)) \in Seq(Said) /\ Tail(s) \in Seq(Said)
           /\ Len(Append(p, Head(s))) = Len(p) + 1
<1> DEFINE h == Head(s)
           t == Tail(s)
<1>1. h \in Said /\ t \in Seq(Said)
  BY HeadTailProperties
<1>2. <<h>> \o t = s
  BY HeadTailProperties, ConcatProperties
<1> HIDE DEF h, t
<1>3. <<h>> \in Seq(Said)
  BY <1>1
<1>4. Append(p, h) = p \o <<h>> /\ Append(p, h) \in Seq(Said) /\ Len(Append(p, h)) = Len(p) + 1
  BY <1>1, AppendIsConcat, AppendProperties
<1>5. (p \o <<h>>) \o t = p \o (<<h>> \o t)
  BY <1>1, <1>3, ConcatAssociative
<1> QED BY <1>1, <1>2, <1>4, <1>5 DEF h, t

\* Hearing the head of the channel takes the head off all that is on its way.
LEMMA Hearing ==
    ASSUME NEW p \in Seq(Said), NEW s \in Seq(Said), p # <<>>
    PROVE  /\ p \o s \in Seq(Said) /\ p \o s # <<>>
           /\ Head(p \o s) = Head(p) /\ Tail(p \o s) = Tail(p) \o s
<1>1. /\ Tail(p) \in Seq(Said) /\ Len(Tail(p)) = Len(p) - 1 /\ Len(p) \in Nat /\ Len(p) >= 1
      /\ \A j \in 1..Len(Tail(p)) : Tail(p)[j] = p[j + 1]
      /\ Head(p) = p[1]
  BY HeadTailProperties
<1> DEFINE q == p \o s
           t == Tail(p) \o s
<1>2. /\ q \in Seq(Said) /\ Len(q) = Len(p) + Len(s)
      /\ \A j \in 1..(Len(p) + Len(s)) : q[j] = IF j <= Len(p) THEN p[j] ELSE s[j - Len(p)]
  BY ConcatProperties
<1>3. /\ t \in Seq(Said) /\ Len(t) = Len(Tail(p)) + Len(s)
      /\ \A j \in 1..(Len(Tail(p)) + Len(s)) :
            t[j] = IF j <= Len(Tail(p)) THEN Tail(p)[j] ELSE s[j - Len(Tail(p))]
  BY <1>1, ConcatProperties
<1> HIDE DEF q, t
<1>4. Len(s) \in Nat
  OBVIOUS
<1>5. q # <<>> /\ q[1] = p[1] /\ Len(q) >= 1
  BY <1>1, <1>2, <1>4
<1>6. /\ Tail(q) \in Seq(Said) /\ Len(Tail(q)) = Len(q) - 1
      /\ \A j \in 1..Len(Tail(q)) : Tail(q)[j] = q[j + 1]
      /\ Head(q) = q[1]
  BY <1>2, <1>5, HeadTailProperties
<1>7. Len(Tail(q)) = Len(t)
  BY <1>1, <1>2, <1>3, <1>4, <1>6
<1>8. ASSUME NEW j \in 1..Len(t) PROVE Tail(q)[j] = t[j]
  <2>1. j + 1 \in 1..(Len(p) + Len(s)) /\ Tail(q)[j] = q[j + 1]
    BY <1>1, <1>2, <1>3, <1>4, <1>6, <1>7
  <2>2. CASE j <= Len(Tail(p))
    <3>1. j + 1 <= Len(p) /\ j \in 1..Len(Tail(p)) /\ j \in 1..(Len(Tail(p)) + Len(s))
      BY <1>1, <1>3, <1>4, <2>2
    <3>2. q[j + 1] = p[j + 1] /\ t[j] = Tail(p)[j]
      BY <1>2, <1>3, <2>1, <2>2, <3>1
    <3> QED BY <1>1, <2>1, <3>1, <3>2
  <2>3. CASE ~(j <= Len(Tail(p)))
    <3>1. /\ ~(j + 1 <= Len(p)) /\ j \in 1..(Len(Tail(p)) + Len(s))
          /\ (j + 1) - Len(p) = j - Len(Tail(p))
      BY <1>1, <1>3, <1>4, <2>3
    <3>2. q[j + 1] = s[(j + 1) - Len(p)] /\ t[j] = s[j - Len(Tail(p))]
      BY <1>2, <1>3, <2>1, <2>3, <3>1
    <3> QED BY <2>1, <3>1, <3>2
  <2> QED BY <2>2, <2>3
<1>9. Tail(q) = t
  BY <1>3, <1>6, <1>7, <1>8, SeqEqual
<1> QED BY <1>1, <1>2, <1>5, <1>6, <1>9 DEF q, t

-----------------------------------------------------------------------------
(* The player. *)

\* The manager and the panel are callers, as the senders are.
LEMMA WhoCalls ==
    /\ "manager" \in Callers /\ "panel" \in Callers /\ Senders \subseteq Callers
  BY DEF Callers

\* A caller that finds the lock: it counts the overlaps, and where none has been nobody has
\* anything to send.
LEMMA Calling ==
    ASSUME PlayerTypes, Agreed, NEW c \in Callers, NEW starts \in BOOLEAN, Calls(c, starts)
    PROVE  /\ overlaps' \in 0..MaxOverlaps /\ mixed' \in BOOLEAN /\ calls[c] = <<>>
           /\ ~mixed' => \A d \in Callers : calls[d] = <<>>
           /\ ~mixed' /\ ~starts => PlaysRight(channel, loaded, playing)
<1> USE PlayerAssumption
<1>1. calls[c] = <<>> /\ overlaps \in 0..MaxOverlaps /\ mixed \in BOOLEAN /\ MaxOverlaps \in Nat
  BY DEF Calls, PlayerTypes
<1>2. overlaps' \in 0..MaxOverlaps
  <2>1. CASE Overlaps(c)
    <3>1. overlaps < MaxOverlaps /\ overlaps' = overlaps + 1
      BY <2>1 DEF Calls
    <3> QED BY <1>1, <3>1
  <2>2. CASE ~Overlaps(c)
    BY <1>1, <2>2 DEF Calls
  <2> QED BY <2>1, <2>2
<1>3. mixed' = (Overlaps(c) \/ (mixed /\ ~starts))
  BY DEF Calls
<1>4. mixed' \in BOOLEAN
  BY <1>3 DEF Overlaps
<1>5. ASSUME ~mixed'
      PROVE  /\ \A d \in Callers : calls[d] = <<>>
             /\ ~starts => ~mixed
  <2>1. ~Overlaps(c) /\ ~(mixed /\ ~starts)
    BY <1>3, <1>5
  <2> QED BY <1>1, <2>1 DEF Overlaps
<1>6. ASSUME ~mixed', ~starts
      PROVE  PlaysRight(channel, loaded, playing)
  <2>1. PICK d \in Callers : Undisturbed(d)
    BY <1>5, <1>6 DEF Agreed
  <2>2. calls[d] = <<>> /\ channel \in Seq(Said)
    BY <1>5, <1>6 DEF PlayerTypes
  <2>3. channel \o calls[d] = channel
    BY <2>2, ConcatEmptySeq
  <2> QED BY <2>1, <2>3 DEF Undisturbed
<1> QED BY <1>1, <1>2, <1>4, <1>5, <1>6

\* What a caller leaves to be sent is typed like the rest, and where nobody else has anything
\* to send it is all there is behind the channel.
LEMMA Leaving ==
    ASSUME PlayerTypes, NEW c \in Callers, NEW s \in Seq(Said),
           calls' = [calls EXCEPT ![c] = s], channel' = channel,
           ~mixed' => \A d \in Callers : calls[d] = <<>>,
           ~mixed' => PlaysRight(channel \o s, loaded', playing'),
           ~mixed' => ShowsRight(channel \o s, loaded', playing', card')
    PROVE  calls' \in [Callers -> Seq(Said)] /\ Agreed'
<1>1. calls \in [Callers -> Seq(Said)]
  BY DEF PlayerTypes
<1>2. calls' \in [Callers -> Seq(Said)]
  BY <1>1
<1>3. calls'[c] = s /\ \A d \in Callers \ {c} : calls'[d] = calls[d]
  BY <1>1
<1>4. ASSUME ~mixed' PROVE Undisturbed(c)'
  BY <1>3, <1>4 DEF Undisturbed
<1> QED BY <1>2, <1>4 DEF Agreed

\* Starting an item of a list is right, whatever was loaded before.
LEMMA Starting ==
    ASSUME PlayerInv, NEW c \in Callers, Calls(c, TRUE),
           NEW l \in LoadedType, l.index \in 1..Len(l.queue), loaded' = l,
           Len(l.queue) <= items', l.v4 => Len(l.queue) <= MaxQueue,
           state' = "Playing", items' \in 0..MaxItems,
           calls' = [calls EXCEPT ![c] = StartCurrent(l, c)],
           UNCHANGED <<channel, active, remote, playing, card>>,
           telling' \in BOOLEAN, ended' \in BOOLEAN
    PROVE  PlayerInv'
<1>1. PlayerTypes /\ OffScreen /\ Agreed
  BY DEF PlayerInv
<1>2. l # Nothing
  BY DEF Nothing
<1>3. /\ overlaps' \in 0..MaxOverlaps /\ mixed' \in BOOLEAN
      /\ ~mixed' => \A d \in Callers : calls[d] = <<>>
  BY <1>1, Calling
<1>4. channel \in Seq(Said)
  BY <1>1 DEF PlayerTypes
<1>5. StartCurrent(l, c) \in Seq(Said)
  BY SayingStart
<1>6. /\ PlaysRight(channel \o StartCurrent(l, c), loaded', playing')
      /\ ShowsRight(channel \o StartCurrent(l, c), loaded', playing', card')
  BY <1>2, <1>4, RightOnceStarted
<1>7. calls' \in [Callers -> Seq(Said)] /\ Agreed'
  BY <1>1, <1>3, <1>5, <1>6, Leaving
<1>8. PlayerTypes'
  BY <1>1, <1>3, <1>7 DEF PlayerTypes
<1>9. AtAnItem'
  BY DEF AtAnItem, IsLoaded
<1>10. OffScreen'
  BY <1>1 DEF OffScreen
<1> QED BY <1>7, <1>8, <1>9, <1>10 DEF PlayerInv

\* Editing the queue leaves the pipeline right: all that is needed is that the current item
\* is still the same one.
LEMMA Editing ==
    ASSUME PlayerInv, NEW c \in Callers, Calls(c, FALSE), loaded.v4,
           loaded' \in LoadedType, loaded'.index \in 1..Len(loaded'.queue),
           loaded'.queue[loaded'.index] = loaded.queue[loaded.index],
           items' \in 0..MaxItems, Len(loaded'.queue) <= items', Len(loaded'.queue) <= MaxQueue,
           state' = state, Leaves(c, <<WhatFollows(loaded')>>)
    PROVE  PlayerInv'
<1>1. PlayerTypes /\ OffScreen /\ Agreed
  BY DEF PlayerInv
<1>2. loaded # Nothing /\ loaded' # Nothing /\ loaded \in LoadedType
  BY <1>1 DEF Nothing, PlayerTypes
<1>3. /\ overlaps' \in 0..MaxOverlaps /\ mixed' \in BOOLEAN
      /\ ~mixed' => \A d \in Callers : calls[d] = <<>>
      /\ ~mixed' => PlaysRight(channel, loaded, playing)
  BY <1>1, Calling
<1>4. /\ calls' = [calls EXCEPT ![c] = <<WhatFollows(loaded')>>]
      /\ UNCHANGED <<channel, active, remote, telling, playing, ended, card>>
  BY DEF Leaves, manager, screen
<1>5. channel \in Seq(Said)
  BY <1>1 DEF PlayerTypes
<1>6. <<WhatFollows(loaded')>> \in Seq(Said)
  BY EventsAreSaid
<1>7. ASSUME ~mixed'
      PROVE  /\ PlaysRight(channel \o <<WhatFollows(loaded')>>, loaded', playing')
             /\ ShowsRight(channel \o <<WhatFollows(loaded')>>, loaded', playing', card')
  BY <1>2, <1>3, <1>4, <1>5, <1>7, RightOnceEdited
<1>8. calls' \in [Callers -> Seq(Said)] /\ Agreed'
  BY <1>1, <1>3, <1>4, <1>6, <1>7, Leaving
<1>9. PlayerTypes'
  BY <1>1, <1>3, <1>4, <1>8 DEF PlayerTypes
<1>10. AtAnItem'
  BY DEF AtAnItem, IsLoaded
<1>11. OffScreen'
  BY <1>1, <1>4 DEF OffScreen
<1> QED BY <1>8, <1>9, <1>10, <1>11 DEF PlayerInv

\* The session ends for FCast: nothing of it plays, and the rest is as it was.
LEMMA Losing ==
    ASSUME PlayerInv, playing' = 0, card' \in Seq(Item), active' \in BOOLEAN,
           remote' \in BOOLEAN, telling' \in BOOLEAN, ended' \in BOOLEAN, UNCHANGED <<player, said>>
    PROVE  PlayerInv'
<1>1. UNCHANGED <<loaded, state, items, overlaps, mixed, calls, channel>>
  BY DEF player, said
<1>2. PlayerTypes' /\ AtAnItem' /\ OffScreen'
  BY <1>1 DEF PlayerInv, PlayerTypes, AtAnItem, IsLoaded, OffScreen
<1>3. ASSUME NEW c \in Callers, Undisturbed(c) PROVE Undisturbed(c)'
  <2>1. /\ PlaysRight(channel \o calls[c], loaded, playing)
        /\ ShowsRight(channel \o calls[c], loaded, playing, card)
    BY <1>3 DEF Undisturbed
  <2>2. /\ PlaysRight(channel \o calls[c], loaded, 0)
        /\ ShowsRight(channel \o calls[c], loaded, 0, card')
    BY <2>1, RightWhenSilent
  <2> QED BY <1>1, <1>3, <2>2 DEF Undisturbed
<1>4. Agreed'
  BY <1>1, <1>3 DEF PlayerInv, Agreed
<1> QED BY <1>2, <1>4 DEF PlayerInv

\* The player's invariant holds at the start.
LEMMA PlayerStarts == PlayerInit => PlayerInv
<1> SUFFICES ASSUME PlayerInit PROVE PlayerInv
  OBVIOUS
<1>1. /\ loaded = Nothing /\ state = "Idle" /\ items = 0 /\ overlaps = 0 /\ mixed = FALSE
      /\ calls = [c \in Callers |-> <<>>] /\ channel = <<>>
      /\ active = FALSE /\ remote = FALSE /\ telling = FALSE
      /\ playing = 0 /\ ended = FALSE /\ card = <<>>
  BY DEF PlayerInit
<1>2. PlayerTypes
  <2>1. <<>> \in Seq(Said) /\ <<>> \in Seq(Item) /\ Len(<<>>) = 0
    OBVIOUS
  <2>2. Nothing \in LoadedType
    BY <2>1 DEF Nothing, LoadedType
  <2>3. calls \in [Callers -> Seq(Said)]
    BY <1>1, <2>1
  <2>4. 0 \in 0..MaxItems /\ 0 \in 0..MaxOverlaps /\ 0 <= Room
    BY PlayerAssumption
  <2> QED BY <1>1, <2>1, <2>2, <2>3, <2>4 DEF PlayerTypes
<1>3. AtAnItem /\ OffScreen
  BY <1>1, PlayerAssumption DEF AtAnItem, IsLoaded, OffScreen, Nothing
<1>4. Undisturbed("manager")
  <2>1. "manager" \in Callers
    BY WhoCalls
  <2>2. \A d \in Callers : calls[d] = <<>>
    BY <1>1
  <2>3. channel \o calls["manager"] = <<>>
    <3>1. <<>> \in Seq(Said)
      OBVIOUS
    <3> QED BY <1>1, <2>1, <2>2, <3>1, ConcatEmptySeq
  <2>4. PlaysRight(<<>>, loaded, playing) /\ ShowsRight(<<>>, loaded, playing, card)
    BY <1>1 DEF PlaysRight, ShowsRight
  <2> QED BY <2>2, <2>3, <2>4 DEF Undisturbed
<1>5. Agreed
  BY <1>4, WhoCalls DEF Agreed
<1> QED BY <1>2, <1>3, <1>5 DEF PlayerInv

\* Sending one's next event changes nothing of what all of them come to.
LEMMA Emitting ==
    ASSUME PlayerInv, NEW c \in Callers, Emit(c)
    PROVE  PlayerInv'
<1>1. /\ PlayerTypes /\ AtAnItem /\ OffScreen /\ Agreed
      /\ calls \in [Callers -> Seq(Said)] /\ channel \in Seq(Said) /\ Len(channel) <= Room
  BY DEF PlayerInv, PlayerTypes
<1>2. /\ calls[c] # <<>> /\ Len(channel) < Room
      /\ channel' = Append(channel, Head(calls[c]))
      /\ calls' = [calls EXCEPT ![c] = Tail(calls[c])]
      /\ UNCHANGED <<loaded, state, items, overlaps, mixed, active, remote, telling,
                     playing, ended, card>>
  BY DEF Emit, player, manager, screen
<1>3. calls[c] \in Seq(Said)
  BY <1>1
<1>4. /\ channel' \o Tail(calls[c]) = channel \o calls[c]
      /\ channel' \in Seq(Said) /\ Tail(calls[c]) \in Seq(Said)
      /\ Len(channel') = Len(channel) + 1
  BY <1>1, <1>2, <1>3, Sending
<1>5. /\ calls' \in [Callers -> Seq(Said)] /\ calls'[c] = Tail(calls[c])
      /\ \A d \in Callers \ {c} : calls'[d] = calls[d]
  BY <1>1, <1>2, <1>4
<1>6. Len(channel') <= Room
  BY <1>1, <1>2, <1>4, PlayerAssumption
<1>7. PlayerTypes' /\ AtAnItem' /\ OffScreen'
  BY <1>1, <1>2, <1>4, <1>5, <1>6 DEF PlayerTypes, AtAnItem, IsLoaded, OffScreen
<1>8. ASSUME NEW d \in Callers, Undisturbed(d) PROVE Undisturbed(c)'
  <2>1. d = c
    BY <1>2, <1>8 DEF Undisturbed
  <2>2. \A e \in Callers \ {c} : calls'[e] = <<>>
    BY <1>5, <1>8, <2>1 DEF Undisturbed
  <2>3. channel' \o calls'[c] = channel \o calls[c]
    BY <1>4, <1>5
  <2> QED BY <1>2, <1>8, <2>1, <2>2, <2>3 DEF Undisturbed
<1>9. Agreed'
  BY <1>1, <1>2, <1>8 DEF Agreed
<1> QED BY <1>7, <1>9 DEF PlayerInv

\* Hearing an event brings the pipeline and the card as much nearer as it takes off what is
\* on its way.
LEMMA HandlingEvent ==
    ASSUME PlayerInv, HandleEvent
    PROVE  PlayerInv'
<1> DEFINE e == Head(channel)
<1>1. /\ PlayerTypes /\ AtAnItem /\ OffScreen /\ Agreed /\ loaded \in LoadedType
      /\ calls \in [Callers -> Seq(Said)] /\ channel \in Seq(Said) /\ Len(channel) <= Room
      /\ active \in BOOLEAN /\ remote \in BOOLEAN /\ playing \in Item \cup {0}
      /\ card \in Seq(Item)
  BY DEF PlayerInv, PlayerTypes
<1>2. /\ channel # <<>> /\ channel' = Tail(channel)
      /\ UNCHANGED <<loaded, state, items, overlaps, mixed, calls, telling, ended>>
  BY DEF HandleEvent, player
<1>3. e \in Said /\ channel' \in Seq(Said) /\ Len(channel') = Len(channel) - 1
  BY <1>1, <1>2, HeadTailProperties
<1>4. Len(channel') <= Room
  BY <1>1, <1>3, PlayerAssumption
<1>5. /\ active' = (active \/ e.is = "Play")
      /\ remote' = (remote \/ (active /\ e.is = "ControlSurface"))
      /\ playing' = IF e.is = "Play" THEN e.item
                    ELSE IF active /\ e.is = "Stop" THEN 0 ELSE playing
      /\ card' = IF ~active THEN card
                 ELSE IF e.is = "NowPlaying" THEN Advanced(card, e.item)
                 ELSE IF e.is = "UpNext" THEN e.list
                 ELSE IF e.is = "Stop" THEN <<>>
                 ELSE card
  BY DEF HandleEvent
<1> HIDE DEF e
<1>6. e.item \in Item \cup {0} /\ e.list \in Seq(Item)
  BY <1>3 DEF Said
<1>7. playing' = IF e.is = "Play" THEN e.item ELSE IF e.is = "Stop" THEN 0 ELSE playing
  BY <1>1, <1>5 DEF OffScreen
<1>8. e.is = "UpNext" => playing' = 0 \/ card' = e.list
  BY <1>1, <1>5 DEF OffScreen
<1>9. Advanced(card, e.item) \in Seq(Item)
  BY <1>1 DEF Advanced
<1>10. PlayerTypes'
  <2>1. card' \in Seq(Item)
    <3>1. <<>> \in Seq(Item)
      OBVIOUS
    <3> QED BY <1>1, <1>5, <1>6, <1>9, <3>1
  <2>2. playing' \in Item \cup {0} /\ active' \in BOOLEAN /\ remote' \in BOOLEAN
    BY <1>1, <1>5, <1>6
  <2> QED BY <1>1, <1>2, <1>3, <1>4, <2>1, <2>2 DEF PlayerTypes
<1>11. AtAnItem'
  BY <1>1, <1>2 DEF AtAnItem, IsLoaded
<1>12. OffScreen'
  BY <1>1, <1>5 DEF OffScreen
<1>13. ASSUME NEW c \in Callers, Undisturbed(c) PROVE Undisturbed(c)'
  <2> DEFINE p == channel \o calls[c]
  <2>1. calls[c] \in Seq(Said)
    BY <1>1
  <2>2. p \in Seq(Said) /\ p # <<>> /\ Head(p) = e /\ Tail(p) = channel' \o calls'[c]
    BY <1>1, <1>2, <2>1, Hearing DEF e
  <2>3. PlaysRight(p, loaded, playing) /\ ShowsRight(p, loaded, playing, card)
    BY <1>13 DEF Undisturbed
  <2> HIDE DEF p
  <2>4. PlaysRight(Tail(p), loaded, playing')
    BY <1>1, <1>7, <2>2, <2>3, RightOnceHeard
  <2>5. ShowsRight(Tail(p), loaded, playing', card')
    BY <1>1, <1>8, <2>2, <2>3, RightOnceShown
  <2> QED BY <1>2, <1>13, <2>2, <2>4, <2>5 DEF Undisturbed
<1>14. Agreed'
  BY <1>1, <1>2, <1>13 DEF Agreed
<1> QED BY <1>10, <1>11, <1>12, <1>14 DEF PlayerInv

\* Every step of the player, its callers and the session manager keeps it.
LEMMA PlayerSteps == PlayerInv /\ [PlayerNext]_playerVars => PlayerInv'
<1> SUFFICES ASSUME PlayerInv, [PlayerNext]_playerVars PROVE PlayerInv'
  OBVIOUS
<1> USE PlayerAssumption
<1>q. /\ loaded \in LoadedType /\ loaded.queue \in Seq(Item) /\ loaded.index \in Nat
      /\ items \in 0..MaxItems /\ items \in Nat /\ Len(loaded.queue) <= items
      /\ loaded.v4 => Len(loaded.queue) <= MaxQueue
      /\ telling \in BOOLEAN /\ ended \in BOOLEAN
  BY DEF PlayerInv, PlayerTypes, LoadedType, AtAnItem
<1>c. (loaded.v4 \/ loaded.playlist) => IsLoaded
  BY DEF IsLoaded, Nothing
<1>e. <<>> \in Seq(Item) /\ TRUE \in BOOLEAN /\ FALSE \in BOOLEAN
  OBVIOUS
<1>i. IsLoaded => loaded.index \in 1..Len(loaded.queue)
  BY DEF PlayerInv, AtAnItem
<1>1. ASSUME NEW c \in Senders, NEW n \in 1..MaxItems, NEW start \in 1..MaxQueue,
             NEW playlist \in BOOLEAN, NEW v4 \in BOOLEAN, NEW autoplay \in BOOLEAN,
             Load(c, n, start, playlist, v4, autoplay)
      PROVE  PlayerInv'
  <2> DEFINE l == [queue |-> Fresh(n), index |-> IF start > n THEN n ELSE start,
                   playlist |-> playlist, autoplay |-> autoplay, v4 |-> v4]
  <2>1. /\ items + n <= MaxItems /\ items' = items + n /\ loaded' = l
        /\ v4 => n <= MaxQueue
        /\ Calls(c, TRUE) /\ state' = "Playing" /\ Leaves(c, StartCurrent(l, c))
    BY <1>1 DEF Load
  <2>2. Fresh(n) \in Seq(Item) /\ Len(Fresh(n)) = n
    BY <1>q, <2>1 DEF Fresh, Item
  <2>3. l \in LoadedType /\ l.index \in 1..Len(l.queue) /\ Len(l.queue) = n
    BY <2>2 DEF LoadedType
  <2>4. l.v4 => Len(l.queue) <= MaxQueue
    BY <2>1, <2>3
  <2> HIDE DEF l
  <2>5. /\ calls' = [calls EXCEPT ![c] = StartCurrent(l, c)]
        /\ UNCHANGED <<channel, active, remote, telling, playing, ended, card>>
    BY <2>1 DEF Leaves, manager, screen
  <2>6. items' \in 0..MaxItems /\ Len(l.queue) <= items'
    BY <1>q, <2>1, <2>3
  <2>7. c \in Callers
    BY WhoCalls
  <2> QED BY <1>q, <2>1, <2>3, <2>4, <2>5, <2>6, <2>7, Starting
<1>2. ASSUME NEW c \in Senders, NEW at \in 1..(MaxItems + 1), QueueInsert(c, at) PROVE PlayerInv'
  <2>1. /\ loaded.v4 /\ items < MaxItems /\ Len(loaded.queue) < MaxQueue
        /\ at \in 1..(Len(loaded.queue) + 1) /\ items' = items + 1 /\ state' = state
        /\ Calls(c, FALSE) /\ Leaves(c, <<WhatFollows(loaded')>>)
    BY <1>2 DEF QueueInsert
  <2>2. loaded' = [loaded EXCEPT !.queue = InsertAt(@, at, items + 1),
                                 !.index = IF at <= @ THEN @ + 1 ELSE @]
    BY <1>2 DEF QueueInsert
  <2>3. items + 1 \in Item
    BY <1>q, <2>1 DEF Item
  <2>4. /\ loaded'.queue = InsertAt(loaded.queue, at, items + 1)
        /\ loaded'.index = IF at <= loaded.index THEN loaded.index + 1 ELSE loaded.index
        /\ loaded' \in [queue : {loaded'.queue}, index : {loaded'.index}, playlist : BOOLEAN,
                        autoplay : BOOLEAN, v4 : BOOLEAN]
    BY <1>q, <2>2 DEF LoadedType
  <2>5. loaded.index \in 1..Len(loaded.queue)
    BY <1>c, <1>i, <2>1
  <2>6. /\ loaded'.queue \in Seq(Item) /\ Len(loaded'.queue) = Len(loaded.queue) + 1
        /\ loaded'.queue[loaded'.index] = loaded.queue[loaded.index]
    <3> DEFINE q == loaded.queue
               i == loaded.index
    <3>1. q \in Seq(Item) /\ at \in 1..(Len(q) + 1) /\ i \in 1..Len(q)
      BY <1>q, <2>1, <2>5
    <3> HIDE DEF q, i
    <3>2. /\ InsertAt(q, at, items + 1) \in Seq(Item)
          /\ Len(InsertAt(q, at, items + 1)) = Len(q) + 1
          /\ InsertAt(q, at, items + 1)[IF at <= i THEN i + 1 ELSE i] = q[i]
      BY <3>1, <2>3, PuttingIn
    <3> QED BY <3>2, <2>4 DEF q, i
  <2>7. loaded' \in LoadedType /\ loaded'.index \in 1..Len(loaded'.queue)
    BY <2>4, <2>5, <2>6, SMTT(30) DEF LoadedType
  <2>8. /\ items' \in 0..MaxItems /\ Len(loaded'.queue) <= items'
        /\ Len(loaded'.queue) <= MaxQueue
    BY <1>q, <2>1, <2>6
  <2>9. c \in Callers
    BY WhoCalls
  <2> QED BY <2>1, <2>6, <2>7, <2>8, <2>9, Editing
<1>3. ASSUME NEW c \in Senders, NEW at \in 1..(MaxItems + 1), QueueRemove(c, at) PROVE PlayerInv'
  <2>1. /\ loaded.v4 /\ at \in 1..Len(loaded.queue) /\ at # loaded.index
        /\ UNCHANGED <<state, items>>
        /\ Calls(c, FALSE) /\ Leaves(c, <<WhatFollows(loaded')>>)
    BY <1>3 DEF QueueRemove
  <2>2. loaded' = [loaded EXCEPT !.queue = RemoveAt(@, at),
                                 !.index = IF at < @ THEN @ - 1 ELSE @]
    BY <1>3 DEF QueueRemove
  <2>3. /\ loaded'.queue = RemoveAt(loaded.queue, at)
        /\ loaded'.index = IF at < loaded.index THEN loaded.index - 1 ELSE loaded.index
        /\ loaded' \in [queue : {loaded'.queue}, index : {loaded'.index}, playlist : BOOLEAN,
                        autoplay : BOOLEAN, v4 : BOOLEAN]
    BY <1>q, <2>2 DEF LoadedType
  <2>4. loaded.index \in 1..Len(loaded.queue)
    BY <1>c, <1>i, <2>1
  <2>5. /\ loaded'.queue \in Seq(Item) /\ Len(loaded'.queue) = Len(loaded.queue) - 1
        /\ loaded'.queue[loaded'.index] = loaded.queue[loaded.index]
    <3> DEFINE q == loaded.queue
               i == loaded.index
    <3>1. q \in Seq(Item) /\ at \in 1..Len(q) /\ i \in 1..Len(q) /\ i # at
      BY <1>q, <2>1, <2>4
    <3> HIDE DEF q, i
    <3>2. /\ RemoveAt(q, at) \in Seq(Item)
          /\ Len(RemoveAt(q, at)) = Len(q) - 1
          /\ RemoveAt(q, at)[IF at < i THEN i - 1 ELSE i] = q[i]
      BY <3>1, TakingOut
    <3> QED BY <3>2, <2>3 DEF q, i
  <2>6. loaded' \in LoadedType /\ loaded'.index \in 1..Len(loaded'.queue)
    BY <2>1, <2>3, <2>4, <2>5, SMTT(30) DEF LoadedType
  <2>7. /\ items' \in 0..MaxItems /\ Len(loaded'.queue) <= items'
        /\ Len(loaded'.queue) <= MaxQueue
    BY <1>q, <2>1, <2>5
  <2>8. c \in Callers
    BY WhoCalls
  <2> QED BY <2>1, <2>5, <2>6, <2>7, <2>8, Editing
<1>4. ASSUME NEW c \in Senders \cup {"panel"}, NEW at \in 1..(MaxItems + 1), Select(c, at)
      PROVE  PlayerInv'
  <2> DEFINE l == [loaded EXCEPT !.index = at]
  <2>1. /\ at \in 1..Len(loaded.queue) /\ loaded' = l /\ items' = items
        /\ Calls(c, TRUE) /\ state' = "Playing" /\ Leaves(c, StartCurrent(l, c))
    BY <1>4 DEF Select
  <2>2. l \in LoadedType /\ l.index = at /\ l.queue = loaded.queue /\ l.v4 = loaded.v4
    BY <1>q, <2>1 DEF LoadedType
  <2> HIDE DEF l
  <2>3. /\ calls' = [calls EXCEPT ![c] = StartCurrent(l, c)]
        /\ UNCHANGED <<channel, active, remote, telling, playing, ended, card>>
    BY <2>1 DEF Leaves, manager, screen
  <2>4. c \in Callers
    BY WhoCalls
  <2> QED BY <1>q, <2>1, <2>2, <2>3, <2>4, Starting
<1>5. ASSUME NEW c \in Senders \cup {"panel"}, StopPlayer(c) PROVE PlayerInv'
  <2>1. /\ loaded' = Nothing /\ state' = "Idle" /\ items' = items /\ Calls(c, TRUE)
        /\ calls' = [calls EXCEPT ![c] = <<Stop>>]
        /\ UNCHANGED <<channel, active, remote, telling, playing, ended, card>>
    BY <1>5 DEF StopPlayer, Leaves, manager, screen
  <2>2. c \in Callers /\ PlayerTypes /\ Agreed /\ OffScreen /\ channel \in Seq(Said)
    BY WhoCalls DEF PlayerInv, PlayerTypes
  <2>3. /\ overlaps' \in 0..MaxOverlaps /\ mixed' \in BOOLEAN
        /\ ~mixed' => \A d \in Callers : calls[d] = <<>>
    BY <2>1, <2>2, Calling
  <2>4. <<Stop>> \in Seq(Said)
    BY <1>q, EventsAreSaid
  <2>5. /\ PlaysRight(channel \o <<Stop>>, loaded', playing')
        /\ ShowsRight(channel \o <<Stop>>, loaded', playing', card')
    BY <2>1, <2>2, RightOnceStopped
  <2>6. calls' \in [Callers -> Seq(Said)] /\ Agreed'
    BY <2>1, <2>2, <2>3, <2>4, <2>5, Leaving
  <2>7. Nothing \in LoadedType /\ Nothing.queue = <<>> /\ ~Nothing.v4
    BY DEF LoadedType, Nothing
  <2>8. PlayerTypes' /\ OffScreen'
    BY <2>1, <2>2, <2>3, <2>6, <2>7 DEF PlayerTypes, OffScreen
  <2>9. AtAnItem'
    BY <1>q, <2>1, <2>7 DEF AtAnItem, IsLoaded
  <2> QED BY <2>6, <2>8, <2>9 DEF PlayerInv
<1>6. ASSUME NEW c \in Callers, Emit(c) PROVE PlayerInv'
  BY <1>6, Emitting
<1>7. CASE HandleEvent
  BY <1>7, HandlingEvent
<1>8. CASE PipelineEnds
  <2>1. /\ ended' = TRUE /\ playing' = 0
        /\ UNCHANGED <<player, said, active, remote, telling, card>>
    BY <1>8 DEF PipelineEnds, manager
  <2> QED BY <2>1, Losing DEF PlayerInv, PlayerTypes
<1>9. CASE EndUntold
  <2>1. ended' = FALSE /\ UNCHANGED <<player, said, telling>>
    BY <1>9 DEF EndUntold
  <2>2. /\ playing' = 0 /\ card' \in Seq(Item) /\ active' \in BOOLEAN /\ remote' \in BOOLEAN
    <3>1. CASE active
      <4>1. playing' = 0 /\ card' = <<>> /\ active' = FALSE /\ remote' = FALSE
        BY <1>9, <3>1 DEF EndUntold, LosesScreen
      <4> QED BY <4>1, <1>e
    <3>2. CASE ~active
      <4>1. UNCHANGED <<active, remote, playing, card>>
        BY <1>9, <3>2 DEF EndUntold
      <4> QED BY <3>2, <4>1 DEF PlayerInv, PlayerTypes, OffScreen
    <3> QED BY <3>1, <3>2
  <2> QED BY <1>q, <2>1, <2>2, Losing
<1>10. ASSUME NEW finished \in BOOLEAN, MediaEnded(finished) PROVE PlayerInv'
  <2>1. /\ ended' = FALSE /\ telling' = TRUE
        /\ UNCHANGED <<items, channel, active, remote, playing, card>>
    BY <1>10 DEF MediaEnded
  <2>2. CASE ~(finished /\ IsLoaded /\ loaded.autoplay /\ loaded.index < Len(loaded.queue))
    <3>1. state' = "Idle" /\ UNCHANGED <<loaded, overlaps, mixed, calls>>
      BY <1>10, <2>2 DEF MediaEnded
    <3>2. PlayerTypes' /\ AtAnItem' /\ OffScreen'
      BY <2>1, <3>1 DEF PlayerInv, PlayerTypes, AtAnItem, IsLoaded, OffScreen
    <3>3. \A c \in Callers : Undisturbed(c) => Undisturbed(c)'
      BY <2>1, <3>1 DEF Undisturbed
    <3>4. Agreed'
      BY <3>1, <3>3 DEF PlayerInv, Agreed
    <3> QED BY <3>2, <3>4 DEF PlayerInv
  <2>3. CASE finished /\ IsLoaded /\ loaded.autoplay /\ loaded.index < Len(loaded.queue)
    <3> DEFINE l == [loaded EXCEPT !.index = @ + 1]
    <3>1. /\ loaded' = l /\ state' = "Playing" /\ Calls("manager", TRUE)
          /\ calls' = [calls EXCEPT !["manager"] = StartCurrent(l, "manager")]
      BY <1>10, <2>3 DEF MediaEnded
    <3>2. /\ l \in LoadedType /\ l.index = loaded.index + 1 /\ l.queue = loaded.queue
          /\ l.v4 = loaded.v4
      BY <1>q DEF LoadedType
    <3>3. l.index \in 1..Len(l.queue)
      BY <1>q, <2>3, <3>2
    <3> HIDE DEF l
    <3> QED BY <1>q, <2>1, <3>1, <3>2, <3>3, Starting, WhoCalls
  <2> QED BY <2>2, <2>3
<1>11. CASE EndAfterTelling
  <2>1. /\ telling' = FALSE /\ UNCHANGED <<player, said, ended>>
        /\ playing' = 0 /\ card' = <<>> /\ active' = FALSE /\ remote' = FALSE
    BY <1>11 DEF EndAfterTelling, LosesScreen
  <2>2. /\ card' \in Seq(Item) /\ active' \in BOOLEAN /\ remote' \in BOOLEAN
        /\ telling' \in BOOLEAN /\ ended' \in BOOLEAN
    BY <2>1, <1>e, <1>q
  <2> QED BY <2>1, <2>2, Losing
<1>12. CASE TakenOver
  <2>1. /\ UNCHANGED <<player, said, telling, ended>>
        /\ playing' = 0 /\ card' = <<>> /\ active' = FALSE /\ remote' = FALSE
    BY <1>12 DEF TakenOver, LosesScreen
  <2>2. /\ card' \in Seq(Item) /\ active' \in BOOLEAN /\ remote' \in BOOLEAN
        /\ telling' \in BOOLEAN /\ ended' \in BOOLEAN
    BY <2>1, <1>e, <1>q
  <2> QED BY <2>1, <2>2, Losing
<1>13. CASE UNCHANGED playerVars
  <2>1. UNCHANGED <<loaded, state, items, overlaps, mixed, calls, channel, active, remote,
                    telling, playing, ended, card>>
    BY <1>13 DEF playerVars, player, said, manager, screen
  <2>2. PlayerTypes' /\ AtAnItem' /\ OffScreen'
    BY <2>1 DEF PlayerInv, PlayerTypes, AtAnItem, IsLoaded, OffScreen
  <2>3. \A c \in Callers : Undisturbed(c) => Undisturbed(c)'
    BY <2>1 DEF Undisturbed
  <2>4. Agreed'
    BY <2>1, <2>3 DEF PlayerInv, Agreed
  <2> QED BY <2>2, <2>4 DEF PlayerInv
<1> QED BY <1>1, <1>2, <1>3, <1>4, <1>5, <1>6, <1>7, <1>8, <1>9, <1>10, <1>11, <1>12, <1>13
        DEF PlayerNext, SenderCall, Call

\* It holds of every behaviour of the player.
LEMMA PlayerHolds == PlayerSpec => []PlayerInv
  BY PlayerStarts, PlayerSteps, PTL DEF PlayerSpec

\* Type correctness, with a v4 queue within its cap (player.rs queue_insert_v4) and no more
\* in the session manager's channel than it has room for.
THEOREM PlayerTyping == PlayerSpec => []PlayerTypeOK
<1>1. PlayerInv => PlayerTypeOK
  <2> SUFFICES ASSUME PlayerInv PROVE PlayerTypeOK
    OBVIOUS
  <2>1. loaded.queue \in Seq(Item) /\ Len(loaded.queue) <= MaxItems /\ MaxItems \in Nat
    BY PlayerAssumption DEF PlayerInv, PlayerTypes, LoadedType, AtAnItem
  <2>2. loaded.queue \in BoundedSeq(Item, MaxItems)
    BY <2>1, ShortIsBounded
  <2>3. loaded.index \in 0..Len(loaded.queue)
    <3>1. CASE IsLoaded
      BY <3>1, <2>1 DEF PlayerInv, AtAnItem
    <3>2. CASE ~IsLoaded
      BY <3>2 DEF IsLoaded, Nothing
    <3> QED BY <3>1, <3>2
  <2>4. loaded.v4 => Len(loaded.queue) <= MaxQueue
    BY DEF PlayerInv, AtAnItem
  <2> QED BY <2>2, <2>3, <2>4 DEF PlayerInv, PlayerTypes, LoadedType, PlayerTypeOK
<1> QED BY <1>1, PlayerHolds, PTL

\* However long the events are on their way, and through every edit around the current item,
\* takeover and late report of an end, the pipeline comes to play the item the player stands
\* at, with what follows it on the card, while no caller changes the player before another
\* has sent its events - and again from the first undisturbed start or stop after that
\* (player.rs, adapter.rs emit_all, control.rs media_ended).
THEOREM QueueKeepsItsPlace == PlayerSpec => []QueueIsWhatPlays
<1>1. PlayerInv => QueueIsWhatPlays
  <2> SUFFICES ASSUME PlayerInv, ~mixed, AllHeard, playing # 0
               PROVE  /\ IsLoaded /\ playing = Current
                      /\ UpNext(loaded) # <<>> => card = UpNext(loaded)
    BY DEF QueueIsWhatPlays, PlaysCurrent, CardFollows
  <2>1. PICK c \in Callers : Undisturbed(c)
    BY DEF PlayerInv, Agreed
  <2>2. channel \o calls[c] = <<>>
    <3>1. channel = <<>> /\ calls[c] = <<>> /\ <<>> \in Seq(Said)
      BY DEF AllHeard
    <3> QED BY <3>1, ConcatEmptySeq
  <2>3. PlaysRight(<<>>, loaded, playing) /\ ShowsRight(<<>>, loaded, playing, card)
    BY <2>1, <2>2 DEF Undisturbed
  <2>4. loaded # Nothing /\ playing = loaded.queue[loaded.index]
    <3>1. ~(\E k \in 1..Len(<<>>) : TRUE)
      OBVIOUS
    <3> QED BY <2>3, <3>1 DEF PlaysRight
  <2> QED BY <2>3, <2>4 DEF ShowsRight, IsLoaded, Current
<1> QED BY <1>1, PlayerHolds, PTL

-----------------------------------------------------------------------------
(* The reorder buffer.                                                     *)

-----------------------------------------------------------------------------
(* Packets by their numbers round the wrap.                                *)

Half == SeqSpace \div 2

\* The sequence space is twice its half, give or take one.
LEMMA SpaceIs ==
    /\ SeqSpace \in Nat /\ SeqSpace >= 4 /\ Half \in Nat /\ Half >= 2
    /\ 2 * Half <= SeqSpace /\ SeqSpace <= 2 * Half + 1
<1>1. SeqSpace \in Nat /\ Behind \in Nat /\ Behind + 1 < SeqSpace \div 2
  BY BufferAssumption
<1> QED BY <1>1 DEF Half

\* A remainder is what is left of a multiple.
LEMMA Remainder ==
    ASSUME NEW q \in Int, NEW r \in 0..(SeqSpace - 1) PROVE (SeqSpace * q + r) % SeqSpace = r
<1>1. SeqSpace \in Nat \ {0}
  BY SpaceIs
<1> QED BY <1>1

\* A packet number is its lap and its sequence number.
LEMMA Quotient ==
    ASSUME NEW n \in Nat
    PROVE  /\ n = SeqSpace * (n \div SeqSpace) + SeqNum(n) /\ n \div SeqSpace \in Nat
           /\ SeqNum(n) \in 0..(SeqSpace - 1)
<1>1. SeqSpace \in Nat \ {0}
  BY SpaceIs
<1> QED BY <1>1 DEF SeqNum

\* Wrapping, then adding, wraps to the same sequence number.
LEMMA WrapMore ==
    ASSUME NEW n \in Nat, NEW m \in Nat PROVE (SeqNum(n) + m) % SeqSpace = SeqNum(n + m)
<1> DEFINE q == n \div SeqSpace
           r == SeqNum(n)
           s == (r + m) \div SeqSpace
           t == SeqNum(r + m)
<1>1. n = SeqSpace * q + r /\ q \in Nat /\ r \in 0..(SeqSpace - 1)
  BY Quotient
<1>2. r \in Nat /\ SeqSpace \in Nat
  BY <1>1, SpaceIs
<1> HIDE DEF q, r
<1>3. r + m = SeqSpace * s + t /\ s \in Nat /\ t \in 0..(SeqSpace - 1)
  BY <1>2, Quotient
<1>4. t \in Nat
  BY <1>3, SpaceIs
<1> HIDE DEF s, t
<1>5. n + m = SeqSpace * (s + q) + t
  BY <1>1, <1>2, <1>3, <1>4
<1>6. (SeqSpace * (s + q) + t) % SeqSpace = t
  BY <1>1, <1>3, Remainder
<1> QED BY <1>5, <1>6 DEF r, t, SeqNum

\* Two packets less than the sequence space apart: how far one is from the other.
LEMMA Apart ==
    ASSUME NEW a \in Nat, NEW b \in Nat, b - a < SeqSpace, a - b < SeqSpace
    PROVE  Minus(SeqNum(b), SeqNum(a)) = IF a <= b THEN b - a ELSE b - a + SeqSpace
<1> DEFINE qa == a \div SeqSpace
           ra == SeqNum(a)
           qb == b \div SeqSpace
           rb == SeqNum(b)
           d == IF a <= b THEN b - a ELSE b - a + SeqSpace
           e == IF a <= b THEN 1 - (qb - qa) ELSE -(qb - qa)
<1>1. a = SeqSpace * qa + ra /\ qa \in Nat /\ ra \in 0..(SeqSpace - 1)
  BY Quotient
<1>2. b = SeqSpace * qb + rb /\ qb \in Nat /\ rb \in 0..(SeqSpace - 1)
  BY Quotient
<1>3. SeqSpace \in Nat /\ ra \in Nat /\ rb \in Nat
  BY <1>1, <1>2, SpaceIs
<1>4. Minus(rb, ra) = (rb + SeqSpace - ra) % SeqSpace
  BY DEF Minus
<1> HIDE DEF qa, ra, qb, rb
<1>5. d \in 0..(SeqSpace - 1)
  BY <1>3
<1>6. e \in Int
  BY <1>1, <1>2
<1>7. CASE a <= b
  <2>1. d = b - a /\ e = 1 - (qb - qa)
    BY <1>7
  <2> HIDE DEF d, e
  <2>2. SeqSpace * (1 - (qb - qa)) = SeqSpace - (SeqSpace * qb - SeqSpace * qa)
    BY <1>1, <1>2, <1>3
  <2>3. rb + SeqSpace - ra = SeqSpace * e + d
    <3>1. SeqSpace * qb \in Int /\ SeqSpace * qa \in Int
      BY <1>1, <1>2, <1>3
    <3> QED BY <1>1, <1>2, <1>3, <2>1, <2>2, <3>1
  <2> QED BY <1>4, <1>5, <1>6, <2>3, Remainder DEF d, ra, rb
<1>8. CASE ~(a <= b)
  <2>1. d = b - a + SeqSpace /\ e = -(qb - qa)
    BY <1>8
  <2> HIDE DEF d, e
  <2>2. SeqSpace * (-(qb - qa)) = SeqSpace * qa - SeqSpace * qb
    BY <1>1, <1>2, <1>3
  <2>3. rb + SeqSpace - ra = SeqSpace * e + d
    <3>1. SeqSpace * qb \in Int /\ SeqSpace * qa \in Int
      BY <1>1, <1>2, <1>3
    <3> QED BY <1>1, <1>2, <1>3, <2>1, <2>2, <3>1
  <2> QED BY <1>4, <1>5, <1>6, <2>3, Remainder DEF d, ra, rb
<1> QED BY <1>7, <1>8

\* Two packets less than a lap apart with one sequence number are one packet.
LEMMA Same ==
    ASSUME NEW a \in Nat, NEW b \in Nat, b - a < SeqSpace, a - b < SeqSpace,
           SeqNum(a) = SeqNum(b)
    PROVE  a = b
<1>1. Minus(SeqNum(b), SeqNum(a)) = IF a <= b THEN b - a ELSE b - a + SeqSpace
  BY Apart
<1>2. Minus(SeqNum(a), SeqNum(a)) = 0
  <2>1. a - a < SeqSpace
    BY SpaceIs
  <2>2. Minus(SeqNum(a), SeqNum(a)) = IF a <= a THEN a - a ELSE a - a + SeqSpace
    BY <2>1, Apart
  <2> QED BY <2>2
<1> QED BY <1>1, <1>2, SpaceIs

\* A packet is behind the one due in serial arithmetic if it is.
LEMMA SerialIs ==
    ASSUME NEW a \in Nat, NEW b \in Nat, b - a <= Half, a - b < Half
    PROVE  SerialLt(SeqNum(b), SeqNum(a)) <=> b < a
<1>1. a - b < SeqSpace /\ b - a < SeqSpace
  BY SpaceIs
<1>2. Minus(SeqNum(a), SeqNum(b)) = IF b <= a THEN a - b ELSE a - b + SeqSpace
  BY <1>1, Apart
<1>3. SerialLt(SeqNum(b), SeqNum(a)) <=>
        SeqNum(b) # SeqNum(a) /\ Minus(SeqNum(a), SeqNum(b)) < Half
  BY DEF SerialLt, Half
<1>4. CASE b < a
  <2>1. SeqNum(b) # SeqNum(a)
    BY <1>1, <1>4, Same
  <2>2. Minus(SeqNum(a), SeqNum(b)) = a - b
    BY <1>2, <1>4
  <2> QED BY <1>3, <1>4, <2>1, <2>2
<1>5. CASE b = a
  BY <1>3, <1>5
<1>6. CASE a < b
  <2>1. Minus(SeqNum(a), SeqNum(b)) = a - b + SeqSpace
    BY <1>2, <1>6
  <2>2. ~(a - b + SeqSpace < Half)
    BY <1>6, SpaceIs
  <2> QED BY <1>3, <1>6, <2>1, <2>2
<1> QED BY <1>4, <1>5, <1>6

-----------------------------------------------------------------------------
(* The packets in the buffer.                                              *)

\* They are ahead of d by less than half the sequence space.
Near(d, B) == B \subseteq Nat /\ IsFiniteSet(B) /\ \A q \in B : d <= q /\ q - d < Half

\* Which packet has a number is known from the number.
LEMMA Finding ==
    ASSUME NEW d \in Nat, NEW B, Near(d, B), NEW x \in Nat, d <= x, x - d <= Half
    PROVE  (\E q \in B : SeqNum(q) = SeqNum(x)) <=> x \in B
<1>1. ASSUME NEW q \in B, SeqNum(q) = SeqNum(x) PROVE q = x
  <2>1. q \in Nat /\ d <= q /\ q - d < Half
    BY DEF Near
  <2>2. q - x < SeqSpace /\ x - q < SeqSpace
    BY <2>1, SpaceIs
  <2> QED BY <1>1, <2>1, <2>2, Same
<1> QED BY <1>1

\* A gap is given up from its first packet to the earliest that waits, and nothing goes.
LEMMA EnforcedIs ==
    ASSUME NEW d \in Nat, NEW B, Near(d, B), B # {}
    PROVE  \E e \in Nat :
              /\ d <= e /\ \A q \in B : e <= q
              /\ Enforced(SeqNum(d), B) = [due |-> SeqNum(e), cost |-> e - d, kept |-> B]
              /\ e \in B \/ (e = d /\ d \notin B /\ Cardinality(B) <= MaxDepth)
<1> DEFINE seqs == {SeqNum(p) : p \in B}
           next == SeqNum(d)
           Earliest(s) == \A t \in seqs : Minus(s, next) <= Minus(t, next)
           earliest == CHOOSE s \in seqs : Earliest(s)
<1>a. Enforced(next, B) =
        IF Cardinality(B) > MaxDepth /\ next \notin seqs
        THEN [due |-> earliest, cost |-> GivenUp(next, earliest),
              kept |-> {p \in B : ~SerialLt(SeqNum(p), earliest)}]
        ELSE [due |-> next, cost |-> 0, kept |-> B]
  BY DEF Enforced
<1>b. MaxDepth \in Nat /\ Cardinality(B) \in Nat
  BY BufferAssumption, FS_CardinalityType DEF Near
<1>c. \A q \in B : q \in Nat /\ d <= q /\ q - d < Half
  BY DEF Near
<1>1. next \in seqs <=> d \in B
  <2>1. (\E q \in B : SeqNum(q) = SeqNum(d)) <=> d \in B
    BY Finding, SpaceIs
  <2> QED BY <2>1
<1>2. CASE ~(Cardinality(B) > MaxDepth /\ next \notin seqs)
  <2>1. Enforced(next, B) = [due |-> SeqNum(d), cost |-> d - d, kept |-> B]
    BY <1>a, <1>2
  <2>2. d \in B \/ (d \notin B /\ Cardinality(B) <= MaxDepth)
    BY <1>b, <1>1, <1>2
  <2> QED BY <1>c, <2>1, <2>2
<1>3. CASE Cardinality(B) > MaxDepth /\ next \notin seqs
  <2>1. PICK e \in B : \A q \in B : e <= q
    BY Least DEF Near
  <2>2. e \in Nat /\ d <= e /\ e - d < Half
    BY <1>c
  <2>3. ASSUME NEW q \in B PROVE Minus(SeqNum(q), next) = q - d
    <3>1. q \in Nat /\ d <= q /\ q - d < SeqSpace /\ d - q < SeqSpace
      BY <1>c, SpaceIs
    <3> QED BY <3>1, Apart
  <2>4. earliest = SeqNum(e)
    <3>1. SeqNum(e) \in seqs /\ Earliest(SeqNum(e))
      <4>1. \A q \in B : Minus(SeqNum(e), next) <= Minus(SeqNum(q), next)
        BY <1>c, <2>1, <2>2, <2>3
      <4> QED BY <4>1
    <3>2. earliest \in seqs /\ Earliest(earliest)
      <4> HIDE DEF seqs, Earliest
      <4> QED BY <3>1
    <3> HIDE DEF earliest
    <3>3. PICK q \in B : earliest = SeqNum(q)
      BY <3>2
    <3>4. Minus(earliest, next) <= Minus(SeqNum(e), next)
      BY <3>2
    <3>5. q - d <= e - d /\ e <= q
      BY <2>1, <2>3, <3>3, <3>4
    <3>6. q = e
      BY <1>c, <2>2, <3>5
    <3> QED BY <3>3, <3>6
  <2>5. GivenUp(next, SeqNum(e)) = e - d
    BY <2>3 DEF GivenUp
  <2>6. {p \in B : ~SerialLt(SeqNum(p), SeqNum(e))} = B
    <3>1. ASSUME NEW p \in B PROVE ~SerialLt(SeqNum(p), SeqNum(e))
      <4>1. p \in Nat /\ e <= p /\ p - e <= Half /\ e - p < Half
        BY <1>c, <2>1, <2>2, SpaceIs
      <4> QED BY <2>2, <4>1, SerialIs
    <3> QED BY <3>1
  <2>7. Enforced(next, B) = [due |-> SeqNum(e), cost |-> e - d, kept |-> B]
    BY <1>a, <1>3, <2>4, <2>5, <2>6
  <2> QED BY <2>1, <2>2, <2>7
<1> QED BY <1>2, <1>3

\* What is popped is the run of packets from the one due to the first that is missing.
LEMMA RunIs ==
    ASSUME NEW e \in Nat, NEW B, Near(e, B)
    PROVE  \E n \in Nat :
              /\ Run(SeqNum(e), B) = n
              /\ e + n \notin B
              /\ {q \in B : Minus(SeqNum(q), SeqNum(e)) < n} = e..(e + n - 1)
<1> DEFINE c == Cardinality(B)
           Is(n) == /\ \A i \in 0..(n - 1) :
                            \E p \in B : SeqNum(p) = (SeqNum(e) + i) % SeqSpace
                    /\ ~ \E p \in B : SeqNum(p) = (SeqNum(e) + n) % SeqSpace
           run == CHOOSE n \in 0..c : Is(n)
           T == {i \in Nat : e + i \notin B}
<1>a. \A q \in B : q \in Nat /\ e <= q /\ q - e < Half
  BY DEF Near
<1>b. c \in Nat /\ IsFiniteSet(B)
  BY FS_CardinalityType DEF Near
<1>c. ASSUME NEW i \in 0..Half
      PROVE  (\E p \in B : SeqNum(p) = (SeqNum(e) + i) % SeqSpace) <=> e + i \in B
  <2>1. i \in Nat /\ e + i \in Nat /\ e <= e + i /\ (e + i) - e <= Half
    BY <1>c, SpaceIs
  <2>2. (SeqNum(e) + i) % SeqSpace = SeqNum(e + i)
    BY <2>1, WrapMore
  <2>3. (\E q \in B : SeqNum(q) = SeqNum(e + i)) <=> e + i \in B
    BY <2>1, Finding
  <2> QED BY <2>2, <2>3
<1>1. Half \in T
  BY <1>a, SpaceIs
<1>2. PICK n \in T : \A i \in T : n <= i
  <2>1. T \subseteq Nat
    OBVIOUS
  <2> HIDE DEF T
  <2> QED BY <1>1, <2>1, Least
<1>3. n \in Nat /\ n <= Half /\ e + n \notin B /\ \A i \in 0..(n - 1) : e + i \in B
  <2>1. n \in Nat /\ n <= Half /\ e + n \notin B
    BY <1>1, <1>2
  <2>2. ASSUME NEW i \in 0..(n - 1) PROVE e + i \in B
    BY <1>2, <2>1
  <2> QED BY <2>1, <2>2
<1>4. \A q \in e..(e + n - 1) : q \in B
  <2>1. ASSUME NEW q \in e..(e + n - 1) PROVE q \in B
    <3>1. q - e \in 0..(n - 1) /\ e + (q - e) = q
      BY <1>3
    <3> QED BY <1>3, <3>1
  <2> QED BY <2>1
<1> HIDE DEF T
<1>5. n <= c
  <2>1. Cardinality(e..(e + n - 1)) <= c
    BY <1>b, <1>4, FS_Subset
  <2>2. e \in Int /\ e + n - 1 \in Int
    BY <1>3
  <2>3. Cardinality(e..(e + n - 1)) = IF e > e + n - 1 THEN 0 ELSE (e + n - 1) - e + 1
    BY <2>2, FS_Interval
  <2>4. Cardinality(e..(e + n - 1)) = n
    BY <1>3, <2>3
  <2> QED BY <2>1, <2>4
<1>6. c <= Half
  <2>1. B \subseteq e..(e + Half - 1)
    BY <1>a, SpaceIs
  <2>2. Cardinality(e..(e + Half - 1)) = Half /\ IsFiniteSet(e..(e + Half - 1))
    <3>1. e \in Int /\ e + Half - 1 \in Int
      BY SpaceIs
    <3>2. /\ IsFiniteSet(e..(e + Half - 1))
          /\ Cardinality(e..(e + Half - 1)) = IF e > e + Half - 1 THEN 0 ELSE (e + Half - 1) - e + 1
      BY <3>1, FS_Interval
    <3> QED BY <3>2, SpaceIs
  <2> QED BY <2>1, <2>2, FS_Subset
<1>7. ASSUME NEW m \in 0..c
      PROVE  Is(m) <=> (\A i \in 0..(m - 1) : e + i \in B) /\ e + m \notin B
  <2>1. m \in 0..Half /\ \A i \in 0..(m - 1) : i \in 0..Half
    BY <1>b, <1>6, SpaceIs
  <2> QED BY <1>c, <2>1
<1>8. n \in 0..c /\ Is(n)
  <2>1. n \in 0..c
    BY <1>b, <1>3, <1>5
  <2> QED BY <1>3, <1>7, <2>1
<1>9. run \in 0..c /\ Is(run)
  <2> HIDE DEF Is
  <2> QED BY <1>8
<1>10. run = n
  <2> HIDE DEF run
  <2>1. (\A i \in 0..(run - 1) : e + i \in B) /\ e + run \notin B
    BY <1>7, <1>9
  <2>2. run \in Nat
    BY <1>9
  <2>3. ~(run < n)
    <3>1. run < n => run \in 0..(n - 1)
      BY <1>3, <2>2
    <3> QED BY <1>3, <2>1, <3>1
  <2>4. ~(n < run)
    <3>1. n < run => n \in 0..(run - 1)
      BY <1>3, <2>2
    <3> QED BY <1>3, <2>1, <3>1
  <2> QED BY <1>3, <2>2, <2>3, <2>4
<1>11. Run(SeqNum(e), B) = n
  BY <1>10 DEF Run
<1>12. {q \in B : Minus(SeqNum(q), SeqNum(e)) < n} = e..(e + n - 1)
  <2>1. ASSUME NEW q \in B PROVE Minus(SeqNum(q), SeqNum(e)) = q - e
    <3>1. q \in Nat /\ e <= q /\ q - e < SeqSpace /\ e - q < SeqSpace
      BY <1>a, SpaceIs
    <3> QED BY <3>1, Apart
  <2>2. ASSUME NEW q \in B
        PROVE  Minus(SeqNum(q), SeqNum(e)) < n <=> q \in e..(e + n - 1)
    <3>1. q \in Nat /\ e <= q
      BY <1>a
    <3> QED BY <1>3, <2>1, <3>1
  <2> QED BY <1>4, <2>2
<1> QED BY <1>3, <1>11, <1>12

\* A push, without the wrap: a gap may be given up, a run is taken out, and what stays is
\* beyond the next packet due.
LEMMA Pushed ==
    ASSUME NEW d \in Nat, NEW B, Near(d, B), B # {}
    PROVE  \E e \in Nat, n \in Nat :
              LET now == Enforced(SeqNum(d), B)
                  run == Run(now.due, now.kept)
                  out == {q \in now.kept : Minus(SeqNum(q), now.due) < run}
              IN  /\ d <= e /\ now.cost = e - d
                  /\ (now.due + run) % SeqSpace = SeqNum(e + n)
                  /\ out = e..(e + n - 1) /\ out \subseteq B /\ now.kept = B
                  /\ \A q \in B \ out : e + n < q
                  /\ n = 0 => e = d /\ Cardinality(B) <= MaxDepth
<1>1. PICK e \in Nat :
          /\ d <= e /\ \A q \in B : e <= q
          /\ Enforced(SeqNum(d), B) = [due |-> SeqNum(e), cost |-> e - d, kept |-> B]
          /\ e \in B \/ (e = d /\ d \notin B /\ Cardinality(B) <= MaxDepth)
  BY EnforcedIs
<1>2. Near(e, B)
  <2>1. ASSUME NEW q \in B PROVE q - e < Half
    <3>1. q \in Nat /\ q - d < Half
      BY DEF Near
    <3> QED BY <1>1, <3>1, SpaceIs
  <2> QED BY <1>1, <2>1 DEF Near
<1>3. PICK n \in Nat :
          /\ Run(SeqNum(e), B) = n
          /\ e + n \notin B
          /\ {q \in B : Minus(SeqNum(q), SeqNum(e)) < n} = e..(e + n - 1)
  BY <1>2, RunIs
<1>4. (SeqNum(e) + n) % SeqSpace = SeqNum(e + n)
  BY WrapMore
<1>5. ASSUME NEW q \in B, q \notin e..(e + n - 1) PROVE e + n < q
  <2>1. q \in Nat /\ e <= q /\ q # e + n
    BY <1>1, <1>3 DEF Near
  <2> QED BY <1>5, <2>1
<1>6. n = 0 => e = d /\ Cardinality(B) <= MaxDepth
  BY <1>1, <1>3
<1>7. e..(e + n - 1) \subseteq B
  BY <1>3
<1> WITNESS e \in Nat, n \in Nat
<1> QED BY <1>1, <1>3, <1>4, <1>5, <1>6, <1>7

-----------------------------------------------------------------------------
(* The invariant of the buffer.                                            *)

\* Whatever lies between x and the newest packet, there are packets enough waiting to have
\* got there by steps of Ahead: a packet is never more than that beyond all before it.
Dense(B, d, f) == \A x \in d..(f + 1) : f + 1 - x <= Cardinality({q \in B : q >= x}) * Ahead

\* d is the packet due.
Tracking(d) ==
    /\ nextSeq = SeqNum(d) /\ d <= frontier + 1
    /\ \A q \in buffered : d < q /\ q <= frontier
    /\ Dense(buffered, d, frontier)

BufferInv ==
    /\ BufferTypeOK
    /\ delivered = {} => nextSeq = NoSeq /\ buffered = {} /\ skipped = 0
                         /\ frontier = FirstPacket
    /\ delivered # {} => Tracking(Max(delivered) + 1)
    /\ HolesAreCounted

\* Multiples of the stride grow by the stride.
LEMMA Times ==
    ASSUME NEW a \in Nat, NEW b \in Nat, a <= b
    PROVE  /\ a * Ahead \in Nat /\ a * Ahead <= b * Ahead
           /\ (a + 1) * Ahead = a * Ahead + Ahead /\ Ahead \in Nat
<1>1. Ahead \in Nat
  BY BufferAssumption
<1>2. b = a + (b - a) /\ b - a \in Nat
  OBVIOUS
<1>3. b * Ahead = a * Ahead + (b - a) * Ahead /\ (b - a) * Ahead \in Nat
  BY <1>1, <1>2
<1> QED BY <1>1, <1>3

\* The part of a finite set from x on.
LEMMA FromOn ==
    ASSUME NEW B, IsFiniteSet(B), NEW x
    PROVE  /\ IsFiniteSet({q \in B : q >= x})
           /\ Cardinality({q \in B : q >= x}) \in Nat
           /\ Cardinality({q \in B : q >= x}) <= Cardinality(B)
           /\ Cardinality(B) \in Nat
<1>1. {q \in B : q >= x} \in SUBSET B
  OBVIOUS
<1> QED BY <1>1, FS_Subset, FS_CardinalityType

\* A dense buffer within its depth spans less than half the sequence space.
LEMMA SpansLittle ==
    ASSUME NEW B, IsFiniteSet(B), Cardinality(B) <= MaxDepth, NEW d \in Nat, NEW f \in Nat,
           d <= f + 1, Dense(B, d, f)
    PROVE  f + Ahead + 1 - d <= Half
<1> DEFINE c == Cardinality({q \in B : q >= d})
<1>1. c \in Nat /\ c <= MaxDepth /\ MaxDepth \in Nat
  <2>1. c \in Nat /\ c <= Cardinality(B) /\ Cardinality(B) \in Nat
    BY FromOn, Zenon
  <2> HIDE DEF c
  <2>2. MaxDepth \in Nat
    BY BufferAssumption
  <2> QED BY <2>1, <2>2
<1>2. f + 1 - d <= c * Ahead
  BY DEF Dense
<1> HIDE DEF c
<1>3. c * Ahead \in Nat /\ c * Ahead <= MaxDepth * Ahead /\ Ahead \in Nat
  BY <1>1, Times
<1>4. (MaxDepth + 1) * Ahead = MaxDepth * Ahead + Ahead /\ MaxDepth * Ahead \in Nat
  BY <1>1, Times
<1>5. MaxDepth * Ahead + Ahead <= Half
  BY <1>4, BufferAssumption DEF Half
<1> HIDE DEF Half
<1> QED BY <1>2, <1>3, <1>4, <1>5, SpaceIs

\* Nothing need wait when the packet due is the next one.
LEMMA NothingIsDense ==
    ASSUME NEW f \in Nat
    PROVE  Dense({}, f + 1, f)
<1> SUFFICES ASSUME NEW x \in (f + 1)..(f + 1)
             PROVE  f + 1 - x <= Cardinality({q \in {} : q >= x}) * Ahead
  BY DEF Dense
<1>1. {q \in {} : q >= x} = {}
  OBVIOUS
<1>2. Cardinality({}) = 0 /\ 0 * Ahead = 0
  BY FS_EmptySet, BufferAssumption
<1>3. f + 1 - x = 0
  OBVIOUS
<1> QED BY <1>1, <1>2, <1>3

\* A packet beyond all others, by no more than Ahead.
LEMMA NewerIsDense ==
    ASSUME NEW B, B \subseteq Nat, IsFiniteSet(B), NEW d \in Nat, NEW f \in Nat, Dense(B, d, f),
           NEW p \in Nat, p \notin B, f < p, p <= f + Ahead
    PROVE  Dense(B \cup {p}, d, p)
<1> SUFFICES ASSUME NEW x \in d..(p + 1)
             PROVE  p + 1 - x <= Cardinality({q \in B \cup {p} : q >= x}) * Ahead
  BY DEF Dense
<1> DEFINE old == {q \in B : q >= x}
           new == {q \in B \cup {p} : q >= x}
<1>a. x \in Nat /\ Ahead \in Nat
  BY BufferAssumption
<1>1. IsFiniteSet(old) /\ Cardinality(old) \in Nat
  BY FromOn
<1>2. CASE x <= p
  <2>1. new = old \cup {p} /\ p \notin old
    BY <1>2, <1>a
  <2>2. Cardinality(new) = Cardinality(old) + 1
    BY <1>1, <2>1, FS_AddElement
  <2> HIDE DEF old, new
  <2>3. Cardinality(new) * Ahead = Cardinality(old) * Ahead + Ahead
        /\ Cardinality(old) * Ahead \in Nat
    BY <1>1, <2>2, Times
  <2>4. CASE x <= f + 1
    <3>1. f + 1 - x <= Cardinality(old) * Ahead
      BY <1>a, <2>4 DEF Dense, old
    <3> QED BY <1>a, <2>3, <3>1 DEF new
  <2>5. CASE ~(x <= f + 1)
    BY <1>a, <2>3, <2>5 DEF new
  <2> QED BY <2>4, <2>5
<1>3. CASE ~(x <= p)
  <2>1. p + 1 - x = 0
    BY <1>a, <1>3
  <2>2. Cardinality(new) \in Nat
    <3>1. IsFiniteSet(B \cup {p})
      BY FS_AddElement
    <3> QED BY <3>1, FromOn
  <2> HIDE DEF new
  <2>3. Cardinality(new) * Ahead \in Nat
    BY <2>2, Times
  <2> QED BY <2>1, <2>3 DEF new
<1> QED BY <1>2, <1>3

\* Any other packet only adds to what waits.
LEMMA OlderIsDense ==
    ASSUME NEW B, B \subseteq Nat, IsFiniteSet(B), NEW d \in Nat, NEW f \in Nat, Dense(B, d, f),
           NEW p \in Nat
    PROVE  Dense(B \cup {p}, d, f)
<1> SUFFICES ASSUME NEW x \in d..(f + 1)
             PROVE  f + 1 - x <= Cardinality({q \in B \cup {p} : q >= x}) * Ahead
  BY DEF Dense
<1> DEFINE old == {q \in B : q >= x}
           new == {q \in B \cup {p} : q >= x}
<1>1. IsFiniteSet(B \cup {p})
  BY FS_AddElement
<1>2. IsFiniteSet(new) /\ Cardinality(new) \in Nat /\ Cardinality(old) \in Nat
  BY <1>1, FromOn
<1>3. old \in SUBSET new
  OBVIOUS
<1>4. Cardinality(old) <= Cardinality(new)
  <2> HIDE DEF old, new
  <2> QED BY <1>2, <1>3, FS_Subset
<1>5. f + 1 - x <= Cardinality(old) * Ahead
  BY DEF Dense
<1> HIDE DEF old, new
<1>6. Cardinality(old) * Ahead \in Nat /\ Cardinality(old) * Ahead <= Cardinality(new) * Ahead
      /\ Cardinality(new) * Ahead \in Nat
  BY <1>2, <1>4, Times
<1>7. f + 1 - x \in Int
  OBVIOUS
<1> QED BY <1>5, <1>6, <1>7 DEF new

\* What is taken out leaves what lies beyond it as it was.
LEMMA RestIsDense ==
    ASSUME NEW B, B \subseteq Nat, NEW d \in Nat, NEW f \in Nat, Dense(B, d, f),
           NEW e \in Nat, NEW n \in Nat, d <= e + n
    PROVE  Dense(B \ (e..(e + n - 1)), e + n, f)
<1> SUFFICES ASSUME NEW x \in (e + n)..(f + 1)
             PROVE  f + 1 - x <= Cardinality({q \in B \ (e..(e + n - 1)) : q >= x}) * Ahead
  BY DEF Dense
<1>1. {q \in B \ (e..(e + n - 1)) : q >= x} = {q \in B : q >= x}
  OBVIOUS
<1>2. x \in d..(f + 1)
  OBVIOUS
<1> QED BY <1>1, <1>2 DEF Dense

\* The greatest and the least of some packets.
LEMMA Extremes ==
    ASSUME NEW S, S \subseteq FirstPacket..LastPacket, S # {}
    PROVE  /\ Max(S) \in S /\ \A q \in S : q <= Max(S)
           /\ Min(S) \in S /\ \A q \in S : Min(S) <= q
<1>1. S \subseteq Nat /\ LastPacket \in Nat /\ \A q \in S : q <= LastPacket
  BY BufferAssumption
<1>2. \E x \in S : \A y \in S : x <= y
  BY <1>1, Least
<1>3. Min(S) \in S /\ \A q \in S : Min(S) <= q
  BY <1>2 DEF Min
<1>4. \E x \in S : \A y \in S : x >= y
  <2> DEFINE T == {n \in Nat : \A q \in S : q <= n}
  <2>1. LastPacket \in T /\ T \subseteq Nat
    BY <1>1
  <2> HIDE DEF T
  <2>2. PICK n \in T : \A m \in T : n <= m
    BY <2>1, Least
  <2> USE DEF T
  <2>3. n \in Nat /\ \A q \in S : q <= n
    BY <2>2
  <2>4. n \in S
    <3> SUFFICES ASSUME n \notin S PROVE FALSE
      OBVIOUS
    <3>1. \A q \in S : q \in Nat /\ q <= n /\ q # n
      BY <1>1, <2>3
    <3>2. n # 0
      <4>1. PICK q \in S : TRUE
        OBVIOUS
      <4>2. q \in Nat /\ q <= n /\ q # n
        BY <3>1
      <4> QED BY <4>2
    <3>3. n - 1 \in T
      BY <2>3, <3>1, <3>2
    <3> QED BY <2>2, <2>3, <3>3
  <2> QED BY <1>1, <2>3, <2>4
<1>5. Max(S) \in S /\ \A q \in S : Max(S) >= q
  BY <1>4 DEF Max
<1> QED BY <1>1, <1>3, <1>5

\* The largest and the smallest member of a set of packets are its bounds.
LEMMA ExtremesAre ==
    ASSUME NEW S, S \subseteq FirstPacket..LastPacket
    PROVE  /\ \A m \in S : (\A q \in S : q <= m) => Max(S) = m
           /\ \A m \in S : (\A q \in S : m <= q) => Min(S) = m
<1>1. S # {} => /\ Max(S) \in S /\ \A q \in S : q <= Max(S)
                /\ Min(S) \in S /\ \A q \in S : Min(S) <= q
  BY Extremes
<1>2. S \subseteq Nat
  BY BufferAssumption
<1>3. ASSUME NEW m \in S, \A q \in S : q <= m PROVE Max(S) = m
  <2>1. Max(S) \in S /\ m <= Max(S)
    BY <1>1
  <2>2. Max(S) <= m /\ Max(S) \in Nat /\ m \in Nat
    BY <1>2, <1>3, <2>1
  <2> QED BY <2>1, <2>2
<1>4. ASSUME NEW m \in S, \A q \in S : m <= q PROVE Min(S) = m
  <2>1. Min(S) \in S /\ Min(S) <= m
    BY <1>1
  <2>2. m <= Min(S) /\ Min(S) \in Nat /\ m \in Nat
    BY <1>2, <1>4, <2>1
  <2> QED BY <2>1, <2>2
<1> QED BY <1>3, <1>4

\* The packets S were taken out up to d, k were given up between them, and the next run is
\* to begin at e.
Counted(S, d, e, k) ==
    /\ S \subseteq FirstPacket..LastPacket /\ d <= e
    /\ S # {} => d = Max(S) + 1 /\ k + Cardinality(S) = Max(S) + 1 - Min(S)
    /\ S = {} => e = d /\ k = 0

\* That run.
IsRun(R, e, n) == n # 0 /\ R = e..(e + n - 1) /\ R \subseteq FirstPacket..LastPacket

\* A run of n packets joins those taken out, from e on: what follows for their extremes
\* and number, when a gap of e - d was given up before it.
LEMMA RunCounts ==
    ASSUME NEW S, NEW d \in Nat, NEW e \in Nat, NEW k \in Nat, Counted(S, d, e, k),
           NEW n \in Nat, NEW R, IsRun(R, e, n)
    PROVE  /\ Max(S \cup R) = e + n - 1
           /\ k + (e - d) + Cardinality(S \cup R) = Max(S \cup R) + 1 - Min(S \cup R)
<1> DEFINE T == S \cup R
<1>0. /\ S \subseteq FirstPacket..LastPacket /\ d <= e
      /\ S # {} => d = Max(S) + 1 /\ k + Cardinality(S) = Max(S) + 1 - Min(S)
      /\ S = {} => e = d /\ k = 0
  BY DEF Counted
<1>a. n # 0 /\ R = e..(e + n - 1) /\ R \subseteq FirstPacket..LastPacket
  BY DEF IsRun
<1>1. T \subseteq FirstPacket..LastPacket /\ S \subseteq Nat
  <2>1. T \subseteq FirstPacket..LastPacket
    BY <1>0, <1>a
  <2>2. FirstPacket..LastPacket \subseteq Nat
    BY BufferAssumption
  <2> QED BY <1>0, <2>1, <2>2
<1>2. S # {} => /\ Max(S) \in S /\ \A q \in S : q <= Max(S)
                /\ Min(S) \in S /\ \A q \in S : Min(S) <= q
  BY <1>0, Extremes
<1>3. ASSUME NEW q \in S PROVE q < e
  <2>1. q \in Nat /\ Max(S) \in Nat /\ q <= Max(S) /\ d = Max(S) + 1
    BY <1>0, <1>1, <1>2
  <2> QED BY <1>0, <2>1
<1>4. e + n - 1 \in R /\ e \in R /\ \A q \in R : e <= q /\ q <= e + n - 1
  BY <1>a
<1>5. IsFiniteSet(S) /\ IsFiniteSet(R) /\ Cardinality(S) \in Nat
  <2>1. FirstPacket \in Int /\ LastPacket \in Int /\ e \in Int /\ e + n - 1 \in Int
    BY BufferAssumption
  <2>2. IsFiniteSet(FirstPacket..LastPacket) /\ IsFiniteSet(R)
    BY <1>a, <2>1, FS_Interval
  <2>3. IsFiniteSet(S)
    BY <1>0, <2>2, FS_Subset
  <2> QED BY <2>2, <2>3, FS_CardinalityType
<1>6. Cardinality(R) = n
  <2>1. e \in Int /\ e + n - 1 \in Int
    OBVIOUS
  <2>2. Cardinality(R) = IF e > e + n - 1 THEN 0 ELSE (e + n - 1) - e + 1
    BY <1>a, <2>1, FS_Interval
  <2> QED BY <1>a, <2>2
<1>7. Cardinality(T) = Cardinality(S) + n
  <2>1. S \cap R = {}
    BY <1>1, <1>3, <1>a
  <2>2. Cardinality(S \cup R) = Cardinality(S) + Cardinality(R) - Cardinality(S \cap R)
    BY <1>5, FS_Union
  <2>3. Cardinality(S \cap R) = 0
    BY <2>1, FS_EmptySet
  <2> QED BY <1>5, <1>6, <2>2, <2>3
<1>8. \A q \in T : q <= e + n - 1
  BY <1>1, <1>3, <1>4
<1>9. Max(T) = e + n - 1
  BY <1>1, <1>4, <1>8, ExtremesAre
<1>10. CASE S = {}
  <2>1. T = R
    BY <1>10
  <2>2. Min(T) = e
    BY <1>1, <1>4, <2>1, ExtremesAre
  <2>3. Cardinality(T) = n
    BY <1>6, <2>1
  <2> QED BY <1>0, <1>a, <1>9, <1>10, <2>2, <2>3
<1>11. CASE S # {}
  <2>1. Min(S) \in T /\ \A q \in T : Min(S) <= q
    <3>1. Min(S) \in Nat /\ Min(S) < e
      BY <1>1, <1>2, <1>3, <1>11
    <3> QED BY <1>1, <1>2, <1>4, <1>11, <3>1
  <2>2. Min(T) = Min(S)
    <3> HIDE DEF T
    <3> QED BY <1>1, <2>1, ExtremesAre
  <2>3. Max(S) \in Nat /\ Min(S) \in Nat
    BY <1>1, <1>2, <1>11
  <2> HIDE DEF T
  <2>4. k + (e - d) + Cardinality(T) = Max(T) + 1 - Min(T)
    <3>1. k + Cardinality(S) = Max(S) + 1 - Min(S) /\ d = Max(S) + 1
      BY <1>0, <1>11
    <3> DEFINE c == Cardinality(S)
               m == Max(S)
               l == Min(S)
    <3>2. c \in Nat /\ m \in Nat /\ l \in Nat /\ k + c = m + 1 - l /\ d = m + 1
      BY <1>5, <2>3, <3>1
    <3> HIDE DEF c, m, l
    <3>3. k + (e - d) + (c + n) = (e + n - 1) + 1 - l
      BY <1>0, <3>2
    <3> QED BY <1>7, <1>9, <2>2, <3>3 DEF c, l
  <2> QED BY <1>9, <2>4 DEF T
<1> QED BY <1>10, <1>11

\* The larger of two numbers.
LEMMA Newest ==
    ASSUME NEW a \in Nat, NEW b \in Nat
    PROVE  Max({a, b}) = IF a <= b THEN b ELSE a
<1> DEFINE m == IF a <= b THEN b ELSE a
           Top(x) == \A y \in {a, b} : x >= y
<1>1. m \in {a, b} /\ Top(m)
  OBVIOUS
<1>2. Max({a, b}) = CHOOSE x \in {a, b} : Top(x)
  BY DEF Max
<1>3. ASSUME NEW x \in {a, b}, Top(x) PROVE x = m
  BY <1>3
<1> HIDE DEF m, Top
<1>4. Max({a, b}) \in {a, b} /\ Top(Max({a, b}))
  BY <1>1, <1>2
<1> QED BY <1>3, <1>4 DEF m

\* The types of the buffer, in the form the steps below use.
LEMMA BufferTypes ==
    ASSUME BufferTypeOK
    PROVE  /\ FirstPacket..LastPacket \subseteq Nat /\ frontier \in Nat /\ skipped \in Nat
           /\ buffered \subseteq Nat /\ IsFiniteSet(buffered) /\ Cardinality(buffered) \in Nat
           /\ MaxDepth \in Nat /\ Behind \in Nat /\ Ahead \in Nat /\ Behind + 1 < Half
<1>1. FirstPacket..LastPacket \subseteq Nat /\ FirstPacket \in Int /\ LastPacket \in Int
  BY BufferAssumption
<1>2. IsFiniteSet(FirstPacket..LastPacket)
  BY <1>1, FS_Interval
<1>3. IsFiniteSet(buffered)
  BY <1>2, FS_Subset DEF BufferTypeOK
<1> QED BY <1>1, <1>3, FS_CardinalityType, BufferAssumption DEF BufferTypeOK, Half

\* The packet due when p arrives.
Due(p) == IF delivered = {} THEN p ELSE Max(delivered) + 1

\* Where p is, seen from the packet due.
LEMMA DueIs ==
    ASSUME BufferInv, NEW p \in FirstPacket..LastPacket, Arrive(p)
    PROVE  /\ Due(p) \in Nat
           /\ (IF nextSeq = NoSeq THEN SeqNum(p) ELSE nextSeq) = SeqNum(Due(p))
           /\ p - Due(p) < Half /\ Due(p) - p < Half
           /\ Near(Due(p), buffered)
           /\ p < Due(p) => p <= frontier
<1>1. BufferTypeOK
  BY DEF BufferInv
<1>2. p \in Nat /\ p + Behind >= frontier /\ p <= frontier + Ahead
  BY <1>1, BufferTypes DEF Arrive
<1>3. CASE delivered = {}
  <2>1. Due(p) = p /\ nextSeq = NoSeq /\ buffered = {}
    BY <1>3 DEF Due, BufferInv
  <2>2. Near(p, buffered)
    BY <2>1, FS_EmptySet DEF Near
  <2> QED BY <1>2, <2>1, <2>2, SpaceIs
<1>4. CASE delivered # {}
  <2> DEFINE d == Max(delivered) + 1
  <2>1. Due(p) = d /\ Tracking(d)
    BY <1>4 DEF Due, BufferInv
  <2>2. d \in Nat
    <3>1. delivered \subseteq FirstPacket..LastPacket
      BY <1>1 DEF BufferTypeOK
    <3>2. Max(delivered) \in delivered
      BY <1>4, <3>1, Extremes
    <3>3. Max(delivered) \in Nat
      BY <1>1, <3>1, <3>2, BufferTypes
    <3> QED BY <3>3
  <2> HIDE DEF d
  <2>3. nextSeq = SeqNum(d) /\ d <= frontier + 1
        /\ (\A q \in buffered : d < q /\ q <= frontier) /\ Dense(buffered, d, frontier)
    BY <2>1 DEF Tracking
  <2>4. nextSeq # NoSeq
    <3>1. SeqNum(d) \in 0..(SeqSpace - 1)
      BY <2>2, Quotient
    <3> QED BY <2>3, <3>1, SpaceIs DEF NoSeq
  <2>5. frontier + Ahead + 1 - d <= Half
    <3>1. IsFiniteSet(buffered) /\ Cardinality(buffered) <= MaxDepth /\ frontier \in Nat
      BY <1>1, BufferTypes DEF BufferTypeOK
    <3> QED BY <2>2, <2>3, <3>1, SpansLittle
  <2>6. p - d < Half /\ d - p < Half /\ (p < d => p <= frontier)
    BY <1>1, <1>2, <2>2, <2>3, <2>5, BufferTypes, SpaceIs
  <2>7. Near(d, buffered)
    <3>1. ASSUME NEW q \in buffered PROVE d <= q /\ q - d < Half
      <4>1. q \in Nat /\ d < q /\ q <= frontier /\ frontier \in Nat /\ Ahead \in Nat
        BY <1>1, <2>3, BufferTypes
      <4> QED BY <2>2, <2>5, <4>1, SpaceIs
    <3> QED BY <1>1, <3>1, BufferTypes DEF Near
  <2> QED BY <2>1, <2>2, <2>3, <2>4, <2>6, <2>7
<1> QED BY <1>3, <1>4

\* A packet is refused exactly when it is behind the one due or waits already; otherwise what
\* was waiting and it are taken out up to the first that is missing.
LEMMA ArrivalIs ==
    ASSUME BufferInv, NEW p \in FirstPacket..LastPacket, Arrive(p)
    PROVE  LET d == Due(p)
               B == buffered \cup {p}
           IN  \/ UNCHANGED bufferVars
               \/ /\ d <= p /\ p \notin buffered /\ Near(d, B)
                  /\ \E e \in Nat, n \in Nat :
                        /\ d <= e
                        /\ e..(e + n - 1) \subseteq B
                        /\ \A q \in B \ (e..(e + n - 1)) : e + n < q
                        /\ n = 0 => e = d /\ Cardinality(B) <= MaxDepth
                        /\ nextSeq' = SeqNum(e + n)
                        /\ skipped' = skipped + (e - d)
                        /\ buffered' = B \ (e..(e + n - 1))
                        /\ delivered' = delivered \cup (e..(e + n - 1))
<1> DEFINE d == Due(p)
           B == buffered \cup {p}
           refused == \/ SerialLt(SeqNum(p), SeqNum(d))
                      \/ \E q \in buffered : SeqNum(q) = SeqNum(p)
           now == Enforced(SeqNum(d), B)
           run == Run(now.due, now.kept)
           out == {q \in now.kept : Minus(SeqNum(q), now.due) < run}
<1>1. /\ BufferTypeOK /\ p \in Nat /\ frontier \in Nat /\ frontier' = Max({frontier, p})
      /\ buffered \subseteq Nat
  BY BufferTypes DEF BufferInv, Arrive
<1>2. /\ d \in Nat /\ p - d < Half /\ d - p < Half /\ Near(d, buffered)
      /\ p < d => p <= frontier
  BY DueIs
<1>3. IF refused
      THEN UNCHANGED <<nextSeq, buffered, skipped, delivered>>
      ELSE /\ nextSeq' = (now.due + run) % SeqSpace
           /\ skipped' = skipped + now.cost
           /\ buffered' = now.kept \ out
           /\ delivered' = delivered \cup out
  <2>1. (IF nextSeq = NoSeq THEN SeqNum(p) ELSE nextSeq) = SeqNum(d)
    BY DueIs
  <2> QED BY <2>1 DEF Arrive
<1> HIDE DEF d
<1>4. refused <=> p < d \/ p \in buffered
  <2>1. SerialLt(SeqNum(p), SeqNum(d)) <=> p < d
    BY <1>1, <1>2, SerialIs, SpaceIs
  <2>2. CASE p < d
    BY <2>1, <2>2
  <2>3. CASE ~(p < d)
    <3>1. d <= p /\ p - d <= Half
      BY <1>1, <1>2, <2>3, SpaceIs
    <3>2. (\E q \in buffered : SeqNum(q) = SeqNum(p)) <=> p \in buffered
      BY <1>1, <1>2, <3>1, Finding
    <3> QED BY <2>1, <2>3, <3>2
  <2> QED BY <2>2, <2>3
<1>5. CASE refused
  <2>1. p <= frontier
    <3>1. CASE p < d
      BY <1>2, <3>1
    <3>2. CASE p \in buffered
      <4>1. delivered # {} /\ Tracking(Max(delivered) + 1)
        BY <3>2 DEF BufferInv
      <4> QED BY <3>2, <4>1 DEF Tracking
    <3> QED BY <1>4, <1>5, <3>1, <3>2
  <2>2. frontier' = frontier
    BY <1>1, <2>1, Newest
  <2>3. UNCHANGED bufferVars
    BY <1>3, <1>5, <2>2 DEF bufferVars
  <2> QED BY <2>3
<1>6. CASE ~refused
  <2>1. d <= p /\ p \notin buffered
    BY <1>1, <1>2, <1>4, <1>6
  <2>2. Near(d, B)
    <3>1. IsFiniteSet(B)
      BY <1>2, FS_AddElement DEF Near
    <3>2. \A q \in B : q \in Nat /\ d <= q /\ q - d < Half
      BY <1>1, <1>2, <2>1 DEF Near
    <3> QED BY <3>1, <3>2 DEF Near
  <2>3. PICK e \in Nat, n \in Nat :
          /\ d <= e /\ now.cost = e - d
          /\ (now.due + run) % SeqSpace = SeqNum(e + n)
          /\ out = e..(e + n - 1) /\ out \subseteq B /\ now.kept = B
          /\ \A q \in B \ out : e + n < q
          /\ n = 0 => e = d /\ Cardinality(B) <= MaxDepth
    <3>1. B # {}
      OBVIOUS
    <3> HIDE DEF B
    <3> QED BY <1>2, <2>2, <3>1, Pushed
  <2>4. /\ nextSeq' = (now.due + run) % SeqSpace
        /\ skipped' = skipped + now.cost
        /\ buffered' = now.kept \ out
        /\ delivered' = delivered \cup out
    BY <1>3, <1>6
  <2> HIDE DEF now, run, out, B
  <2>5. /\ nextSeq' = SeqNum(e + n)
        /\ skipped' = skipped + (e - d)
        /\ buffered' = B \ (e..(e + n - 1))
        /\ delivered' = delivered \cup (e..(e + n - 1))
    BY <2>3, <2>4
  <2>6. /\ e..(e + n - 1) \subseteq B
        /\ \A q \in B \ (e..(e + n - 1)) : e + n < q
    BY <2>3
  <2> QED BY <2>1, <2>2, <2>3, <2>5, <2>6 DEF d, B
<1> QED BY <1>5, <1>6

\* What stays after an arrival is dense up to the packet that is newest now.
LEMMA StaysDense ==
    ASSUME BufferInv, NEW p \in FirstPacket..LastPacket, Arrive(p), delivered # {},
           Due(p) <= p, p \notin buffered
    PROVE  Dense(buffered \cup {p}, Due(p), frontier')
<1> DEFINE d == Due(p)
<1>1. /\ BufferTypeOK /\ p \in Nat /\ frontier \in Nat /\ frontier' = Max({frontier, p})
      /\ buffered \subseteq Nat /\ IsFiniteSet(buffered) /\ p <= frontier + Ahead
  BY BufferTypes DEF BufferInv, Arrive
<1>2. d \in Nat
  BY DueIs
<1>3. Dense(buffered, d, frontier)
  <2>1. Tracking(d)
    BY DEF BufferInv, Due
  <2> QED BY <2>1 DEF Tracking
<1> HIDE DEF d
<1>4. CASE frontier < p
  <2>1. frontier' = p
    BY <1>1, <1>4, Newest
  <2>2. Dense(buffered \cup {p}, d, p)
    BY <1>1, <1>2, <1>3, <1>4, NewerIsDense
  <2> QED BY <2>1, <2>2 DEF d
<1>5. CASE ~(frontier < p)
  <2>1. frontier' = frontier
    BY <1>1, <1>5, Newest
  <2>2. Dense(buffered \cup {p}, d, frontier)
    BY <1>1, <1>2, <1>3, OlderIsDense
  <2> QED BY <2>1, <2>2 DEF d
<1> QED BY <1>4, <1>5

\* A packet's arrival keeps the buffer's invariant and delivers in order.
LEMMA Arriving ==
    ASSUME BufferInv, NEW p \in FirstPacket..LastPacket, Arrive(p)
    PROVE  BufferInv' /\ \A x \in delivered' \ delivered : \A q \in delivered : q < x
<1> DEFINE d == Due(p)
           B == buffered \cup {p}
<1>1. CASE UNCHANGED bufferVars
  <2>1. BufferInv'
    BY <1>1 DEF BufferInv, BufferTypeOK, Tracking, HolesAreCounted, bufferVars
  <2> QED BY <1>1, <2>1 DEF bufferVars
<1>2. ASSUME d <= p, p \notin buffered, Near(d, B),
             NEW e \in Nat, NEW n \in Nat, d <= e,
             e..(e + n - 1) \subseteq B,
             \A q \in B \ (e..(e + n - 1)) : e + n < q,
             n = 0 => e = d /\ Cardinality(B) <= MaxDepth,
             nextSeq' = SeqNum(e + n),
             skipped' = skipped + (e - d),
             buffered' = B \ (e..(e + n - 1)),
             delivered' = delivered \cup (e..(e + n - 1))
      PROVE  BufferInv' /\ \A x \in delivered' \ delivered : \A q \in delivered : q < x
  <2> DEFINE R == e..(e + n - 1)
  <2>1. /\ BufferTypeOK /\ p \in Nat /\ frontier \in Nat /\ frontier' = Max({frontier, p})
        /\ buffered \subseteq Nat /\ IsFiniteSet(buffered) /\ skipped \in Nat
        /\ Cardinality(buffered) \in Nat /\ MaxDepth \in Nat /\ Cardinality(buffered) <= MaxDepth
        /\ FirstPacket..LastPacket \subseteq Nat
    BY BufferTypes DEF BufferInv, Arrive, BufferTypeOK
  <2>2. d \in Nat
    BY DueIs
  <2>3. delivered # {} => /\ d = Max(delivered) + 1 /\ Tracking(d)
                          /\ Max(delivered) \in Nat /\ \A q \in delivered : q \in Nat /\ q < d
    <3> SUFFICES ASSUME delivered # {}
                 PROVE  /\ d = Max(delivered) + 1 /\ Tracking(d)
                        /\ Max(delivered) \in Nat /\ \A q \in delivered : q \in Nat /\ q < d
      OBVIOUS
    <3>1. d = Max(delivered) + 1 /\ Tracking(d)
      BY DEF BufferInv, Due
    <3>2. delivered \subseteq FirstPacket..LastPacket
      BY <2>1 DEF BufferTypeOK
    <3>3. Max(delivered) \in delivered /\ \A q \in delivered : q <= Max(delivered)
      BY <3>2, Extremes
    <3>4. Max(delivered) \in Nat /\ delivered \subseteq Nat
      BY <2>1, <3>2, <3>3
    <3>5. ASSUME NEW q \in delivered PROVE q \in Nat /\ q < d
      BY <3>1, <3>3, <3>4
    <3> QED BY <3>1, <3>4, <3>5
  <2>4. delivered = {} => d = p /\ buffered = {} /\ skipped = 0 /\ frontier = FirstPacket
    BY DEF BufferInv, Due
  <2> HIDE DEF d
  <2>5. frontier' = (IF frontier <= p THEN p ELSE frontier) /\ frontier' \in Nat
        /\ frontier <= frontier' /\ p <= frontier' /\ frontier' \in FirstPacket..LastPacket
    <3>1. frontier' = IF frontier <= p THEN p ELSE frontier
      BY <2>1, Newest
    <3> QED BY <2>1, <3>1 DEF BufferTypeOK
  <2>6. \A q \in B : q \in Nat /\ q <= frontier'
    <3>1. ASSUME NEW q \in buffered PROVE q \in Nat /\ q <= frontier'
      <4>1. q \in Nat /\ q <= frontier
        BY <2>1, <2>3, <2>4 DEF Tracking
      <4> QED BY <2>1, <2>5, <4>1
    <3> QED BY <2>1, <2>5, <3>1
  <2>7. B \subseteq FirstPacket..LastPacket /\ R \subseteq FirstPacket..LastPacket
    BY <1>2, <2>1 DEF BufferTypeOK
  <2>8. ASSUME NEW x \in delivered' \ delivered, NEW q \in delivered PROVE q < x
    <3>1. x \in Nat /\ e <= x
      BY <1>2, <2>8
    <3>2. q \in Nat /\ q < d
      BY <2>3
    <3> QED BY <1>2, <2>2, <3>1, <3>2
  <2>9. n = 0 => R = {}
    OBVIOUS
  <2>10. n # 0 => e + n - 1 \in R /\ e \in R
    OBVIOUS
  <2>11. delivered = {} => n # 0
    <3> SUFFICES ASSUME delivered = {}, n = 0 PROVE FALSE
      OBVIOUS
    <3>1. e = p /\ p \in B \ R
      BY <1>2, <2>4, <2>9
    <3> QED BY <1>2, <2>1, <3>1
  <2>12. BufferTypeOK'
    <3>1. nextSeq' \in 0..SeqSpace
      <4>1. SeqNum(e + n) \in 0..(SeqSpace - 1)
        BY Quotient
      <4> QED BY <1>2, <4>1, SpaceIs
    <3>2. Cardinality(B) = Cardinality(buffered) + 1 /\ IsFiniteSet(B)
      BY <1>2, <2>1, FS_AddElement
    <3>3. Cardinality(B \ R) <= MaxDepth
      <4>1. CASE n = 0
        <5>1. B \ R = B
          BY <2>9, <4>1
        <5> QED BY <1>2, <4>1, <5>1
      <4>2. CASE n # 0
        <5>1. e \in B /\ B \ R \subseteq B \ {e}
          BY <1>2, <2>10, <4>2
        <5>2. IsFiniteSet(B \ {e}) /\ Cardinality(B \ {e}) = Cardinality(B) - 1
          BY <3>2, <5>1, FS_RemoveElement
        <5> HIDE DEF R, B
        <5>3. IsFiniteSet(B \ R) /\ Cardinality(B \ R) <= Cardinality(B \ {e})
              /\ Cardinality(B \ R) \in Nat
          BY <5>1, <5>2, FS_Subset, FS_CardinalityType
        <5> QED BY <2>1, <3>2, <5>2, <5>3
      <4> QED BY <4>1, <4>2
    <3>4. skipped' \in Nat
      BY <1>2, <2>1, <2>2
    <3>5. /\ buffered' \subseteq FirstPacket..LastPacket
          /\ delivered' \subseteq FirstPacket..LastPacket
      BY <1>2, <2>1, <2>7 DEF BufferTypeOK
    <3> QED BY <1>2, <2>5, <3>1, <3>3, <3>4, <3>5 DEF BufferTypeOK
  <2>13. delivered' # {}
    BY <1>2, <2>10, <2>11
  <2>14. d <= e + n
    BY <1>2, <2>2
  <2>15. Max(delivered') + 1 = e + n /\ HolesAreCounted'
    <3>1. CASE n = 0
      <4>1. delivered' = delivered /\ e = d /\ skipped' = skipped
        BY <1>2, <2>1, <2>2, <2>9, <3>1
      <4>2. HolesAreCounted'
        BY <4>1 DEF BufferInv, HolesAreCounted
      <4> QED BY <2>2, <2>3, <2>13, <3>1, <4>1, <4>2
    <3>2. CASE n # 0
      <4> DEFINE T == delivered \cup R
      <4>1. Counted(delivered, d, e, skipped)
        <5>1. delivered = {} => e = d
          <6> SUFFICES ASSUME delivered = {} PROVE e = d
            OBVIOUS
          <6>1. B = {p} /\ d = p
            BY <2>4
          <6> QED BY <1>2, <2>10, <3>2, <6>1
        <5> QED BY <1>2, <2>1, <2>3, <2>4, <5>1
                DEF Counted, BufferInv, BufferTypeOK, HolesAreCounted
      <4>3. IsRun(R, e, n)
        BY <2>7, <3>2 DEF IsRun
      <4>4. /\ Max(T) = e + n - 1
            /\ skipped + (e - d) + Cardinality(T) = Max(T) + 1 - Min(T)
        <5> HIDE DEF R
        <5>1. d \in Nat /\ e \in Nat /\ n \in Nat /\ skipped \in Nat
          BY <2>1, <2>2
        <5> QED BY <4>1, <4>3, <5>1, RunCounts
      <4>5. delivered' = T /\ skipped' = skipped + (e - d)
        BY <1>2
      <4> HIDE DEF T
      <4> QED BY <4>4, <4>5 DEF HolesAreCounted
    <3> QED BY <3>1, <3>2
  <2>16. Tracking(e + n)'
    <3>1. e + n <= frontier' + 1
      <4>1. CASE n = 0
        BY <1>2, <2>1, <2>2, <2>5, <4>1
      <4>2. CASE n # 0
        BY <1>2, <2>5, <2>6, <2>10, <4>2
      <4> QED BY <4>1, <4>2
    <3>2. \A q \in buffered' : e + n < q /\ q <= frontier'
      BY <1>2, <2>6
    <3>3. Dense(B \ R, e + n, frontier')
      <4>1. CASE delivered # {}
        <5>1. Dense(B, d, frontier')
          BY <1>2, <4>1, StaysDense DEF d
        <5>2. B \subseteq Nat
          BY <2>6
        <5> HIDE DEF B
        <5> QED BY <2>2, <2>5, <2>14, <5>1, <5>2, RestIsDense
      <4>2. CASE delivered = {}
        <5>1. B = {p} /\ e..(e + n - 1) \subseteq {p} /\ n # 0
          BY <1>2, <2>4, <2>11, <4>2
        <5>2. e = p /\ e + n - 1 = p
          BY <2>10, <5>1
        <5>3. frontier' = p
          BY <2>1, <2>4, <2>5, <4>2
        <5>4. B \ R = {} /\ e + n = p + 1
          BY <2>1, <2>10, <5>1, <5>2
        <5>5. Dense({}, p + 1, p)
          BY <2>1, NothingIsDense
        <5> QED BY <5>3, <5>4, <5>5
      <4> QED BY <4>1, <4>2
    <3>4. nextSeq' = SeqNum(e + n) /\ buffered' = B \ R
      BY <1>2
    <3> QED BY <3>1, <3>2, <3>3, <3>4 DEF Tracking, Dense
  <2>17. BufferInv'
    BY <2>12, <2>13, <2>15, <2>16 DEF BufferInv
  <2> QED BY <2>8, <2>17
<1>3. \/ UNCHANGED bufferVars
      \/ /\ d <= p /\ p \notin buffered /\ Near(d, B)
         /\ \E e \in Nat, n \in Nat :
               /\ d <= e
               /\ e..(e + n - 1) \subseteq B
               /\ \A q \in B \ (e..(e + n - 1)) : e + n < q
               /\ n = 0 => e = d /\ Cardinality(B) <= MaxDepth
               /\ nextSeq' = SeqNum(e + n)
               /\ skipped' = skipped + (e - d)
               /\ buffered' = B \ (e..(e + n - 1))
               /\ delivered' = delivered \cup (e..(e + n - 1))
  BY ArrivalIs
<1> HIDE DEF d, B
<1> QED BY <1>1, <1>2, <1>3

\* So does every step of the buffer.
LEMMA BufferSteps ==
    BufferInv /\ [BufferNext]_bufferVars =>
        BufferInv' /\ \A x \in delivered' \ delivered : \A q \in delivered : q < x
<1> SUFFICES ASSUME BufferInv, [BufferNext]_bufferVars
             PROVE  BufferInv' /\ \A x \in delivered' \ delivered : \A q \in delivered : q < x
  OBVIOUS
<1>1. CASE BufferNext
  BY <1>1, Arriving DEF BufferNext
<1>2. CASE UNCHANGED bufferVars
  <2>1. BufferInv'
    BY <1>2 DEF BufferInv, BufferTypeOK, Tracking, Dense, HolesAreCounted, bufferVars
  <2> QED BY <1>2, <2>1 DEF bufferVars
<1> QED BY <1>1, <1>2

\* The buffer's invariant holds at the start.
LEMMA BufferStarts == BufferInit => BufferInv
<1> SUFFICES ASSUME BufferInit PROVE BufferInv
  OBVIOUS
<1>1. Cardinality({}) = 0
  BY FS_EmptySet
<1> QED BY <1>1, BufferAssumption DEF BufferInit, BufferInv, BufferTypeOK, HolesAreCounted, NoSeq

\* The invariant of the reorder buffer (substrates/rtp), for any depth and stride.
THEOREM BufferHolds == BufferSpec => []BufferInv
<1> QED BY BufferStarts, BufferSteps, PTL DEF BufferSpec

\* The buffer never holds more than max_depth packets after a push, and every packet is one
\* of the source's (reorder.rs enforce_depth).
THEOREM BufferTyping == BufferSpec => []BufferTypeOK
<1>1. BufferInv => BufferTypeOK
  BY DEF BufferInv
<1> QED BY <1>1, BufferHolds, PTL

\* Nothing is taken out that is older than something taken out before, whatever the network
\* loses, doubles and reorders (reorder.rs push and pop).
THEOREM OrderIsKept == BufferSpec => DeliversInOrder
<1>1. BufferInv /\ [BufferNext]_bufferVars =>
          [\A p \in delivered' \ delivered : \A q \in delivered : q < p]_bufferVars
  BY BufferSteps
<1> QED BY <1>1, BufferHolds, PTL DEF BufferSpec, DeliversInOrder

\* The packets reported as lost are those missing from what was taken out (media.rs
\* lost_datagrams).
THEOREM LossIsExact == BufferSpec => []HolesAreCounted
<1>1. BufferInv => HolesAreCounted
  BY DEF BufferInv
<1> QED BY <1>1, BufferHolds, PTL
-----------------------------------------------------------------------------
(* The parts together. *)

\* A step of the whole is a step of the writer of ACL data or leaves it alone; so for the
\* window of commands and the reorder buffer.
LEMMA StepOfEach ==
    [Next]_allVars => /\ [WriterNext]_writerVars /\ [CommandNext]_commandVars
                      /\ [BufferNext]_bufferVars
<1> SUFFICES ASSUME [Next]_allVars
             PROVE  /\ [WriterNext]_writerVars /\ [CommandNext]_commandVars
                    /\ [BufferNext]_bufferVars
  OBVIOUS
<1>1. CASE UNCHANGED allVars
  BY <1>1 DEF allVars
<1>2. CASE moving = "writer" /\ WriterNext /\ UNCHANGED <<commandVars, bufferVars>>
  BY <1>2
<1>3. CASE moving = "commands" /\ CommandNext /\ UNCHANGED <<writerVars, bufferVars>>
  BY <1>3
<1>4. CASE moving = "buffer" /\ BufferNext /\ UNCHANGED <<writerVars, commandVars>>
  BY <1>4
<1> QED BY <1>1, <1>2, <1>3, <1>4 DEF Next

\* What the three components do when one of them moves is, to each, a behaviour of its own
\* specification: what is proved of a component holds of it among the others.
THEOREM EachKeepsItsSpec == Spec => WriterSpec /\ CommandSpec /\ BufferSpec
<1>1. Init => WriterInit /\ CommandInit /\ BufferInit
  BY DEF Init
<1> QED BY <1>1, StepOfEach, PTL DEF Spec, WriterSpec, CommandSpec, BufferSpec

\* Whatever the three components do, each variable of theirs keeps its type: the credits of
\* both windows, the writer's job and the packets held back.
THEOREM PartsTyping == Spec => []TypeOK
<1>1. WriterTypeOK /\ CommandTypeOK /\ BufferTypeOK => TypeOK
  BY DEF TypeOK
<1> QED BY <1>1, EachKeepsItsSpec, WriterTyping, Typing, BufferTyping, PTL

\* A controller with one command slot, which is what most advertise (host.rs pace), is never
\* handed what it has no room for: no command beyond its slot while its answers come, and no
\* ACL fragment beyond its buffers while every fragment went out on its own link.
THEOREM RoomIsKept == ASSUME Window = 1 PROVE Spec => []ControllerHasRoom
<1>1. FragmentsFit /\ CommandsFit => ControllerHasRoom
  BY DEF ControllerHasRoom
<1>2. CommandSpec => []CommandsFit
  BY OneSlotIsEnough
<1> QED BY <1>1, <1>2, EachKeepsItsSpec, FragmentsHaveRoom, PTL
=============================================================================
