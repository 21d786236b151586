--------------------------- MODULE RenderPipelineProofs ---------------------------
(***************************************************************************)
(* For any number of sessions of any kind and any frame-lane depth:        *)
(* preempt() reaches every producer and nobody else, and a session keeps   *)
(* its right to report its end exactly until the manager lets go of it.    *)
(***************************************************************************)
EXTENDS RenderPipeline, TLAPS

Has(t, s) == \E i \in 1..Len(t) : t[i] = s

(***************************************************************************)
(* The shape of a call that the arguments need: the producer is spawned by *)
(* its last step.                                                          *)
(***************************************************************************)
SpawnsLast(t) == \A i \in 1..Len(t) : t[i] = "spawn" => i = Len(t)
Shape(t) == t \in Seq(Steps) /\ SpawnsLast(t)

\* Sessions begin in order, and the one being begun has no producer yet.
Beginning ==
    /\ active \in {0, begun}
    /\ \A n \in Sessions : n > begun => phase[n] = "none"
    /\ Has(todo, "spawn") => active = begun /\ begun \in Sessions /\ phase[begun] = "none"

\* Between the flag and the spawn the slot is empty; a flag still to be raised is that of a
\* session the manager has let go of.
SlotInv ==
    /\ slot # 0 => phase[slot] # "none"
    /\ stopped \subseteq Running
    /\ Has(todo, "spawn") /\ ~Has(todo, "flag") => slot = 0
    /\ Has(todo, "flag") => slot \in over \cup {0}

\* A ticket is retired only when every session there is has been let go of.
TicketInv ==
    /\ \A n \in Sessions : tickets[n] <= current
    /\ Has(todo, "retire") => Running \subseteq over
    /\ Has(todo, "spawn") /\ ~Has(todo, "retire") =>
            \A n \in Running : tickets[n] < current

IInv == SpawnsLast(todo) /\ Beginning /\ SlotInv /\ TicketInv
            /\ PreemptReachesEveryone /\ TicketsAreCurrent

-----------------------------------------------------------------------------
(* The steps of a call *)

\* Two lists of steps one after the other, only the second of which may spawn.
LEMMA Joined ==
    ASSUME NEW s, NEW t, Shape(s), Shape(t), ~Has(s, "spawn")
    PROVE  /\ Shape(s \o t)
           /\ \A x : Has(s \o t, x) <=> Has(s, x) \/ Has(t, x)
<1>1. s \in Seq(Steps) /\ t \in Seq(Steps)
  BY DEF Shape
<1>2. /\ s \o t \in Seq(Steps) /\ Len(s \o t) = Len(s) + Len(t)
      /\ \A i \in 1..Len(s) : (s \o t)[i] = s[i]
      /\ \A i \in 1..Len(t) : (s \o t)[Len(s) + i] = t[i]
  BY <1>1
<1>3. \A i \in 1..Len(s \o t) : i \in 1..Len(s) \/ (i - Len(s) \in 1..Len(t) /\ i = Len(s) + (i - Len(s)))
  BY <1>1, <1>2
<1>4. ASSUME NEW x PROVE Has(s \o t, x) <=> Has(s, x) \/ Has(t, x)
  <2>1. Has(s, x) => Has(s \o t, x)
    BY <1>1, <1>2 DEF Has
  <2>2. Has(t, x) => Has(s \o t, x)
    <3> SUFFICES ASSUME NEW i \in 1..Len(t), t[i] = x PROVE Has(s \o t, x)
      BY DEF Has
    <3> Len(s) + i \in 1..Len(s \o t) /\ (s \o t)[Len(s) + i] = x
      BY <1>1, <1>2
    <3> QED BY DEF Has
  <2>3. Has(s \o t, x) => Has(s, x) \/ Has(t, x)
    BY <1>2, <1>3 DEF Has
  <2> QED BY <2>1, <2>2, <2>3
<1>5. SpawnsLast(s \o t)
  <2> SUFFICES ASSUME NEW i \in 1..Len(s \o t), (s \o t)[i] = "spawn" PROVE i = Len(s \o t)
    BY DEF SpawnsLast
  <2>1. i \notin 1..Len(s)
    BY <1>2 DEF Has
  <2>2. i - Len(s) \in 1..Len(t) /\ t[i - Len(s)] = "spawn"
    BY <1>2, <1>3, <2>1
  <2>3. i - Len(s) = Len(t)
    BY <2>2 DEF Shape, SpawnsLast
  <2> QED BY <1>1, <1>2, <2>3
<1> QED BY <1>2, <1>4, <1>5 DEF Shape

\* Every call is a list of steps that spawns last, and a call that starts, ends or stops a
\* session raises the flag and retires the ticket.
LEMMA CallShapes ==
    /\ Shape(Stop) /\ Has(Stop, "flag") /\ Has(Stop, "retire")
    /\ Shape(EndSteps) /\ ~Has(EndSteps, "spawn")
    /\ ~Has(Stop, "spawn")
    /\ Shape(<<"NowPlaying">>) /\ ~Has(<<"NowPlaying">>, "spawn")
    /\ ~Has(<<"NowPlaying">>, "flag") /\ ~Has(<<"NowPlaying">>, "retire")
    /\ \A k \in AllKinds : \A t \in {StartSteps(k), Stop \o StartSteps(k)} :
            Shape(t) /\ Has(t, "flag") /\ Has(t, "retire")
<1>1. /\ Shape(Preempt) /\ Has(Preempt, "flag") /\ Has(Preempt, "retire")
      /\ ~Has(Preempt, "spawn")
  BY DEF Shape, SpawnsLast, Has, Steps, Preempt
<1>2. Shape(<<"Clear">>) /\ ~Has(<<"Clear">>, "spawn")
  BY DEF Shape, SpawnsLast, Has, Steps, Commands
<1>3. /\ Shape(<<"NowPlaying">>) /\ ~Has(<<"NowPlaying">>, "spawn")
      /\ ~Has(<<"NowPlaying">>, "flag") /\ ~Has(<<"NowPlaying">>, "retire")
  BY DEF Shape, SpawnsLast, Has, Steps, Commands
<1>4. Shape(<<"epoch", "spawn">>)
  BY DEF Shape, SpawnsLast, Has, Steps
<1>5. Shape(Stop) /\ Has(Stop, "flag") /\ Has(Stop, "retire") /\ ~Has(Stop, "spawn")
  BY <1>1, <1>2, Joined DEF Stop
<1>6. Shape(EndSteps) /\ ~Has(EndSteps, "spawn")
  BY <1>3, <1>5, Joined DEF EndSteps
<1>7. ASSUME NEW k \in AllKinds
      PROVE  Shape(StartSteps(k)) /\ Has(StartSteps(k), "flag") /\ Has(StartSteps(k), "retire")
  <2>1. LET t == Preempt \o <<"epoch", "spawn">>
        IN  Shape(t) /\ Has(t, "flag") /\ Has(t, "retire")
    BY <1>1, <1>4, Joined
  <2> QED BY <1>1, <2>1 DEF StartSteps
<1>8. ASSUME NEW k \in AllKinds
      PROVE  LET t == Stop \o StartSteps(k)
             IN  Shape(t) /\ Has(t, "flag") /\ Has(t, "retire")
  BY <1>5, <1>7, Joined
<1> QED BY <1>3, <1>5, <1>6, <1>7, <1>8

\* A step takes the head off the call: what is left has the same shape, and lacks at most
\* the step taken.
LEMMA StepShape ==
    ASSUME NEW s \in Steps, todo \in Seq(Steps), SpawnsLast(todo), Step(s)
    PROVE  /\ todo' \in Seq(Steps) /\ SpawnsLast(todo')
           /\ Has(todo, s)
           /\ \A x : Has(todo', x) => Has(todo, x)
           /\ \A x : Has(todo, x) /\ x # s => Has(todo', x)
           /\ s = "spawn" => todo' = <<>>
<1> DEFINE n == Len(todo)
<1>1. n \in Nat \ {0} /\ todo' \in Seq(Steps) /\ Len(todo') = n - 1 /\ todo[1] = s
  BY DEF Step
<1>2. \A i \in 1..(n - 1) : todo'[i] = todo[i + 1]
  BY <1>1 DEF Step
<1>3. Has(todo, s)
  BY <1>1 DEF Has
<1>4. ASSUME NEW x, Has(todo', x) PROVE Has(todo, x)
  BY <1>1, <1>2, <1>4 DEF Has
<1>5. ASSUME NEW x, Has(todo, x), x # s PROVE Has(todo', x)
  <2>1. PICK i \in 1..n : todo[i] = x
    BY <1>5 DEF Has
  <2>2. i - 1 \in 1..(n - 1) /\ todo'[i - 1] = x
    BY <1>1, <1>2, <1>5, <2>1
  <2> QED BY <1>1, <2>2 DEF Has
<1>6. SpawnsLast(todo')
  BY <1>1, <1>2 DEF SpawnsLast
<1>7. s = "spawn" => todo' = <<>>
  BY <1>1 DEF SpawnsLast
<1> QED BY <1>1, <1>3, <1>4, <1>5, <1>6, <1>7

-----------------------------------------------------------------------------
(* Types *)

\* The queues: what is taken out of one was put in.
LEMMA Queues ==
    ASSUME NEW S, NEW q \in Seq(S)
    PROVE  /\ q # <<>> => Head(q) \in S /\ Tail(q) \in Seq(S) /\ Len(Tail(q)) < Len(q)
           /\ \A e \in S : Append(q, e) \in Seq(S) /\ Len(Append(q, e)) = Len(q) + 1
           /\ Len(q) \in Nat
OBVIOUS

\* Type correctness of the pipeline, its producers and the render loop.
LEMMA InitTyped == Init => TypeOK
<1> SUFFICES ASSUME Init PROVE TypeOK
  OBVIOUS
<1> USE PipelineAssumption DEF Init
<1>1. todo \in Seq(Steps) /\ control \in Seq([cmd : Commands, by : 0..MaxSessions])
  OBVIOUS
<1>2. frames \in Seq([by : Sessions, epoch : Nat]) /\ Len(frames) <= FrameDepth
  OBVIOUS
<1>3. /\ calls \in 0..MaxCalls /\ begun \in 0..MaxSessions /\ active \in 0..MaxSessions
      /\ slot \in 0..MaxSessions /\ current \in Nat /\ epoch \in Nat /\ cleared \in Nat
  OBVIOUS
<1>4. /\ kind \in [Sessions -> AllKinds \cup {"none"}]
      /\ tickets \in [Sessions -> Nat] /\ epochs \in [Sessions -> Nat]
      /\ layer \in [Surfaces -> 0..MaxSessions]
  OBVIOUS
<1>5. phase \in [Sessions -> {"none", "open", "run", "hold", "clear", "check", "report",
                               "dead"}]
  OBVIOUS
<1> QED BY <1>1, <1>2, <1>3, <1>4, <1>5 DEF TypeOK

LEMMA StepTyped == TypeOK /\ SpawnsLast(todo) /\ [Next]_vars => TypeOK' /\ SpawnsLast(todo')
<1> SUFFICES ASSUME TypeOK, SpawnsLast(todo), [Next]_vars
             PROVE  TypeOK' /\ SpawnsLast(todo')
  OBVIOUS
<1>a. ASSUME NEW s \in Steps, Step(s)
      PROVE  todo' \in Seq(Steps) /\ SpawnsLast(todo')
  BY <1>a, StepShape DEF TypeOK
<1> USE PipelineAssumption DEF TypeOK, manager, shared, producers, lanes, loop
<1>1. ASSUME NEW k \in Kinds, Start(k) PROVE TypeOK' /\ SpawnsLast(todo')
  <2>1. todo' \in Seq(Steps) /\ SpawnsLast(todo')
    BY <1>1, CallShapes DEF Start, Shape
  <2>2. /\ begun' \in 0..MaxSessions /\ active' \in 0..MaxSessions
        /\ kind' \in [Sessions -> AllKinds \cup {"none"}] /\ over' \in SUBSET Sessions
    <3>1. begun' = begun + 1 /\ active' = begun + 1 /\ begun < MaxSessions
      BY <1>1 DEF Start
    <3>2. kind' = [kind EXCEPT ![begun + 1] = k] /\ k \in AllKinds
      BY <1>1 DEF Start
    <3>3. over' \in SUBSET Sessions
      BY <1>1 DEF Start, Running
    <3>4. kind' \in [Sessions -> AllKinds \cup {"none"}]
      BY <3>2
    <3>5. begun' \in 0..MaxSessions /\ active' \in 0..MaxSessions
      BY <3>1
    <3> QED BY <3>3, <3>4, <3>5
  <2>3. UNCHANGED <<calls, shared, phase, tickets, epochs, lanes, loop, reports>>
    BY <1>1 DEF Start
  <2> QED BY <2>1, <2>2, <2>3
<1>2. CASE End
  BY <1>2, CallShapes DEF End, Shape, Running
<1>3. CASE TransportStop
  BY <1>3, CallShapes DEF TransportStop, Shape, Running
<1>4. CASE PublishCard
  BY <1>4, CallShapes DEF PublishCard, Shape
<1>5. CASE RaiseFlag
  <2>1. todo' \in Seq(Steps) /\ SpawnsLast(todo')
    BY <1>5, <1>a DEF RaiseFlag, Steps
  <2>2. stopped' \in SUBSET Sessions /\ slot' \in 0..MaxSessions
    BY <1>5 DEF RaiseFlag, Sessions
  <2> QED BY <1>5, <2>1, <2>2 DEF RaiseFlag
<1>6. CASE RetireTicket
  BY <1>6, <1>a DEF RetireTicket, Steps
<1>7. CASE BeginEpoch
  BY <1>7, <1>a DEF BeginEpoch, Steps
<1>8. CASE Spawn
  <2>1. todo' \in Seq(Steps) /\ SpawnsLast(todo')
    BY <1>8, <1>a DEF Spawn, Steps
  <2>2. /\ slot' \in 0..MaxSessions
        /\ tickets' \in [Sessions -> Nat] /\ epochs' \in [Sessions -> Nat]
    BY <1>8 DEF Spawn
  <2>3. phase' \in [Sessions -> {"none", "open", "run", "hold", "clear", "check", "report",
                                 "dead"}]
    BY <1>8 DEF Spawn
  <2> QED BY <1>8, <2>1, <2>2, <2>3 DEF Spawn
<1>9. CASE SendCommand
  <2>1. PICK c \in Commands : Step(c) /\ control' = Append(control, [cmd |-> c, by |-> begun])
    BY <1>9 DEF SendCommand
  <2>2. todo' \in Seq(Steps) /\ SpawnsLast(todo')
    BY <2>1, <1>a DEF Steps
  <2>3. control' \in Seq([cmd : Commands, by : 0..MaxSessions])
    BY <2>1
  <2> QED BY <1>9, <2>2, <2>3 DEF SendCommand
<1> USE DEF At, KeepProducer
<1>10. ASSUME NEW n \in Sessions, AnnounceMusic(n) PROVE TypeOK' /\ SpawnsLast(todo')
  <2>1. control' \in Seq([cmd : Commands, by : 0..MaxSessions])
    BY <1>10 DEF AnnounceMusic, Commands, Sessions
  <2> QED BY <1>10, <2>1 DEF AnnounceMusic
<1>11. ASSUME NEW n \in Sessions, TakeFrame(n) PROVE TypeOK' /\ SpawnsLast(todo')
  BY <1>11 DEF TakeFrame
<1>12. ASSUME NEW n \in Sessions, SendFrame(n) PROVE TypeOK' /\ SpawnsLast(todo')
  <2>1. frames' \in Seq([by : Sessions, epoch : Nat]) /\ Len(frames') <= FrameDepth
    <3> DEFINE f == [by |-> n, epoch |-> epoch]
    <3>1. f \in [by : Sessions, epoch : Nat]
      OBVIOUS
    <3>2. /\ Append(frames, f) \in Seq([by : Sessions, epoch : Nat])
          /\ Len(Append(frames, f)) = Len(frames) + 1 /\ Len(frames) \in Nat
      BY <3>1, Queues
    <3>3. frames' = IF Len(frames) < FrameDepth THEN Append(frames, f) ELSE frames
      BY <1>12 DEF SendFrame
    <3>4. FrameDepth \in Nat /\ Len(frames) <= FrameDepth
      OBVIOUS
    <3> HIDE DEF f
    <3>5. CASE Len(frames) < FrameDepth
      <4>1. frames' = Append(frames, f)
        BY <3>3, <3>5
      <4>2. Len(frames) + 1 <= FrameDepth
        BY <3>2, <3>4, <3>5
      <4> QED BY <4>1, <4>2, <3>2
    <3>6. CASE ~(Len(frames) < FrameDepth)
      BY <3>3, <3>6
    <3> QED BY <3>5, <3>6
  <2> QED BY <1>12, <2>1 DEF SendFrame
<1>13. ASSUME NEW n \in Sessions, Leave(n) PROVE TypeOK' /\ SpawnsLast(todo')
  BY <1>13 DEF Leave
<1>14. ASSUME NEW n \in Sessions, Finish(n) PROVE TypeOK' /\ SpawnsLast(todo')
  BY <1>14 DEF Finish
<1>15. ASSUME NEW n \in Sessions, ThreadClears(n) PROVE TypeOK' /\ SpawnsLast(todo')
  <2>1. control' \in Seq([cmd : Commands, by : 0..MaxSessions])
    BY <1>15 DEF ThreadClears, Commands, Sessions
  <2> QED BY <1>15, <2>1 DEF ThreadClears
<1>16. ASSUME NEW n \in Sessions, CheckTicket(n) PROVE TypeOK' /\ SpawnsLast(todo')
  BY <1>16 DEF CheckTicket
<1>17. ASSUME NEW n \in Sessions, Report(n) PROVE TypeOK' /\ SpawnsLast(todo')
  BY <1>17 DEF Report
<1> USE DEF Elsewhere, Receive
<1>18. CASE ApplyClear
  BY <1>18 DEF ApplyClear
<1>b. control # <<>> => Head(control).by \in 0..MaxSessions
  <2>1. control # <<>> => Head(control) \in [cmd : Commands, by : 0..MaxSessions]
    BY Queues
  <2> QED BY <2>1
<1>19. CASE ApplyNowPlaying
  BY <1>19, <1>b DEF ApplyNowPlaying, Surfaces
<1>20. CASE ApplyUrlAudioOnly
  <2>1. control' \in Seq([cmd : Commands, by : 0..MaxSessions])
    BY <1>20, Queues DEF ApplyUrlAudioOnly
  <2>2. layer' \in [Surfaces -> 0..MaxSessions]
    BY <1>20, <1>b DEF ApplyUrlAudioOnly
  <2> QED BY <1>20, <2>1, <2>2 DEF ApplyUrlAudioOnly
<1>21. CASE ApplyVideo
  <2>1. Head(frames).by \in 0..MaxSessions
    <3>1. Head(frames) \in [by : Sessions, epoch : Nat]
      BY <1>21, Queues DEF ApplyVideo
    <3> QED BY <3>1 DEF Sessions
  <2>2. /\ frames' \in Seq([by : Sessions, epoch : Nat]) /\ Len(frames') <= FrameDepth
    BY <1>21 DEF ApplyVideo
  <2>3. /\ due' \in SUBSET Surfaces /\ up' \in SUBSET Surfaces
        /\ layer' \in [Surfaces -> 0..MaxSessions]
    BY <1>21, <2>1 DEF ApplyVideo, Surfaces
  <2> QED BY <1>21, <2>2, <2>3 DEF ApplyVideo
<1>22. ASSUME NEW x \in SUBSET Surfaces, Present(x) PROVE TypeOK' /\ SpawnsLast(todo')
  <2>1. /\ due' \in SUBSET Surfaces /\ up' \in SUBSET Surfaces
        /\ layer' \in [Surfaces -> 0..MaxSessions]
    BY <1>22 DEF Present
  <2> QED BY <1>22, <2>1 DEF Present
<1>23. CASE UNCHANGED vars
  BY <1>23 DEF vars
<1> QED
  BY <1>1, <1>2, <1>3, <1>4, <1>5, <1>6, <1>7, <1>8, <1>9, <1>10, <1>11, <1>12, <1>13,
     <1>14, <1>15, <1>16, <1>17, <1>18, <1>19, <1>20, <1>21, <1>22, <1>23 DEF Next

-----------------------------------------------------------------------------
(* The invariant *)

Producing == {"open", "run", "hold"}

\* What the producers and the render loop do, as far as the invariant can see: a producer
\* only ever goes from producing to not producing, and the rest is not theirs to touch.
Quiet ==
    /\ UNCHANGED <<todo, begun, active, over, slot, stopped, current, kind, tickets>>
    /\ \A n \in Sessions : /\ phase'[n] = "none" <=> phase[n] = "none"
                           /\ phase'[n] \in Producing => phase[n] \in Producing

LEMMA QuietInv == TypeOK /\ IInv /\ Quiet => IInv'
<1> SUFFICES ASSUME TypeOK, IInv, Quiet PROVE IInv'
  OBVIOUS
<1>1. UNCHANGED <<todo, begun, active, over, slot, stopped, current, kind, tickets>>
  BY DEF Quiet
<1>2. Running' = Running
  BY DEF Quiet, Running
<1>3. \A n \in Sessions : /\ phase'[n] = "none" <=> phase[n] = "none"
                          /\ phase'[n] \in Producing => phase[n] \in Producing
  BY DEF Quiet
<1>4. SpawnsLast(todo')
  BY <1>1 DEF IInv
<1>5. Beginning'
  BY <1>1, <1>3 DEF IInv, Beginning, TypeOK
<1>6. SlotInv'
  BY <1>1, <1>2, <1>3 DEF IInv, SlotInv, TypeOK, Sessions
<1>7. TicketInv'
  BY <1>1, <1>2 DEF IInv, TicketInv
<1>8. PreemptReachesEveryone'
  BY <1>1, <1>3 DEF IInv, PreemptReachesEveryone, Producing
<1>9. TicketsAreCurrent'
  BY <1>1, <1>3 DEF IInv, TicketsAreCurrent, TypeOK, Sessions
<1> QED BY <1>4, <1>5, <1>6, <1>7, <1>8, <1>9 DEF IInv

\* Every step of a producer is quiet.
LEMMA ProducersQuiet ==
    ASSUME TypeOK, NEW n \in Sessions,
           \/ AnnounceMusic(n) \/ TakeFrame(n) \/ SendFrame(n) \/ Leave(n) \/ Finish(n)
           \/ ThreadClears(n) \/ CheckTicket(n) \/ Report(n)
    PROVE  Quiet
<1>1. UNCHANGED <<todo, begun, active, over, slot, stopped, current, kind, tickets>>
  BY DEF AnnounceMusic, TakeFrame, SendFrame, Leave, Finish, ThreadClears, CheckTicket,
         Report, KeepProducer, manager, shared
<1>2. PICK p \in {"open", "run", "hold", "clear", "check", "report"},
           q \in {"run", "hold", "clear", "check", "report", "dead"} :
        At(n, p, q) /\ (q \in Producing => p \in Producing)
  BY DEF AnnounceMusic, TakeFrame, SendFrame, Leave, Finish, ThreadClears, CheckTicket,
         Report, Producing
<1>3. phase[n] = p /\ phase' = [phase EXCEPT ![n] = q]
  BY <1>2 DEF At
<1> QED BY <1>1, <1>2, <1>3 DEF Quiet, TypeOK

\* ... and so is every step of the render loop.
LEMMA LoopQuiet ==
    ASSUME \/ ApplyClear \/ ApplyNowPlaying \/ ApplyUrlAudioOnly \/ ApplyVideo
           \/ \E x \in SUBSET Surfaces : Present(x)
    PROVE  Quiet
<1>1. Elsewhere
  BY DEF ApplyClear, ApplyNowPlaying, ApplyUrlAudioOnly, ApplyVideo, Present
<1> QED BY <1>1 DEF Elsewhere, Quiet, manager, shared, producers

LEMMA InitInv == Init => IInv
<1> SUFFICES ASSUME Init PROVE IInv
  OBVIOUS
<1>1. todo = <<>> /\ Len(todo) = 0 /\ \A x : ~Has(todo, x)
  BY DEF Init, Has
<1>2. SpawnsLast(todo)
  BY <1>1 DEF SpawnsLast
<1>3. Beginning
  BY <1>1 DEF Init, Beginning
<1>4. Running = {}
  BY DEF Init, Running
<1>5. SlotInv
  BY <1>1, <1>4 DEF Init, SlotInv
<1>6. TicketInv
  BY <1>1 DEF Init, TicketInv
<1>7. PreemptReachesEveryone
  BY DEF Init, PreemptReachesEveryone
<1>8. TicketsAreCurrent
  BY DEF Init, TicketsAreCurrent
<1> QED BY <1>2, <1>3, <1>5, <1>6, <1>7, <1>8 DEF IInv

\* The manager's calls and their steps.
LEMMA StepInv == TypeOK /\ TypeOK' /\ IInv /\ [Next]_vars => IInv'
<1> SUFFICES ASSUME TypeOK, TypeOK', IInv, [Next]_vars PROVE IInv'
  OBVIOUS
<1>a. SpawnsLast(todo')
  BY StepTyped DEF IInv
<1>b. ASSUME NEW s \in Steps, Step(s)
      PROVE  /\ Has(todo, s)
             /\ \A x : Has(todo', x) => Has(todo, x)
             /\ \A x : Has(todo, x) /\ x # s => Has(todo', x)
             /\ s = "spawn" => todo' = <<>>
  BY <1>b, StepShape DEF TypeOK, IInv
\* A call that lets go of everybody.
<1>c. ASSUME over' = Running, UNCHANGED <<shared, phase, tickets>>,
             Has(todo', "spawn") => Has(todo', "flag") /\ Has(todo', "retire")
      PROVE  SlotInv' /\ TicketInv'
  <2>1. Running' = Running
    BY <1>c DEF Running
  <2>2. SlotInv'
    BY <1>c, <2>1, SMTT(30) DEF IInv, SlotInv, shared, Running, TypeOK, Sessions
  <2>3. TicketInv'
    BY <1>c, <2>1 DEF IInv, TicketInv, shared
  <2> QED BY <2>2, <2>3
<1>1. ASSUME NEW k \in Kinds, Start(k) PROVE IInv'
  <2>1. /\ begun < MaxSessions /\ begun' = begun + 1 /\ active' = begun + 1
        /\ kind' = [kind EXCEPT ![begun + 1] = k]
        /\ over' = Running /\ UNCHANGED <<slot, stopped, current, phase, tickets>>
    BY <1>1 DEF Start, shared
  <2>2. Has(todo', "flag") /\ Has(todo', "retire")
    BY <1>1, CallShapes, PipelineAssumption DEF Start
  <2>3. phase[begun + 1] = "none" /\ begun + 1 \in Sessions
    BY <2>1, PipelineAssumption DEF IInv, Beginning, TypeOK, Sessions
  <2>4. Beginning'
    BY <2>1, <2>3, PipelineAssumption DEF IInv, Beginning, TypeOK, Sessions
  <2>5. SlotInv' /\ TicketInv'
    BY <2>1, <2>2, <1>c, <1>1 DEF Start
  <2>6. PreemptReachesEveryone'
    <3>1. \A n \in Sessions : phase[n] # "none" => kind'[n] = kind[n]
      BY <2>1, <2>3 DEF TypeOK
    <3> QED BY <2>1, <3>1 DEF IInv, PreemptReachesEveryone, SlotInv
  <2>7. TicketsAreCurrent'
    <3>1. \A n \in Sessions : phase[n] # "none" => n \in over'
      BY <2>1 DEF Running
    <3>2. phase'[active'] = "none"
      BY <2>1, <2>3
    <3> QED BY <3>1, <3>2, <2>1 DEF TicketsAreCurrent
  <2> QED BY <1>a, <2>4, <2>5, <2>6, <2>7 DEF IInv
\* End and control(Stop): the same, with nobody beginning.
<1>d. ASSUME over' = Running, active' \in {0, active},
             UNCHANGED <<begun, shared, phase, tickets, kind>>, ~Has(todo', "spawn")
      PROVE  IInv'
  <2>1. SlotInv' /\ TicketInv'
    BY <1>c, <1>d
  <2>2. Beginning'
    BY <1>d DEF IInv, Beginning
  <2>3. PreemptReachesEveryone'
    BY <1>d DEF IInv, PreemptReachesEveryone, SlotInv, shared
  <2>4. TicketsAreCurrent'
    <3>1. \A n \in Sessions : phase[n] # "none" => n \in over'
      BY <1>d DEF Running
    <3>2. \A n \in Sessions : ~(n < 0)
      BY DEF Sessions
    <3> QED BY <3>1, <3>2, <1>d DEF IInv, TicketsAreCurrent, shared
  <2> QED BY <1>a, <2>1, <2>2, <2>3, <2>4 DEF IInv
<1>2. CASE End
  BY <1>2, <1>d, CallShapes DEF End, producers
<1>3. CASE TransportStop
  BY <1>3, <1>d, CallShapes DEF TransportStop, producers
<1>4. CASE PublishCard
  <2>1. UNCHANGED <<begun, active, over, slot, stopped, current, kind, phase, tickets>>
    BY <1>4 DEF PublishCard, shared, producers
  <2>2. ~Has(todo', "spawn") /\ ~Has(todo', "flag") /\ ~Has(todo', "retire")
    BY <1>4, CallShapes DEF PublishCard
  <2>3. Running' = Running
    BY <2>1 DEF Running
  <2>4. Beginning' /\ SlotInv' /\ TicketInv'
    BY <2>1, <2>2, <2>3 DEF IInv, Beginning, SlotInv, TicketInv
  <2>5. PreemptReachesEveryone' /\ TicketsAreCurrent'
    BY <2>1 DEF IInv, PreemptReachesEveryone, TicketsAreCurrent
  <2> QED BY <1>a, <2>4, <2>5 DEF IInv
<1>5. CASE RaiseFlag
  <2>1. /\ Step("flag") /\ stopped' = stopped \cup ({slot} \ {0}) /\ slot' = 0
        /\ UNCHANGED <<begun, active, over, current, kind, phase, tickets>>
    BY <1>5 DEF RaiseFlag, producers
  <2>2. /\ Has(todo, "flag") /\ \A x : Has(todo', x) => Has(todo, x)
        /\ \A x : Has(todo, x) /\ x # "flag" => Has(todo', x)
    BY <2>1, <1>b DEF Steps
  <2>3. Running' = Running
    BY <2>1 DEF Running
  <2>4. Beginning'
    BY <2>1, <2>2 DEF IInv, Beginning
  <2>5. SlotInv'
    BY <2>1, <2>2, <2>3 DEF IInv, SlotInv, Running, TypeOK, Sessions
  <2>6. TicketInv'
    BY <2>1, <2>2, <2>3 DEF IInv, TicketInv
  <2>7. PreemptReachesEveryone'
    BY <2>1, <2>2 DEF IInv, PreemptReachesEveryone, SlotInv
  <2>8. TicketsAreCurrent'
    BY <2>1 DEF IInv, TicketsAreCurrent
  <2> QED BY <1>a, <2>4, <2>5, <2>6, <2>7, <2>8 DEF IInv
<1>6. CASE RetireTicket
  <2>1. /\ Step("retire") /\ current' = current + 1
        /\ UNCHANGED <<begun, active, over, slot, stopped, kind, phase, tickets>>
    BY <1>6 DEF RetireTicket, producers
  <2>2. /\ Has(todo, "retire") /\ \A x : Has(todo', x) => Has(todo, x)
        /\ \A x : Has(todo, x) /\ x # "retire" => Has(todo', x)
    BY <2>1, <1>b DEF Steps
  <2>3. Running' = Running
    BY <2>1 DEF Running
  <2>4. Beginning' /\ SlotInv'
    BY <2>1, <2>2, <2>3 DEF IInv, Beginning, SlotInv
  <2>9. \A n \in Sessions : tickets[n] <= current /\ tickets[n] < current + 1
    <3>1. \A n \in Sessions : tickets[n] <= current
      BY DEF IInv, TicketInv
    <3>2. current \in Nat /\ \A n \in Sessions : tickets[n] \in Nat
      BY DEF TypeOK
    <3>3. \A i, j \in Nat : i <= j => i < j + 1
      OBVIOUS
    <3> QED BY <3>1, <3>2, <3>3
  <2>10. \A n \in Sessions : tickets'[n] <= current'
    <3>1. \A n \in Sessions : tickets[n] \in Nat /\ current \in Nat
      BY DEF TypeOK
    <3>2. \A i, j \in Nat : i <= j => i <= j + 1
      OBVIOUS
    <3> QED BY <3>1, <3>2, <2>1, <2>9
  <2>5. TicketInv'
    <3>1. \A n \in Sessions : tickets'[n] <= current' /\ tickets'[n] < current'
      BY <2>1, <2>9, <2>10
    <3>2. Has(todo', "retire") => Running' \subseteq over'
      BY <2>1, <2>2, <2>3 DEF IInv, TicketInv
    <3>3. Running' \subseteq Sessions
      BY <2>3 DEF Running
    <3> QED BY <3>1, <3>2, <3>3 DEF TicketInv
  <2>6. PreemptReachesEveryone'
    BY <2>1 DEF IInv, PreemptReachesEveryone
  <2>7. TicketsAreCurrent'
    <3>1. \A n \in Sessions : phase[n] # "none" => n \in over
      BY <2>2 DEF IInv, TicketInv, Running
    <3>2. \A n \in Sessions : tickets[n] < current'
      BY <2>1, <2>9
    <3> QED BY <2>1, <3>1, <3>2 DEF TicketsAreCurrent
  <2> QED BY <1>a, <2>4, <2>5, <2>6, <2>7 DEF IInv
\* The epoch and the commands: a step the invariant does not look at.
<1>e. ASSUME NEW s \in Steps \ {"flag", "retire", "spawn"}, Step(s),
             UNCHANGED <<begun, active, over, slot, stopped, current, kind, phase, tickets>>
      PROVE  IInv'
  <2>1. /\ Has(todo', "spawn") <=> Has(todo, "spawn")
        /\ Has(todo', "flag") <=> Has(todo, "flag")
        /\ Has(todo', "retire") <=> Has(todo, "retire")
    BY <1>b, <1>e
  <2>2. Running' = Running
    BY <1>e DEF Running
  <2>3. Beginning' /\ SlotInv' /\ TicketInv'
    BY <1>e, <2>1, <2>2 DEF IInv, Beginning, SlotInv, TicketInv
  <2>4. PreemptReachesEveryone' /\ TicketsAreCurrent'
    BY <1>e DEF IInv, PreemptReachesEveryone, TicketsAreCurrent
  <2> QED BY <1>a, <2>3, <2>4 DEF IInv
<1>7. CASE BeginEpoch
  BY <1>7, <1>e DEF BeginEpoch, producers, Steps
<1>8. CASE Spawn
  <2>1. PICK p \in {"run", "open", "dead"} : phase' = [phase EXCEPT ![begun] = p]
    BY <1>8 DEF Spawn
  <2>2. /\ Step("spawn") /\ slot' = IF kind[begun] = "decoded" THEN slot ELSE begun
        /\ tickets' = [tickets EXCEPT ![begun] = current]
        /\ UNCHANGED <<begun, active, over, stopped, current, kind>>
    BY <1>8 DEF Spawn
  <2>3. todo' = <<>> /\ \A x : ~Has(todo', x)
    <3>1. todo' = <<>>
      BY <2>2, <1>b DEF Steps
    <3> QED BY <3>1 DEF Has
  <2>4. Has(todo, "spawn")
    BY <2>2, <1>b DEF Steps
  <2>5. ~Has(todo, "flag") /\ ~Has(todo, "retire")
    BY <2>2, <2>3, <1>b DEF Steps
  <2>6. active = begun /\ begun \in Sessions /\ phase[begun] = "none" /\ slot = 0
    BY <2>4, <2>5 DEF IInv, Beginning, SlotInv
  <2>7. Running' = Running \cup {begun} /\ begun \notin Running
    <3>1. phase'[begun] = p /\ p # "none"
      BY <2>1, <2>6 DEF TypeOK
    <3>2. \A n \in Sessions : n # begun => phase'[n] = phase[n]
      BY <2>1 DEF TypeOK
    <3>3. \A n : n \in Running' <=> n \in Sessions /\ phase'[n] # "none"
      BY DEF Running
    <3>4. \A n : n \in Running <=> n \in Sessions /\ phase[n] # "none"
      BY DEF Running
    <3> QED BY <3>1, <3>2, <3>3, <3>4, <2>6
  <2>8. Beginning'
    BY <2>1, <2>2, <2>3, <2>6 DEF IInv, Beginning, TypeOK
  <2>9. SlotInv'
    BY <2>1, <2>2, <2>3, <2>6, <2>7 DEF IInv, SlotInv, TypeOK, Sessions
  <2>10. TicketInv'
    BY <2>2, <2>3, <2>6, SMTT(30) DEF IInv, TicketInv, TypeOK
  <2>11. PreemptReachesEveryone'
    <3>1. ASSUME NEW n \in Sessions, n # begun
          PROVE  phase'[n] = phase[n] /\ n # slot
      BY <3>1, <2>1, <2>6 DEF TypeOK, Sessions
    <3>2. begun # 0
      BY <2>6 DEF Sessions
    <3> QED BY <3>1, <3>2, <2>2, <2>6 DEF IInv, PreemptReachesEveryone
  <2>12. TicketsAreCurrent'
    <3>1. ASSUME NEW n \in Sessions, n # begun, phase'[n] # "none"
          PROVE  /\ n \notin over => tickets'[n] = current
                 /\ tickets'[n] < current
      <4>1. phase[n] # "none" /\ n \in Running /\ tickets'[n] = tickets[n]
        BY <3>1, <2>1, <2>2 DEF TypeOK, Running
      <4> QED BY <4>1, <2>4, <2>5 DEF IInv, TicketInv, TicketsAreCurrent
    <3>2. tickets'[begun] = current /\ ~(begun < active)
      BY <2>2, <2>6 DEF TypeOK, Sessions
    <3> QED BY <3>1, <3>2, <2>2 DEF TicketsAreCurrent
  <2> QED BY <1>a, <2>8, <2>9, <2>10, <2>11, <2>12 DEF IInv
<1>9. CASE SendCommand
  <2>1. PICK c \in Commands : Step(c)
    BY <1>9 DEF SendCommand
  <2>2. c \in Steps \ {"flag", "retire", "spawn"}
    BY DEF Steps, Commands
  <2>3. UNCHANGED <<begun, active, over, slot, stopped, current, kind, phase, tickets>>
    BY <1>9 DEF SendCommand, shared, producers
  <2> QED BY <2>1, <2>2, <2>3, <1>e
<1>10. CASE UNCHANGED vars
  <2>1. Quiet
    BY <1>10 DEF vars, Quiet, manager, shared, producers
  <2> QED BY <2>1, QuietInv
<1> QED
  BY <1>1, <1>2, <1>3, <1>4, <1>5, <1>6, <1>7, <1>8, <1>9, <1>10,
     ProducersQuiet, LoopQuiet, QuietInv DEF Next

-----------------------------------------------------------------------------
(* The picture a clear spares *)

\* No session's thread clears the screen on its own account.
NoUrl == \A n \in Sessions : kind[n] \notin {"url", "music"}

KindsBegin == \A n \in Sessions : n > begun => kind[n] = "none"

\* Every frame, queued or shown, is that of a session whose producer was spawned.
Pictured ==
    /\ \A i \in 1..Len(frames) : phase[frames[i].by] # "none"
    /\ layer["Video"] # 0 => phase[layer["Video"]] # "none"
    /\ "Video" \in up => layer["Video"] # 0

\* A clear comes from such a thread, or from a call that lets go of every session there is.
UrlsClear == \A n \in Sessions : phase[n] = "clear" => kind[n] \in {"url", "music"}
ClearsLetGo == Has(todo, "Clear") => Running \subseteq over

ClearComing == \E i \in 1..Len(control) : control[i].cmd = "Clear"

\* Once the active session's picture is up no clear is armed for it, nor on its way.
PictureIsSpared ==
    NoUrl /\ active # 0 /\ layer["Video"] = active /\ Live(active)
        => "Video" \notin due /\ ~ClearComing

MirrorInv == KindsBegin /\ Pictured /\ UrlsClear /\ ClearsLetGo /\ PictureIsSpared

LEMMA InitMirror == Init => MirrorInv
<1> SUFFICES ASSUME Init PROVE MirrorInv
  OBVIOUS
<1>1. KindsBegin /\ UrlsClear
  BY DEF Init, KindsBegin, UrlsClear
<1>2. Pictured
  BY DEF Init, Pictured, Surfaces
<1>3. ClearsLetGo /\ PictureIsSpared
  BY DEF Init, ClearsLetGo, PictureIsSpared, Has
<1> QED BY <1>1, <1>2, <1>3 DEF MirrorInv

\* What a command taken from the head of a queue leaves behind was there.
LEMMA TailHas ==
    ASSUME NEW S, NEW q \in Seq(S), q # <<>>
    PROVE  /\ \A i \in 1..Len(Tail(q)) : i + 1 \in 1..Len(q) /\ Tail(q)[i] = q[i + 1]
           /\ 1 \in 1..Len(q) /\ Head(q) = q[1]
OBVIOUS

\* What is queued goes last.
LEMMA QueuedLast ==
    ASSUME NEW S, NEW q \in Seq(S), NEW e
    PROVE  \A i \in 1..Len(Append(q, e)) :
                \/ i \in 1..Len(q) /\ Append(q, e)[i] = q[i]
                \/ Append(q, e)[i] = e
OBVIOUS

\* Queueing another command than a clear brings none.
LEMMA NoneQueued ==
    ASSUME TypeOK, ~ClearComing, NEW c, c # "Clear", NEW n,
           control' = Append(control, [cmd |-> c, by |-> n])
    PROVE  ~ClearComing'
<1> DEFINE C == [cmd : Commands, by : 0..MaxSessions]
           e == [cmd |-> c, by |-> n]
<1>1. control \in Seq(C)
  BY DEF TypeOK
<1>2. e.cmd # "Clear" /\ control' = Append(control, e)
  OBVIOUS
<1> HIDE DEF C, e
<1>3. \A i \in 1..Len(Append(control, e)) :
        \/ i \in 1..Len(control) /\ Append(control, e)[i] = control[i]
        \/ Append(control, e)[i] = e
  BY <1>1, QueuedLast
<1>4. \A i \in 1..Len(control') : \/ i \in 1..Len(control) /\ control'[i] = control[i]
                                  \/ control'[i] = e
  BY <1>2, <1>3, Zenon
<1>5. \A i \in 1..Len(control) : control[i].cmd # "Clear"
  BY DEF ClearComing
<1> QED BY <1>2, <1>4, <1>5, Zenon DEF ClearComing

\* Frames, the layer and the manager name sessions.
LEMMA NamesSessions ==
    ASSUME TypeOK
    PROVE  /\ \A i \in 1..Len(frames) : frames[i].by \in Sessions
           /\ layer["Video"] # 0 => layer["Video"] \in Sessions
           /\ active # 0 => active \in Sessions
<1>1. \A n \in 0..MaxSessions : n # 0 => n \in Sessions
  BY PipelineAssumption DEF Sessions
<1>2. active \in 0..MaxSessions
  BY DEF TypeOK
<1>3. layer["Video"] \in 0..MaxSessions
  <2>1. layer \in [Surfaces -> 0..MaxSessions] /\ "Video" \in Surfaces
    BY DEF TypeOK, Surfaces
  <2> QED BY <2>1
<1>4. ASSUME NEW i \in 1..Len(frames) PROVE frames[i].by \in Sessions
  <2> DEFINE F == [by : Sessions, epoch : Nat]
  <2>1. frames \in Seq(F)
    BY DEF TypeOK
  <2> HIDE DEF F
  <2>2. frames[i] \in F
    BY <2>1
  <2> QED BY <2>2 DEF F
<1> QED BY <1>1, <1>2, <1>3, <1>4

\* A call that lets go of everybody leaves nobody live.
LEMMA NobodyLive ==
    ASSUME TypeOK, Running' \subseteq over', NEW n \in Sessions
    PROVE  ~Live(n)'
BY DEF Live, Running

\* The manager's calls and their steps.
LEMMA CallsSpare ==
    ASSUME TypeOK, TypeOK', IInv, MirrorInv,
           \/ \E k \in Kinds : Start(k)
           \/ End \/ TransportStop \/ PublishCard
           \/ RaiseFlag \/ RetireTicket \/ BeginEpoch \/ Spawn \/ SendCommand
    PROVE  MirrorInv'
<1> USE DEF MirrorInv
<1>b. active' # 0 => active' \in Sessions
  <2>1. active' \in 0..MaxSessions
    BY DEF TypeOK
  <2> QED BY <2>1, PipelineAssumption DEF Sessions
\* A call that lets go of everybody.
<1>c. ASSUME over' = Running, UNCHANGED <<phase, lanes, loop>>, KindsBegin', UrlsClear'
      PROVE  MirrorInv'
  <2>1. Running' = Running
    BY <1>c DEF Running
  <2>2. Pictured'
    BY <1>c DEF Pictured, lanes, loop
  <2>3. ClearsLetGo'
    BY <1>c, <2>1 DEF ClearsLetGo
  <2>4. PictureIsSpared'
    BY <1>b, <1>c, <2>1, NobodyLive DEF PictureIsSpared
  <2> QED BY <1>c, <2>2, <2>3, <2>4
\* A step that queues nothing and spawns nobody.
<1>d. ASSUME UNCHANGED <<begun, active, over, kind, phase, lanes, loop>>,
             Has(todo', "Clear") => Has(todo, "Clear")
      PROVE  MirrorInv'
  <2>1. KindsBegin' /\ UrlsClear' /\ Pictured'
    BY <1>d DEF KindsBegin, UrlsClear, Pictured, lanes, loop
  <2>2. ClearsLetGo'
    BY <1>d DEF ClearsLetGo, Running
  <2>3. PictureIsSpared'
    BY <1>d DEF PictureIsSpared, NoUrl, Live, ClearComing, lanes, loop
  <2> QED BY <2>1, <2>2, <2>3
<1>e. ASSUME NEW s \in Steps, Step(s)
      PROVE  Has(todo, s) /\ \A x : Has(todo', x) => Has(todo, x)
  BY <1>e, StepShape DEF TypeOK, IInv
<1>1. ASSUME NEW k \in Kinds, Start(k) PROVE MirrorInv'
  <2>1. /\ begun' = begun + 1 /\ begun + 1 \in Sessions /\ over' = Running
        /\ kind' = [kind EXCEPT ![begun + 1] = k] /\ UNCHANGED <<phase, lanes, loop>>
    BY <1>1, PipelineAssumption DEF Start, TypeOK, Sessions
  <2>a. begun \in Nat /\ begun + 1 > begun
    BY PipelineAssumption DEF TypeOK
  <2>2. phase[begun + 1] = "none"
    BY <2>1, <2>a DEF IInv, Beginning
  <2>3. KindsBegin'
    <3>1. ASSUME NEW n \in Sessions, n > begun + 1 PROVE kind'[n] = "none"
      <4>1. n > begun /\ n # begun + 1
        BY <2>a, <3>1 DEF Sessions
      <4> QED BY <2>1, <4>1 DEF KindsBegin, TypeOK
    <3> QED BY <2>1, <3>1 DEF KindsBegin
  <2>4. UrlsClear'
    BY <2>1, <2>2 DEF UrlsClear, TypeOK
  <2> QED BY <1>c, <2>1, <2>3, <2>4
<1>2. CASE End
  BY <1>2, <1>c DEF End, producers, KindsBegin, UrlsClear
<1>3. CASE TransportStop
  BY <1>3, <1>c DEF TransportStop, producers, KindsBegin, UrlsClear
<1>4. CASE PublishCard
  <2>1. ~Has(todo', "Clear")
    BY <1>4 DEF PublishCard, Has
  <2> QED BY <1>4, <1>d, <2>1 DEF PublishCard, producers
<1>5. CASE RaiseFlag
  BY <1>5, <1>d, <1>e DEF RaiseFlag, producers, Steps
<1>6. CASE RetireTicket
  BY <1>6, <1>d, <1>e DEF RetireTicket, producers, Steps
<1>7. CASE BeginEpoch
  BY <1>7, <1>d, <1>e DEF BeginEpoch, producers, Steps
<1>8. CASE Spawn
  <2>1. PICK p \in {"run", "open", "dead"} : phase' = [phase EXCEPT ![begun] = p]
    BY <1>8 DEF Spawn
  <2>2. Step("spawn") /\ UNCHANGED <<begun, active, over, kind, lanes, loop>>
    BY <1>8 DEF Spawn
  <2>3. todo' = <<>> /\ Has(todo, "spawn")
    BY <2>2, StepShape DEF TypeOK, IInv, Steps
  <2>4. active = begun /\ begun \in Sessions /\ phase[begun] = "none"
    BY <2>3 DEF IInv, Beginning
  <2>5. \A n \in Sessions : phase'[n] = IF n = begun THEN p ELSE phase[n]
    BY <2>1 DEF TypeOK
  <2>6. KindsBegin'
    BY <2>2 DEF KindsBegin
  <2>7. UrlsClear'
    BY <2>2, <2>5 DEF UrlsClear
  <2>8. Pictured'
    <3> QED BY <2>2, <2>5, NamesSessions DEF Pictured, lanes, loop
  <2>9. ClearsLetGo'
    BY <2>3 DEF ClearsLetGo, Has
  <2>10. PictureIsSpared'
    <3>1. layer["Video"] # begun
      BY <2>4 DEF Pictured, Sessions
    <3> QED BY <2>2, <2>4, <3>1 DEF PictureIsSpared, loop
  <2> QED BY <2>6, <2>7, <2>8, <2>9, <2>10
<1>9. CASE SendCommand
  <2>1. PICK c \in Commands : Step(c) /\ control' = Append(control, [cmd |-> c, by |-> begun])
    BY <1>9 DEF SendCommand
  <2>2. UNCHANGED <<begun, active, over, kind, phase, frames, loop>>
    BY <1>9 DEF SendCommand, producers
  <2>3. Has(todo, c) /\ (Has(todo', "Clear") => Has(todo, "Clear"))
    BY <2>1, <1>e DEF Steps
  <2>4. KindsBegin' /\ UrlsClear' /\ Pictured'
    BY <2>2 DEF KindsBegin, UrlsClear, Pictured, loop
  <2>5. ClearsLetGo'
    BY <2>2, <2>3 DEF ClearsLetGo, Running
  <2>6. PictureIsSpared'
    <3> SUFFICES ASSUME NoUrl', active' # 0, layer'["Video"] = active', Live(active)'
                 PROVE  "Video" \notin due' /\ ~ClearComing'
      BY DEF PictureIsSpared
    <3>1. /\ NoUrl /\ active # 0 /\ layer["Video"] = active /\ active \in Sessions
      BY <2>2, NamesSessions DEF NoUrl, loop
    <3>a. Live(active)
      BY <2>2, <3>1 DEF Live
    <3>2. "Video" \notin due' /\ ~ClearComing
      BY <2>2, <3>1, <3>a DEF PictureIsSpared, loop
    <3>3. c # "Clear"
      BY <2>3, <3>1, <3>a DEF ClearsLetGo, Live, Running
    <3>4. ~ClearComing'
      BY <2>1, <3>2, <3>3, NoneQueued
    <3> QED BY <3>2, <3>4
  <2> QED BY <2>4, <2>5, <2>6
<1> QED BY <1>1, <1>2, <1>3, <1>4, <1>5, <1>6, <1>7, <1>8, <1>9

\* The producers.
LEMMA ProducersSpare ==
    ASSUME TypeOK, TypeOK', MirrorInv, NEW n \in Sessions,
           \/ AnnounceMusic(n) \/ TakeFrame(n) \/ SendFrame(n) \/ Leave(n) \/ Finish(n)
           \/ ThreadClears(n) \/ CheckTicket(n) \/ Report(n)
    PROVE  MirrorInv'
<1> USE DEF MirrorInv
<1>1. UNCHANGED <<todo, begun, active, over, kind, loop>>
  BY DEF AnnounceMusic, TakeFrame, SendFrame, Leave, Finish, ThreadClears, CheckTicket,
         Report, KeepProducer, manager
<1>2. PICK p \in {"open", "run", "hold", "clear", "check", "report"},
           q \in {"run", "hold", "clear", "check", "report", "dead"} :
        /\ At(n, p, q) /\ (q \in Producing => p \in Producing)
        /\ q = "clear" => kind[n] \in {"url", "music"}
  BY DEF AnnounceMusic, TakeFrame, SendFrame, Leave, Finish, ThreadClears, CheckTicket,
         Report, Producing
<1>3. \A m \in Sessions : phase'[m] = IF m = n THEN q ELSE phase[m]
  BY <1>2 DEF At, TypeOK
<1>4. phase[n] = p
  BY <1>2 DEF At
<1>5. KindsBegin' /\ UrlsClear'
  BY <1>1, <1>2, <1>3 DEF KindsBegin, UrlsClear
<1>6. Running' = Running
  BY <1>3, <1>4 DEF Running
<1>7. ClearsLetGo'
  BY <1>1, <1>6 DEF ClearsLetGo
<1>8. layer["Video"] # 0 => layer["Video"] \in Sessions
  BY NamesSessions
<1>9. \A i \in 1..Len(frames') : phase'[frames'[i].by] # "none"
  <2>1. \A i \in 1..Len(frames) : frames[i].by \in Sessions /\ phase[frames[i].by] # "none"
    BY NamesSessions DEF Pictured
  <2>2. \/ frames' = frames
        \/ frames' = Append(frames, [by |-> n, epoch |-> epoch])
    BY DEF AnnounceMusic, TakeFrame, SendFrame, Leave, Finish, ThreadClears, CheckTicket,
           Report, lanes
  <2>3. \A i \in 1..Len(frames') : \/ i \in 1..Len(frames) /\ frames'[i] = frames[i]
                                  \/ frames'[i].by = n
    <3>1. frames' = Append(frames, [by |-> n, epoch |-> epoch])
            => \A i \in 1..Len(frames') :
                    \/ i \in 1..Len(frames) /\ frames'[i] = frames[i]
                    \/ frames'[i] = [by |-> n, epoch |-> epoch]
      <4> DEFINE F == [by : Sessions, epoch : Nat]
                 f == [by |-> n, epoch |-> epoch]
      <4>1. frames \in Seq(F)
        BY DEF TypeOK
      <4> HIDE DEF F, f
      <4>2. \A i \in 1..Len(Append(frames, f)) :
                \/ i \in 1..Len(frames) /\ Append(frames, f)[i] = frames[i]
                \/ Append(frames, f)[i] = f
        BY <4>1, QueuedLast
      <4> QED BY <4>2, Zenon DEF f
    <3> QED BY <2>2, <3>1
  <2> QED BY <1>2, <1>3, <2>1, <2>3
<1>10. Pictured'
  BY <1>1, <1>3, <1>8, <1>9 DEF Pictured, loop
<1>11. PictureIsSpared'
  <2> SUFFICES ASSUME NoUrl', active' # 0, layer'["Video"] = active', Live(active)'
               PROVE  "Video" \notin due' /\ ~ClearComing'
    BY DEF PictureIsSpared
  <2>1. NoUrl /\ active # 0 /\ layer["Video"] = active /\ active \in Sessions
    BY <1>1, <1>8 DEF NoUrl, loop
  <2>2. Live(active)
    <3>1. phase'[active] \in Producing /\ active \notin over
      BY <1>1 DEF Live, Producing
    <3>2. phase[active] \in Producing
      BY <1>2, <1>3, <1>4, <2>1, <3>1
    <3> QED BY <3>1, <3>2 DEF Live, Producing
  <2>3. "Video" \notin due' /\ ~ClearComing
    BY <1>1, <2>1, <2>2 DEF PictureIsSpared, loop
  <2>4. ~ThreadClears(n)
    BY <2>1 DEF ThreadClears, At, UrlsClear, NoUrl
  <2>5. \/ control' = control
        \/ control' = Append(control, [cmd |-> "UrlAudioOnly", by |-> n])
    BY <2>4 DEF AnnounceMusic, TakeFrame, SendFrame, Leave, Finish, CheckTicket, Report, lanes
  <2>6. ~ClearComing'
    <3>1. CASE control' = control
      BY <2>3, <3>1 DEF ClearComing
    <3>2. CASE control' = Append(control, [cmd |-> "UrlAudioOnly", by |-> n])
      BY <2>3, <3>2, NoneQueued
    <3> QED BY <2>5, <3>1, <3>2
  <2> QED BY <2>3, <2>6
<1> QED BY <1>5, <1>7, <1>10, <1>11

\* The render loop.  A clear that is applied while the active session's picture is up is
\* not one for it; the first frame of a session disarms every clear applied before it.
LEMMA LoopSpares ==
    ASSUME TypeOK, TypeOK', MirrorInv,
           \/ ApplyClear \/ ApplyNowPlaying \/ ApplyUrlAudioOnly \/ ApplyVideo
           \/ \E x \in SUBSET Surfaces : Present(x)
    PROVE  MirrorInv'
<1> USE DEF MirrorInv
<1>1. UNCHANGED <<todo, begun, active, over, kind, phase>>
  BY DEF ApplyClear, ApplyNowPlaying, ApplyUrlAudioOnly, ApplyVideo, Present, Elsewhere,
         manager, producers
<1>2. KindsBegin' /\ UrlsClear' /\ ClearsLetGo'
  BY <1>1 DEF KindsBegin, UrlsClear, ClearsLetGo, Running
<1>a. ClearComing' => ClearComing
  <2>1. control' = control \/ (control # <<>> /\ control' = Tail(control))
    BY DEF ApplyClear, ApplyNowPlaying, ApplyUrlAudioOnly, ApplyVideo, Present, Receive, lanes
  <2>2. control # <<>>
            => \A i \in 1..Len(Tail(control)) :
                    i + 1 \in 1..Len(control) /\ Tail(control)[i] = control[i + 1]
    BY TailHas DEF TypeOK
  <2> QED BY <2>1, <2>2 DEF ClearComing
<1>b. \A i \in 1..Len(frames') : phase'[frames'[i].by] # "none"
  <2>1. frames' \in {frames, <<>>} \/ (frames # <<>> /\ frames' = Tail(frames))
    BY DEF ApplyClear, ApplyNowPlaying, ApplyUrlAudioOnly, ApplyVideo, Present, lanes
  <2>2. frames # <<>> /\ frames' = Tail(frames)
            => \A i \in 1..Len(frames') : i + 1 \in 1..Len(frames) /\ frames'[i] = frames[i + 1]
    BY TailHas DEF TypeOK
  <2> QED BY <1>1, <2>1, <2>2 DEF Pictured
\* A step that leaves the picture alone and arms nothing.
<1>c. ASSUME layer'["Video"] = layer["Video"] \/ (layer'["Video"] = 0 /\ "Video" \notin up'),
             "Video" \in up' => "Video" \in up, "Video" \in due' => "Video" \in due
      PROVE  MirrorInv'
  <2>1. Pictured'
    BY <1>1, <1>b, <1>c DEF Pictured
  <2>2. PictureIsSpared'
    BY <1>1, <1>a, <1>c DEF PictureIsSpared, NoUrl, Live
  <2> QED BY <1>2, <2>1, <2>2
<1>3. CASE ApplyClear
  <2>1. UNCHANGED <<up, layer>> /\ ClearComing
    <3>1. control # <<>> /\ Head(control).cmd = "Clear" /\ UNCHANGED <<up, layer>>
      BY <1>3 DEF ApplyClear, Receive
    <3>2. 1 \in 1..Len(control) /\ control[1].cmd = "Clear"
      BY <3>1, TailHas DEF TypeOK
    <3> QED BY <3>1, <3>2 DEF ClearComing
  <2>2. Pictured'
    BY <1>1, <1>b, <2>1 DEF Pictured
  <2>3. PictureIsSpared'
    BY <1>1, <2>1 DEF PictureIsSpared, NoUrl, Live
  <2> QED BY <1>2, <2>2, <2>3
<1>4. CASE ApplyNowPlaying
  BY <1>4, <1>c DEF ApplyNowPlaying, TypeOK, Surfaces
<1>5. CASE ApplyUrlAudioOnly
  BY <1>5, <1>c DEF ApplyUrlAudioOnly, TypeOK, Surfaces
<1>6. CASE ApplyVideo
  <2>1. \/ UNCHANGED <<due, up, layer>>
        \/ due' = due \ {"Video"} /\ UNCHANGED <<up, layer>>
        \/ /\ due' = due \ {"Video"} /\ up' = up \cup {"Video"}
           /\ layer' = [layer EXCEPT !["Video"] = Head(frames).by]
    BY <1>6 DEF ApplyVideo
  <2>2. CASE UNCHANGED <<up, layer>> /\ due' \subseteq due
    BY <1>c, <2>2
  <2>3. CASE /\ due' = due \ {"Video"} /\ up' = up \cup {"Video"}
             /\ layer' = [layer EXCEPT !["Video"] = Head(frames).by]
    <3>1. frames # <<>> /\ control = <<>> /\ control' = control
      BY <1>6 DEF ApplyVideo
    <3>2. Head(frames).by \in Sessions /\ phase[Head(frames).by] # "none"
      <4>1. 1 \in 1..Len(frames) /\ Head(frames) = frames[1]
        BY <3>1, TailHas DEF TypeOK
      <4> QED BY <4>1, NamesSessions DEF Pictured
    <3>3. layer'["Video"] = Head(frames).by
      BY <2>3 DEF TypeOK, Surfaces
    <3>4. Pictured'
      BY <1>1, <1>b, <3>2, <3>3 DEF Pictured, Sessions
    <3>5. PictureIsSpared'
      BY <2>3, <3>1 DEF PictureIsSpared, ClearComing
    <3> QED BY <1>2, <3>4, <3>5
  <2> QED BY <2>1, <2>2, <2>3
<1>7. ASSUME NEW x \in SUBSET Surfaces, Present(x) PROVE MirrorInv'
  <2>1. /\ up' = up \ x /\ due' = due \ x
        /\ layer' = [s \in Surfaces |-> IF s \in up' THEN layer[s] ELSE 0]
    BY <1>7 DEF Present
  <2>2. layer'["Video"] = IF "Video" \in up' THEN layer["Video"] ELSE 0
    BY <2>1 DEF Surfaces
  <2> QED BY <1>c, <2>1, <2>2
<1> QED BY <1>3, <1>4, <1>5, <1>6, <1>7

LEMMA StepMirror == TypeOK /\ TypeOK' /\ IInv /\ MirrorInv /\ [Next]_vars => MirrorInv'
<1> SUFFICES ASSUME TypeOK, TypeOK', IInv, MirrorInv, [Next]_vars PROVE MirrorInv'
  OBVIOUS
<1>1. CASE UNCHANGED vars
  <2>1. UNCHANGED <<todo, begun, active, over, kind, phase, control, frames, due, up, layer>>
    BY <1>1 DEF vars, manager, producers, lanes, loop
  <2> QED BY <2>1 DEF MirrorInv, KindsBegin, Pictured, UrlsClear, ClearsLetGo, Running,
                      PictureIsSpared, NoUrl, Live, ClearComing
<1>2. CASE Next
  BY <1>2, CallsSpare, ProducersSpare, LoopSpares, Zenon DEF Next
<1> QED BY <1>1, <1>2

-----------------------------------------------------------------------------
(* Theorems *)

\* Type correctness, for every number of sessions and calls and every frame-lane depth.
THEOREM Typing == Spec => []TypeOK
<1>1. Init => TypeOK /\ SpawnsLast(todo)
  BY InitTyped, InitInv DEF IInv
<1>2. (TypeOK /\ SpawnsLast(todo)) /\ [Next]_vars => (TypeOK /\ SpawnsLast(todo))'
  BY StepTyped
<1> QED BY <1>1, <1>2, PTL DEF Spec

\* However calls, threads and the render loop interleave, preempt() finds the flag of every
\* producer still running, and raises nobody else's.
THEOREM NobodyIsForgotten == Spec => []PreemptReachesEveryone
<1>1. TypeOK /\ TypeOK' /\ IInv /\ [Next]_vars => IInv'
  BY StepInv
<1>2. IInv => PreemptReachesEveryone
  BY DEF IInv
<1> QED BY <1>1, <1>2, InitInv, Typing, PTL DEF Spec

\* A session's end report is accepted until the manager lets go of the session, and refused
\* once another one has its producer.
THEOREM ReportsKeepTheirRight == Spec => []TicketsAreCurrent
<1>1. TypeOK /\ TypeOK' /\ IInv /\ [Next]_vars => IInv'
  BY StepInv
<1>2. IInv => TicketsAreCurrent
  BY DEF IInv
<1> QED BY <1>1, <1>2, InitInv, Typing, PTL DEF Spec

\* A clear never takes down the picture of a mirror that has replaced the session it was
\* meant for: the mirror's first frame disarms it, and none armed later finds it live.
THEOREM MirrorsAreSpared == Spec => ClearSparesTheMirror
<1> DEFINE Spares == (\A n \in Sessions : kind[n] \notin {"url", "music"})
                            /\ "Video" \in up \ up'
                        => ~(layer["Video"] = active /\ Live(active))
<1>1. TypeOK /\ TypeOK' /\ IInv /\ [Next]_vars => IInv'
  BY StepInv
<1>2. TypeOK /\ TypeOK' /\ IInv /\ MirrorInv /\ [Next]_vars => MirrorInv'
  BY StepMirror
<1>3. MirrorInv /\ [Next]_vars => [Spares]_vars
  <2> SUFFICES ASSUME MirrorInv, Next, \A n \in Sessions : kind[n] \notin {"url", "music"},
                      "Video" \in up, "Video" \notin up', layer["Video"] = active, Live(active)
               PROVE  FALSE
    OBVIOUS
  <2>1. PICK x \in SUBSET Surfaces : Present(x)
    BY DEF Next, Start, End, TransportStop, PublishCard, RaiseFlag, RetireTicket, BeginEpoch,
           Spawn, SendCommand, AnnounceMusic, TakeFrame, SendFrame, Leave, Finish,
           ThreadClears, CheckTicket, Report, ApplyClear, ApplyNowPlaying, ApplyUrlAudioOnly,
           ApplyVideo, loop
  <2>2. "Video" \in due
    BY <2>1 DEF Present
  <2>3. active # 0
    BY DEF MirrorInv, Pictured
  <2> QED BY <2>2, <2>3 DEF MirrorInv, PictureIsSpared, NoUrl
<1> QED BY <1>1, <1>2, <1>3, InitInv, InitMirror, Typing, PTL DEF Spec, ClearSparesTheMirror
=============================================================================
