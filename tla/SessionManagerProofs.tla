--------------------------- MODULE SessionManagerProofs ---------------------------
(***************************************************************************)
(* For any sources, any channel depths and any mix of events: the session  *)
(* manager keeps what is on the panel, and every handle, to the active     *)
(* source, across everything it awaits.                                    *)
(***************************************************************************)
EXTENDS SessionManager, TLAPS

(***************************************************************************)
(* What the manager holds while it is parked on an await.  It begins a     *)
(* session for a source other than the active one (pausing), from idle     *)
(* (powering), or for the source that is now active (starting).            *)
(***************************************************************************)
Holding ==
    /\ pc \in {"pausing", "powering", "starting"} =>
            cur.source \in Sources /\ cur.event \in BeginEvents
    /\ pc = "powering" => active = NoSource
    /\ pc = "starting" => active = cur.source

Inv == TypeOK /\ Holding

\* The renderer calls of one event are messages.
LEMMA CallsTyped ==
    ASSUME NEW s \in Sources, NEW end \in End
    PROVE  PauseCalls(s) \subseteq Seq(Message) /\ EndCalls(s, end) \subseteq Seq(Message)
<1>1. \A e \in AllEvents : Msg(s, e) \in Message
  BY DEF Msg, Message
<1>2. {"Pause", "Play", "ControlSurface", "NowPlaying", "UpNext"} \subseteq AllEvents
  BY DEF AllEvents, BeginEvents, CardEvents
<1>3. <<>> \in Seq(Message) /\ <<Msg(s, "Pause")>> \in Seq(Message)
  BY <1>1, <1>2
<1>4. Starting(s) \in Seq(Message) /\ Append(Starting(s), Msg(s, "UpNext")) \in Seq(Message)
  BY <1>1, <1>2 DEF Starting
<1> QED BY <1>3, <1>4 DEF PauseCalls, EndCalls

\* The initial state satisfies the invariant.
LEMMA InitInv == Init => Inv
<1> SUFFICES ASSUME Init PROVE Inv
  OBVIOUS
<1> USE SessionAssumption DEF Init
<1>1. queue \in Seq(Message) /\ Len(queue) <= Capacity /\ ends \in Seq(End) /\ Len(ends) <= EndsDepth
  OBVIOUS
<1>2. sent \in [Sources -> 0..MaxMessages] /\ calls \in Seq(Message) /\ items \in Nat
  OBVIOUS
<1>3. cur \in [source : MaybeSource, event : AllEvents \cup {"none"}, item : Nat]
  BY DEF NoMessage, MaybeSource
<1>4. pipe \in [source : MaybeSource, kind : BeginEvents \cup {"none"}, item : Nat, done : BOOLEAN]
  BY DEF Nothing, MaybeSource
<1>5. card \in [CardEvents -> MaybeSource]
  BY DEF Blank, MaybeSource
<1>6. TypeOK
  BY <1>1, <1>2, <1>3, <1>4, <1>5, Zenon DEF TypeOK, MaybeSource
<1>7. Holding
  BY DEF Holding
<1> QED BY <1>6, <1>7 DEF Inv

\* Every step of the manager, its sources and the pipeline preserves it.
LEMMA StepInv == Inv /\ [Next]_vars => Inv'
<1> SUFFICES ASSUME Inv, [Next]_vars PROVE Inv'
  OBVIOUS
<1> USE SessionAssumption DEF Inv, Holding, TypeOK, MaybeSource, manager, session, pipeline
<1>a. Nothing \in [source : MaybeSource, kind : BeginEvents \cup {"none"}, item : Nat, done : BOOLEAN]
  BY DEF Nothing
<1>b. Blank \in [CardEvents -> MaybeSource]
  BY DEF Blank
<1>c. NoMessage \in [source : MaybeSource, event : AllEvents \cup {"none"}, item : Nat]
  BY DEF NoMessage
<1>d. BeginEvents \subseteq AllEvents /\ CardEvents \subseteq AllEvents /\ "End" \in AllEvents
  BY DEF AllEvents
<1>1. ASSUME NEW s \in Sources, NEW e \in Events, Emit(s, e) PROVE Inv'
  <2>1. Msg(s, e) \in Message
    BY DEF Msg, Message
  <2>2. /\ queue' \in Seq(Message) /\ Len(queue') <= Capacity
        /\ sent' \in [Sources -> 0..MaxMessages]
    <3>1. /\ sent[s] < MaxMessages /\ Len(queue) < Capacity
          /\ queue' = Append(queue, Msg(s, e))
          /\ sent' = [sent EXCEPT ![s] = @ + 1]
      BY <1>1 DEF Emit
    <3>2. queue \in Seq(Message) /\ sent \in [Sources -> 0..MaxMessages]
      OBVIOUS
    <3> HIDE DEF Inv, Holding, TypeOK, MaybeSource, manager, session, pipeline
    <3>3. queue' \in Seq(Message) /\ Len(queue') <= Capacity
      BY <2>1, <3>1, <3>2
    <3>4. sent' \in [Sources -> 0..MaxMessages]
      BY <3>1, <3>2
    <3> QED BY <3>3, <3>4
  <2>3. UNCHANGED <<ends, open, pc, cur, calls, active, casting, remote, touch, description,
                    pipe, card, items, told>>
    BY <1>1 DEF Emit
  <2>4. TypeOK'
    <3>1. /\ open' \in BOOLEAN /\ casting' \in BOOLEAN
          /\ pipe' \in [source : MaybeSource, kind : BeginEvents \cup {"none"}, item : Nat,
                        done : BOOLEAN]
          /\ cur' \in [source : MaybeSource, event : AllEvents \cup {"none"}, item : Nat]
      BY <2>3, Zenon
    <3>2. /\ ends' \in Seq(End) /\ Len(ends') <= EndsDepth
          /\ pc' \in {"idle", "pausing", "powering", "starting", "reporting", "stopped"}
          /\ calls' \in Seq(Message) /\ items' \in Nat /\ told' \in SUBSET Nat
          /\ card' \in [CardEvents -> MaybeSource]
          /\ active' \in MaybeSource /\ remote' \in MaybeSource /\ touch' \in MaybeSource
          /\ description' \in MaybeSource
      BY <2>3
    <3> QED BY <2>2, <3>1, <3>2, Zenon
  <2>5. Holding'
    BY <2>3
  <2> QED BY <2>4, <2>5
<1>2. CASE CloseSinks
  <2>1. UNCHANGED <<queue, ends, sent, pc, cur, calls, active, casting, remote, touch,
                    description, pipe, card, items, told>>
    BY <1>2 DEF CloseSinks
  <2>2. open' \in BOOLEAN
    BY <1>2 DEF CloseSinks
  <2>3. TypeOK'
    BY <2>1, <2>2
  <2>4. Holding'
    BY <2>1
  <2> QED BY <2>3, <2>4
<1>3. CASE RemoteEmits
  <2>1. Head(calls) \in Message /\ Tail(calls) \in Seq(Message)
    BY <1>3 DEF RemoteEmits
  <2>2. /\ Len(queue) < Capacity /\ queue' = Append(queue, Head(calls)) /\ calls' = Tail(calls)
        /\ UNCHANGED <<ends, sent, open, pc, cur, active, casting, remote, touch, description,
                       pipe, card, items, told>>
    BY <1>3 DEF RemoteEmits
  <2>3. queue' \in Seq(Message) /\ Len(queue') <= Capacity
    <3>1. queue \in Seq(Message)
      OBVIOUS
    <3> HIDE DEF Inv, Holding, TypeOK, MaybeSource, manager, session, pipeline
    <3> QED BY <2>1, <2>2, <3>1
  <2>4. TypeOK'
    BY <2>1, <2>2, <2>3, SMTT(30)
  <2>5. Holding'
    BY <2>2
  <2> QED BY <2>4, <2>5
<1>4. ASSUME NEW f \in BOOLEAN, ItemEnds(f) PROVE Inv'
  <2>1. [item |-> pipe.item, failed |-> f] \in End
    BY DEF End
  <2>2. ends' \in Seq(End) /\ Len(ends') <= EndsDepth
    BY <1>4, <2>1 DEF ItemEnds
  <2>3. pipe' \in [source : MaybeSource, kind : BeginEvents \cup {"none"}, item : Nat,
                   done : BOOLEAN]
    BY <1>4 DEF ItemEnds
  <2>4. UNCHANGED <<queue, sent, open, pc, cur, calls, active, casting, remote, touch,
                    description, card, items, told>>
    BY <1>4 DEF ItemEnds
  <2> QED BY <2>2, <2>3, <2>4, SMTT(30)
<1>5. CASE Begin
  <2>1. PICK e \in BeginEvents : Receive(e)
          /\ cur' = [source |-> Head(queue).source, event |-> e, item |-> 0]
    BY <1>5 DEF Begin
  <2>2. Head(queue) \in Message /\ Tail(queue) \in Seq(Message) /\ Len(Tail(queue)) <= Capacity
    BY <2>1 DEF Receive
  <2>3. Head(queue).source \in Sources
    BY <2>2 DEF Message
  <2>4. cur' \in [source : MaybeSource, event : AllEvents \cup {"none"}, item : Nat]
    BY <2>1, <2>3, <1>d
  <2>5. calls' \in Seq(Message)
    <3>1. remote # NoSource => PauseCalls(remote) \subseteq Seq(Message)
      <4>1. [item |-> 0, failed |-> TRUE] \in End
        BY DEF End
      <4> QED BY <4>1, CallsTyped
    <3>2. calls' = <<>> \/ (remote # NoSource /\ calls' \in PauseCalls(remote))
      BY <1>5, Zenon DEF Begin
    <3>3. <<>> \in Seq(Message)
      OBVIOUS
    <3> QED BY <3>1, <3>2, <3>3, Zenon
  <2>6. queue' \in Seq(Message) /\ Len(queue') <= Capacity
    BY <2>1, <2>2 DEF Receive
  <2>7. UNCHANGED <<ends, sent, open, session, pipeline, told>>
    BY <1>5 DEF Begin
  <2>8. /\ pc' \in {"pausing", "powering", "starting"}
        /\ pc' = "powering" => active = NoSource
        /\ pc' = "starting" => active = Head(queue).source
    BY <1>5 DEF Begin
  <2>9. TypeOK'
    BY <2>4, <2>5, <2>6, <2>7, <2>8, SMTT(30)
  <2>10. Holding'
    BY <2>1, <2>3, <2>7, <2>8
  <2> QED BY <2>9, <2>10
<1>6. CASE Preempt BY <1>6, <1>a, <1>b DEF Preempt
<1>7. ASSUME NEW ok \in BOOLEAN, PowerOn(ok) PROVE Inv'
  BY <1>7, <1>c, ZenonT(40) DEF PowerOn
<1>8. ASSUME NEW ok \in BOOLEAN, StartMedia(ok) PROVE Inv'
  <2>1. [source |-> cur.source, kind |-> cur.event, item |-> items + 1, done |-> FALSE]
          \in [source : MaybeSource, kind : BeginEvents \cup {"none"}, item : Nat, done : BOOLEAN]
    BY <1>8 DEF StartMedia
  <2>2. pipe' \in [source : MaybeSource, kind : BeginEvents \cup {"none"}, item : Nat,
                   done : BOOLEAN]
    BY <1>8, <1>a, <2>1 DEF StartMedia
  <2>3. items' \in Nat
    BY <1>8 DEF StartMedia
  <2>4. pc' = "idle" /\ cur' = NoMessage
    BY <1>8 DEF StartMedia
  <2>5. UNCHANGED <<queue, ends, sent, open, calls, active, casting, remote, touch, description,
                    card, told>>
    BY <1>8 DEF StartMedia
  <2> QED BY <1>c, <2>2, <2>3, <2>4, <2>5
<1>9. CASE Facts
  <2>1. PICK e \in CardEvents : Receive(e)
          /\ card' \in {card, [card EXCEPT ![e] = Head(queue).source]}
          /\ remote' \in {remote, Head(queue).source}
          /\ description' \in {description, Head(queue).source}
    BY <1>9 DEF Facts
  <2>2. Head(queue) \in Message /\ Tail(queue) \in Seq(Message) /\ Len(Tail(queue)) <= Capacity
    BY <2>1 DEF Receive
  <2>3. Head(queue).source \in Sources
    BY <2>2 DEF Message
  <2>4. queue' \in Seq(Message) /\ Len(queue') <= Capacity
    BY <2>1, <2>2 DEF Receive
  <2>5. UNCHANGED <<ends, sent, open, manager, active, casting, touch, pipe, items, told>>
    BY <1>9 DEF Facts
  <2>6. card' \in [CardEvents -> MaybeSource]
    BY <2>1, <2>3
  <2>7. remote' \in MaybeSource /\ description' \in MaybeSource
    BY <2>1, <2>3
  <2> QED BY <2>4, <2>5, <2>6, <2>7, SMTT(30)
<1>10. CASE Touch
  <2>1. PICK e \in {"TouchSurface", "TouchSurfaceRevoked"} : Receive(e)
          /\ touch' \in {touch, active, NoSource}
    BY <1>10 DEF Touch
  <2>2. Tail(queue) \in Seq(Message) /\ Len(Tail(queue)) <= Capacity
    BY <2>1 DEF Receive
  <2> QED BY <1>10, <2>1, <2>2, SMTT(30) DEF Touch, Receive
<1>11. CASE Control
  <2>1. PICK e \in {"Stop", "Pause", "AudioLatency"} : Receive(e)
          /\ \/ pipe' = Nothing /\ card' = Blank
             \/ UNCHANGED <<pipe, card>>
    BY <1>11 DEF Control
  <2>2. Tail(queue) \in Seq(Message) /\ Len(Tail(queue)) <= Capacity
    BY <2>1 DEF Receive
  <2> QED BY <1>11, <1>a, <1>b, <2>1, <2>2, SMTT(30) DEF Control, Receive
<1>12. CASE HandleEnd
  <2>1. Tail(queue) \in Seq(Message) /\ Len(Tail(queue)) <= Capacity
    BY <1>12 DEF HandleEnd, Receive
  <2> QED BY <1>12, <1>a, <1>b, <2>1 DEF HandleEnd, Receive, EndSession
<1>13. CASE MediaEnded
  <2>1. Head(ends) \in End /\ Tail(ends) \in Seq(End) /\ Len(Tail(ends)) <= EndsDepth
    BY <1>13 DEF MediaEnded
  <2>2. calls' \in Seq(Message)
    <3>1. remote # NoSource => EndCalls(remote, Head(ends)) \subseteq Seq(Message)
      BY <2>1, CallsTyped
    <3>2. \/ calls' \in {calls, <<>>}
          \/ remote # NoSource /\ calls' \in EndCalls(remote, Head(ends))
      BY <1>13 DEF MediaEnded
    <3>3. calls \in Seq(Message) /\ <<>> \in Seq(Message)
      OBVIOUS
    <3> QED BY <3>1, <3>2, <3>3, Zenon
  <2>3. cur' \in [source : MaybeSource, event : AllEvents \cup {"none"}, item : Nat]
    <3>1. Head(ends).item \in Nat
      BY <2>1 DEF End
    <3>2. cur' = cur \/ cur' = [source |-> active, event |-> "End", item |-> Head(ends).item]
      BY <1>13 DEF MediaEnded
    <3> QED BY <1>d, <3>1, <3>2, SMTT(30)
  <2>4. pc' \in {"idle", "reporting"}
    BY <1>13 DEF MediaEnded
  <2> QED BY <1>13, <2>1, <2>2, <2>3, <2>4, SMTT(30) DEF MediaEnded
<1>14. CASE EndAfterReport
  BY <1>14, <1>a, <1>b, <1>c, ZenonT(40) DEF EndAfterReport, EndSession
<1>15. CASE Shutdown BY <1>15, <1>a, <1>b, SMTT(30) DEF Shutdown
<1>16. CASE UNCHANGED vars BY <1>16, SMTT(30) DEF vars
<1> QED
  BY <1>1, <1>2, <1>3, <1>4, <1>5, <1>6, <1>7, <1>8, <1>9, <1>10, <1>11, <1>12, <1>13, <1>14,
     <1>15, <1>16 DEF Next

\* Type correctness of the manager, its channels and what it sees of the pipeline.
THEOREM Typing == Spec => []TypeOK
<1>1. Inv => TypeOK
  BY DEF Inv
<1> QED BY <1>1, InitInv, StepInv, PTL DEF Spec

Shown == OnlyTheActiveSourceShows /\ CastingIsActive

\* A step keeps everything shown to the active source: the awaits of begin_session and of
\* media_ended are where another source's message could have slipped in.
LEMMA StepShown == Inv /\ Shown /\ [Next]_vars => Shown'
<1> SUFFICES ASSUME Inv, Shown, [Next]_vars PROVE OnlyTheActiveSourceShows' /\ CastingIsActive'
  BY DEF Shown
<1> USE SessionAssumption DEF Shown, OnlyTheActiveSourceShows, manager, session, pipeline
<1>a. Nothing.source = NoSource /\ \A f \in CardEvents : Blank[f] = NoSource
  BY DEF Nothing, Blank
<1>b. CastingIsActive
  BY DEF Shown
<1>c. ASSUME UNCHANGED <<active, casting, remote, touch, description, card>>,
             pipe'.source \in {pipe.source, NoSource, active}
      PROVE  OnlyTheActiveSourceShows' /\ CastingIsActive'
  <2>1. OnlyTheActiveSourceShows'
    BY <1>c
  <2>2. CastingIsActive'
    BY <1>b, <1>c, Zenon DEF CastingIsActive
  <2> QED BY <2>1, <2>2
<1>d. ASSUME active' = NoSource, casting' = FALSE, remote' = NoSource, touch' = NoSource,
             description' = NoSource, pipe' = Nothing, card' = Blank
      PROVE  OnlyTheActiveSourceShows' /\ CastingIsActive'
  BY <1>a, <1>d DEF CastingIsActive
<1>1. ASSUME NEW s \in Sources, NEW e \in Events, Emit(s, e)
      PROVE  OnlyTheActiveSourceShows' /\ CastingIsActive'
  BY <1>1, <1>c DEF Emit
<1>2. CASE CloseSinks BY <1>2, <1>c DEF CloseSinks
<1>3. CASE RemoteEmits BY <1>3, <1>c DEF RemoteEmits
<1>4. ASSUME NEW f \in BOOLEAN, ItemEnds(f) PROVE OnlyTheActiveSourceShows' /\ CastingIsActive'
  <2>1. pipe'.source = pipe.source
    BY <1>4 DEF ItemEnds, Inv, TypeOK
  <2> QED BY <1>4, <2>1, <1>c DEF ItemEnds
<1>5. CASE Begin
  <2>1. UNCHANGED <<active, casting, remote, touch, description, pipe, card>>
    BY <1>5 DEF Begin
  <2> QED BY <2>1, <1>c
<1>6. CASE Preempt
  <2>1. cur.source # NoSource
    BY <1>6 DEF Preempt, Inv, Holding
  <2> QED BY <1>6, <1>a, <2>1 DEF Preempt, CastingIsActive
<1>7. ASSUME NEW ok \in BOOLEAN, PowerOn(ok) PROVE OnlyTheActiveSourceShows' /\ CastingIsActive'
  <2>1. CASE ok
    <3>1. cur.source # NoSource /\ active = NoSource
      BY <1>7 DEF PowerOn, Inv, Holding
    <3> QED BY <1>7, <2>1, <3>1 DEF PowerOn, CastingIsActive
  <2>2. CASE ~ok
    BY <1>7, <2>2, <1>c DEF PowerOn
  <2> QED BY <2>1, <2>2
<1>8. ASSUME NEW ok \in BOOLEAN, StartMedia(ok)
      PROVE  OnlyTheActiveSourceShows' /\ CastingIsActive'
  <2>1. cur.source = active
    BY <1>8 DEF StartMedia, Inv, Holding
  <2>2. pipe'.source \in {pipe.source, NoSource, active}
    BY <1>8, <2>1, <1>a DEF StartMedia
  <2> QED BY <1>8, <2>2, <1>c DEF StartMedia
<1>9. CASE Facts
  <2>1. PICK e \in CardEvents :
          \/ /\ active = Head(queue).source
             /\ card' = [card EXCEPT ![e] = Head(queue).source]
             /\ remote' \in {remote, Head(queue).source}
             /\ description' \in {description, Head(queue).source}
          \/ UNCHANGED <<card, remote, description>>
    BY <1>9 DEF Facts
  <2>2. UNCHANGED <<active, casting, touch, pipe>>
    BY <1>9 DEF Facts
  <2>3. CastingIsActive'
    BY <1>b, <2>2, Zenon DEF CastingIsActive
  <2>4. card \in [CardEvents -> MaybeSource]
    BY DEF Inv, TypeOK
  <2> QED BY <2>1, <2>2, <2>3, <2>4
<1>10. CASE Touch
  <2>1. touch' \in {touch, active, NoSource}
    BY <1>10 DEF Touch
  <2>2. UNCHANGED <<active, casting, remote, description, pipe, card>>
    BY <1>10 DEF Touch
  <2>3. CastingIsActive'
    BY <1>b, <2>2, Zenon DEF CastingIsActive
  <2> QED BY <2>1, <2>2, <2>3
<1>11. CASE Control
  <2>1. (pipe' = Nothing /\ card' = Blank) \/ UNCHANGED <<pipe, card>>
    BY <1>11 DEF Control
  <2>2. UNCHANGED <<active, casting, remote, touch, description>>
    BY <1>11 DEF Control
  <2>3. CastingIsActive'
    BY <1>b, <2>2, Zenon DEF CastingIsActive
  <2> QED BY <2>1, <2>2, <2>3, <1>a
<1>12. CASE HandleEnd
  <2>1. EndSession \/ UNCHANGED <<session, pipe, card>>
    BY <1>12 DEF HandleEnd
  <2> QED BY <2>1, <1>c, <1>d DEF EndSession
<1>13. CASE MediaEnded BY <1>13, <1>c DEF MediaEnded
<1>14. CASE EndAfterReport BY <1>14, <1>d DEF EndAfterReport, EndSession
<1>15. CASE Shutdown
  <2>1. pipe' = Nothing /\ card' = Blank
    BY <1>15 DEF Shutdown
  <2>2. UNCHANGED <<active, casting, remote, touch, description>>
    BY <1>15 DEF Shutdown
  <2>3. CastingIsActive'
    BY <1>b, <2>2, Zenon DEF CastingIsActive
  <2> QED BY <2>1, <2>2, <2>3, <1>a
<1>16. CASE UNCHANGED vars BY <1>16, <1>c DEF vars
<1> QED
  BY <1>1, <1>2, <1>3, <1>4, <1>5, <1>6, <1>7, <1>8, <1>9, <1>10, <1>11, <1>12, <1>13, <1>14,
     <1>15, <1>16 DEF Next

\* Last writer wins, and nothing of the loser stays: whatever order sources, remotes and
\* end reports interleave in, what the panel shows, what a handle reaches and what the
\* updater is told are all the active source's.
THEOREM LastWriterWins == Spec => [](OnlyTheActiveSourceShows /\ CastingIsActive)
<1>1. Init => Shown
  <2> SUFFICES ASSUME Init PROVE Shown
    OBVIOUS
  <2>1. OnlyTheActiveSourceShows
    BY DEF Init, OnlyTheActiveSourceShows, Nothing, Blank
  <2>2. CastingIsActive
    BY DEF Init, CastingIsActive
  <2> QED BY <2>1, <2>2 DEF Shown
<1>2. Shown => OnlyTheActiveSourceShows /\ CastingIsActive
  BY DEF Shown
<1> QED BY <1>1, <1>2, InitInv, StepInv, StepShown, PTL DEF Spec

\* The panel never goes from one source's item straight to another's: every takeover stops
\* the pipeline first.
THEOREM TakeoverStopsFirst == Spec => NoSplice
<1>1. Inv /\ Shown /\ [Next]_vars =>
        [pipe'.source # pipe.source => NoSource \in {pipe.source, pipe'.source}]_vars
  <2> SUFFICES ASSUME Inv, Shown, Next, pipe'.source # pipe.source
               PROVE  NoSource \in {pipe.source, pipe'.source}
    OBVIOUS
  <2> USE DEF pipeline
  <2>a. Nothing.source = NoSource
    BY DEF Nothing
  <2>1. ASSUME NEW s \in Sources, NEW e \in Events, Emit(s, e) PROVE FALSE
    BY <2>1 DEF Emit
  <2>2. CASE CloseSinks BY <2>2 DEF CloseSinks
  <2>3. CASE RemoteEmits BY <2>3 DEF RemoteEmits
  <2>4. ASSUME NEW f \in BOOLEAN, ItemEnds(f) PROVE FALSE
    BY <2>4 DEF ItemEnds, Inv, TypeOK
  <2>5. CASE Begin
    <3>1. pipe' = pipe
      BY <2>5 DEF Begin
    <3> QED BY <3>1
  <2>6. CASE Preempt BY <2>6, <2>a DEF Preempt
  <2>7. ASSUME NEW ok \in BOOLEAN, PowerOn(ok) PROVE FALSE
    BY <2>7 DEF PowerOn
  <2>8. ASSUME NEW ok \in BOOLEAN, StartMedia(ok)
        PROVE  NoSource \in {pipe.source, pipe'.source}
    <3>1. cur.source = active
      BY <2>8 DEF StartMedia, Inv, Holding
    <3>2. pipe.source \in {NoSource, active}
      BY DEF Shown, OnlyTheActiveSourceShows
    <3>3. pipe'.source \in {pipe.source, NoSource, active}
      BY <2>8, <3>1, <2>a DEF StartMedia
    <3> QED BY <3>2, <3>3
  <2>9. CASE Facts
    <3>1. pipe' = pipe
      BY <2>9 DEF Facts
    <3> QED BY <3>1
  <2>10. CASE Touch BY <2>10 DEF Touch
  <2>11. CASE Control
    <3>1. pipe' = Nothing \/ pipe' = pipe
      BY <2>11 DEF Control
    <3> QED BY <3>1, <2>a
  <2>12. CASE HandleEnd
    <3>1. pipe' = Nothing \/ pipe' = pipe
      BY <2>12 DEF HandleEnd, EndSession
    <3> QED BY <3>1, <2>a
  <2>13. CASE MediaEnded BY <2>13 DEF MediaEnded
  <2>14. CASE EndAfterReport BY <2>14, <2>a DEF EndAfterReport, EndSession
  <2>15. CASE Shutdown BY <2>15, <2>a DEF Shutdown
  <2> QED
    BY <2>1, <2>2, <2>3, <2>4, <2>5, <2>6, <2>7, <2>8, <2>9, <2>10, <2>11, <2>12, <2>13,
       <2>14, <2>15 DEF Next
<1>2. OnlyTheActiveSourceShows /\ CastingIsActive => Shown
  BY DEF Shown
<1> QED BY <1>1, <1>2, InitInv, StepInv, LastWriterWins, PTL DEF Spec, NoSplice

\* The updater's view by itself: CastingHandle (session.rs begin_session, End) is set exactly
\* while a source is active, for any sources and any mix of events.
THEOREM CastingAgrees == Spec => []CastingIsActive
BY LastWriterWins, PTL

-----------------------------------------------------------------------------
(***************************************************************************)
(* The refinement of Screen.  Every step keeps the owner and puts up or    *)
(* takes down some of its parts, or gives the screen away with nothing on  *)
(* it.                                                                     *)
(***************************************************************************)

\* The parts, one by one.
LEMMA PartsAre ==
    /\ SpeaksFor = [p \in Parts |-> SpeaksFor[p]]
    /\ SpeaksFor["item"] = pipe.source /\ SpeaksFor["remote"] = remote
    /\ SpeaksFor["touch"] = touch /\ SpeaksFor["description"] = description
    /\ \A f \in CardEvents : SpeaksFor[f] = card[f]
    /\ Parts = CardEvents \cup {"item", "remote", "touch", "description"}
<1>1. \A f \in CardEvents : f \notin {"item", "remote", "touch", "description"}
  BY DEF CardEvents
<1>2. "item" \in Parts /\ "remote" \in Parts /\ "touch" \in Parts /\ "description" \in Parts
  BY DEF Parts
<1>3. CardEvents \subseteq Parts
  BY DEF Parts
<1> QED BY <1>1, <1>2, <1>3 DEF SpeaksFor, Parts

\* ... and after a step.
LEMMA PartsWillBe ==
    /\ SpeaksFor' = [p \in Parts |-> SpeaksFor'[p]]
    /\ SpeaksFor'["item"] = pipe'.source /\ SpeaksFor'["remote"] = remote'
    /\ SpeaksFor'["touch"] = touch' /\ SpeaksFor'["description"] = description'
    /\ \A f \in CardEvents : SpeaksFor'[f] = card'[f]
<1>1. \A f \in CardEvents : f \notin {"item", "remote", "touch", "description"}
  BY DEF CardEvents
<1>2. "item" \in Parts /\ "remote" \in Parts /\ "touch" \in Parts /\ "description" \in Parts
  BY DEF Parts
<1>3. CardEvents \subseteq Parts
  BY DEF Parts
<1> QED BY <1>1, <1>2, <1>3 DEF SpeaksFor, Parts

\* The owner stays and some parts go.
LEMMA PartsGo ==
    ASSUME active' = active, \A p \in Parts : SpeaksFor'[p] \in {SpeaksFor[p], NoSource}
    PROVE  Panel!Next
<1> DEFINE P == {p \in Parts : SpeaksFor'[p] = NoSource}
<1>1. \A p \in Parts : SpeaksFor'[p] = IF p \in P THEN NoSource ELSE SpeaksFor[p]
  OBVIOUS
<1>2. SpeaksFor' = [p \in Parts |-> IF p \in P THEN NoSource ELSE SpeaksFor[p]]
  BY <1>1, PartsWillBe
<1>3. P \in SUBSET Parts
  OBVIOUS
<1> HIDE DEF P
<1> QED BY <1>2, <1>3, Zenon DEF Panel!Next, Panel!Withdraw

\* The owner stays and some parts come to speak for it.
LEMMA PartsCome ==
    ASSUME active' = active, active # NoSource,
           \A p \in Parts : SpeaksFor'[p] \in {SpeaksFor[p], active}
    PROVE  Panel!Next
<1> DEFINE P == {p \in Parts : SpeaksFor'[p] = active}
<1>1. \A p \in Parts : SpeaksFor'[p] = IF p \in P THEN active ELSE SpeaksFor[p]
  OBVIOUS
<1>2. SpeaksFor' = [p \in Parts |-> IF p \in P THEN active ELSE SpeaksFor[p]]
  BY <1>1, PartsWillBe
<1>3. P \in SUBSET Parts
  OBVIOUS
<1> HIDE DEF P
<1> QED BY <1>2, <1>3, Zenon DEF Panel!Next, Panel!Show

\* The screen changes hands, or goes to nobody, and is empty.
LEMMA HandsChange ==
    ASSUME active' # active, active' \in MaybeSource,
           \A p \in Parts : SpeaksFor'[p] = NoSource
    PROVE  Panel!Next
<1>1. SpeaksFor' = Panel!Empty
  BY PartsWillBe DEF Panel!Empty
<1>2. CASE active' = NoSource
  BY <1>1, <1>2 DEF Panel!Next, Panel!Release
<1>3. CASE active' \in Sources
  BY <1>1, <1>3 DEF Panel!Next, Panel!Take
<1> QED BY <1>2, <1>3 DEF MaybeSource

\* A step that leaves alone what speaks for a source is none of the panel's.
LEMMA PanelStays ==
    ASSUME UNCHANGED <<active, pipe, card, remote, touch, description>>
    PROVE  UNCHANGED <<active, SpeaksFor>>
BY DEF SpeaksFor

\* What the panel shows of nobody is nothing.
LEMMA EmptyWhenIdle ==
    ASSUME OnlyTheActiveSourceShows
    PROVE  \A p \in Parts : SpeaksFor[p] \in {NoSource, active}
BY PartsAre DEF OnlyTheActiveSourceShows

\* Every step of the manager, its sources and the pipeline is one of the panel, or none.
LEMMA StepPanel == Inv /\ Shown /\ [Next]_vars => [Panel!Next]_<<active, SpeaksFor>>
<1> DEFINE Step == Panel!Next \/ UNCHANGED <<active, SpeaksFor>>
<1> SUFFICES ASSUME Inv, Shown, [Next]_vars PROVE Step
  OBVIOUS
<1>a. Nothing.source = NoSource /\ \A f \in CardEvents : Blank[f] = NoSource
  BY DEF Nothing, Blank
<1>b. \A p \in Parts : SpeaksFor[p] \in {NoSource, active}
  BY EmptyWhenIdle DEF Shown
<1>c. Inv' /\ active' \in MaybeSource
  BY StepInv DEF Inv, TypeOK
<1>d. (\A p \in Parts : SpeaksFor'[p] = NoSource) => Step
  <2>1. CASE active' = active
    BY <2>1, PartsGo
  <2> QED BY <1>c, <2>1, HandsChange
<1>e. ASSUME remote' = NoSource, touch' = NoSource, description' = NoSource, pipe' = Nothing,
             card' = Blank
      PROVE  Step
  <2>1. \A p \in Parts : SpeaksFor'[p] = NoSource
    BY <1>a, <1>e, PartsAre, PartsWillBe
  <2> QED BY <1>d, <2>1
<1>f. ASSUME UNCHANGED <<active, pipe, card, remote, touch, description>> PROVE Step
  BY <1>f, PanelStays
<1>g. ASSUME UNCHANGED <<active, remote, touch, description>>, pipe' = Nothing, card' = Blank
      PROVE  Step
  <2>1. \A p \in Parts : SpeaksFor'[p] \in {SpeaksFor[p], NoSource}
    BY <1>a, <1>g, PartsAre, PartsWillBe
  <2> QED BY <1>g, <2>1, PartsGo
<1>1. ASSUME NEW s \in Sources, NEW e \in Events, Emit(s, e) PROVE Step
  BY <1>1, <1>f DEF Emit, session, pipeline
<1>2. CASE CloseSinks BY <1>2, <1>f DEF CloseSinks, session, pipeline
<1>3. CASE RemoteEmits BY <1>3, <1>f DEF RemoteEmits, session, pipeline
<1>4. ASSUME NEW f \in BOOLEAN, ItemEnds(f) PROVE Step
  <2>1. pipe'.source = pipe.source
    BY <1>4 DEF ItemEnds, Inv, TypeOK
  <2>2. UNCHANGED <<active, card, remote, touch, description>>
    BY <1>4 DEF ItemEnds, session
  <2> QED BY <2>1, <2>2 DEF SpeaksFor
<1>5. CASE Begin
  <2>1. UNCHANGED <<session, pipeline>>
    BY <1>5, Zenon DEF Begin
  <2> QED BY <2>1, <1>f DEF session, pipeline
<1>6. CASE Preempt BY <1>6, <1>e DEF Preempt
<1>7. ASSUME NEW ok \in BOOLEAN, PowerOn(ok) PROVE Step
  <2>1. UNCHANGED <<remote, touch, description, pipe, card>>
    BY <1>7 DEF PowerOn, pipeline
  <2>2. SpeaksFor' = SpeaksFor
    BY <2>1 DEF SpeaksFor
  <2>3. active = NoSource
    BY <1>7 DEF PowerOn, Inv, Holding
  <2> QED BY <1>b, <1>d, <2>2, <2>3
<1>8. ASSUME NEW ok \in BOOLEAN, StartMedia(ok) PROVE Step
  <2>1. UNCHANGED <<active, remote, touch, description, card>>
    BY <1>8 DEF StartMedia, session
  <2>2. cur.source = active /\ active \in Sources
    BY <1>8 DEF StartMedia, Inv, Holding
  <2>3. active # NoSource
    BY <2>2, SessionAssumption
  <2>4. pipe' \in {pipe, Nothing} \/ pipe'.source = active
    BY <1>8, <2>2 DEF StartMedia
  <2>5. CASE pipe' = pipe
    BY <2>1, <2>5, <1>f
  <2>6. CASE pipe' = Nothing
    <3>1. \A p \in Parts : SpeaksFor'[p] \in {SpeaksFor[p], NoSource}
      BY <1>a, <2>1, <2>6, PartsAre, PartsWillBe
    <3> QED BY <2>1, <3>1, PartsGo
  <2>7. CASE pipe'.source = active
    <3>1. \A p \in Parts : SpeaksFor'[p] \in {SpeaksFor[p], active}
      BY <2>1, <2>7, PartsAre, PartsWillBe
    <3> QED BY <2>1, <2>3, <3>1, PartsCome
  <2> QED BY <2>4, <2>5, <2>6, <2>7
<1>9. CASE Facts
  <2>1. PICK e \in CardEvents :
          \/ /\ active = Head(queue).source
             /\ card' = [card EXCEPT ![e] = Head(queue).source]
             /\ remote' \in {remote, Head(queue).source}
             /\ description' \in {description, Head(queue).source}
             /\ queue # <<>>
          \/ UNCHANGED <<card, remote, description>>
    BY <1>9 DEF Facts, Receive
  <2>2. UNCHANGED <<active, touch, pipe>>
    BY <1>9 DEF Facts
  <2>3. CASE UNCHANGED <<card, remote, description>>
    BY <2>2, <2>3, <1>f
  <2>4. CASE ~ UNCHANGED <<card, remote, description>>
    <3>1. active = Head(queue).source /\ queue # <<>> /\ queue \in Seq(Message)
      BY <2>1, <2>4 DEF Inv, TypeOK
    <3>2. active \in Sources
      <4>1. Head(queue) \in Message
        BY <3>1
      <4> QED BY <3>1, <4>1 DEF Message
    <3>3. card' = [card EXCEPT ![e] = active] /\ card \in [CardEvents -> MaybeSource]
      BY <2>1, <2>4, <3>1 DEF Inv, TypeOK
    <3>4. \A f \in CardEvents : card'[f] \in {card[f], active}
      BY <3>3
    <3>5. remote' \in {remote, active} /\ description' \in {description, active}
      BY <2>1, <2>4, <3>1
    <3>6. \A p \in Parts : SpeaksFor'[p] \in {SpeaksFor[p], active}
      BY <2>2, <3>4, <3>5, PartsAre, PartsWillBe
    <3> QED BY <2>2, <3>2, <3>6, PartsCome, SessionAssumption
  <2> QED BY <2>3, <2>4
<1>10. CASE Touch
  <2>1. touch' \in {touch, active, NoSource}
    BY <1>10 DEF Touch
  <2>2. UNCHANGED <<active, remote, description, pipe, card>>
    BY <1>10 DEF Touch, pipeline
  <2>3. CASE touch' \in {touch, NoSource}
    <3>1. \A p \in Parts : SpeaksFor'[p] \in {SpeaksFor[p], NoSource}
      BY <2>2, <2>3, PartsAre, PartsWillBe
    <3> QED BY <2>2, <3>1, PartsGo
  <2>4. CASE touch' = active /\ active # NoSource
    <3>1. \A p \in Parts : SpeaksFor'[p] \in {SpeaksFor[p], active}
      BY <2>2, <2>4, PartsAre, PartsWillBe
    <3> QED BY <2>2, <2>4, <3>1, PartsCome
  <2> QED BY <2>1, <2>3, <2>4
<1>11. CASE Control
  <2>1. (pipe' = Nothing /\ card' = Blank) \/ UNCHANGED <<pipe, card>>
    BY <1>11 DEF Control
  <2>2. UNCHANGED <<active, remote, touch, description>>
    BY <1>11 DEF Control, session
  <2> QED BY <2>1, <2>2, <1>f, <1>g
<1>12. CASE HandleEnd
  <2>1. EndSession \/ UNCHANGED <<session, pipe, card>>
    BY <1>12 DEF HandleEnd
  <2> QED BY <2>1, <1>e, <1>f DEF EndSession, session
<1>13. CASE MediaEnded BY <1>13, <1>f DEF MediaEnded, session, pipeline
<1>14. CASE EndAfterReport BY <1>14, <1>e DEF EndAfterReport, EndSession
<1>15. CASE Shutdown BY <1>15, <1>g DEF Shutdown, session
<1>16. CASE UNCHANGED vars BY <1>16, <1>f DEF vars, session, pipeline
<1> QED
  BY <1>1, <1>2, <1>3, <1>4, <1>5, <1>6, <1>7, <1>8, <1>9, <1>10, <1>11, <1>12, <1>13, <1>14,
     <1>15, <1>16 DEF Next

\* The refinement: whatever the sources send, however their messages fall between the awaits
\* of a takeover or of an end report, the panel is a screen with one owner that changes hands
\* empty (SessionManager, core/src/session.rs).
THEOREM OneOwnerAtATime == Spec => ImplementsScreen
<1>1. Init => Panel!Init
  <2> SUFFICES ASSUME Init PROVE Panel!Init
    OBVIOUS
  <2>1. OnlyTheActiveSourceShows /\ active = NoSource
    BY DEF Init, OnlyTheActiveSourceShows, Nothing, Blank
  <2>2. SpeaksFor = Panel!Empty
    BY <2>1, EmptyWhenIdle, PartsAre DEF Panel!Empty
  <2> QED BY <2>1, <2>2 DEF Panel!Init
<1>2. OnlyTheActiveSourceShows /\ CastingIsActive => Shown
  BY DEF Shown
<1> QED BY <1>1, <1>2, InitInv, StepInv, StepPanel, LastWriterWins, PTL
        DEF Spec, ImplementsScreen, Panel!Spec, Panel!screenVars

-----------------------------------------------------------------------------
(***************************************************************************)
(* The manager returns.  What it awaits takes a bounded number of steps,   *)
(* so the one thing that can keep it from its channels is a full one: a    *)
(* remote it awaits, waiting for room that only the manager makes          *)
(* (Clogged).  What it means for an action to be enabled is beyond the     *)
(* prover, so that the manager and the remote have a step to take          *)
(* (AwaitsCanEnd) is a hypothesis; TLC checks it, SessionManagerProofs.cfg.*)
(***************************************************************************)

At(p) == pc = p
Back == pc \in {"idle", "stopped"}

\* The remote the manager awaits has n messages still to emit.
Awaits(n) == pc \in {"pausing", "reporting"} /\ Len(calls) = n

Clogged == pc \in {"pausing", "reporting"} /\ calls # <<>> /\ Len(queue) = Capacity

AwaitsCanEnd ==
    /\ At("powering") \/ At("starting") \/ Awaits(0) => ENABLED <<Manager>>_vars
    /\ (Awaits(1) \/ Awaits(2) \/ Awaits(3) \/ Awaits(4)) /\ ~Clogged
            => ENABLED <<RemoteEmits>>_vars

FewCalls == Len(calls) \in {0, 1, 2, 3, 4}

\* What a remote emits before it answers is four messages at the most: Play, ControlSurface,
\* NowPlaying and UpNext, when it starts the next item (FCastRemote::media_ended).
LEMMA CallsAreFew == Spec => []FewCalls
<1>1. Init => FewCalls
  BY DEF Init, FewCalls
<1>2. Inv /\ FewCalls /\ [Next]_vars => FewCalls'
  <2> SUFFICES ASSUME Inv, FewCalls, [Next]_vars PROVE FewCalls'
    OBVIOUS
  <2> USE DEF FewCalls
  <2>1. ASSUME NEW s, NEW end, NEW c \in {<<>>} \cup PauseCalls(s) \cup EndCalls(s, end)
        PROVE  Len(c) \in {0, 1, 2, 3, 4}
    <3>1. c \in {<<>>, <<Msg(s, "Pause")>>, Starting(s), Append(Starting(s), Msg(s, "UpNext"))}
      BY DEF PauseCalls, EndCalls
    <3>2. Len(<<>>) = 0 /\ Len(<<Msg(s, "Pause")>>) = 1 /\ Len(Starting(s)) = 3
          /\ Len(Append(Starting(s), Msg(s, "UpNext"))) = 4
      BY DEF Starting
    <3> QED BY <3>1, <3>2, Zenon
  <2>2. CASE Begin
    <3>1. PICK e \in BeginEvents : calls' \in {<<>>} \cup PauseCalls(remote)
      BY <2>2 DEF Begin
    <3>2. calls' \in {<<>>} \cup PauseCalls(remote) \cup EndCalls(remote, Head(ends))
      BY <3>1
    <3> QED BY <2>1, <3>2, Zenon
  <2>3. CASE MediaEnded
    <3>1. calls' = calls \/ calls' \in {<<>>} \cup EndCalls(remote, Head(ends))
      BY <2>3 DEF MediaEnded, manager
    <3>2. calls' = calls
          \/ calls' \in {<<>>} \cup PauseCalls(remote) \cup EndCalls(remote, Head(ends))
      BY <3>1
    <3> QED BY <2>1, <3>2, Zenon
  <2>4. CASE RemoteEmits
    <3>1. calls \in Seq(Message) /\ calls # <<>> /\ calls' = Tail(calls)
      BY <2>4 DEF RemoteEmits, Inv, TypeOK
    <3>2. Len(calls) # 0 /\ Len(calls') = Len(calls) - 1
      BY <3>1
    <3> QED BY <3>2
  <2>5. CASE UNCHANGED calls
    BY <2>5
  <2> QED
    BY <2>2, <2>3, <2>4, <2>5
       DEF Next, Emit, CloseSinks, ItemEnds, PowerOn, StartMedia, Preempt, Facts, Touch, Control,
           HandleEnd, EndAfterReport, Shutdown, vars, manager
<1> QED BY <1>1, <1>2, InitInv, StepInv, PTL DEF Spec

\* What becomes of each await.
AwaitsEnd ==
    /\ At("powering") => At("starting")' \/ Back'
    /\ At("starting") => Back'
    /\ Awaits(0) => At("starting")' \/ Back'

AwaitsStay ==
    /\ At("powering") => At("powering")'
    /\ At("starting") => At("starting")'
    /\ \A n \in 0..4 : Awaits(n) => Awaits(n)'

Emitted == \A n \in 0..3 : Awaits(n + 1) => Awaits(n)'

Unanswered == \E n \in 1..4 : Awaits(n)

\* The manager ends the await it is parked on; that of a remote with messages still to emit
\* it cannot.
LEMMA ManagerGetsOn == Inv /\ Manager => AwaitsEnd /\ ~Unanswered
<1> SUFFICES ASSUME Inv, Manager PROVE AwaitsEnd /\ ~Unanswered
  OBVIOUS
<1> USE DEF AwaitsEnd, Awaits, At, Back, Unanswered
<1>1. CASE Begin BY <1>1 DEF Begin, Receive
<1>2. CASE Preempt BY <1>2 DEF Preempt
<1>3. CASE PowerOn(TRUE) BY <1>3 DEF PowerOn
<1>4. CASE StartMedia(TRUE) \/ StartMedia(FALSE) BY <1>4 DEF StartMedia
<1>5. CASE Facts \/ Touch \/ Control \/ HandleEnd
  BY <1>5 DEF Facts, Touch, Control, HandleEnd, Receive
<1>6. CASE MediaEnded BY <1>6 DEF MediaEnded
<1>7. CASE EndAfterReport BY <1>7 DEF EndAfterReport
<1>8. CASE Shutdown BY <1>8 DEF Shutdown
<1> QED BY <1>1, <1>2, <1>3, <1>4, <1>5, <1>6, <1>7, <1>8 DEF Manager

\* The remote the manager awaits gets on, and nobody else moves the manager.
LEMMA RemoteGetsOn ==
    Inv /\ RemoteEmits => Emitted /\ ~At("powering") /\ ~At("starting") /\ ~Awaits(0)
<1> SUFFICES ASSUME Inv, RemoteEmits
             PROVE  Emitted /\ ~At("powering") /\ ~At("starting") /\ ~Awaits(0)
  OBVIOUS
<1>1. /\ calls \in Seq(Message) /\ calls # <<>> /\ calls' = Tail(calls)
      /\ pc \in {"pausing", "reporting"} /\ pc' = pc
  BY DEF RemoteEmits, Inv, TypeOK
<1>2. Len(calls) \in Nat \ {0} /\ Len(calls') = Len(calls) - 1
  BY <1>1
<1> QED BY <1>1, <1>2 DEF Emitted, Awaits, At

\* Sources, the pipeline and a display that refuses.
LEMMA OthersLeaveTheAwait ==
    Inv /\ [Next]_vars =>
        \/ Manager \/ RemoteEmits \/ AwaitsStay
        \/ AwaitsEnd /\ ~Unanswered
<1> SUFFICES ASSUME Inv, [Next]_vars, ~Manager, ~RemoteEmits
             PROVE  AwaitsStay \/ (AwaitsEnd /\ ~Unanswered)
  OBVIOUS
<1>1. CASE PowerOn(FALSE)
  BY <1>1 DEF PowerOn, AwaitsEnd, Awaits, At, Back, Unanswered
<1>2. CASE UNCHANGED <<pc, calls>>
  BY <1>2 DEF AwaitsStay, Awaits, At
<1>3. PowerOn(FALSE) \/ UNCHANGED <<pc, calls>>
  BY DEF Next, Manager, Emit, CloseSinks, ItemEnds, vars, manager
<1> QED BY <1>1, <1>2, <1>3

\* Whatever the manager awaits - a remote it pauses or tells of an end, the display it powers
\* on - it comes back to its channels, unless a remote it awaits waits for room in the
\* manager's own full channel (begin_session, media_ended, SessionSink::emit): for any
\* sources, any events and any depth, nothing else can hold it.
THEOREM OnlyAFullChannelHoldsIt ==
    Spec /\ []AwaitsCanEnd /\ []~Clogged => ManagerReturns
<1> DEFINE Sp == Spec /\ []AwaitsCanEnd /\ []~Clogged
<1>1. Inv /\ [Next]_vars => \/ AwaitsEnd /\ ~Unanswered
                            \/ Emitted /\ ~At("powering") /\ ~At("starting") /\ ~Awaits(0)
                            \/ AwaitsStay
  BY ManagerGetsOn, RemoteGetsOn, OthersLeaveTheAwait
<1>2. AwaitsStay => /\ Awaits(0) => Awaits(0)'
                    /\ Awaits(1) => Awaits(1)'
                    /\ Awaits(2) => Awaits(2)'
                    /\ Awaits(3) => Awaits(3)'
                    /\ Awaits(4) => Awaits(4)'
  BY DEF AwaitsStay
<1>e. Emitted => /\ Awaits(1) => Awaits(0)'
                 /\ Awaits(2) => Awaits(1)'
                 /\ Awaits(3) => Awaits(2)'
                 /\ Awaits(4) => Awaits(3)'
  BY DEF Emitted
<1>u. Unanswered <=> Awaits(1) \/ Awaits(2) \/ Awaits(3) \/ Awaits(4)
  BY DEF Unanswered
<1>3. Sp => [](Inv /\ FewCalls)
  BY InitInv, StepInv, CallsAreFew, PTL DEF Spec
<1>4. Inv /\ <<Manager>>_vars => AwaitsEnd
  BY ManagerGetsOn
<1>5. Inv /\ <<RemoteEmits>>_vars => Emitted
  BY RemoteGetsOn
<1>6. Sp => (At("starting") ~> Back)
  BY <1>1, <1>3, <1>4, PTL DEF Spec, Fairness, AwaitsCanEnd, AwaitsEnd, AwaitsStay
<1>7. Sp => ((At("powering") \/ Awaits(0)) ~> (At("starting") \/ Back))
  BY <1>1, <1>2, <1>3, <1>4, PTL DEF Spec, Fairness, AwaitsCanEnd, AwaitsEnd, AwaitsStay
<1>8. Sp => (Awaits(1) ~> Awaits(0)) /\ (Awaits(2) ~> Awaits(1))
  BY <1>1, <1>2, <1>3, <1>5, <1>e, <1>u, PTL DEF Spec, Fairness, AwaitsCanEnd
<1>9. Sp => (Awaits(3) ~> Awaits(2)) /\ (Awaits(4) ~> Awaits(3))
  BY <1>1, <1>2, <1>3, <1>5, <1>e, <1>u, PTL DEF Spec, Fairness, AwaitsCanEnd
<1>10. Inv /\ FewCalls => Back \/ At("powering") \/ At("starting") \/ Awaits(0) \/ Unanswered
  <2> SUFFICES ASSUME Inv, FewCalls, pc \in {"pausing", "reporting"}
               PROVE  Awaits(0) \/ Awaits(1) \/ Awaits(2) \/ Awaits(3) \/ Awaits(4)
    BY <1>u DEF Inv, TypeOK, Back, At
  <2> QED BY Zenon DEF FewCalls, Awaits
<1>11. Back <=> pc \in {"idle", "stopped"}
  BY DEF Back
<1>12. ~Back <=> pc \notin {"idle", "stopped"}
  BY DEF Back
<1> QED BY <1>3, <1>6, <1>7, <1>8, <1>9, <1>10, <1>11, <1>12, <1>u, PTL DEF ManagerReturns
=============================================================================
