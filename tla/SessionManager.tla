----------------------------- MODULE SessionManager -----------------------------
(***************************************************************************)
(* The session manager (core/src/session.rs): one task that arbitrates a   *)
(* single active source, last writer wins, and drives the pipeline.        *)
(*                                                                         *)
(* The task suspends only where it awaits somebody else: the remote it     *)
(* asks to pause, the remote it tells that the media ended, the display it *)
(* powers on.  Each stretch between two such points is one action; sources,*)
(* remotes and the pipeline's end reports interleave with them.            *)
(*                                                                         *)
(* The pipeline is seen here as the manager sees it: which item it plays   *)
(* and whose facts its card shows.  RenderPipeline.tla opens it up.        *)
(***************************************************************************)
EXTENDS Naturals, Sequences

CONSTANTS
    Sources,      \* SourceId values
    NoSource,     \* Option::None
    Emitters,     \* sources whose RemoteControl writes into the manager's own channel
                  \* (CastRemote, DlnaRemote, FCastRemote); AVRCP and Spotify do not
    Players,      \* the ones that queue their next item from media_ended (FCastRemote)
    Events,       \* the SessionEvents the sources send in this instance
    HasDisplay,   \* a DisplayControl backend is configured
    Capacity,     \* depth of the SourceMessage channel (64 in app/src/main.rs)
    EndsDepth,    \* END_CHANNEL_DEPTH
    MaxMessages,  \* bound on what each source sends of its own accord
    Playlist      \* bound on the items a playlist queues: the length of the list

BeginEvents == {"Play", "Mirror", "Audio", "HostPage"}
CardEvents == {"NowPlaying", "UpNext", "SourceInfo", "ControlSurface"}
AllEvents == BeginEvents \cup CardEvents \cup
             {"AudioLatency", "TouchSurface", "TouchSurfaceRevoked", "Pause", "Stop", "End"}

ASSUME SessionAssumption ==
    /\ NoSource \notin Sources
    /\ Players \subseteq Emitters /\ Emitters \subseteq Sources
    /\ Events \subseteq AllEvents
    /\ HasDisplay \in BOOLEAN
    /\ Capacity \in Nat \ {0} /\ EndsDepth \in Nat \ {0}
    /\ MaxMessages \in Nat /\ Playlist \in Nat

VARIABLES
    queue,        \* the SourceMessage channel
    ends,         \* the PlaybackEnd channel: the item that ended, and how
    sent,         \* how much of its bound each source has used
    open,         \* some SessionSink is still alive
    pc,           \* which await the manager task is parked on
    cur,          \* the message in hand
    calls,        \* what the remote being awaited has still to emit before it answers
    active,       \* SessionManager::active
    casting,      \* CastingHandle
    remote,       \* RemoteHandle: the source whose surface is published
    touch,        \* TouchHandle: likewise
    description,  \* SessionManager::description: the source it describes
    pipe,         \* the item the pipeline was last given, and by whom
    card,         \* RenderPipeline::card: which source each part of it speaks for
    items,        \* how many items the pipeline was ever given
    told          \* the items whose end their source has been told of

manager == <<pc, cur, calls>>
session == <<active, casting, remote, touch, description>>
pipeline == <<pipe, card, items>>
vars == <<queue, ends, sent, open, manager, session, pipeline, told>>

MaybeSource == Sources \cup {NoSource}
Message == [source : Sources, event : AllEvents]
End == [item : Nat, failed : BOOLEAN]
Nothing == [source |-> NoSource, kind |-> "none", item |-> 0, done |-> TRUE]
Blank == [f \in CardEvents |-> NoSource]
NoMessage == [source |-> NoSource, event |-> "none", item |-> 0]

TypeOK ==
    /\ queue \in Seq(Message) /\ Len(queue) <= Capacity
    /\ ends \in Seq(End) /\ Len(ends) <= EndsDepth
    /\ sent \in [Sources -> 0..MaxMessages]
    /\ open \in BOOLEAN
    /\ pc \in {"idle", "pausing", "powering", "starting", "reporting", "stopped"}
    /\ cur \in [source : MaybeSource, event : AllEvents \cup {"none"}, item : Nat]
    /\ calls \in Seq(Message)
    /\ active \in MaybeSource /\ casting \in BOOLEAN
    /\ remote \in MaybeSource /\ touch \in MaybeSource /\ description \in MaybeSource
    /\ pipe \in [source : MaybeSource, kind : BeginEvents \cup {"none"}, item : Nat,
                 done : BOOLEAN]
    /\ card \in [CardEvents -> MaybeSource]
    /\ items \in Nat /\ told \in SUBSET Nat

Init ==
    /\ queue = <<>> /\ ends = <<>> /\ sent = [s \in Sources |-> 0] /\ open = TRUE
    /\ pc = "idle" /\ cur = NoMessage /\ calls = <<>>
    /\ active = NoSource /\ casting = FALSE
    /\ remote = NoSource /\ touch = NoSource /\ description = NoSource
    /\ pipe = Nothing /\ card = Blank /\ items = 0 /\ told = {}

-----------------------------------------------------------------------------
(* Around the manager: sources, the remote it awaits, the pipeline's ends *)

Msg(s, e) == [source |-> s, event |-> e]

\* Slip: try_send semantics without looking at the answer.
Emit_NoWait(s, e) ==
    /\ open /\ sent[s] < MaxMessages
    /\ queue' = Append(queue, Msg(s, e))
    /\ sent' = [sent EXCEPT ![s] = @ + 1]
    /\ UNCHANGED <<ends, open, manager, session, pipeline, told>>

\* SessionSink::emit: waits for room in the channel.
Emit(s, e) ==
    /\ open /\ sent[s] < MaxMessages
    /\ Len(queue) < Capacity
    /\ queue' = Append(queue, Msg(s, e))
    /\ sent' = [sent EXCEPT ![s] = @ + 1]
    /\ UNCHANGED <<ends, open, manager, session, pipeline, told>>

\* The last adapter drops its sink.
CloseSinks ==
    /\ open
    /\ open' = FALSE
    /\ UNCHANGED <<queue, ends, sent, manager, session, pipeline, told>>

\* What a remote emits, through the manager's own channel, before issue(Pause) returns; one
\* that does not offer Pause, or has no channel to the manager, emits nothing.
PauseCalls(s) == {<<>>} \cup (IF s \in Emitters THEN {<<Msg(s, "Pause")>>} ELSE {})

\* Slip: the next item is queued and its control surface is not published again.
EndCalls_NoSurface(s, end) ==
    {<<>>} \cup
    (IF s \in Players /\ ~end.failed /\ items < Playlist
     THEN {<<Msg(s, "Play"), Msg(s, "NowPlaying")>>} ELSE {})

\* Slip: media_ended queues the rest of the list instead of its next item.
EndCalls_WholeList(s, end) ==
    {<<>>} \cup
    (IF s \in Players /\ ~end.failed /\ items < Playlist
     THEN {[i \in 1..(4 * (Playlist - items)) |->
                Msg(s, CASE i % 4 = 1 -> "Play"       [] i % 4 = 2 -> "ControlSurface"
                         [] i % 4 = 3 -> "NowPlaying" [] OTHER -> "UpNext")]} ELSE {})

\* What starting an item emits: the control surface goes right behind the Play.
Starting(s) == <<Msg(s, "Play"), Msg(s, "ControlSurface"), Msg(s, "NowPlaying")>>

\* ... and before media_ended returns: a playlist that has a next item starts it, and says
\* what is up next if anything still follows.
EndCalls(s, end) ==
    {<<>>} \cup
    (IF s \in Players /\ ~end.failed /\ items < Playlist
     THEN {Starting(s), Append(Starting(s), Msg(s, "UpNext"))} ELSE {})

\* The awaited remote's own SessionSink::emit, one message at a time.
RemoteEmits ==
    /\ pc \in {"pausing", "reporting"} /\ calls # <<>>
    /\ Len(queue) < Capacity
    /\ queue' = Append(queue, Head(calls))
    /\ calls' = Tail(calls)
    /\ UNCHANGED <<ends, sent, open, pc, cur, session, pipeline, told>>

\* The item in flight ends or fails.  Only URL items, and audio that cannot open the
\* device, report; a full channel drops the report (EndReport::report).
ItemEnds(failed) ==
    /\ ~pipe.done
    /\ pipe.kind = "Play" \/ (pipe.kind = "Audio" /\ failed)
    /\ pipe' = [pipe EXCEPT !.done = TRUE]
    /\ ends' = IF Len(ends) < EndsDepth
               THEN Append(ends, [item |-> pipe.item, failed |-> failed])
               ELSE ends
    /\ UNCHANGED <<queue, sent, open, manager, session, card, items, told>>

-----------------------------------------------------------------------------
(* The manager task *)

\* select!: the next message, when that branch wins.
Receive(e) ==
    /\ pc = "idle" /\ queue # <<>>
    /\ Head(queue).event = e
    /\ queue' = Tail(queue)

Begin ==
    \E e \in BeginEvents :
        /\ Receive(e)
        /\ LET s == Head(queue).source IN
           /\ cur' = [source |-> s, event |-> e, item |-> 0]
           /\ \/ active = s /\ pc' = "starting" /\ calls' = <<>>
              \/ /\ active \notin {s, NoSource}
                 /\ pc' = "pausing"
                 /\ calls' \in IF remote = NoSource THEN {<<>>} ELSE PauseCalls(remote)
              \/ active = NoSource /\ pc' = "powering" /\ calls' = <<>>
        /\ UNCHANGED <<ends, sent, open, session, pipeline, told>>

\* Slip: the loser's remote is left published.
Preempt_KeepsRemote ==
    /\ pc = "pausing" /\ calls = <<>>
    /\ pipe' = Nothing /\ card' = Blank
    /\ touch' = NoSource /\ description' = NoSource
    /\ active' = cur.source /\ casting' = TRUE
    /\ pc' = "starting"
    /\ UNCHANGED <<queue, ends, sent, open, cur, calls, items, told, remote>>

\* Slip: the winner starts over a pipeline nobody stopped.
Preempt_NoStop ==
    /\ pc = "pausing" /\ calls = <<>>
    /\ remote' = NoSource /\ touch' = NoSource /\ description' = NoSource
    /\ active' = cur.source /\ casting' = TRUE
    /\ pc' = "starting"
    /\ UNCHANGED <<queue, ends, sent, open, cur, calls, pipeline, told>>

\* begin_session over a running one, once its remote has answered: stop the pipeline, let
\* the loser's handles go, take the screen.
Preempt ==
    /\ pc = "pausing" /\ calls = <<>>
    /\ pipe' = Nothing /\ card' = Blank
    /\ remote' = NoSource /\ touch' = NoSource /\ description' = NoSource
    /\ active' = cur.source /\ casting' = TRUE
    /\ pc' = "starting"
    /\ UNCHANGED <<queue, ends, sent, open, cur, calls, items, told>>

\* begin_session from idle: the panel is powered on and switched to our input, or it
\* refuses, the error drops the event and nobody is active.
PowerOn(ok) ==
    /\ pc = "powering"
    /\ ok \/ HasDisplay
    /\ IF ok THEN active' = cur.source /\ casting' = TRUE /\ pc' = "starting" /\ cur' = cur
             ELSE pc' = "idle" /\ cur' = NoMessage /\ UNCHANGED <<active, casting>>
    /\ UNCHANGED <<queue, ends, sent, open, calls, remote, touch, description, pipeline, told>>

\* The pipeline call of the event.  play never fails; mirror and play_audio refuse a frame
\* source of the wrong kind after they have preempted, host_page before it has.
StartMedia(ok) ==
    /\ pc = "starting"
    /\ pc' = "idle" /\ cur' = NoMessage
    /\ \/ /\ ok
          /\ items' = items + 1
          /\ pipe' = [source |-> cur.source, kind |-> cur.event, item |-> items + 1,
                      done |-> FALSE]
       \/ /\ ~ok /\ cur.event # "Play"
          /\ pipe' = IF cur.event = "HostPage" THEN pipe ELSE Nothing
          /\ items' = items
    /\ UNCHANGED <<queue, ends, sent, open, calls, session, card, told>>

\* An event only the active source may have applied; from anyone else it is refused.
Facts ==
    \E e \in CardEvents :
        /\ Receive(e)
        /\ LET s == Head(queue).source IN
           IF active = s
           THEN /\ card' = [card EXCEPT ![e] = s]
                /\ remote' = IF e = "ControlSurface" THEN s ELSE remote
                /\ description' = IF e = "SourceInfo" THEN s ELSE description
           ELSE UNCHANGED <<card, remote, description>>
        /\ UNCHANGED <<ends, sent, open, manager, active, casting, touch, pipe, items, told>>

Touch ==
    /\ \E e \in {"TouchSurface", "TouchSurfaceRevoked"} :
        /\ Receive(e)
        /\ touch' = IF active # Head(queue).source THEN touch
                    ELSE IF e = "TouchSurface" THEN active ELSE NoSource
    /\ UNCHANGED <<ends, sent, open, manager, active, casting, remote, description,
                   pipeline, told>>

\* Control: Stop tears the item down and blanks the card; the other verbs, and a declared
\* latency, act on the item in flight without replacing it.
Control ==
    /\ \E e \in {"Stop", "Pause", "AudioLatency"} :
        /\ Receive(e)
        /\ IF active = Head(queue).source /\ e = "Stop"
           THEN pipe' = Nothing /\ card' = Blank
           ELSE UNCHANGED <<pipe, card>>
    /\ UNCHANGED <<ends, sent, open, manager, session, items, told>>

\* Slip: the updater's bit stays up after the session.
EndSession_StillCasting ==
    /\ active' = NoSource /\ casting' = casting
    /\ remote' = NoSource /\ touch' = NoSource /\ description' = NoSource
    /\ pipe' = Nothing /\ card' = Blank

\* The End arm of handle for the active source.
EndSession ==
    /\ active' = NoSource /\ casting' = FALSE
    /\ remote' = NoSource /\ touch' = NoSource /\ description' = NoSource
    /\ pipe' = Nothing /\ card' = Blank

HandleEnd ==
    /\ Receive("End")
    /\ IF active = Head(queue).source THEN EndSession
       ELSE UNCHANGED <<session, pipe, card>>
    /\ UNCHANGED <<ends, sent, open, manager, items, told>>

\* select!: the pipeline's end report, when that branch wins.  It names no source: the
\* manager takes it for the active one.
MediaEnded ==
    /\ pc = "idle" /\ ends # <<>>
    /\ ends' = Tail(ends)
    /\ IF active = NoSource THEN UNCHANGED manager
       ELSE /\ pc' = "reporting"
            /\ cur' = [source |-> active, event |-> "End", item |-> Head(ends).item]
            /\ calls' \in IF remote = NoSource THEN {<<>>} ELSE EndCalls(remote, Head(ends))
    /\ UNCHANGED <<queue, sent, open, session, pipeline, told>>

\* The source has taken the report (or had no remote to take it with): end its session.
EndAfterReport ==
    /\ pc = "reporting" /\ calls = <<>>
    /\ told' = IF remote = NoSource THEN told ELSE told \cup {cur.item}
    /\ EndSession
    /\ pc' = "idle" /\ cur' = NoMessage
    /\ UNCHANGED <<queue, ends, sent, open, calls, items>>

\* The channel closed: best-effort teardown, and the task is over.
Shutdown ==
    /\ pc = "idle" /\ ~open /\ queue = <<>>
    /\ pc' = "stopped"
    /\ pipe' = Nothing /\ card' = Blank
    /\ UNCHANGED <<queue, ends, sent, open, cur, calls, session, items, told>>

Manager == \/ Begin \/ Preempt \/ PowerOn(TRUE) \/ StartMedia(TRUE) \/ StartMedia(FALSE)
           \/ Facts \/ Touch \/ Control \/ HandleEnd \/ MediaEnded \/ EndAfterReport
           \/ Shutdown

Next ==
    \/ \E s \in Sources, e \in Events : Emit(s, e)
    \/ CloseSinks \/ RemoteEmits
    \/ \E b \in BOOLEAN : ItemEnds(b) \/ PowerOn(b) \/ StartMedia(b)
    \/ Begin \/ Preempt \/ Facts \/ Touch \/ Control \/ HandleEnd
    \/ MediaEnded \/ EndAfterReport \/ Shutdown

\* The manager task is polled, an awaited remote gets on with its own sends, and select!
\* picks a ready branch at random, so neither channel is passed over for ever.
Fairness ==
    /\ WF_vars(Manager) /\ WF_vars(RemoteEmits)
    /\ SF_vars(MediaEnded)

Spec == Init /\ [][Next]_vars /\ Fairness

-----------------------------------------------------------------------------
(* Properties *)

\* Nothing on the panel, and no handle anyone can reach, speaks for a source that is not
\* the active one: the remote, the touch surface, the description, every part of the card
\* and the item in the pipeline ("Cleared whenever the session ends or is preempted").
OnlyTheActiveSourceShows ==
    /\ remote \in {NoSource, active}
    /\ touch \in {NoSource, active}
    /\ description \in {NoSource, active}
    /\ pipe.source \in {NoSource, active}
    /\ \A f \in CardEvents : card[f] \in {NoSource, active}

\* CastingHandle answers for `active`, which nobody outside the manager can read: the
\* updater restarts the receiver on the strength of it.
CastingIsActive == casting = (active # NoSource)

\* The panel never goes from one source's item straight to another's: the pipeline is
\* stopped in between (begin_session).
NoSplice ==
    [][pipe'.source # pipe.source => NoSource \in {pipe.source, pipe'.source}]_vars

\* The source each part of the panel, and each handle, speaks for.
Parts == CardEvents \cup {"item", "remote", "touch", "description"}
SpeaksFor ==
    [p \in Parts |-> CASE p = "item" -> pipe.source
                       [] p = "remote" -> remote
                       [] p = "touch" -> touch
                       [] p = "description" -> description
                       [] OTHER -> card[p]]

\* The refinement: the awaits, the refusals and the end reports between them make no more of
\* the panel than a screen with one owner that changes hands empty (begin_session, handle,
\* media_ended against the contract of core/src/session.rs, "last writer wins").
Panel == INSTANCE Screen WITH owner <- active, shown <- SpeaksFor
ImplementsScreen == Panel!Spec

\* A report ends the session whose item it is about: "an unguarded report would tear down
\* the session that just started" (pipeline/src/render_pipeline.rs, EndReport).
ReportEndsItsOwnItem ==
    [][(pc = "reporting" /\ pc' = "idle") => pipe.item \in {0, cur.item}]_vars

\* The manager always comes back to its channels: whatever it awaits, answers.
ManagerReturns == (pc \notin {"idle", "stopped"}) ~> (pc \in {"idle", "stopped"})

\* A playlist keeps the screen and its controls: once the source has queued its next item
\* from inside media_ended, told of the item really playing, that next item comes to play
\* with the source's remote published, or is over before the remote could be, or another
\* source has taken the screen (FCastRemote::media_ended, SessionManager::media_ended).
PlaylistAdvances ==
    \A s \in Players :
        (pc = "reporting" /\ cur.source = s /\ calls # <<>> /\ cur.item = pipe.item)
            ~> (\/ pipe.source = s /\ pc = "idle" /\ (remote = s \/ pipe.done)
                \/ active \notin {s, NoSource})
=============================================================================
