------------------------------ MODULE RenderPipeline ------------------------------
(***************************************************************************)
(* The render pipeline (pipeline/src/render_pipeline.rs): what the session *)
(* manager's calls do to the decode threads, the render channel and the    *)
(* render loop.                                                            *)
(*                                                                         *)
(* Three kinds of actor run at once.  The manager task makes one pipeline  *)
(* call after another; a call is a list of steps, each touching one shared *)
(* word or queueing one command.  Every session has a producer: a decode   *)
(* thread, a mirror task or an audio thread.  The render loop drains the   *)
(* two lanes, transitions first, and presents.  Time is left out: a clear  *)
(* that has been armed may fall due at any present, and a surface has left *)
(* the glass once its exit has begun.  ClearVideo and ClearNowPlaying are  *)
(* only ever sent one after the other and touch different surfaces, so     *)
(* they travel here as one command, Clear.                                 *)
(***************************************************************************)
EXTENDS Naturals, Sequences

CONSTANTS
    MaxSessions,   \* bound: how many sessions an instance begins
    MaxCalls,      \* bound: how many other calls the manager makes
    FrameDepth,    \* depth of the bounded frame lane
    Kinds          \* which kinds of session this instance begins

\* url: play() of an item with a picture; music: play() of one without; encoded and
\* decoded: the two arms of mirror(); audio: play_audio(); page: host_page(), which stands
\* also for a mirror() refused for being PCM, since both preempt and start no producer.
AllKinds == {"url", "music", "encoded", "decoded", "audio", "page"}

ASSUME PipelineAssumption ==
    /\ MaxSessions \in Nat \ {0} /\ MaxCalls \in Nat /\ FrameDepth \in Nat \ {0}
    /\ Kinds \subseteq AllKinds

VARIABLES
    todo,       \* the steps left of the call the manager is in
    calls,      \* how much of MaxCalls is used
    begun,      \* the number of the session begun last
    active,     \* the session the manager holds active, 0 for none
    kind,       \* what each session is
    phase,      \* where its producer is
    slot,       \* RenderPipeline::active: whose stop flag preempt() will raise
    stopped,    \* the sessions whose stop flag is up
    over,       \* the sessions the manager has ended, stopped or replaced
    current,    \* EndReport::current
    tickets,    \* the ticket each session took
    epoch,      \* RenderTx::epoch
    epochs,     \* the epoch each session began under
    control,    \* the unbounded lane: what is asked, and by which session
    frames,     \* the bounded lane: whose frame, and what it is stamped with
    cleared,    \* RenderLoop::cleared_through (0 for None: no producer sends under epoch 0)
    due,        \* the surfaces with a clear armed: video_clear_due, card_clear_due
    up,         \* Panel::surfaces: which of them are on the panel
    layer,      \* the session whose pixels each compositor layer holds, 0 when removed
    reports     \* the sessions whose end reached the manager's channel

manager == <<todo, calls, begun, active, over>>
shared == <<slot, stopped, current, epoch>>
producers == <<kind, phase, tickets, epochs>>
lanes == <<control, frames>>
loop == <<cleared, due, up, layer>>
vars == <<manager, shared, producers, lanes, loop, reports>>

Sessions == 1..MaxSessions
Surfaces == {"Video", "Card"}
Commands == {"Clear", "NowPlaying", "UrlAudioOnly"}
Preempt == <<"flag", "retire">>
Stop == Preempt \o <<"Clear">>
Steps == {"flag", "retire", "epoch", "spawn"} \cup Commands

TypeOK ==
    /\ todo \in Seq(Steps) /\ calls \in 0..MaxCalls
    /\ begun \in 0..MaxSessions /\ active \in 0..MaxSessions /\ slot \in 0..MaxSessions
    /\ kind \in [Sessions -> AllKinds \cup {"none"}]
    /\ phase \in [Sessions -> {"none", "open", "run", "hold", "clear", "check", "report",
                               "dead"}]
    /\ stopped \in SUBSET Sessions /\ over \in SUBSET Sessions /\ reports \in SUBSET Sessions
    /\ current \in Nat /\ epoch \in Nat /\ cleared \in Nat
    /\ tickets \in [Sessions -> Nat] /\ epochs \in [Sessions -> Nat]
    /\ control \in Seq([cmd : Commands, by : 0..MaxSessions])
    /\ frames \in Seq([by : Sessions, epoch : Nat]) /\ Len(frames) <= FrameDepth
    /\ due \in SUBSET Surfaces /\ up \in SUBSET Surfaces
    /\ layer \in [Surfaces -> 0..MaxSessions]

Init ==
    /\ todo = <<>> /\ calls = 0 /\ begun = 0 /\ active = 0
    /\ kind = [n \in Sessions |-> "none"] /\ phase = [n \in Sessions |-> "none"]
    /\ slot = 0 /\ stopped = {} /\ over = {} /\ current = 0
    /\ tickets = [n \in Sessions |-> 0]
    /\ epoch = 0 /\ epochs = [n \in Sessions |-> 0]
    /\ control = <<>> /\ frames = <<>>
    /\ cleared = 0 /\ due = {} /\ up = {} /\ layer = [x \in Surfaces |-> 0]
    /\ reports = {}

-----------------------------------------------------------------------------
(* The manager's calls.  The pipeline was moved into the session manager, so no two calls *)
(* overlap.  RestPanel, which moves screens and not sessions, is left out.                *)

\* Slip: begin_session mints the stop flag before the outgoing session is preempted.
StartSteps_EpochFirst(k) ==
    IF k = "page" THEN Preempt ELSE <<"spawn", "epoch">> \o Preempt

\* play, mirror, play_audio and host_page: preempt first, then begin_session's epoch, and
\* only then the producer.
StartSteps(k) == IF k = "page" THEN Preempt ELSE Preempt \o <<"epoch", "spawn">>

Running == {n \in Sessions : phase[n] # "none"}

\* A source begins: over another one (the manager stops the pipeline first), or over its
\* own earlier item or an idle panel (it does not).
Start(k) ==
    /\ todo = <<>> /\ begun < MaxSessions
    /\ begun' = begun + 1 /\ active' = begun + 1
    /\ kind' = [kind EXCEPT ![begun + 1] = k]
    /\ \/ todo' = StartSteps(k)
       \/ active # 0 /\ todo' = Stop \o StartSteps(k)
    /\ over' = Running
    /\ UNCHANGED <<calls, shared, phase, tickets, epochs, lanes, loop, reports>>

\* Slip: the controls are withdrawn after the pipeline was stopped.
EndSteps_ControlsLast == Stop \o <<"NowPlaying">>

\* The manager's End arm: controls(NONE) publishes the card once more, then stop().
EndSteps == <<"NowPlaying">> \o Stop

End ==
    /\ todo = <<>> /\ active # 0
    /\ todo' = EndSteps
    /\ active' = 0 /\ over' = Running
    /\ UNCHANGED <<calls, begun, shared, producers, lanes, loop, reports>>

\* control(Stop): the item goes, the source stays active.
TransportStop ==
    /\ todo = <<>> /\ active # 0 /\ calls < MaxCalls
    /\ calls' = calls + 1
    /\ todo' = Stop
    /\ over' = Running
    /\ UNCHANGED <<begun, active, shared, producers, lanes, loop, reports>>

\* now_playing, controls, up_next and source_info of the active source.
PublishCard ==
    /\ todo = <<>> /\ active # 0 /\ calls < MaxCalls
    /\ calls' = calls + 1
    /\ todo' = <<"NowPlaying">>
    /\ over' = over
    /\ UNCHANGED <<begun, active, shared, producers, lanes, loop, reports>>

Step(s) == todo # <<>> /\ Head(todo) = s /\ todo' = Tail(todo)

\* preempt(): take the flag out of the slot and raise it.
RaiseFlag ==
    /\ Step("flag")
    /\ stopped' = stopped \cup ({slot} \ {0})
    /\ slot' = 0
    /\ UNCHANGED <<calls, begun, active, over, current, epoch, producers, lanes, loop, reports>>

\* Slip: the outgoing session keeps its right to report.
RetireTicket_Forgotten ==
    /\ Step("retire")
    /\ current' = current
    /\ UNCHANGED <<calls, begun, active, slot, stopped, over, epoch, producers, lanes, loop,
                   reports>>

\* preempt(): EndReport::invalidate.
RetireTicket ==
    /\ Step("retire")
    /\ current' = current + 1
    /\ UNCHANGED <<calls, begun, active, slot, stopped, over, epoch, producers, lanes, loop,
                   reports>>

BeginEpoch ==
    /\ Step("epoch")
    /\ epoch' = epoch + 1
    /\ UNCHANGED <<calls, begun, active, slot, stopped, over, current, producers, lanes, loop,
                   reports>>

\* Install the flag, take the ticket, start the producer.  A decoded mirror keeps no flag;
\* play_audio refuses a source of the wrong kind with all this done and no thread.
Spawn ==
    /\ Step("spawn")
    /\ slot' = IF kind[begun] = "decoded" THEN slot ELSE begun
    /\ \E p \in {"run", "open", "dead"} :
        /\ p = "open" <=> kind[begun] = "music"
        /\ p = "dead" => kind[begun] = "audio"
        /\ phase' = [phase EXCEPT ![begun] = p]
    /\ tickets' = [tickets EXCEPT ![begun] = current]
    /\ epochs' = [epochs EXCEPT ![begun] = epoch]
    /\ UNCHANGED <<calls, begun, active, stopped, over, current, epoch, kind, lanes, loop,
                   reports>>

\* stop(), control(Stop) and publish_card put a transition on the control lane.
SendCommand ==
    \E c \in Commands :
        /\ Step(c)
        /\ control' = Append(control, [cmd |-> c, by |-> begun])
        /\ UNCHANGED <<calls, begun, active, over, shared, producers, frames, loop, reports>>

-----------------------------------------------------------------------------
(* The producers *)

At(n, p, q) == phase[n] = p /\ phase' = [phase EXCEPT ![n] = q]
KeepProducer == UNCHANGED <<manager, shared, kind, tickets, epochs>>

\* decode_into's layout callback: no picture.  Nothing looks at the stop flag.
AnnounceMusic(n) ==
    /\ At(n, "open", "run")
    /\ control' = Append(control, [cmd |-> "UrlAudioOnly", by |-> n])
    /\ KeepProducer /\ UNCHANGED <<frames, loop, reports>>

\* The frame callback of decode_into and decode_mirror reads the stop flag; a decoded
\* mirror's task has none to read.
TakeFrame(n) ==
    /\ kind[n] \in {"url", "encoded", "decoded"} /\ n \notin stopped
    /\ At(n, "run", "hold")
    /\ KeepProducer /\ UNCHANGED <<lanes, loop, reports>>

\* Slip: the frame lane takes whatever it is given.
SendFrame_NoBound(n) ==
    /\ At(n, "hold", "run")
    /\ frames' = Append(frames, [by |-> n, epoch |-> epoch])
    /\ KeepProducer /\ UNCHANGED <<control, loop, reports>>

\* RenderTx::send_frame: stamped as it is sent; dropped when the lane is full.
SendFrame(n) ==
    /\ At(n, "hold", "run")
    /\ frames' = IF Len(frames) < FrameDepth
                 THEN Append(frames, [by |-> n, epoch |-> epoch]) ELSE frames
    /\ KeepProducer /\ UNCHANGED <<control, loop, reports>>

\* The stop flag is seen, or a mirror's sender hangs up: the producer leaves quietly.
Leave(n) ==
    /\ n \in stopped \/ kind[n] \in {"encoded", "decoded", "audio"}
    /\ At(n, "run", "dead")
    /\ KeepProducer /\ UNCHANGED <<lanes, loop, reports>>

\* A URL item finishes or fails; an audio session cannot open its device.
Finish(n) ==
    /\ kind[n] \in {"url", "music", "audio"} /\ n \notin stopped
    /\ At(n, "run", IF kind[n] = "audio" THEN "check" ELSE "clear")
    /\ KeepProducer /\ UNCHANGED <<lanes, loop, reports>>

\* The item is over on its own account: the thread clears the screen ...
ThreadClears(n) ==
    /\ At(n, "clear", "check")
    /\ control' = Append(control, [cmd |-> "Clear", by |-> n])
    /\ KeepProducer /\ UNCHANGED <<frames, loop, reports>>

\* ... and reports it.  EndReport::report, the guard ...
CheckTicket(n) ==
    /\ At(n, "check", IF tickets[n] = current THEN "report" ELSE "dead")
    /\ KeepProducer /\ UNCHANGED <<lanes, loop, reports>>

\* ... and the send.
Report(n) ==
    /\ At(n, "report", "dead")
    /\ reports' = reports \cup {n}
    /\ KeepProducer /\ UNCHANGED <<lanes, loop>>

-----------------------------------------------------------------------------
(* The render loop: RenderLoop::frame *)

Elsewhere == UNCHANGED <<manager, shared, producers, reports>>
Receive(c) == control # <<>> /\ Head(control).cmd = c /\ control' = Tail(control)

\* apply(ClearVideo): the lane is emptied, the epoch being stamped right now is retired and
\* the clear is armed; apply(ClearNowPlaying) arms the card's.
ApplyClear ==
    /\ Receive("Clear")
    /\ frames' = <<>>
    /\ cleared' = epoch
    /\ due' = Surfaces
    /\ UNCHANGED <<up, layer>> /\ Elsewhere

\* apply(NowPlaying): a live card cancels the clear, is drawn and goes up.
ApplyNowPlaying ==
    /\ Receive("NowPlaying")
    /\ due' = due \ {"Card"}
    /\ layer' = [layer EXCEPT !["Card"] = Head(control).by]
    /\ up' = up \cup {"Card"}
    /\ UNCHANGED <<frames, cleared>> /\ Elsewhere

\* apply(UrlAudioOnly): the card's pixels are uploaded (set_now_playing), no more.
ApplyUrlAudioOnly ==
    /\ Receive("UrlAudioOnly")
    /\ layer' = [layer EXCEPT !["Card"] = Head(control).by]
    /\ UNCHANGED <<frames, cleared, due, up>> /\ Elsewhere

\* Slip: a frame of the next item leaves the clear armed.
ApplyVideo_KeepsClear ==
    /\ control = <<>> /\ frames # <<>>
    /\ frames' = Tail(frames)
    /\ IF Head(frames).epoch <= cleared THEN UNCHANGED <<due, up, layer>>
       ELSE /\ due' = due
            /\ layer' = [layer EXCEPT !["Video"] = Head(frames).by]
            /\ up' = up \cup {"Video"}
    /\ UNCHANGED <<control, cleared>> /\ Elsewhere

\* apply(Video), once the control lane is empty: a frame of a retired epoch is dropped; any
\* other cancels the clear and, unless the compositor refuses it, is shown.
ApplyVideo ==
    /\ control = <<>> /\ frames # <<>>
    /\ frames' = Tail(frames)
    /\ IF Head(frames).epoch <= cleared THEN UNCHANGED <<due, up, layer>>
       ELSE /\ due' = due \ {"Video"}
            /\ \/ /\ layer' = [layer EXCEPT !["Video"] = Head(frames).by]
                  /\ up' = up \cup {"Video"}
               \/ UNCHANGED <<up, layer>>
    /\ UNCHANGED <<control, cleared>> /\ Elsewhere

\* Both lanes empty: the clears of x fall due (run_due_clears), and a layer whose surface
\* is not on the panel goes (retire_finished).
Present(x) ==
    /\ control = <<>> /\ frames = <<>>
    /\ x \subseteq due /\ due' = due \ x
    /\ up' = up \ x
    /\ layer' = [s \in Surfaces |-> IF s \in up' THEN layer[s] ELSE 0]
    /\ UNCHANGED <<lanes, cleared>> /\ Elsewhere

Drain == ApplyClear \/ ApplyNowPlaying \/ ApplyUrlAudioOnly \/ ApplyVideo

Call == RaiseFlag \/ RetireTicket \/ BeginEpoch \/ Spawn \/ SendCommand

Next ==
    \/ \E k \in Kinds : Start(k)
    \/ End \/ TransportStop \/ PublishCard
    \/ RaiseFlag \/ RetireTicket \/ BeginEpoch \/ Spawn \/ SendCommand
    \/ \E n \in Sessions :
        \/ AnnounceMusic(n) \/ TakeFrame(n) \/ SendFrame(n) \/ Leave(n) \/ Finish(n)
        \/ ThreadClears(n) \/ CheckTicket(n) \/ Report(n)
    \/ ApplyClear \/ ApplyNowPlaying \/ ApplyUrlAudioOnly \/ ApplyVideo
    \/ \E x \in SUBSET Surfaces : Present(x)

\* A call in progress finishes (nothing in it waits); a thread on its way out, or with a
\* frame in hand, gets there; the loop drains what woke it; and as demand() names the
\* deadline of an armed clear, a present comes when it is due, however many frames arrive
\* meanwhile.
Fairness ==
    /\ WF_vars(Call) /\ WF_vars(Drain)
    /\ \A n \in Sessions : WF_vars(AnnounceMusic(n) \/ SendFrame(n) \/ ThreadClears(n)
                                   \/ CheckTicket(n) \/ Report(n))
    /\ SF_vars(Present(due))

Spec == Init /\ [][Next]_vars /\ Fairness

-----------------------------------------------------------------------------
(* Properties *)

Live(n) == phase[n] \in {"open", "run", "hold"} /\ n \notin over

\* preempt() can reach every producer there is: one whose flag is not up has it in the slot
\* (all but a decoded mirror, which ends with its channel), so no decode thread outlives
\* its session by having been forgotten; and it reaches nobody else: the flag of a session
\* the manager has not let go of is down.
PreemptReachesEveryone ==
    \A n \in Sessions :
        /\ (phase[n] \in {"open", "run", "hold"} /\ kind[n] # "decoded" /\ n \notin stopped)
            => slot = n
        /\ n \in stopped => n \in over

\* Once nobody is active for good, the panel is bare for good: no straggler out of a
\* decoder, and no mirror that goes on sending, keeps or restores a picture or a card
\* (#358: "froze the last frame of a stopped mirror on the glass").
IdlePanelGoesBare ==
    <>[](active = 0) => <>[](layer["Video"] = 0 /\ layer["Card"] = 0)

\* An item that ends on its own is heard of: until the manager lets go of it a session holds
\* the current ticket, so EndReport::report does not refuse it ("without it ... a queued
\* playlist never advanced past the first track"); and once a later session holds the
\* screen, no earlier one does.
TicketsAreCurrent ==
    \A n \in Sessions :
        phase[n] # "none" =>
            /\ n \notin over => tickets[n] = current
            /\ n < active /\ phase[active] # "none" => tickets[n] < current

\* A clear takes down the picture of the session it was meant for, never of the mirror that
\* replaced it: the successor's first frame cancels it (apply, Video).  Stated for
\* behaviours with no URL session about, whose thread may send its clear late.
ClearSparesTheMirror ==
    [][(\A n \in Sessions : kind[n] \notin {"url", "music"}) /\ "Video" \in up \ up'
        => ~(layer["Video"] = active /\ Live(active))]_vars

\* "Every frame of the new session outranks every clear armed for the old" (begin_epoch):
\* the epoch a live session stamps its frames with is never retired under it.
LiveOutranksClears ==
    \A n \in Sessions : Live(n) => epochs[n] > cleared

\* Music from a bare URL shows "a now-playing card rather than a black screen over music"
\* (RenderCommand::UrlAudioOnly): its card is not taken off while it plays.
MusicKeepsItsCard ==
    [][layer["Card"] # 0 /\ layer'["Card"] = 0 => ~Live(layer["Card"])]_vars
=============================================================================
