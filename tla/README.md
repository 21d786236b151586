# Castaway in TLA+

Castaway turns a touch panel into a receiver for everything people cast from: AirPlay,
Cast, DLNA, FCast, Miracast, Spotify, Bluetooth, GameStream, Matter, and web pages through
DIAL. This directory holds TLA+ models of the part all of them share (who holds the screen,
what the decode threads and the render loop do about it, and how a sleeping loop is woken),
of playback under pauses and seeks, of the protocol machinery where loss, credits and
wrap-around live, and of how the panel updates itself, with the TLC runs that check them
and TLAPS proofs of what matters most.

`PROJECT.json` lists components, runs, mutants, the definition-to-source map, findings,
hazards and theorems; this file explains them.

    tlc -workers 2 -config MCSessionManager.cfg MCSessionManager
    tlapm SessionManagerProofs.tla

## The system

| part | state it keeps | operations | talks to | what is hard |
|---|---|---|---|---|
| adapters (`crates/proto-*`) | one protocol session each | emit `SessionEvent`s, answer a `RemoteControl` | one bounded channel into the manager | they never coordinate; each may speak at any time |
| session manager (`core/src/session.rs`) | `active`, and four handles others read: remote, touch, casting, description | `handle` (14 events), `begin_session`, `media_ended`, `run` | adapters (channel in), remotes (awaited calls out), pipeline, display | it awaits parties that write into its own channel; an end report arrives on a second channel with no order between the two |
| render pipeline (`pipeline/src/render_pipeline.rs`) | stop-flag slot, card, end-report counter, frame epoch | `play`, `mirror`, `play_audio`, `host_page`, `control`, `stop`, `now_playing` ... | decode threads, render channel, manager's end channel | threads that outlive their session by a check-then-act |
| render channel (`RenderTx`/`RenderRx`) | an unbounded lane of transitions, a bounded lane of frames | `send`, `send_frame`, `begin_epoch`, `try_recv`, `discard_queued_frames` | producers, render loop | transitions overtake frames |
| render loop (`RenderLoop`) | surfaces on the panel, compositor layers, scheduled clears, the last retired epoch | `frame`: drain, tick, present; `demand` | compositor, panel layout | a clear scheduled for later against frames that arrive meanwhile |
| waker (`core/src/wake.rs`) and kiosk loop (`pipeline/src/kiosk.rs`) | target, latch; dirty, exit | `wake`, `arm`; winit callbacks | every producer, the stop signal | lost wake-ups |
| touch routing (`core/src/touch.rs`, `kiosk.rs`) | the slot, contacts down | `set`, `get`, `deliver_touch` | manager, adapters | a surface replaced while a finger is down |
| media clock, seek, audio sessions, mixer (`pipeline/src`) | anchor and pause, requested and announced seek, flush epochs, rings | request/take/served, flush/flushed, write/mix | decode and output threads | a pause, a seek and a preemption meeting threads that wait on each other |
| output stream (`pipeline/src/stream`) | viewers | start/stop | HTTP | back-pressure |
| L2CAP (`substrate-l2cap`) | per channel: window, sequence numbers, timers, a partial SDU | `send`, `receive`, `tick`, `fail_channel` | the ACL link | loss, wrap-around, two timers that stop each other |
| HCI flow control (`substrate-hci`), ACL writer and host (`proto-bluetooth-audio`) | credits per handle and in all, the command window, the queue behind each | claim/complete/link_down, submit/answered/abandon_oldest | the controller | credits returned twice or never, reused handles, late answers |
| RTP (`substrate-rtp`), RTSP, SDP, mDNS, SSDP substrates | reorder buffer; little else | push/pop | network | loss, duplication, wrap-around |
| FCast player (`proto-fcast/src/player.rs`) | queue, index, play state | load, queue edits, select, `media_ended` | senders, panel, session manager | edits around the item that plays; events sent after the lock is let go of |
| launcher and updater (`launcher`, `update`) | `current.txt`, `previous.txt`, version trees, health markers, strikes | `on_exit`, `look`, `stage`, `activate`, `mark_healthy_and_tidy` | the disk, the release API, `CastingHandle` | crash loops, power cuts, half-written trees, a restart against a cast that has just begun |
| application shell (`app`) | screens, settings, watchdog | navigation, DIAL screens, shutdown | everything | wiring |

Cryptography, codecs, GPU code, generated code and bindings carry no protocol state a
model would say anything about. `PROJECT.json` lists every part with the reason where it
is left out.

What makes the shared core correct: one source holds the screen and the last one to ask
gets it; nothing of a source that lost it stays reachable or visible; the pipeline is
stopped before it is given to somebody else; an item's end is told to the source it
belongs to, which may go on to its next one; no decode thread is forgotten; an idle panel
goes bare and stays bare; and no command and no stop request is left behind a sleeping loop.

What makes the other modelled parts correct. A seek is served, nothing from before it is
heard after it, and the position reported never snaps back. A retransmission channel
delivers what it accepted whole, once and in order, or both ends close. No credit is lost
or made up, and nothing waits for one for ever. Packets come out of the reorder buffer in
order and what is missing is counted. An FCast queue that is edited while it plays goes on
from the item that plays, and the panel shows what comes next, however late the events arrive. The launcher never spawns half a tree, gives up bits that keep
dying, and gets to the newest good release whatever fails on the way.

## The modules

**`Waker`** models `Waker::wake` and `Waker::arm` access by access, and around them the
kiosk's event loop: `resumed`, `user_event`, `window_event`, `RedrawRequested` (which lowers
`dirty` *before* it drains), `about_to_wait`. A producer queues and then wakes; the stop
signal raises the exit flag and then wakes. One pending user event stands for any number,
since winit delivers each the same way. A command in the channel is remembered by its
producer only.

**`SessionManager`** models the manager task with its suspension points. `pc` says what it
awaits: the remote it asks to pause (`pausing`), the display (`powering`), the pipeline call
(`starting`), the remote it tells of an end (`reporting`). Between two awaits the task runs
alone, so each stretch is one action; sources, remotes and end reports interleave with
them. `Begin`/`Preempt`/`PowerOn` are `begin_session`, `StartMedia` the call that follows
it, `Facts`, `Touch`, `Control` and `HandleEnd` the other arms of `handle`,
`MediaEnded`/`EndAfterReport` are `media_ended`. A remote of `Emitters` sends into the
manager's own channel before it answers (`RemoteEmits`), as the FCast, Cast and DLNA ones
do: one message for a pause, and for an end the whole of the next item's start (`Starting`:
Play, ControlSurface, NowPlaying, and UpNext where more follows). Metadata is reduced to the source it speaks for. The pipeline is what the manager sees
of it: the item it was last given, and whether that is over. **`Screen`** is what the manager
promises of the panel and the handles: one owner at a time, only the owner puts anything up,
and the screen changes hands empty. `SessionManager` implements it (`ImplementsScreen`, with
`owner <- active` and `shown` the source that the item, each part of the card and each handle
speaks for).

**`RenderPipeline`** opens that box. A pipeline call is a list of steps (`todo`), one per
shared word touched or command sent, because decode threads and the render thread run
between them: `preempt` raises the flag in the slot and retires the end ticket,
`begin_session` bumps the epoch, `Spawn` installs the new flag, takes the ticket and starts
the producer. A producer reads its stop flag, takes a frame, and sends it in separate
steps; a URL thread that finishes clears the screen, checks its ticket and reports in
separate steps. The loop drains control before frames (`ApplyClear`, `ApplyNowPlaying`,
`ApplyUrlAudioOnly`, `ApplyVideo`) and presents (`run_due_clears`, `retire_finished`).
The clear's grace is left out: an armed clear may fall due at any present. `ClearVideo`
and `ClearNowPlaying` are only ever sent together and touch different surfaces, so they
travel as one command. A surface that has begun to leave counts as gone.

These three do not share state. The composition is by interface: `RenderPipeline.Start`,
`End`, `TransportStop` and `PublishCard` make exactly the call sequences `SessionManager` makes (`stop` then
`play` over another source, `play` alone over one's own, `controls(NONE)` then `stop` at
the end), and `Waker.Send` is what every send on the render channel does.

**`PacedSession`** is one media-URL session from the inside: the decode thread
(`av_session`, `drain_paced`, `do_seek`), the output thread (`run_pcm`), the `MediaClock`
and the `SeekControl` they share, and the manager's task that pauses, seeks and preempts.
A position is the number of the seek that led to it and a block of sound is the position
it was read at. Each lock of `SeekControl` is a step: `request()` writes its slot and its
destination under two (`Request`, `RequestDestination`), `flush_audio` raises the epoch
(`Move`) and waits with a deadline (`FlushAudio`, which may return unanswered), and the
output thread reads the epoch (`Top`, `Hold`), drops the queue block by block, clears the
ring (`Drop`) and answers for the epoch it had read (`Flushed`). A frame the hardware decoder
cannot export may have the item opened again in software (`Rebuild`, the loop of
`decode_av`): from its beginning, a position of its own called `Again`, with clock, seek
handshake and queue as they were.

**`Ertm`** holds both ends of an L2CAP retransmission channel. A call into the engine is one
action, written as the code writes it: operators over the record of an end, applied one
after the other (`Acknowledge`, `Final`, then `OnInformation` or `OnSupervisory`, then
`Pump` and `ArmTimers`). The link keeps its order, as an ACL link does, and loses frames
(their checksum does not match). A timer is armed or not, and an armed one may run out at
any moment; `QuickPeer` says that the monitor timeout outlasts the frames in flight.
**`SduStream`** is what a channel promises the layer above, in one direction, and `Ertm`
implements it twice, once each way (`AtoB`, `BtoA` with the refinement mappings
`accepted <- Accepted(p)`, `delivered <- end[q].up`, `closed <- ~Open(p)`).

**`AclWriter`** is the task that hands ACL fragments to the Bluetooth controller, the credit
pool it claims from, the adapter loop that returns credits and the controller, which drops
links without reporting what it flushed and reuses handles. **`CommandWindow`** is
`CommandCredits` under the host's `on_event`, `pace` and `tick`, with a controller that
answers late, out of order or never. **`ReorderBuffer`** is the RTP reorder buffer as the
Miracast receiver uses it: packets are numbered without end and the buffer sees the number
modulo the sequence space.

**`FCastPlayer`** is the player the FCast senders share, with its callers and the way its
events take. A caller (a sender's connection, the panel's remote, the session manager inside
the remote's `media_ended`) changes the player under its lock (`Load`, `QueueInsert`,
`QueueRemove`, `Select`, `StopPlayer`, `MediaEnded`), lets go of it, and sends the events it
was given one by one into the manager's bounded channel (`Emit`), in between anything anybody
else does. At the other end the session manager handles them (`HandleEvent`): it takes the
screen for a Play, refuses the rest if FCast does not hold the screen, keeps the item the
pipeline plays and the panel's card, ends the session after an end report has been answered
(`EndAfterTelling`) and gives the screen to other sources (`TakenOver`). What it does for
FCast is repeated here in small, `SessionManager` has it in full. Pausing, seeking, volume and
speed change neither item nor queue and are left out with their events.

**`SelfUpdate`** is the update agent, the tidying task, the launcher and the install tree.
Every write to the disk is an action; the receiver may crash and the machine lose power
between any two. A version is its build number, a tree is absent, whole or has files
missing, and `bad` says which builds die young. The nightly window, the hold file and the
panel's activity decide only *when* the agent looks, stages or activates, and a person at
the panel overrides all but the hold file, so it may do so at any time. Two of its
promises do not hold if the tidying task, which runs on a timer of its own, overlaps with
staging (a finding below). `orderly` separates the behaviours where it does not: those are
the ones in which the other faults are asked about, and `orderly => ...` in a property
means just that. `PanelComesBack` needs no such proviso. A health marker that cannot be
written is one of the faults (`StartTidy`: the code logs it and tidies all the same), and
`NothingSpawnsHalfATree` and `PreviousWasHealthy` add to `orderly` that none has been: the
history variable `marked`.

What `SelfUpdate` takes for granted: a write that has completed survives a power cut (the code
renames into place but never flushes to disk, `paths/src/install.rs` `write_pointer`,
`agent.rs` `unzip_stripping_top_level`); the launcher's write of `current.txt` in a rollback,
and the tidying task's read of `previous.txt`, do not fail; and the tidying task sees the
directory as it was when it began, where the code reads it as it goes, which differs only if
tidying and staging overlap.

`MCWaker`, `MCSessionManager`, `MCRenderPipeline`, `MCErtm`, `MCSelfUpdate`,
`MCPacedSession`, `MCPlayer` and `MCParts` are the instances TLC runs. `MCParts` takes three
modules that share nothing (`AclWriter`, `CommandWindow`, `ReorderBuffer`) in one
run: a behaviour is one of a single component, chosen at the start, and its `TypeOK`,
`ControllerHasRoom` (no ACL fragment and no command without room) and `NothingIsStuck` (the
writer's queue drains, the window's commands go out) conjoin theirs. Operators
marked *Slip* are deliberately wrong variants of the definition after them; the mutants of
`PROJECT.json` put each in its place to see that a property notices.

## What the runs show

| run | checks | bounds |
|---|---|---|
| `waker` | no queued command is slept through (`NoSleepOnCommands`), and commands and an exit request are served in the end (`CommandsAreDrawn`, `ExitCloses`) | two producers, two sends each: one can be inside `wake` while the other races `arm` and a third command arrives mid-drain |
| `session` | `OnlyTheActiveSourceShows`, `CastingIsActive`, `ImplementsScreen` (the refinement) | two sources (a winner and a loser), every event, display that may refuse, channel of 2 so that it fills, two messages per source |
| `session_live` | `ManagerReturns`, `PlaylistAdvances` | channel of 8, exactly what can be in it: two messages of each of two sources and the four of one answered end (with 7 the manager may wait on itself); playlist of 4 items; no display |
| `pipeline` | `PreemptReachesEveryone`, `TicketsAreCurrent`, `ClearSparesTheMirror` | two sessions of url, encoded, decoded or audio kind in succession, one extra call, frame lane of 1 so that it fills |
| `pipeline_idle` | `IdlePanelGoesBare` | two sessions of encoded, decoded, music or page kind |
| `paced` | `AnsweredMeansClean`, `WaitingSeekIsAnnounced`, `NoSnapBack`, `RunningSessionSeeks`, `PreemptedSessionEnds` | two seeks, so that one is asked for while the other is served; audio queue of 2, so that it fills; items with sound, pictures or both; a hardware decoder that may be given up at any picture |
| `ertm` | `ImplementsStream` (the refinement), `NeitherEndIsAhead`, `OutstandingIsTimed`, `OneRejectPerGap`, `ArrivesOrBothClose` | sequence space of 6 with a window of 3, the largest the code allows for it (half), so seven frames one way go round the wrap; SDUs of 1, 3 and 2 frames against one the other way; two losses against two transmissions, so that channels also fail |
| `parts` | `NoCreditLeaks`, `ControllerHasRoom`, `NothingIsStuck`, `SentOnceInOrder`, `DeliversInOrder`, `HolesAreCounted` | writer: two handles, two buffers, two links (so one handle is reused), three PDUs of up to two fragments. Commands: window of one, five commands, all of whose answers may be lost. Reorder: space of 18 entered at 15, nineteen packets, so that a packet kept too long would meet its number again; depth 2, displacement 5, gaps of several: the farthest that `BufferAssumption` allows |
| `player` | `QueueIsWhatPlays` | one sender, the panel and the manager as callers; three items, v4 cap of 2, so that it fills; one overlap of two callers; channel of 5, so that it fills but takes the four events of an advance that the manager waits for |
| `update` | `NothingSpawnsHalfATree`, `PreviousWasHealthy`, `BadBitsLoseThePanel`, `LatestIsTaken`, `PanelComesBack` | three builds, of which the later two may be bad; two strikes instead of three; three faults (crashes of good versions, failing steps and marker writes, power cuts) if tidying and staging do not overlap, one if they may |
| `session_report`, `pipeline_epoch` | one documented claim each that the code does not keep; see the findings | |

Further configurations, one documented claim each, found violated the same way when run by
hand: `MCWaker_latch.cfg` (`EarlyWakesFire`), `MCSession_wait.cfg` (`ManagerReturns`),
`MCPipeline_music.cfg` (`MusicKeepsItsCard`), `MCErtm_allowance.cfg`
(`DiesOfItsLossesOnly`), `MCPaced_paused.cfg` (`PausedSessionSeeks`), `MCPaced_rebuild.cfg`
(`OnlySeeksMove`), `MCPlayer_mixed.cfg` (`PlaysCurrent`), `MCPlayer_surface.cfg`
(`SurfaceFollows`), `MCPlayer_idle.cfg` (`IdleIsSilent`), `MCUpdate_race.cfg`
(`AgentOwnsTheTree`), `MCUpdate_again.cfg` (`WaitingTreesAreUntried`),
`MCUpdate_fallback.cfg` (`UnmarkedFallsBackToHealthy`), `MCUpdate_unmarked.cfg`
(`UnmarkedSpawnsNoHalfATree`, which takes seven faults; within the three of `update` it holds).

A model stops when its bounds are used up, so deadlock is not checked; where the program
must not stop, a liveness property says so.

**Fairness.** `Waker`: the main thread runs, winit delivers a queued event and a requested
redraw (`Fairness`), each thread inside `wake` leaves it, and the channel is FIFO
(`ProducerFairness`). `SessionManager`: the
task is polled (weak), an awaited remote goes on with its sends (weak), and
`tokio::select!` picks a ready branch at random, so the end channel is not passed over for
ever (strong). Nothing is assumed of the sources. `RenderPipeline`: a call under way
finishes, a thread on its way out gets there, the loop drains what woke it, and, as
`demand()` names the deadline of an armed clear, a present comes when it is due (strong,
since frames keep arriving in between). No producer is assumed to stop by itself.
`PacedSession`: the two threads and the mixer run while they have something to do, since
every wait of theirs is sliced or bounded but the one a finding is about, and a request
finishes its second write; nobody has to pause, seek, resume or preempt. `Ertm`: the link
delivers or drops what it was given and the driver calls `tick` at the deadline
`next_timeout` names. `AclWriter`: both tasks are polled and the controller reports what it
has sent. `CommandWindow`: events are handled and the watchdog fires while a command is in
flight; the controller need not answer. `SelfUpdate`: the launcher restarts for ever, a bad
version does die and a good one settles, and the timers and tasks of a receiver that stays
up get their turn; nothing is assumed of faults but that they are finitely many.

**Limits of the properties.** `PlaylistAdvances` speaks of reports about the item really
playing (the other case is the first finding) and is checked with no display: between two
items the manager passes through idle, so a display that refuses to power on ends the
playlist. `ClearSparesTheMirror` leaves URL sessions out: a URL thread that has passed its
stop check may send its clear after its successor began. `ControllerHasRoom` speaks of ACL
fragments as long as each went out on the link it was queued for, and of commands as long as
none was given up on: both exceptions are what the code accepts, and the history variables
`crossed` and `abandoned` name them. `NoSnapBack` and `AnsweredMeansClean` leave out a flush
that was not answered in time, whose price `flush_audio` names, and what follows a software
rebuild until the next seek has moved the demuxer (`at # Again`; a finding).
`QueueIsWhatPlays` leaves out two callers whose events were on their way at once (`mixed`), and
what comes after until the player is started or stopped with nobody else's under way.
`ArrivesOrBothClose` rests on signalling being reliable: `fail_channel` sends its
DisconnectionRequest once, and `Lose` spares it.
`NothingSpawnsHalfATree` and `PreviousWasHealthy` speak of behaviours that are `orderly` and
in which every marker was written. `LatestIsTaken` leaves out a
tree of the newest version that could only be removed in part: `rename` refuses to name a
new one over it until a later boot has tidied it away. `SelfUpdate!TypeOK` is not part of a
run: `SelfUpdateProofs!Typing` proves it.

### Findings

Shown by a run of the project:

1. `session_report`: a `PlaybackEnd` already queued when another item starts ends that
   item's session. The ticket that guards it is checked before the send, and the message
   carries no identity to check again.
2. `pipeline_epoch`: the old session's `ClearVideo` retires whatever epoch is current when
   the render thread gets to it. A takeover stops and starts back to back, so that may be
   the new session's, all of whose frames are then dropped.

Shown by one of the further configurations:

3. `MCPaced_paused.cfg`: while a session is paused the audio queue fills and the decode
   thread blocks in its send, the one wait that looks neither at a seek nor at the stop flag.
   A seek asked for then waits for the resume.
4. `MCSession_wait.cfg`: the manager awaits a remote that writes into the manager's own
   channel. With the channel full it waits on itself.
5. `MCPipeline_music.cfg`: `UrlAudioOnly` uploads the card's layer without putting its
   surface on the panel; the next present removes it.
6. `MCWaker_latch.cfg`: a wake racing `arm` may be left in the latch. Harmless: the first
   redraw looks at the channel anyway, which is what `NeverSleepsOnWork` proves.
7. `MCErtm_allowance.cfg`: a REJ followed by the answer to an earlier poll sends the window
   twice, so a channel may die of fewer losses than its allowance.
8. `MCUpdate_race.cfg`: the tidying task removes the directory the agent is staging into,
   or the tree it has just named and not yet given its manifest.
9. `MCUpdate_again.cfg`: a version that was rolled back from is rediscovered as waiting and
   activated again.
10. `MCUpdate_fallback.cfg`, `MCUpdate_unmarked.cfg`: a health marker that could not be
    written costs more than "one unnecessary rollback". The version goes on to update, and
    `previous.txt` names it unmarked; rolled back twice over, an older version may take up
    again a tree that a newer one has half removed, and spawn it.
11. `MCPaced_rebuild.cfg`: when hardware decoding is given up in the middle, the item starts
    from its beginning without a flush, with the clock where it was and a seek just taken
    forgotten, though it is "the same playback to the viewer".
12. `MCPlayer_mixed.cfg`: two callers of the FCast player may have their events sent in the
    other order than their changes were made. A Stop that is sent before
    the Play of an earlier load leaves the panel playing what the player has unloaded, and no
    further Stop ends it.
13. `MCPlayer_surface.cfg`: Next and Previous on the panel send a Play without the control
    surface the other two senders of a Play put behind it; after an end in between, FCast
    holds the screen with no remote.
14. `MCPlayer_idle.cfg`: an end report that waits while a sender starts another item makes
    the player idle and its senders hear so, and the item then plays.

Met while modelling, each excluded from the property it would violate (the property's
comment says so): the health marker comes later than the documents say, so `previous.txt`
may name a version that never reported itself healthy; a request's two writes may straddle
a whole seek and leave the destination announced; PDUs queued for a dead link go out on the
next link of a reused handle; the card keeps an old list when an item with nothing after it
starts; and with a command window of two or more, answers in flight overstate it.

## What is proved

| theorem | statement | argument |
|---|---|---|
| `WakerProofs!Typing` | `Spec => []TypeOK` | inductive as it stands |
| `WakerProofs!NeverSleepsOnWork` | `Spec => [](NoSleepOnCommands /\ NoSleepOnExit)` | for a command or an exit flag somebody is still on the way to wake the loop, or something it will look at is set; a latched wake needs the added fact that before `Resumed` the loop has yet to ask for its first redraw |
| `WakerProofs!EveryCommandIsDrawn` | `Spec /\ []GuardsSuffice => CommandsAreDrawn` | liveness, below: from arming to the frame that drains the command |
| `SessionManagerProofs!Typing` | `Spec => []TypeOK` | with the remote's pending calls typed by their owner |
| `SessionManagerProofs!LastWriterWins` | `Spec => [](OnlyTheActiveSourceShows /\ CastingIsActive)` | strengthened by what each suspension point still owes: while powering nobody is active and nothing is shown, while starting the event's source is the active one |
| `SessionManagerProofs!CastingAgrees` | `Spec => []CastingIsActive` | the updater's half of `LastWriterWins` |
| `SessionManagerProofs!TakeoverStopsFirst` | `Spec => NoSplice` | from the same invariant: an item starts only over its own source's or none |
| `SessionManagerProofs!OneOwnerAtATime` | `Spec => ImplementsScreen` | the refinement of `Screen`, step by step: a step either keeps the owner and puts up or takes down some parts (`PartsCome`, `PartsGo`) or gives the screen away empty (`HandsChange`) |
| `SessionManagerProofs!OnlyAFullChannelHoldsIt` | `Spec /\ []AwaitsCanEnd /\ []~Clogged => ManagerReturns` | liveness, below: what an awaited remote has to say is four messages at the most, and each of them is a stage |
| `RenderPipelineProofs!Typing` | `Spec => []TypeOK` | together with the shape of a call: the spawn, if any, is its last step |
| `RenderPipelineProofs!NobodyIsForgotten` | `Spec => []PreemptReachesEveryone` | between the flag and the spawn of one call the slot is empty, so the spawn overwrites nobody's flag; a flag still to be raised is that of a session the manager has already let go of |
| `RenderPipelineProofs!ReportsKeepTheirRight` | `Spec => []TicketsAreCurrent` | no ticket is ahead of the counter; while a retire is pending every session there is has been let go of; once it is done and the spawn is not, every ticket out is stale |
| `RenderPipelineProofs!MirrorsAreSpared` | `Spec => ClearSparesTheMirror` | while the active session's picture is up and the session live, no clear is armed, queued or still to be queued by the call under way; a session's first frame comes after every clear queued before its spawn, since transitions overtake frames, and disarms them |
| `PacedSessionProofs!Typing` | `Spec => []TypeOK` | each seek asked for moves the epoch at most once, so epochs are bounded by seeks, and the output thread never answers for one not reached |
| `PacedSessionProofs!FlushIsClean` | `Spec => []AnsweredMeansClean` | once queue and ring were emptied for the current epoch, what is there was read at the new position, although the answer is still to come |
| `PacedSessionProofs!SeeksAreAnnounced` | `Spec => []WaitingSeekIsAnnounced` | between the two writes of a request the slot holds nothing else, and a seek being served is announced unless a request is half made |
| `PacedSessionProofs!PositionStays` | `Spec => []NoSnapBack` | between the flush and the new anchor aside, the clock is where the demuxer is or nowhere |
| `PacedSessionProofs!SeeksAreTaken` | `Spec /\ []ThreadsCanStep => RunningSessionSeeks` | liveness, below: the decode thread is at most a lap of its loop from the slot, and a full queue is one output step from room |
| `PartsProofs!PlayerTyping` | `PlayerSpec => []PlayerTypeOK` | a loaded queue has a current item, no more items than have appeared and, if it is a v4 one, no more than the cap |
| `PartsProofs!QueueKeepsItsPlace` | `PlayerSpec => []QueueIsWhatPlays` | the events on their way, below |
| `PartsProofs!BufferTyping` | `BufferSpec => []BufferTypeOK` | a push that leaves more than the depth gives a gap up, and then at least one packet comes out |
| `PartsProofs!OrderIsKept` | `BufferSpec => DeliversInOrder` | the buffer without the wrap, below |
| `PartsProofs!LossIsExact` | `BufferSpec => []HolesAreCounted` | what comes out of one push is a run, from the packet due or from the end of the gap given up |
| `HciFlowProofs!Typing` | `CommandSpec => []CommandTypeOK` | commands wait only for want of a credit; nothing is in flight that was not sent |
| `HciFlowProofs!EachGoesOutOnce` | `CommandSpec => []SentOnceInOrder` | what is sent followed by what waits is what was submitted, through every loop of the release |
| `HciFlowProofs!OneSlotIsEnough` | `Window = 1` gives `CommandSpec => []CommandsFit` | the one credit is with the host, or in the controller, or in the answer on its way, or was lost |
| `HciFlowProofs!WriterTyping` | `WriterSpec => []WriterTypeOK` | the total of the pool is the sum of what is out for the handles, and at most the capacity |
| `HciFlowProofs!CreditsDoNotLeak` | `WriterSpec => []NoCreditLeaks` | the life of a handle, below |
| `HciFlowProofs!FragmentsHaveRoom` | `WriterSpec => []FragmentsFit` | the other way round: while nothing has crossed to another link, all that the controller has or reports is paid for |
| `PartsProofs!EachKeepsItsSpec` | `Spec => WriterSpec /\ CommandSpec /\ BufferSpec` | a step of the composition is a step of one part and a stutter of the others, so that what is proved of a part holds of the whole |
| `PartsProofs!PartsTyping` | `Spec => []TypeOK` | from the typing of the three parts |
| `PartsProofs!RoomIsKept` | `Window = 1` gives `Spec => []ControllerHasRoom` | `FragmentsHaveRoom` and `OneSlotIsEnough` of the parts |
| `SelfUpdateProofs!Typing` | `Spec => []TypeOK` | together with what the agent's and the tidying task's counters say of the pointers |
| `SelfUpdateProofs!OnlyWholeTreesAreSpawned` | `Spec => []NothingSpawnsHalfATree` | the pointers name whole trees: what waits above the current version is whole, and is one version, the one the agent has staged |
| `SelfUpdateProofs!FallsBackToHealthy` | `Spec => []PreviousWasHealthy` | nothing is staged above a version that has not reported healthy, and tidying spares the version to fall back to |
| `ErtmProofs!Typing` | `Spec => []TypeOK` | operator by operator: each stretch of an engine call keeps the record of an end typed |
| `ErtmProofs!SomethingAlwaysTicks` | `Spec => []OutstandingIsTimed` | an engine waits for the answer to a poll exactly while the monitor timer runs; `ArmTimers` closes every call |
| `ErtmProofs!HalvesAgree` | `Spec => []NeitherEndIsAhead` | the ledger, below |
| `ErtmProofs!GapsAreRejectedOnce` | `Spec => []OneRejectPerGap` | the ledger also says for which gap each REJ under way was sent; the next gap begins later |
| `ErtmProofs!ChannelIsAStream` | `Spec => ImplementsStream` | the refinement of `SduStream`, step by step, from the ledger |

They hold for every set of producers and sources, every number and kind of session, every
channel and queue depth, every number of builds, SDUs and losses and every mix of events,
from the assumptions named in the modules (`MaxSendsAssumption`, `SessionAssumption`,
`PipelineAssumption`, `MaxSeeksAssumption`, `AudioQueueAssumption`, `PlayerAssumption`,
`CommandAssumption`, `WriterAssumption`, `UpdateAssumption`, `ErtmAssumption`, `BufferAssumption`), which say no
more than that bounds are numbers, for `AclWriter` that there is a handle and a buffer
(`set_capacity` clamps the pool to one), for `Ertm` that the window is at most half the sequence
space, and for `ReorderBuffer` that the network displaces packets by less than half of it:
serial arithmetic cannot tell more. With the code's 16 bits and depth of 8 that is any
displacement below 32767 and, sufficient rather than necessary, gaps of up to 3640 packets
between arrivals.
`OneSlotIsEnough` and `RoomIsKept` add `Window = 1`, the value the host starts with: with
more the property is false (see the findings). `OnlyWholeTreesAreSpawned` and
`FallsBackToHealthy` inherit the `orderly /\ marked =>` of their properties, `FlushIsClean` and
`PositionStays` the `at # Again`, and `QueueKeepsItsPlace` the `~mixed =>`. None of the invariants
is inductive by itself: each says what is true between two steps of a call or on the far
side of an await only if one also knows what the call still has to do, and that is what
the strengthenings add. In `RenderPipelineProofs` the steps of the producers and of the
render loop are dealt with at once (`ProducersQuiet`, `LoopQuiet`): they change nothing the
invariant looks at but a producer's own phase.

**The ledger of `ErtmProofs`.** The engine knows only numbers modulo the sequence space, and
nothing it stores says how often the count has gone round. The proof keeps, for each
direction, a *ledger* (`Flow`) of the numbers without the wrap: of the oldest frame the
sender holds, the next it will send and the one the receiver is due, of every frame and
every acknowledgement under way, and all fragments given to the channel so far. `Direction`
says what ties a ledger to the two ends, and `Agrees` that there is one each way: the
numbers are ordered (`Ordered`), the window and the queue hold the fragments from the
oldest on (`Holds`), a frame under way carries the fragment of its number (`Carries`),
acknowledgements and rejections under way never overtake each other (`Answers`), the
fragments are the accepted SDUs cut up (`Cuts`) and what was handed up is what is complete
below the one due (`Handed`). Two numbers less than the sequence space apart that agree
modulo it are the same (`Apart`, `Same`); that every comparison the engine makes is between
two such numbers is where the window has to be at most half the space. Since the ledger is
under an existential quantifier, each operator of the engine has a lemma that gives the next
ledger from the last (`FlowPumps`, `FlowResends`, `FlowRetires`, `FlowGiven`, `InTurn`), or
says that the operator leaves alone what a ledger speaks of (`Quiet`, `Silent`). A step of
the channel is then a chain of these. The refinement needs nothing more than `Handed` and
`Cuts`: whole SDUs at the receiver are the first of the accepted ones.

**The reorder buffer without the wrap.** What the buffer does in terms of numbers modulo the
space is what a buffer that knew the packets would do (`Finding`, `EnforcedIs`, `RunIs`,
`Pushed`), as long as everything it holds lies less than half the space ahead of the packet
due (`Near`). That this stays so is the invariant: between the packet due and the newest that
has arrived there are packets enough waiting to have got there by the network's steps
(`Dense`), and of those the buffer keeps only its depth (`SpansLittle`). From it, a packet is
refused exactly when it is older than one taken out or waits already (`ArrivalIs`).

**The events on their way.** What the player and the panel agree on is not a matter of the
state but of what is still to be heard: the channel, followed by what one caller has yet to
send (`Undisturbed`). Of these the last to start or stop the pipeline sets it to the item the
player stands at (`PlaysRight`), and the very last tells the card what follows (`ShowsRight`).
A change of the player with nobody else's events under way makes both so
(`RightOnceStarted`, `RightOnceStopped`, `RightOnceEdited`, from what an insert and a removal
do to the place of every other item, `PuttingIn`, `TakingOut`); sending and hearing keep them
so (`Sending`, `RightOnceHeard`, `RightOnceShown`); and when nothing is left to be heard they
say what `QueueIsWhatPlays` says (`RightWhenSilent`).

**The life of a handle.** That no credit leaks, and that the controller has room, both depend
on which link of a handle an event, a PDU and a credit belong to, which the code does not
store. `WriterInv` says it of each handle (`PerHandle`): every link but the newest has its end
on the way (`UpsGoDown`, `NewestIsLast`); nothing is queued for a link the actor has not
heard of (`Unheard`); once the actor has heard of the end, nothing is out and the handle is
dead to the writer (`Settled`); what is reported complete comes before the end of its link,
and after that the controller holds nothing (`Flushed`). `PaidFor` and `NoLeak` are then the
two inequalities between what is out and what the controller has. The sums over handles and
over the events on their way are folds, which the library defines by recursion on sets: that
the recursion has a solution (`SumsExist`), that it does not matter which element it takes
first (`SumsAdd`), and hence what one handle's change does to the total (`TotalMoves`) and
what an event adds or takes (`GivenMore`, `GivenFewer`) are proved by least counterexamples.

**Liveness.** Three of the properties checked under fairness are also proved, each the same
way. What stands between the question and the answer is cut into finitely many stages
(`At("swap")`, `Rings(p)`, `Ready`, `Awaits(1)`, ...). One lemma says which stage there must
be; one that a step of anybody leaves a stage only for one nearer to the end (`Nearer`,
`DecodeStays`, `OutputStays`); one that the action fair at that stage ends it. A step of
temporal logic per stage chains them. The prover knows nothing of `ENABLED`, so that the fair
action of a stage is enabled there is a hypothesis of each theorem, a predicate on states
(`GuardsSuffice`, `ThreadsCanStep`, `AwaitsCanEnd`). Each says what can be read off the
guards, and TLC finds it true in every reachable state of an instance: `WakerProofs.cfg`,
`PacedSessionProofs.cfg` and `SessionManagerProofs.cfg` check it, on the module of that name.
`OnlyAFullChannelHoldsIt` has one hypothesis more, `[]~Clogged`: a remote the manager awaits
finds room in the manager's own channel. The code does not see to that (finding 4); the
theorem says that it is the only thing that can hold the manager up. It is true of the
instance of `SessionManagerProofs.cfg`, whose channel has room for all that is ever sent.

**Only model-checked.** `ENABLED`, as said; and the other liveness properties (`ExitCloses`,
`PreemptedSessionEnds`, `PlaylistAdvances`, `IdlePanelGoesBare`, `ArrivesOrBothClose`,
`NothingIsStuck`, `BadBitsLoseThePanel`, `LatestIsTaken`, `PanelComesBack`): the number of
their stages grows with the commands still to be queued, a queue, a window, the sessions, the
strikes or the faults to come, and to go down such a measure takes an induction in temporal
logic, which the prover does not do. The other side of
the findings is a counterexample and not a theorem. What a loop over a sequence of any length
or a fold over a set computes can be proved where a least counterexample shows it
(`UnspentAreSome`, `SubmittedKeepsOrder`, `ReleaseKeepsOrder`, `SumsAdd`, from the lemma
`Least`: the induction theorems of the library cannot be used, but that every set of naturals
has a least element can).

## Plan

Proofs: every safety property of a passing run is proved, and the liveness properties whose
stages are finitely many for every value of the constants. What is left of liveness would
need an induction the prover does not have.

Models still worth having: the DLNA transport and GENA subscriptions; L2CAP channel
configuration; AVDTP stream states; the Miracast handshake; `SelfUpdate` composed with
`CastingHandle`.

## Not modelled

Wall-clock time, springs and layout (`motion.rs`, `panel.rs`), pixels, codecs and audio
samples; the transport strip and shell screens of the render loop; `RestPanel`, which moves
screens and not sessions; the OSD; the adapters' own protocols but for FCast's player and
Bluetooth's flow control; everything `PROJECT.json` marks `not_modelled`.

The map covers a small share of the repository's lines. Most of them are not control: wire
formats and their parsers, pairing and decryption, tables (`crypto-playfair`), generated
code (`fcast-flatbuf`), FFmpeg, GPU and audio-device calls, screen layout and drawing,
settings, HTTP clients, and the unit tests that sit in the same files. What there is of
concurrency, recovery and protocol state lies in files of a few hundred lines each, and the
models follow those.
