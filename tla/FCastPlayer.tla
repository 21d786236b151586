----------------------------- MODULE FCastPlayer -----------------------------
(***************************************************************************)
(* The player the FCast receiver shares between its senders               *)
(* (proto-fcast/src/player.rs), and what becomes of the events a command   *)
(* is answered with: a caller changes the player under its lock, lets go   *)
(* of the lock and only then sends the events, one by one, into the        *)
(* channel of the session manager (adapter.rs apply, emit_all; control.rs),*)
(* which has the pipeline play the item and keeps the panel's card: the    *)
(* track and what comes after it (core/src/session.rs, render_pipeline.rs  *)
(* now_playing, up_next).                                                  *)
(*                                                                         *)
(* A caller is a sender's connection, the panel's remote, or the session   *)
(* manager itself when it reports the end of an item.  An item is the      *)
(* number of its appearance, which stands for its title; indices count     *)
(* from one.  Pausing, volume, speed and seeking change neither the item   *)
(* nor the card, and are left out with their events.                       *)
(***************************************************************************)
EXTENDS Naturals, Sequences, SequencesExt

CONSTANTS
    Senders,       \* the connections
    MaxQueue,      \* the cap of a v4 queue (256)
    MaxItems,      \* bound: items that ever appear
    MaxOverlaps,   \* bound: times two callers get in each other's way
    Room           \* the room in the session manager's channel (64)

ASSUME PlayerAssumption ==
    /\ MaxQueue \in Nat /\ MaxItems \in Nat /\ MaxOverlaps \in Nat
    /\ Room \in Nat \ {0}
    /\ Senders \cap {"panel", "manager"} = {}

VARIABLES
    loaded,        \* Loaded: queue, index, is_playlist, autoplay, v4_queue
    state,         \* PlayState
    items,         \* items that have appeared
    overlaps,      \* times a caller changed the player while another had events to send
    mixed,         \* history: that has happened since the player was last started or
                   \* stopped with nobody else having anything to send
    calls,         \* the events each caller has still to send
    channel,       \* the events the session manager has still to handle
    active,        \* FCast holds the screen
    remote,        \* its control surface is published
    telling,       \* the session manager is inside the remote's media_ended
    playing,       \* the item the pipeline plays, 0 for none
    ended,         \* an item has ended and the report waits
    card           \* up_next of the panel's card

player == <<loaded, state, items, overlaps, mixed>>
said == <<calls, channel>>
manager == <<active, remote, telling>>
screen == <<playing, ended, card>>
playerVars == <<player, said, manager, screen>>

Callers == Senders \cup {"panel", "manager"}

Nothing == [queue |-> <<>>, index |-> 0, playlist |-> FALSE, autoplay |-> FALSE,
            v4 |-> FALSE]

IsLoaded == loaded # Nothing

Current == loaded.queue[loaded.index]

Fresh(n) == [i \in 1..n |-> items + i]

\* up_next(): the items after the current one.
UpNext(l) == SubSeq(l.queue, l.index + 1, Len(l.queue))

-----------------------------------------------------------------------------
(* Events *)

SessionEvent(is, item, list) == [is |-> is, item |-> item, list |-> list]
Play(item) == SessionEvent("Play", item, <<>>)
ControlSurface == SessionEvent("ControlSurface", 0, <<>>)
NowPlaying(item) == SessionEvent("NowPlaying", item, <<>>)
WhatFollows(l) == SessionEvent("UpNext", 0, UpNext(l))
Stop == SessionEvent("Stop", 0, <<>>)

\* start_current: what is said of the item l is at.  emit_all and media_ended put the
\* control surface behind a Play; the panel's own verbs do not.
StartCurrent(l, c) ==
    LET item == l.queue[l.index]
        started == IF c = "panel" THEN <<Play(item), NowPlaying(item)>>
                   ELSE <<Play(item), ControlSurface, NowPlaying(item)>>
    IN IF UpNext(l) = <<>> THEN started ELSE Append(started, WhatFollows(l))

PlayerInit ==
    /\ loaded = Nothing
    /\ state = "Idle"
    /\ items = 0
    /\ overlaps = 0
    /\ mixed = FALSE
    /\ calls = [c \in Callers |-> <<>>]
    /\ channel = <<>>
    /\ active = FALSE /\ remote = FALSE /\ telling = FALSE
    /\ playing = 0
    /\ ended = FALSE
    /\ card = <<>>

-----------------------------------------------------------------------------
(* The callers, under the lock *)

Overlaps(c) == \E d \in Callers \ {c} : calls[d] # <<>>

\* A caller comes back for the lock when it has sent what it had to, whatever another has
\* still to send; the panel needs a control surface to press.
Calls(c, starts) ==
    /\ calls[c] = <<>>
    /\ c = "panel" => remote
    /\ IF Overlaps(c) THEN overlaps < MaxOverlaps /\ overlaps' = overlaps + 1
                      ELSE UNCHANGED overlaps
    /\ mixed' = (Overlaps(c) \/ (mixed /\ ~starts))

Leaves(c, events) ==
    /\ calls' = [calls EXCEPT ![c] = events]
    /\ UNCHANGED <<channel, manager, screen>>

\* load and load_v4: a single item, or a list of them from a start index,
\* which a v3 playlist brings into range and a v4 queue has in range.
Load(c, n, start, playlist, v4, autoplay) ==
    /\ Calls(c, TRUE)
    /\ items + n <= MaxItems
    /\ v4 => n <= MaxQueue /\ start <= n /\ playlist
    /\ ~playlist => n = 1
    /\ ~v4 => autoplay
    /\ items' = items + n
    /\ loaded' = [queue |-> Fresh(n), index |-> IF start > n THEN n ELSE start,
                  playlist |-> playlist, autoplay |-> autoplay, v4 |-> v4]
    /\ state' = "Playing"
    /\ Leaves(c, StartCurrent(loaded', c))

\* Slip: an item inserted at the current place leaves the index alone.
QueueInsert_AtCurrent(c, at) ==
    /\ Calls(c, FALSE)
    /\ loaded.v4
    /\ items < MaxItems
    /\ Len(loaded.queue) < MaxQueue
    /\ at \in 1..(Len(loaded.queue) + 1)
    /\ items' = items + 1
    /\ loaded' = [loaded EXCEPT !.queue = InsertAt(@, at, items + 1),
                                !.index = IF at < @ THEN @ + 1 ELSE @]
    /\ UNCHANGED state
    /\ Leaves(c, <<WhatFollows(loaded')>>)

\* queue_insert_v4: refused without a queue, at the cap and past the end;
\* an item put at or before the current one moves it along.
QueueInsert(c, at) ==
    /\ Calls(c, FALSE)
    /\ loaded.v4
    /\ items < MaxItems
    /\ Len(loaded.queue) < MaxQueue
    /\ at \in 1..(Len(loaded.queue) + 1)
    /\ items' = items + 1
    /\ loaded' = [loaded EXCEPT !.queue = InsertAt(@, at, items + 1),
                                !.index = IF at <= @ THEN @ + 1 ELSE @]
    /\ UNCHANGED state
    /\ Leaves(c, <<WhatFollows(loaded')>>)

\* queue_remove_v4: refused past the end and for the current item.
QueueRemove(c, at) ==
    /\ Calls(c, FALSE)
    /\ loaded.v4
    /\ at \in 1..Len(loaded.queue)
    /\ at # loaded.index
    /\ loaded' = [loaded EXCEPT !.queue = RemoveAt(@, at),
                                !.index = IF at < @ THEN @ - 1 ELSE @]
    /\ UNCHANGED <<state, items>>
    /\ Leaves(c, <<WhatFollows(loaded')>>)

\* queue_select_v4, set_playlist_item and, from the panel, step: the item is started
\* again, even the current one.
Select(c, at) ==
    /\ Calls(c, TRUE)
    /\ loaded.playlist
    /\ at \in 1..Len(loaded.queue)
    /\ c = "panel" => at \in {loaded.index - 1, loaded.index + 1}
    /\ loaded' = [loaded EXCEPT !.index = at]
    /\ state' = "Playing"
    /\ UNCHANGED items
    /\ Leaves(c, StartCurrent(loaded', c))

\* stop, and media_failed: unloads.
StopPlayer(c) ==
    /\ Calls(c, TRUE)
    /\ IsLoaded
    /\ loaded' = Nothing
    /\ state' = "Idle"
    /\ UNCHANGED items
    /\ Leaves(c, <<Stop>>)

\* The next of a caller's events goes into the channel, which may have to be waited for.
Emit(c) ==
    /\ calls[c] # <<>>
    /\ Len(channel) < Room
    /\ channel' = Append(channel, Head(calls[c]))
    /\ calls' = [calls EXCEPT ![c] = Tail(@)]
    /\ UNCHANGED <<player, manager, screen>>

-----------------------------------------------------------------------------
(* The session manager *)

\* The card takes a track that heads its own list off it (now_playing).
Advanced(up, item) == IF up # <<>> /\ Head(up) = item THEN Tail(up) ELSE up

\* handle(): the next event.  A Play takes the screen if FCast does not hold it, and
\* every other event is refused then.
HandleEvent ==
    /\ ~telling
    /\ channel # <<>>
    /\ channel' = Tail(channel)
    /\ LET e == Head(channel)
       IN /\ active' = (active \/ e.is = "Play")
          /\ remote' = (remote \/ (active /\ e.is = "ControlSurface"))
          /\ playing' = IF e.is = "Play" THEN e.item
                        ELSE IF active /\ e.is = "Stop" THEN 0
                        ELSE playing
          /\ card' = IF ~active THEN card
                     ELSE IF e.is = "NowPlaying" THEN Advanced(card, e.item)
                     ELSE IF e.is = "UpNext" THEN e.list
                     ELSE IF e.is = "Stop" THEN <<>>
                     ELSE card
    /\ UNCHANGED <<player, calls, telling, ended>>

\* End, and what a takeover makes of the source that loses the screen.
LosesScreen ==
    /\ active' = FALSE /\ remote' = FALSE
    /\ playing' = 0
    /\ card' = <<>>

\* The pipeline reaches the end of the item, or fails on it (bound: one report waits).
PipelineEnds ==
    /\ playing # 0
    /\ ~ended
    /\ ended' = TRUE
    /\ playing' = 0
    /\ UNCHANGED <<player, said, manager, card>>

\* media_ended with nobody to tell: FCast does not hold the screen, or has published no
\* control surface.
EndUntold ==
    /\ ended /\ ~telling /\ ~remote
    /\ ended' = FALSE
    /\ IF active THEN LosesScreen ELSE UNCHANGED <<active, remote, playing, card>>
    /\ UNCHANGED <<player, said, telling>>

\* media_ended: the remote advances an autoplaying queue that has more, and otherwise
\* leaves the player idle with its queue.  The events go to the manager's own channel.
MediaEnded(finished) ==
    /\ ended /\ ~telling /\ remote
    /\ ended' = FALSE /\ telling' = TRUE
    /\ IF finished /\ IsLoaded /\ loaded.autoplay /\ loaded.index < Len(loaded.queue)
       THEN /\ Calls("manager", TRUE)
            /\ loaded' = [loaded EXCEPT !.index = @ + 1]
            /\ state' = "Playing"
            /\ calls' = [calls EXCEPT !["manager"] = StartCurrent(loaded', "manager")]
       ELSE /\ state' = "Idle"
            /\ UNCHANGED <<loaded, overlaps, mixed, calls>>
    /\ UNCHANGED <<items, channel, active, remote, playing, card>>

\* ... and when it has sent them, the session ends, ahead of what is in the channel.
EndAfterTelling ==
    /\ telling
    /\ calls["manager"] = <<>>
    /\ telling' = FALSE
    /\ LosesScreen
    /\ UNCHANGED <<player, said, ended>>

\* Another source takes the screen (begin_session): the remote is asked to pause.
TakenOver ==
    /\ active /\ ~telling
    /\ LosesScreen
    /\ UNCHANGED <<player, said, telling, ended>>

-----------------------------------------------------------------------------
Call(c) ==
    \/ \E at \in 1..(MaxItems + 1) : Select(c, at)
    \/ StopPlayer(c)

SenderCall(c) ==
    \/ \E n \in 1..MaxItems, start \in 1..MaxQueue,
          playlist, v4, autoplay \in BOOLEAN : Load(c, n, start, playlist, v4, autoplay)
    \/ \E at \in 1..(MaxItems + 1) : QueueInsert(c, at) \/ QueueRemove(c, at)

PlayerNext ==
    \/ \E c \in Senders : SenderCall(c)
    \/ \E c \in Senders \cup {"panel"} : Call(c)
    \/ \E c \in Callers : Emit(c)
    \/ HandleEvent
    \/ PipelineEnds
    \/ EndUntold
    \/ \E finished \in BOOLEAN : MediaEnded(finished)
    \/ EndAfterTelling
    \/ TakenOver

PlayerSpec == PlayerInit /\ [][PlayerNext]_playerVars

-----------------------------------------------------------------------------
Item == 1..MaxItems

Said == [is : {"Play", "ControlSurface", "NowPlaying", "UpNext", "Stop"},
         item : Item \cup {0}, list : Seq(Item)]

PlayerTypeOK ==
    /\ loaded.queue \in BoundedSeq(Item, MaxItems)
    /\ loaded.v4 => Len(loaded.queue) <= MaxQueue
    /\ loaded.index \in 0..Len(loaded.queue)
    /\ loaded.playlist \in BOOLEAN /\ loaded.autoplay \in BOOLEAN /\ loaded.v4 \in BOOLEAN
    /\ state \in {"Idle", "Playing"}
    /\ items \in 0..MaxItems /\ overlaps \in 0..MaxOverlaps /\ mixed \in BOOLEAN
    /\ calls \in [Callers -> Seq(Said)]
    /\ channel \in Seq(Said) /\ Len(channel) <= Room
    /\ active \in BOOLEAN /\ remote \in BOOLEAN /\ telling \in BOOLEAN
    /\ playing \in Item \cup {0} /\ ended \in BOOLEAN
    /\ card \in Seq(Item)

\* Everything that was said has been heard.
AllHeard == channel = <<>> /\ ~telling /\ \A c \in Callers : calls[c] = <<>>

\* Once everything has been heard, the item the pipeline plays is the one the player
\* stands at, so the next end advances from there (player.rs media_ended) ...
PlaysCurrent == AllHeard /\ playing # 0 => IsLoaded /\ playing = Current

\* ... and while anything follows it the card shows just that, in order.
CardFollows == AllHeard /\ playing # 0 /\ UpNext(loaded) # <<>> => card = UpNext(loaded)

\* Senders and panel see the queue that plays, whatever is inserted and removed around
\* the current item, however long its events are on their way, through takeovers and
\* late reports of an end (player.rs queue_insert_v4, queue_remove_v4, media_ended;
\* adapter.rs emit_all) - as long as nobody changes the player while another caller's
\* events are still to be sent, and again once it is started or stopped undisturbed.
QueueIsWhatPlays == ~mixed => PlaysCurrent /\ CardFollows

\* While FCast holds the screen and everything has been heard, its control surface is
\* published (control.rs media_ended, adapter.rs emit_all).
SurfaceFollows == AllHeard /\ active => remote

\* A player nobody has disturbed does not tell its senders it is idle while the pipeline
\* plays its item (player.rs media_ended).
IdleIsSilent == ~mixed /\ AllHeard /\ playing # 0 => state # "Idle"
=============================================================================
