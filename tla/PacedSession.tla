---------------------------- MODULE PacedSession ----------------------------
(***************************************************************************)
(* One media-URL session of the render pipeline: the decode thread         *)
(* (av_session, do_seek), the PCM output thread (run_pcm), the clock they  *)
(* share (MediaClock), the seek handshake between them (SeekControl), the  *)
(* mixer input they feed and the session manager's task that pauses,       *)
(* resumes, seeks and preempts.                                            *)
(*                                                                         *)
(* A position is the number of the seek that led to it: 0 is the start of  *)
(* the item, n the target of the n-th seek, and Again the start once more, *)
(* when the decoder was rebuilt and the item reopened.  A block of decoded *)
(* sound is the position it was read at; pictures carry no state and are   *)
(* only the waits of the decode thread.                                    *)
(***************************************************************************)
EXTENDS Integers, Sequences, SequencesExt

CONSTANTS
    MaxSeeks,      \* how many seeks are asked for
    AudioQueue     \* AUDIO_QUEUE, the bound on decoded blocks

ASSUME MaxSeeksAssumption == MaxSeeks \in Nat
ASSUME AudioQueueAssumption == AudioQueue \in Nat \ {0}

VARIABLES
    hasAudio,      \* the item has sound (MediaLayout)
    hasVideo,      \* the item has pictures
    hardware,      \* FallbackPolicy: "off", "preferred" or "only"
    stop,          \* the session's stop flag
    seek,          \* SeekControl: requested, destination, epoch, drained
    asking,        \* the target of a request() between its two writes
    asked,         \* seeks asked for so far
    clock,         \* MediaClock: anchor, paused, frozen
    decode,        \* where the decode thread is
    at,            \* the position the demuxer reads from
    going,         \* the target do_seek is serving
    gaveUp,        \* the last flush_audio returned unanswered (history)
    queue,         \* decoded blocks between the two threads
    out,           \* where the output thread is
    hand,          \* the block it has received
    wanted,        \* the epoch it is flushing for
    ring           \* what it has handed to the mixer and is not yet heard

driver == <<asking, asked>>
decoder == <<decode, at, going, gaveUp>>
output == <<out, hand, wanted>>
shape == <<hasAudio, hasVideo, hardware>>
vars == <<shape, stop, seek, driver, clock, decoder, queue, output, ring>>

Nowhere == -1

Again == MaxSeeks + 1

Position == 0..Again

MaybePosition == Position \cup {Nowhere}

Preference == {"off", "preferred", "only"}

Serving == {"moving", "flushing", "anchoring", "serving"}

DecodeState == {"loop", "pacing", "sending", "tail", "done"} \cup Serving

OutState == {"top", "receive", "hold", "write", "drop", "acknowledge", "done"}

-----------------------------------------------------------------------------
(* MediaClock.  Positions stand for the instants around them: what the     *)
(* clock interpolates between two anchors is left out.                     *)

\* now(): the frozen position of a paused clock, else the running one.
Now == IF clock.paused THEN clock.frozen ELSE clock.anchor

\* anchor_at: a pause waiting for somewhere to land freezes here.
Anchored(c, p) ==
    [c EXCEPT !.anchor = p,
              !.frozen = IF c.paused /\ c.frozen = Nowhere THEN p ELSE @]

\* seek_to: overrules the anchor and what a pause froze.
SoughtTo(c, p) ==
    [c EXCEPT !.anchor = p, !.frozen = IF c.paused THEN p ELSE @]

\* set_paused.
SetPaused(c, paused) ==
    IF c.paused = paused THEN c
    ELSE IF paused THEN [c EXCEPT !.paused = TRUE, !.frozen = c.anchor]
    ELSE [anchor |-> IF c.frozen = Nowhere THEN c.anchor ELSE c.frozen,
          paused |-> FALSE, frozen |-> Nowhere]

FlushWanted == seek.epoch # seek.drained

-----------------------------------------------------------------------------
\* A session as RenderPipeline::play starts it: both threads at the top of
\* their loops, and, for an item resumed part way, its first seek asked for.
Init ==
    /\ hasAudio \in BOOLEAN
    /\ hasVideo \in BOOLEAN
    /\ hasAudio \/ hasVideo
    /\ hardware \in IF hasVideo THEN Preference ELSE {"off"}
    /\ stop = FALSE
    /\ asked \in {0, 1} \cap 0..MaxSeeks
    /\ asking = Nowhere
    /\ seek = [requested |-> IF asked = 1 THEN 1 ELSE Nowhere,
               destination |-> IF asked = 1 THEN 1 ELSE Nowhere,
               epoch |-> 0, drained |-> 0]
    /\ clock = [anchor |-> Nowhere, paused |-> FALSE, frozen |-> Nowhere]
    /\ decode = "loop" /\ at = 0 /\ going = Nowhere /\ gaveUp = FALSE
    /\ queue = <<>>
    /\ out = "top" /\ hand = Nowhere /\ wanted = 0
    /\ ring = Nowhere

-----------------------------------------------------------------------------
(* The session manager's task.  One task drives the session, so nothing    *)
(* else of it happens between the two writes of a request.  The pipeline   *)
(* keeps the handle of a session a mirror has preempted, so a pause or a   *)
(* seek may still reach one that is winding down.                          *)

\* request(), its first lock: the slot the decode thread takes from.
Request ==
    /\ asking = Nowhere
    /\ asked < MaxSeeks
    /\ asked' = asked + 1
    /\ asking' = asked + 1
    /\ seek' = [seek EXCEPT !.requested = asked + 1]
    /\ UNCHANGED <<shape, stop, clock, decoder, queue, output, ring>>

\* request(), its second lock.
RequestDestination ==
    /\ asking # Nowhere
    /\ seek' = [seek EXCEPT !.destination = asking]
    /\ asking' = Nowhere
    /\ UNCHANGED <<shape, stop, asked, clock, decoder, queue, output, ring>>

\* ControlTxn::Pause and ControlTxn::Play.
Transport(paused) ==
    /\ asking = Nowhere
    /\ clock.paused # paused
    /\ clock' = SetPaused(clock, paused)
    /\ UNCHANGED <<shape, stop, seek, driver, decoder, queue, output, ring>>

\* begin_session or stop(): the flag both threads look at.
Preempt ==
    /\ asking = Nowhere /\ ~stop
    /\ stop' = TRUE
    /\ UNCHANGED <<shape, seek, driver, clock, decoder, queue, output, ring>>

-----------------------------------------------------------------------------
(* The decode thread.                                                      *)

\* The stop flag, looked at on every turn of the loop and of both waits.
DecodeStops ==
    /\ decode \in {"loop", "pacing", "tail"}
    /\ stop
    /\ decode' = "done"
    /\ UNCHANGED <<shape, stop, seek, driver, clock, at, going, gaveUp, queue, output, ring>>

\* take(): the slot is emptied and what is held from before is cleared.
Take ==
    /\ decode = "loop"
    /\ ~stop
    /\ seek.requested # Nowhere
    /\ going' = seek.requested
    /\ seek' = [seek EXCEPT !.requested = Nowhere]
    /\ decode' = "moving"
    /\ UNCHANGED <<shape, stop, driver, clock, at, gaveUp, queue, output, ring>>

\* With no seek to serve: a picture comes out of the decoder, a block of
\* sound is decoded, or the item has been read to its end.
Read ==
    /\ decode = "loop"
    /\ ~stop
    /\ seek.requested = Nowhere
    /\ \/ hasVideo /\ decode' = "pacing"
       \/ hasAudio /\ decode' = "sending"
       \/ decode' = IF hasVideo THEN "tail" ELSE "done"
    /\ UNCHANGED <<shape, stop, seek, driver, clock, at, going, gaveUp, queue, output, ring>>

\* start_video_master: the first picture starts a clock nothing has anchored.
Started(c) == IF c.anchor = Nowhere THEN Anchored(c, at) ELSE c

\* drain_paced: the first picture starts a clock nothing has anchored, and
\* the picture is shown when its wait is over; a pause holds it for as long
\* as it lasts, and a waiting seek sends it back unshown.
Pace ==
    /\ decode = "pacing"
    /\ ~stop
    /\ \/ /\ seek.requested # Nowhere
          /\ decode' = "loop"
          /\ UNCHANGED clock
       \/ /\ clock.anchor = Nowhere
          /\ clock' = Started(clock)
          /\ UNCHANGED decode
       \/ /\ clock.anchor # Nowhere
          /\ ~clock.paused
          /\ decode' = "loop"
          /\ UNCHANGED clock
    /\ UNCHANGED <<shape, stop, seek, driver, at, going, gaveUp, queue, output, ring>>

\* Slip: the channel between the threads has no bound.
Send_Unbounded ==
    /\ decode = "sending"
    /\ queue' = Append(queue, at)
    /\ decode' = "loop"
    /\ UNCHANGED <<shape, stop, seek, driver, clock, at, going, gaveUp, output, ring>>

\* tx.send: blocks on a full queue, fails once the output thread has gone.
Send ==
    /\ decode = "sending"
    /\ \/ /\ out = "done"
          /\ decode' = "done"
          /\ UNCHANGED queue
       \/ /\ out # "done"
          /\ Len(queue) < AudioQueue
          /\ queue' = Append(queue, at)
          /\ decode' = "loop"
    /\ UNCHANGED <<shape, stop, seek, driver, clock, at, going, gaveUp, output, ring>>

\* The pictures left at the end of the item: each waits for its turn, for
\* EOF_HOLD or for a seek, and then the session is over.
PlayOut ==
    /\ decode = "tail"
    /\ ~stop
    /\ ~clock.paused \/ seek.requested # Nowhere
    /\ decode' = "done"
    /\ UNCHANGED <<shape, stop, seek, driver, clock, at, going, gaveUp, queue, output, ring>>

\* A picture whose wait is over cannot be exported and the policy falls back
\* (Export::Restart): av_session returns and decode_av calls it again.  The
\* item is opened anew, if it can be, and read from its beginning; the clock,
\* the seek handshake and what was decoded stay.  A session for hardware only
\* tries the hardware again.
Rebuild ==
    /\ decode \in {"pacing", "tail"}
    /\ ~stop /\ ~clock.paused /\ seek.requested = Nowhere
    /\ hardware # "off"
    /\ hardware' = IF hardware = "preferred" THEN "off" ELSE hardware
    /\ clock' = Started(clock)
    /\ \/ decode' = "loop" /\ at' = Again
       \/ decode' = "done" /\ UNCHANGED at
    /\ UNCHANGED <<hasAudio, hasVideo, stop, seek, driver, going, gaveUp, queue, output, ring>>

\* do_seek: the demuxer refuses, or it moves, both decoders are flushed and
\* the output thread is told (flush_audio's epoch).
Move ==
    /\ decode = "moving"
    /\ \/ /\ decode' = "serving"
          /\ UNCHANGED <<at, seek>>
       \/ /\ at' = going
          /\ IF hasAudio
             THEN /\ seek' = [seek EXCEPT !.epoch = @ + 1]
                  /\ decode' = "flushing"
             ELSE /\ UNCHANGED seek
                  /\ decode' = "anchoring"
    /\ UNCHANGED <<shape, stop, driver, clock, going, gaveUp, queue, output, ring>>

\* Slip: the wait for the output thread has no deadline.
FlushAudio_Forever ==
    /\ decode = "flushing"
    /\ seek.drained = seek.epoch
    /\ gaveUp' = FALSE
    /\ decode' = "anchoring"
    /\ UNCHANGED <<shape, stop, seek, driver, clock, at, going, queue, output, ring>>

\* flush_audio's wait: the answer, or FLUSH_GRACE without one.
FlushAudio ==
    /\ decode = "flushing"
    /\ gaveUp' = (seek.drained # seek.epoch)
    /\ decode' = "anchoring"
    /\ UNCHANGED <<shape, stop, seek, driver, clock, at, going, queue, output, ring>>

\* Slip: a pause keeps the position it froze on.
SeekClock_KeepsFrozen ==
    /\ decode = "anchoring"
    /\ clock' = [clock EXCEPT !.anchor = going]
    /\ decode' = "serving"
    /\ UNCHANGED <<shape, stop, seek, driver, at, going, gaveUp, queue, output, ring>>

\* do_seek's last step: the clock is re-anchored.
SeekClock ==
    /\ decode = "anchoring"
    /\ clock' = SoughtTo(clock, going)
    /\ decode' = "serving"
    /\ UNCHANGED <<shape, stop, seek, driver, at, going, gaveUp, queue, output, ring>>

\* Slip: served() clears the destination whatever is requested.
Served_Always ==
    /\ decode = "serving"
    /\ seek' = [seek EXCEPT !.destination = Nowhere]
    /\ going' = Nowhere
    /\ decode' = "loop"
    /\ UNCHANGED <<shape, stop, driver, clock, at, gaveUp, queue, output, ring>>

\* served(): under the lock of the slot, the destination is cleared unless
\* another seek is waiting.
Served ==
    /\ decode = "serving"
    /\ seek' = [seek EXCEPT !.destination =
                    IF seek.requested = Nowhere THEN Nowhere ELSE @]
    /\ going' = Nowhere
    /\ decode' = "loop"
    /\ UNCHANGED <<shape, stop, driver, clock, at, gaveUp, queue, output, ring>>

-----------------------------------------------------------------------------
(* The output thread.                                                      *)

\* The top of run_pcm's loop: a flush is answered before a block is taken.
Top ==
    /\ out = "top"
    /\ IF FlushWanted
       THEN out' = "drop" /\ wanted' = seek.epoch
       ELSE out' = "receive" /\ UNCHANGED wanted
    /\ UNCHANGED <<shape, stop, seek, driver, clock, decoder, queue, hand, ring>>

\* recv_timeout: a block, a timeout (where only the stop flag ends the
\* thread), or the end of a queue nobody will write to again.
Receive ==
    /\ out = "receive"
    /\ IF queue # <<>>
       THEN /\ queue' = Tail(queue)
            /\ hand' = IF stop THEN Nowhere ELSE Head(queue)
            /\ out' = IF stop THEN "done" ELSE "hold"
       ELSE /\ out' = IF stop \/ decode = "done" THEN "done" ELSE "top"
            /\ UNCHANGED <<queue, hand>>
    /\ UNCHANGED <<shape, stop, seek, driver, clock, decoder, wanted, ring>>

\* Slip: the pause loop does not look at the stop flag.
Hold_NoStop ==
    /\ out = "hold"
    /\ clock.paused
    /\ FlushWanted
    /\ out' = "drop" /\ wanted' = seek.epoch
    /\ UNCHANGED <<shape, stop, seek, driver, clock, decoder, queue, hand, ring>>

\* A pause holds the block; a preemption ends the thread and a flush is
\* answered from here.
Hold ==
    /\ out = "hold"
    /\ clock.paused
    /\ \/ stop /\ out' = "done" /\ hand' = Nowhere /\ UNCHANGED wanted
       \/ ~stop /\ FlushWanted /\ out' = "drop" /\ wanted' = seek.epoch /\ UNCHANGED hand
    /\ UNCHANGED <<shape, stop, seek, driver, clock, decoder, queue, ring>>

\* The block is published on the clock before it is written.
Observe ==
    /\ out = "hold"
    /\ ~clock.paused
    /\ clock' = Anchored(clock, hand)
    /\ out' = "write"
    /\ UNCHANGED <<shape, stop, seek, driver, decoder, queue, hand, wanted, ring>>

\* MixInput::write: waits for room, and after WRITE_DEADLINE drops the block
\* rather than wait on; a shape with no conversion ends the thread.
Write ==
    /\ out = "write"
    /\ \/ ring = Nowhere /\ ring' = hand /\ out' = "top"
       \/ ring # Nowhere /\ UNCHANGED ring /\ out' = "top"
       \/ UNCHANGED ring /\ out' = "done"
    /\ hand' = Nowhere
    /\ UNCHANGED <<shape, stop, seek, driver, clock, decoder, queue, wanted>>

\* service_seek_flush empties the queue a block at a time, then the mixer's
\* ring.
Drop ==
    /\ out = "drop"
    /\ IF queue # <<>>
       THEN queue' = Tail(queue) /\ UNCHANGED <<out, ring>>
       ELSE out' = "acknowledge" /\ ring' = Nowhere /\ UNCHANGED queue
    /\ UNCHANGED <<shape, stop, seek, driver, clock, decoder, hand, wanted>>

\* Slip: the epoch is read again for the answer.
Flushed_Reread ==
    /\ out = "acknowledge"
    /\ seek' = [seek EXCEPT !.drained = seek.epoch]
    /\ out' = IF hand = Nowhere THEN "receive" ELSE "top"
    /\ hand' = Nowhere
    /\ UNCHANGED <<shape, stop, driver, clock, decoder, queue, wanted, ring>>

\* flushed(): answers for the epoch that was read before the dropping, and
\* goes on to receive, or back to the top from the pause loop.
Flushed ==
    /\ out = "acknowledge"
    /\ seek' = [seek EXCEPT !.drained = wanted]
    /\ out' = IF hand = Nowhere THEN "receive" ELSE "top"
    /\ hand' = Nowhere
    /\ UNCHANGED <<shape, stop, driver, clock, decoder, queue, wanted, ring>>

\* The mixer thread takes what is in the ring to the device.
Mixed ==
    /\ ring # Nowhere
    /\ ring' = Nowhere
    /\ UNCHANGED <<shape, stop, seek, driver, clock, decoder, queue, output>>

-----------------------------------------------------------------------------
Decode == DecodeStops \/ Take \/ Read \/ Pace \/ Send \/ PlayOut \/ Rebuild
            \/ Move \/ FlushAudio \/ SeekClock \/ Served

Output == Top \/ Receive \/ Hold \/ Observe \/ Write \/ Drop \/ Flushed

Next ==
    \/ Request
    \/ RequestDestination
    \/ \E paused \in BOOLEAN : Transport(paused)
    \/ Preempt
    \/ Decode
    \/ Output
    \/ Mixed

\* Both threads and the mixer are operating-system threads whose waits are
\* all bounded or sliced: each keeps running while it has something to do.
\* A request finishes what it began.  Nobody has to pause, seek or preempt.
Fairness ==
    /\ WF_vars(Decode)
    /\ WF_vars(Output)
    /\ WF_vars(Mixed)
    /\ WF_vars(RequestDestination)

Spec == Init /\ [][Next]_vars /\ Fairness

-----------------------------------------------------------------------------
TypeOK ==
    /\ hasAudio \in BOOLEAN /\ hasVideo \in BOOLEAN /\ hardware \in Preference
    /\ stop \in BOOLEAN
    /\ seek \in [requested : MaybePosition, destination : MaybePosition,
                 epoch : 0..MaxSeeks, drained : 0..MaxSeeks]
    /\ asking \in MaybePosition /\ asked \in 0..MaxSeeks
    /\ clock \in [anchor : MaybePosition, paused : BOOLEAN, frozen : MaybePosition]
    /\ decode \in DecodeState /\ at \in Position /\ going \in MaybePosition
    /\ gaveUp \in BOOLEAN
    /\ queue \in BoundedSeq(Position, AudioQueue)
    /\ out \in OutState /\ hand \in MaybePosition /\ wanted \in 0..MaxSeeks
    /\ ring \in MaybePosition

\* An answered flush leaves nothing old: once the output thread has echoed
\* the current epoch, every block in the queue, in its hand and in the
\* mixer's ring was read at the position the demuxer moved to, however late
\* the answer came and whatever was decoded meanwhile
\* (audio_session.rs service_seek_flush).  A rebuild reads the item from its
\* beginning and flushes nothing: from then to the next move nothing is said.
AnsweredMeansClean ==
    ~FlushWanted /\ at # Again =>
        \A p \in ToSet(queue) \cup {hand, ring} : p \in {at, Nowhere}

\* A seek that is waiting to be taken is where the presentation is said to
\* be going: serving an older seek never wipes it (seek.rs served).
WaitingSeekIsAnnounced ==
    asking = Nowhere /\ seek.requested # Nowhere
        => seek.destination = seek.requested

\* Once a seek has been served and its flush was answered, the position
\* reported is the one the demuxer is at: neither a late block nor a pause
\* around the seek brings the old position back (do_seek's order, #232),
\* until a rebuild takes the demuxer back to the beginning.
NoSnapBack ==
    /\ at # Again
    /\ seek.destination = Nowhere
    /\ asking = Nowhere
    /\ ~gaveUp
    => Now \in {at, Nowhere}

\* A session that is not paused takes every seek it is asked for, unless
\* the item ends first: no wait of the decode thread outlasts a seek.
RunningSessionSeeks ==
    []<>(clock.paused \/ seek.requested = Nowhere \/ decode = "done")

\* A preempted session ends, both threads, even paused with a full queue
\* between them and even while a seek waits for its answer.
PreemptedSessionEnds ==
    []<>(~stop \/ (decode = "done" /\ out = "done"))

\* "Something that never stopped playing" (ffmpeg_decode.rs decode_av) stays
\* where it is: nothing but a seek moves the demuxer.
OnlySeeksMove == [][at' # at => decode = "moving"]_vars

\* A seek is served while the session is paused ("scrubbing a paused session
\* is the ordinary way people find a spot"): the wait of the decode thread
\* is interrupted rather than outlasted.
PausedSessionSeeks ==
    []<>(seek.requested = Nowhere \/ decode = "done")
=============================================================================
