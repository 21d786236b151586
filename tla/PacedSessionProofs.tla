---------------------------- MODULE PacedSessionProofs ----------------------------
(***************************************************************************)
(* For any number of seeks and any bound on the queue between the two      *)
(* threads of a media-URL session: a flush that was answered leaves        *)
(* nothing from before the seek, a waiting seek is announced, and the      *)
(* position reported never snaps back.                                     *)
(***************************************************************************)
EXTENDS PacedSession, TLAPS

(***************************************************************************)
(* The handshake.  Each seek asked for moves the epoch at most once, and   *)
(* the output thread never answers for an epoch that has not been reached. *)
(***************************************************************************)
SeeksCount ==
    seek.epoch + (IF seek.requested = Nowhere THEN 0 ELSE 1)
               + (IF decode = "moving" THEN 1 ELSE 0) <= asked

EpochsFollow == seek.drained <= wanted /\ wanted <= seek.epoch

\* While a seek is served its target is known, and from the move on it is where the
\* demuxer is.
GoingSomewhere ==
    /\ decode \in Serving => going \in Position
    /\ decode \in {"flushing", "anchoring"} => at = going

TypeInv == TypeOK /\ SeeksCount /\ EpochsFollow /\ GoingSomewhere

(***************************************************************************)
(* The sound.  A session without any never handles a block; and from the   *)
(* moment the queue and the ring were emptied for the current epoch, what  *)
(* is there was read at the new position, although the answer is still to  *)
(* come.                                                                   *)
(***************************************************************************)
SilentIsEmpty ==
    ~hasAudio => /\ queue = <<>> /\ hand = Nowhere /\ ring = Nowhere
                 /\ decode # "sending"

DroppedIsClean ==
    out = "acknowledge" /\ wanted = seek.epoch /\ at # Again
        => \A p \in ToSet(queue) \cup {ring} : p \in {at, Nowhere}

CleanInv == SilentIsEmpty /\ DroppedIsClean /\ AnsweredMeansClean

(***************************************************************************)
(* The announcement.  Between the two writes of a request the slot holds   *)
(* nothing else, and a seek under way is announced once no request is      *)
(* half made.                                                              *)
(***************************************************************************)
HalfRequest == asking # Nowhere /\ seek.requested # Nowhere => seek.requested = asking

ServingIsAnnounced == decode \in Serving /\ asking = Nowhere => seek.destination # Nowhere

SeekInv == WaitingSeekIsAnnounced /\ HalfRequest /\ ServingIsAnnounced

(***************************************************************************)
(* The clock.  A flush is unanswered only while it is waited for or after  *)
(* it was given up; a pause with nowhere to land has no anchor either; and *)
(* between the flush and the new anchor aside, the clock is where the      *)
(* demuxer is.                                                             *)
(***************************************************************************)
UnansweredIsKnown == FlushWanted => decode = "flushing" \/ gaveUp

PausedNowhere == clock.paused /\ clock.frozen = Nowhere => clock.anchor = Nowhere

ClockFollows ==
    decode \notin {"flushing", "anchoring"} /\ ~gaveUp /\ at # Again
        => Now \in {at, Nowhere}

ClockInv == UnansweredIsKnown /\ PausedNowhere /\ ClockFollows

Inv == TypeInv /\ CleanInv /\ SeekInv /\ ClockInv
-----------------------------------------------------------------------------
(* Bounded sequences, by what Append and Tail make of them. *)

\* A bounded sequence is a sequence that is no longer than the bound.
LEMMA BoundedIsShort ==
    ASSUME NEW S, NEW n \in Nat, NEW s
    PROVE  s \in BoundedSeq(S, n) <=> s \in Seq(S) /\ Len(s) <= n
<1>1. ASSUME s \in BoundedSeq(S, n) PROVE s \in Seq(S) /\ Len(s) <= n
  <2>1. PICK m \in 0..n : s \in [1..m -> S]
    BY <1>1 DEF BoundedSeq, SeqOf
  <2> QED BY <2>1
<1>2. ASSUME s \in Seq(S), Len(s) <= n PROVE s \in BoundedSeq(S, n)
  <2>1. s \in [1..Len(s) -> S] /\ Len(s) \in 0..n
    BY <1>2
  <2> QED BY <2>1 DEF BoundedSeq, SeqOf
<1> QED BY <1>1, <1>2

\* What is in a queue after a block was added, and after one was taken.
LEMMA QueueContents ==
    ASSUME NEW S, NEW s \in Seq(S), NEW e \in S
    PROVE  /\ ToSet(Append(s, e)) = ToSet(s) \cup {e}
           /\ s # <<>> => /\ Head(s) \in ToSet(s)
                          /\ ToSet(Tail(s)) \subseteq ToSet(s)
           /\ ToSet(<<>>) = {}
  BY SMTT(30) DEF ToSet
-----------------------------------------------------------------------------
(* Types and the handshake. *)

Clock == [anchor : MaybePosition, paused : BOOLEAN, frozen : MaybePosition]

\* What anchors, seeks and pauses make of a clock is a clock, and what it then says.
LEMMA ClockOps ==
    ASSUME NEW c \in Clock, NEW p \in MaybePosition, NEW paused \in BOOLEAN
    PROVE  /\ Anchored(c, p) \in Clock
           /\ SoughtTo(c, p) \in Clock
           /\ SetPaused(c, paused) \in Clock
<1> USE DEF Clock
<1>1. Anchored(c, p) \in Clock
  <2>1. (IF c.paused /\ c.frozen = Nowhere THEN p ELSE c.frozen) \in MaybePosition
    OBVIOUS
  <2> QED BY <2>1 DEF Anchored
<1>2. SoughtTo(c, p) \in Clock
  <2>1. (IF c.paused THEN p ELSE c.frozen) \in MaybePosition
    OBVIOUS
  <2> QED BY <2>1 DEF SoughtTo
<1>3. SetPaused(c, paused) \in Clock
  <2>1. Nowhere \in MaybePosition
    BY DEF MaybePosition
  <2>2. (IF c.frozen = Nowhere THEN c.anchor ELSE c.frozen) \in MaybePosition
    OBVIOUS
  <2>3. CASE c.paused = paused
    BY <2>3 DEF SetPaused
  <2>4. CASE c.paused # paused /\ paused
    BY <2>4 DEF SetPaused
  <2>5. CASE c.paused # paused /\ ~paused
    BY <2>1, <2>2, <2>5 DEF SetPaused
  <2> QED BY <2>3, <2>4, <2>5
<1> QED BY <1>1, <1>2, <1>3

\* The types hold at the start.
LEMMA InitType == Init => TypeInv
<1> SUFFICES ASSUME Init PROVE TypeInv
  OBVIOUS
<1> USE MaxSeeksAssumption, AudioQueueAssumption
<1>1. queue \in BoundedSeq(Position, AudioQueue)
  <2>1. AudioQueue \in Nat /\ queue \in Seq(Position) /\ Len(queue) <= AudioQueue
    BY DEF Init
  <2> QED BY <2>1, BoundedIsShort
<1>2. asked \in Position /\ 0 \in Position /\ (asked = 1 => 1 \in Position)
  BY DEF Init, Position, Again
<1>3. TypeOK
  <2>1. /\ seek \in [requested : MaybePosition, destination : MaybePosition,
                     epoch : 0..MaxSeeks, drained : 0..MaxSeeks]
        /\ clock \in [anchor : MaybePosition, paused : BOOLEAN, frozen : MaybePosition]
    BY <1>2 DEF Init, MaybePosition
  <2>2. asked \in 0..MaxSeeks /\ hardware \in Preference
    BY DEF Init, Preference
  <2> QED BY <1>1, <1>2, <2>1, <2>2 DEF Init, TypeOK, MaybePosition, DecodeState,
                                         OutState, Serving
<1>4. SeeksCount /\ EpochsFollow /\ GoingSomewhere
  BY <1>2 DEF Init, SeeksCount, EpochsFollow, GoingSomewhere, Position, Nowhere, Serving
<1> QED BY <1>3, <1>4 DEF TypeInv

\* The queue stays a queue of positions, no longer than AUDIO_QUEUE.
LEMMA QueueTyped == TypeOK /\ [Next]_vars => queue' \in BoundedSeq(Position, AudioQueue)
<1> SUFFICES ASSUME TypeOK, [Next]_vars PROVE queue' \in BoundedSeq(Position, AudioQueue)
  OBVIOUS
<1> USE AudioQueueAssumption
<1>1. queue \in Seq(Position) /\ Len(queue) <= AudioQueue /\ at \in Position
  BY BoundedIsShort DEF TypeOK
<1>2. \/ UNCHANGED queue
      \/ queue # <<>> /\ queue' = Tail(queue)
      \/ Len(queue) < AudioQueue /\ queue' = Append(queue, at)
  BY DEF Next, Decode, Output, vars, Request, RequestDestination, Transport, Preempt, DecodeStops,
         Take, Read, Pace, Send, PlayOut, Rebuild, Move, FlushAudio, SeekClock, Served, Top,
         Receive, Hold, Observe, Write, Drop, Flushed, Mixed
<1>3. queue' \in Seq(Position) /\ Len(queue') <= AudioQueue
  BY <1>1, <1>2, SMTT(30)
<1> QED BY <1>3, BoundedIsShort

\* Every step keeps the types.
LEMMA StepType == TypeInv /\ [Next]_vars => TypeInv'
<1> SUFFICES ASSUME TypeInv, [Next]_vars PROVE TypeInv'
  OBVIOUS
<1> USE MaxSeeksAssumption DEF TypeInv, TypeOK, SeeksCount, EpochsFollow, GoingSomewhere,
        MaybePosition, Position, Nowhere, DecodeState, Serving, OutState, shape, driver, decoder,
        output
<1>q. queue' \in BoundedSeq(Position, AudioQueue)
  BY QueueTyped
<1>c. clock' \in Clock
  <2>1. clock \in Clock /\ at \in MaybePosition /\ hand \in MaybePosition
        /\ (decode = "anchoring" => going \in MaybePosition)
    BY DEF Clock
  <2>2. \/ UNCHANGED clock
        \/ \E paused \in BOOLEAN : clock' = SetPaused(clock, paused)
        \/ clock' = Anchored(clock, at) \/ clock' = Anchored(clock, hand)
        \/ decode = "anchoring" /\ clock' = SoughtTo(clock, going)
    BY DEF Next, Decode, Output, vars, Request, RequestDestination, Transport, Preempt,
           DecodeStops, Take, Read, Pace, Started, Send, PlayOut, Rebuild, Move, FlushAudio,
           SeekClock, Served, Top, Receive, Hold, Observe, Write, Drop, Flushed, Mixed
  <2> HIDE DEF TypeInv, TypeOK, MaybePosition, Clock
  <2> QED BY <2>1, <2>2, ClockOps
<1>h. queue # <<>> => Head(queue) \in 0..Again
  <2>1. queue \in Seq(Position)
    BY BoundedIsShort, AudioQueueAssumption
  <2>2. queue # <<>> => Head(queue) \in Position
    <3> HIDE DEF Position
    <3> QED BY <2>1
  <2> QED BY <2>2
<1> USE DEF Clock
<1>1. CASE Request
  BY <1>q, <1>1, SMTT(30) DEF Request, Again
<1>2. CASE RequestDestination
  BY <1>q, <1>2 DEF RequestDestination
<1>3. ASSUME NEW paused \in BOOLEAN, Transport(paused) PROVE TypeInv'
  BY <1>q, <1>c, <1>3 DEF Transport
<1>4. CASE Preempt
  BY <1>q, <1>4 DEF Preempt
<1>5. CASE DecodeStops
  BY <1>q, <1>5 DEF DecodeStops
<1>6. CASE Take
  BY <1>q, <1>6 DEF Take
<1>7. CASE Read
  BY <1>q, <1>7 DEF Read
<1>8. CASE Pace
  BY <1>q, <1>c, <1>8 DEF Pace
<1>9. CASE Send
  BY <1>q, <1>9 DEF Send
<1>10. CASE PlayOut
  BY <1>q, <1>10 DEF PlayOut
<1>11. CASE Move
  BY <1>q, <1>11, SMTT(30) DEF Move
<1>12. CASE FlushAudio
  BY <1>q, <1>12 DEF FlushAudio
<1>13. CASE SeekClock
  BY <1>q, <1>c, <1>13 DEF SeekClock
<1>14. CASE Served
  BY <1>q, <1>14 DEF Served
<1>15. CASE Top
  BY <1>q, <1>15 DEF Top, FlushWanted
<1>16. CASE Receive
  BY <1>q, <1>h, <1>16 DEF Receive
<1>17. CASE Hold
  BY <1>q, <1>17 DEF Hold, FlushWanted
<1>18. CASE Observe
  BY <1>q, <1>c, <1>18 DEF Observe
<1>19. CASE Write
  BY <1>q, <1>19 DEF Write
<1>20. CASE Drop
  BY <1>q, <1>20 DEF Drop
<1>21. CASE Flushed
  BY <1>q, <1>21, SMTT(30) DEF Flushed
<1>22. CASE Mixed
  BY <1>q, <1>22 DEF Mixed
<1>23. CASE UNCHANGED vars
  BY <1>q, <1>23 DEF vars
<1>24. CASE Rebuild
  BY <1>q, <1>c, <1>24 DEF Rebuild, Again, Preference
<1> QED BY <1>q, <1>1, <1>2, <1>3, <1>4, <1>5, <1>6, <1>7, <1>8, <1>9, <1>10, <1>11, <1>12,
          <1>13, <1>14, <1>15, <1>16, <1>17, <1>18, <1>19, <1>20, <1>21, <1>22, <1>23, <1>24
          DEF Next, Decode, Output
-----------------------------------------------------------------------------
(* The sound. *)

\* Nothing is stale before the first seek.
LEMMA InitClean == Init => CleanInv
  BY DEF Init, CleanInv, SilentIsEmpty, DroppedIsClean, AnsweredMeansClean, ToSet

\* Every step keeps what an answered epoch says of the queue, the hand and the ring.
LEMMA StepClean == TypeInv /\ CleanInv /\ [Next]_vars => CleanInv'
<1> SUFFICES ASSUME TypeInv, CleanInv, [Next]_vars PROVE CleanInv'
  OBVIOUS
<1>a. /\ EpochsFollow /\ seek.epoch \in Nat /\ seek.drained \in Nat /\ wanted \in Nat
      /\ at \in Position /\ Nowhere \notin Position
      /\ seek \in [requested : MaybePosition, destination : MaybePosition,
                   epoch : 0..MaxSeeks, drained : 0..MaxSeeks]
  BY MaxSeeksAssumption DEF TypeInv, TypeOK, Position, Nowhere
<1>b. /\ ToSet(Append(queue, at)) = ToSet(queue) \cup {at}
      /\ queue # <<>> => /\ Head(queue) \in ToSet(queue)
                        /\ ToSet(Tail(queue)) \subseteq ToSet(queue)
      /\ ToSet(<<>>) = {}
  <2>1. queue \in Seq(Position)
    BY BoundedIsShort, AudioQueueAssumption DEF TypeInv, TypeOK
  <2> QED BY <1>a, <2>1, QueueContents
<1> USE DEF CleanInv, SilentIsEmpty, DroppedIsClean, AnsweredMeansClean, EpochsFollow, FlushWanted,
            shape, driver, decoder, output
<1>1. CASE Request
  BY <1>a, <1>b, <1>1 DEF Request
<1>2. CASE RequestDestination
  BY <1>a, <1>b, <1>2 DEF RequestDestination
<1>3. ASSUME NEW paused \in BOOLEAN, Transport(paused) PROVE CleanInv'
  BY <1>3 DEF Transport
<1>4. CASE Preempt
  BY <1>4 DEF Preempt
<1>5. CASE DecodeStops
  BY <1>5 DEF DecodeStops
<1>6. CASE Take
  BY <1>a, <1>b, <1>6 DEF Take
<1>7. CASE Read
  BY <1>7 DEF Read
<1>8. CASE Pace
  BY <1>8 DEF Pace
<1>9. CASE Send
  BY <1>a, <1>b, <1>9 DEF Send
<1>10. CASE PlayOut
  BY <1>10 DEF PlayOut
<1>11. CASE Move
  <2>1. CASE UNCHANGED <<at, seek>>
    BY <1>11, <2>1 DEF Move
  <2>2. CASE hasAudio /\ seek' = [seek EXCEPT !.epoch = @ + 1]
    BY <1>a, <1>11, <2>2 DEF Move
  <2>3. CASE ~hasAudio /\ UNCHANGED seek
    BY <1>b, <1>11, <2>3 DEF Move
  <2> QED BY <1>11, <2>1, <2>2, <2>3 DEF Move
<1>12. CASE FlushAudio
  BY <1>12 DEF FlushAudio
<1>13. CASE SeekClock
  BY <1>13 DEF SeekClock
<1>14. CASE Served
  BY <1>a, <1>b, <1>14 DEF Served
<1>15. CASE Top
  BY <1>a, <1>b, <1>15 DEF Top
<1>16. CASE Receive
  BY <1>a, <1>b, <1>16 DEF Receive
<1>17. CASE Hold
  BY <1>a, <1>b, <1>17 DEF Hold
<1>18. CASE Observe
  BY <1>18 DEF Observe
<1>19. CASE Write
  BY <1>a, <1>b, <1>19 DEF Write
<1>20. CASE Drop
  BY <1>a, <1>b, <1>20 DEF Drop
<1>21. CASE Flushed
  BY <1>a, <1>b, <1>21 DEF Flushed
<1>22. CASE Mixed
  BY <1>a, <1>b, <1>22 DEF Mixed
<1>23. CASE UNCHANGED vars
  BY <1>23 DEF vars
<1>24. CASE Rebuild
  BY <1>24 DEF Rebuild
<1> QED BY <1>1, <1>2, <1>3, <1>4, <1>5, <1>6, <1>7, <1>8, <1>9, <1>10, <1>11, <1>12,
          <1>13, <1>14, <1>15, <1>16, <1>17, <1>18, <1>19, <1>20, <1>21, <1>22, <1>23, <1>24
          DEF Next, Decode, Output
-----------------------------------------------------------------------------
(* The announcement. *)

\* No seek has a deadline at the start.
LEMMA InitSeek == Init => SeekInv
  BY DEF Init, SeekInv, WaitingSeekIsAnnounced, HalfRequest, ServingIsAnnounced, Nowhere, Serving

\* Every step keeps what ties a pending seek to its epoch and its deadline.
LEMMA StepSeek == TypeInv /\ SeekInv /\ [Next]_vars => SeekInv'
<1> SUFFICES ASSUME TypeInv, SeekInv, [Next]_vars PROVE SeekInv'
  OBVIOUS
<1>a. /\ asked + 1 # Nowhere
      /\ seek \in [requested : MaybePosition, destination : MaybePosition,
                   epoch : 0..MaxSeeks, drained : 0..MaxSeeks]
  BY MaxSeeksAssumption DEF TypeInv, TypeOK, Position, Nowhere
<1> USE DEF SeekInv, WaitingSeekIsAnnounced, HalfRequest, ServingIsAnnounced, Serving,
            shape, driver, decoder, output
<1>1. CASE Request
  BY <1>a, <1>1 DEF Request
<1>2. CASE RequestDestination
  BY <1>a, <1>2 DEF RequestDestination
<1>3. ASSUME NEW paused \in BOOLEAN, Transport(paused) PROVE SeekInv'
  BY <1>3 DEF Transport
<1>4. CASE Preempt
  BY <1>4 DEF Preempt
<1>5. CASE DecodeStops
  BY <1>5 DEF DecodeStops
<1>6. CASE Take
  BY <1>a, <1>6 DEF Take
<1>7. CASE Read
  BY <1>7 DEF Read
<1>8. CASE Pace
  BY <1>8 DEF Pace
<1>9. CASE Send
  BY <1>9 DEF Send
<1>10. CASE PlayOut
  BY <1>10 DEF PlayOut
<1>11. CASE Move
  BY <1>a, <1>11 DEF Move
<1>12. CASE FlushAudio
  BY <1>12 DEF FlushAudio
<1>13. CASE SeekClock
  BY <1>13 DEF SeekClock
<1>14. CASE Served
  BY <1>a, <1>14 DEF Served
<1>15. CASE Top
  BY <1>15 DEF Top
<1>16. CASE Receive
  BY <1>16 DEF Receive
<1>17. CASE Hold
  BY <1>17 DEF Hold
<1>18. CASE Observe
  BY <1>18 DEF Observe
<1>19. CASE Write
  BY <1>19 DEF Write
<1>20. CASE Drop
  BY <1>20 DEF Drop
<1>21. CASE Flushed
  BY <1>a, <1>21 DEF Flushed
<1>22. CASE Mixed
  BY <1>22 DEF Mixed
<1>23. CASE UNCHANGED vars
  BY <1>23 DEF vars
<1>24. CASE Rebuild
  BY <1>24 DEF Rebuild
<1> QED BY <1>1, <1>2, <1>3, <1>4, <1>5, <1>6, <1>7, <1>8, <1>9, <1>10, <1>11, <1>12,
          <1>13, <1>14, <1>15, <1>16, <1>17, <1>18, <1>19, <1>20, <1>21, <1>22, <1>23, <1>24
          DEF Next, Decode, Output
-----------------------------------------------------------------------------
(* The clock. *)

\* The clock starts with its session.
LEMMA InitClock == Init => ClockInv
  BY DEF Init, ClockInv, UnansweredIsKnown, FlushWanted, PausedNowhere, ClockFollows, Now

\* Every step keeps what ties the clock to the played and the held position.
LEMMA StepClock == TypeInv /\ CleanInv /\ ClockInv /\ [Next]_vars => ClockInv'
<1> SUFFICES ASSUME TypeInv, CleanInv, ClockInv, [Next]_vars PROVE ClockInv'
  OBVIOUS
<1>a. /\ EpochsFollow /\ GoingSomewhere /\ clock \in Clock
      /\ seek.epoch \in Nat /\ seek.drained \in Nat /\ wanted \in Nat
      /\ seek \in [requested : MaybePosition, destination : MaybePosition,
                   epoch : 0..MaxSeeks, drained : 0..MaxSeeks]
  BY MaxSeeksAssumption DEF TypeInv, TypeOK, Clock
<1>b. AnsweredMeansClean
  BY DEF CleanInv
<1> USE DEF ClockInv, UnansweredIsKnown, PausedNowhere, ClockFollows, FlushWanted, Now,
            EpochsFollow, GoingSomewhere, Clock, shape, driver, decoder, output
<1>1. CASE Request
  BY <1>a, <1>1 DEF Request
<1>2. CASE RequestDestination
  BY <1>a, <1>2 DEF RequestDestination
<1>3. ASSUME NEW paused \in BOOLEAN, Transport(paused) PROVE ClockInv'
  BY <1>a, <1>3 DEF Transport, SetPaused
<1>4. CASE Preempt
  BY <1>4 DEF Preempt
<1>5. CASE DecodeStops
  BY <1>5 DEF DecodeStops
<1>6. CASE Take
  BY <1>a, <1>6 DEF Take
<1>7. CASE Read
  BY <1>7 DEF Read
<1>8. CASE Pace
  BY <1>a, <1>8 DEF Pace, Started, Anchored
<1>9. CASE Send
  BY <1>9 DEF Send
<1>10. CASE PlayOut
  BY <1>10 DEF PlayOut
<1>11. CASE Move
  BY <1>a, <1>11 DEF Move
<1>12. CASE FlushAudio
  BY <1>a, <1>12 DEF FlushAudio
<1>13. CASE SeekClock
  BY <1>a, <1>13 DEF SeekClock, SoughtTo
<1>14. CASE Served
  BY <1>a, <1>14 DEF Served
<1>15. CASE Top
  BY <1>15 DEF Top
<1>16. CASE Receive
  BY <1>16 DEF Receive
<1>17. CASE Hold
  BY <1>17 DEF Hold
<1>18. CASE Observe
  BY <1>a, <1>b, <1>18 DEF Observe, Anchored, AnsweredMeansClean
<1>19. CASE Write
  BY <1>19 DEF Write
<1>20. CASE Drop
  BY <1>20 DEF Drop
<1>21. CASE Flushed
  BY <1>a, <1>21 DEF Flushed
<1>22. CASE Mixed
  BY <1>22 DEF Mixed
<1>23. CASE UNCHANGED vars
  BY <1>23 DEF vars
<1>24. CASE Rebuild
  BY <1>a, <1>24 DEF Rebuild, Started, Anchored
<1> QED BY <1>1, <1>2, <1>3, <1>4, <1>5, <1>6, <1>7, <1>8, <1>9, <1>10, <1>11, <1>12,
          <1>13, <1>14, <1>15, <1>16, <1>17, <1>18, <1>19, <1>20, <1>21, <1>22, <1>23, <1>24
          DEF Next, Decode, Output
-----------------------------------------------------------------------------
(* The theorems. *)

\* The strengthening holds of every behaviour.
LEMMA Invariant == Spec => []Inv
<1>1. Init => Inv
  BY InitType, InitClean, InitSeek, InitClock DEF Inv
<1>2. Inv /\ [Next]_vars => Inv'
  BY StepType, StepClean, StepSeek, StepClock DEF Inv
<1> QED BY <1>1, <1>2, PTL DEF Spec

\* Type correctness: no more epochs than seeks, and a queue within its bound.
THEOREM Typing == Spec => []TypeOK
<1>1. Inv => TypeOK
  BY DEF Inv, TypeInv
<1> QED BY <1>1, Invariant, PTL

\* The flush handshake of seek.rs and audio_session.rs: once the output thread has echoed
\* the epoch, nothing from before the seek is left, in the queue, in its hand or in the ring.
THEOREM FlushIsClean == Spec => []AnsweredMeansClean
<1>1. Inv => AnsweredMeansClean
  BY DEF Inv, CleanInv
<1> QED BY <1>1, Invariant, PTL

\* request() against served() (seek.rs): a seek that waits is where the session is said to go.
THEOREM SeeksAreAnnounced == Spec => []WaitingSeekIsAnnounced
<1>1. Inv => WaitingSeekIsAnnounced
  BY DEF Inv, SeekInv
<1> QED BY <1>1, Invariant, PTL

\* do_seek's order (ffmpeg_decode.rs): no late block and no pause brings an old position back.
THEOREM PositionStays == Spec => []NoSnapBack
<1>1. Inv => NoSnapBack
  BY DEF Inv, SeekInv, ServingIsAnnounced, ClockInv, ClockFollows, NoSnapBack, Serving
<1> QED BY <1>1, Invariant, PTL

-----------------------------------------------------------------------------
(***************************************************************************)
(* A running session seeks.  While a seek waits and nobody pauses, the     *)
(* decode thread is at one of finitely many stages before it takes the     *)
(* seek, and each ends: by a step of its own, or, where a full queue       *)
(* blocks it, after steps of the output thread that do.  What it means for *)
(* an action to be enabled is beyond the prover, so that the threads have  *)
(* a step to take at these stages (ThreadsCanStep) is a hypothesis; TLC    *)
(* checks it, PacedSessionProofs.cfg.                                      *)
(***************************************************************************)

Pending == ~clock.paused /\ seek.requested # Nowhere /\ decode # "done"

At(d) == Pending /\ decode = d
Unanchored == At("pacing") /\ clock.anchor = Nowhere
Paced == At("pacing") /\ clock.anchor # Nowhere

\* What ends the wait of tx.send: room in the queue, or nobody to read it any more.
Room == out = "done" \/ Len(queue) < AudioQueue
Ready == At("sending") /\ Room
Full(o) == At("sending") /\ ~Room /\ out = o

\* A thread at one of the stages has a step to take, and the step changes something.
ThreadsCanStep ==
    /\ Pending /\ (decode = "sending" => Room) => ENABLED <<Decode>>_vars
    /\ At("sending") /\ ~Room => ENABLED <<Output>>_vars

\* What a step of the decode thread makes of each of its stages.
DecodeMoves ==
    /\ At("loop") => ~Pending'
    /\ Unanchored => Paced' \/ At("loop")' \/ ~Pending'
    /\ Paced => At("loop")' \/ ~Pending'
    /\ Ready => At("loop")' \/ ~Pending'
    /\ At("tail") => ~Pending'
    /\ At("moving") => At("serving")' \/ At("flushing")' \/ At("anchoring")' \/ ~Pending'
    /\ At("flushing") => At("anchoring")' \/ ~Pending'
    /\ At("anchoring") => At("serving")' \/ ~Pending'
    /\ At("serving") => At("loop")' \/ ~Pending'

\* What any other step leaves of them.
DecodeStays ==
    \/ ~Pending'
    \/ /\ \A d \in DecodeState \ {"done"} : At(d) => At(d)'
       /\ Unanchored => Unanchored' \/ Paced'
       /\ Paced => Paced'
       /\ Ready => Ready'

\* The same for the output thread while the queue is full.
OutputMoves ==
    /\ Full("hold") => Full("write")' \/ Ready' \/ ~Pending'
    /\ Full("write") => Full("top")' \/ Ready' \/ ~Pending'
    /\ Full("acknowledge") => Full("receive")' \/ Full("top")' \/ Ready' \/ ~Pending'
    /\ Full("top") => Full("receive")' \/ Full("drop")' \/ Ready' \/ ~Pending'
    /\ Full("receive") => Ready' \/ ~Pending'
    /\ Full("drop") => Ready' \/ ~Pending'

OutputStays == \A o \in OutState : Full(o) => Full(o)' \/ ~Pending'

\* The block in the hand of an output thread that holds it is a block.
HoldsABlock == out = "hold" => hand # Nowhere

\* The output thread lets a block go only with the state that holds it.
LEMMA BlockIsHeld == Spec => []HoldsABlock
<1>1. Init => HoldsABlock
  BY DEF Init, HoldsABlock
<1>2. Inv /\ HoldsABlock /\ [Next]_vars => HoldsABlock'
  <2> SUFFICES ASSUME Inv, HoldsABlock, [Next]_vars PROVE HoldsABlock'
    OBVIOUS
  <2>1. queue # <<>> => Head(queue) # Nowhere
    <3>1. queue \in Seq(Position)
      BY BoundedIsShort, AudioQueueAssumption DEF Inv, TypeInv, TypeOK
    <3>2. Nowhere \notin Position
      BY DEF Position, Nowhere
    <3> QED BY <3>1, <3>2
  <2> USE DEF HoldsABlock
  <2>2. CASE Receive
    BY <2>1, <2>2 DEF Receive
  <2>3. CASE Top \/ Hold \/ Observe \/ Write \/ Drop \/ Flushed
    BY <2>3 DEF Top, Hold, Observe, Write, Drop, Flushed
  <2>4. CASE UNCHANGED output
    BY <2>4 DEF output
  <2>5. Receive \/ Top \/ Hold \/ Observe \/ Write \/ Drop \/ Flushed \/ UNCHANGED output
    BY DEF Next, Decode, Output, Request, RequestDestination, Transport, Preempt, DecodeStops,
           Take, Read, Pace, Send, PlayOut, Rebuild, Move, FlushAudio, SeekClock, Served, Mixed, vars
  <2> QED BY <2>2, <2>3, <2>4, <2>5
<1> QED BY <1>1, <1>2, Invariant, PTL DEF Spec

\* The decode thread gets on, and where the queue is full it has no step to take.
LEMMA DecodeGetsOn == Inv /\ Decode => DecodeMoves /\ OutputStays
<1> SUFFICES ASSUME Inv, Decode PROVE DecodeMoves /\ OutputStays
  OBVIOUS
<1> USE DEF DecodeMoves, OutputStays, At, Unanchored, Paced, Ready, Full, Room, Pending
<1>1. /\ seek \in [requested : MaybePosition, destination : MaybePosition,
                   epoch : 0..MaxSeeks, drained : 0..MaxSeeks]
      /\ at # Nowhere
  BY MaxSeeksAssumption DEF Inv, TypeInv, TypeOK, Position, Nowhere
<1>2. CASE DecodeStops BY <1>2 DEF DecodeStops
<1>3. CASE Take BY <1>1, <1>3 DEF Take
<1>4. CASE Read BY <1>4 DEF Read
<1>5. CASE Pace
  <2>1. Anchored(clock, at).anchor = at
    BY DEF Anchored, Inv, TypeInv, TypeOK
  <2> QED BY <1>1, <1>5, <2>1 DEF Pace, Started
<1>6. CASE Send BY <1>6 DEF Send
<1>7. CASE PlayOut BY <1>7 DEF PlayOut
<1>8. CASE Move BY <1>8 DEF Move
<1>9. CASE FlushAudio BY <1>9 DEF FlushAudio
<1>10. CASE SeekClock BY <1>10 DEF SeekClock
<1>11. CASE Served BY <1>11 DEF Served
<1>12. CASE Rebuild BY <1>12 DEF Rebuild
<1> QED BY <1>2, <1>3, <1>4, <1>5, <1>6, <1>7, <1>8, <1>9, <1>10, <1>11, <1>12 DEF Decode

\* The output thread makes room, and takes nothing from the decode thread.
LEMMA OutputGetsOn == Inv /\ HoldsABlock /\ Output => DecodeStays /\ OutputMoves
<1> SUFFICES ASSUME Inv, HoldsABlock, Output PROVE DecodeStays /\ OutputMoves
  OBVIOUS
<1> USE DEF DecodeStays, OutputMoves, At, Unanchored, Paced, Ready, Full, Room, Pending, decoder
<1>1. queue \in Seq(Position) /\ AudioQueue \in Nat \ {0} /\ Len(queue) <= AudioQueue
  BY BoundedIsShort, AudioQueueAssumption DEF Inv, TypeInv, TypeOK
<1>2. queue # <<>> => Len(Tail(queue)) < AudioQueue
  BY <1>1
<1>3. ~Room => queue # <<>>
  BY <1>1
<1>4. seek \in [requested : MaybePosition, destination : MaybePosition,
                epoch : 0..MaxSeeks, drained : 0..MaxSeeks]
  BY DEF Inv, TypeInv, TypeOK
<1>5. CASE Top BY <1>5 DEF Top
<1>6. CASE Receive BY <1>2, <1>3, <1>6 DEF Receive
<1>7. CASE Hold BY <1>7 DEF Hold
<1>8. CASE Observe
  <2>1. /\ Anchored(clock, hand).anchor = hand
        /\ Anchored(clock, hand).paused = clock.paused
    BY DEF Anchored, Inv, TypeInv, TypeOK
  <2> QED BY <1>8, <2>1 DEF Observe, HoldsABlock
<1>9. CASE Write BY <1>9 DEF Write
<1>10. CASE Drop BY <1>2, <1>3, <1>10 DEF Drop
<1>11. CASE Flushed BY <1>4, <1>11 DEF Flushed
<1> QED BY <1>5, <1>6, <1>7, <1>8, <1>9, <1>10, <1>11 DEF Output

Others ==
    \/ Request \/ RequestDestination \/ Preempt \/ Mixed
    \/ \E paused \in BOOLEAN : Transport(paused)
    \/ UNCHANGED vars

\* Nobody else moves either thread from where it is.
LEMMA OthersKeepOff == Inv /\ Others => DecodeStays /\ OutputStays
<1> SUFFICES ASSUME Inv, Others PROVE DecodeStays /\ OutputStays
  OBVIOUS
<1> USE DEF DecodeStays, OutputStays, At, Unanchored, Paced, Ready, Full, Room, Pending
<1>1. seek \in [requested : MaybePosition, destination : MaybePosition,
                epoch : 0..MaxSeeks, drained : 0..MaxSeeks]
  BY DEF Inv, TypeInv, TypeOK
<1>2. CASE Request BY <1>1, <1>2 DEF Request, decoder, output
<1>3. CASE RequestDestination BY <1>1, <1>3 DEF RequestDestination, decoder, output
<1>4. CASE Preempt BY <1>4 DEF Preempt, decoder, output
<1>5. CASE Mixed BY <1>5 DEF Mixed, decoder, output
<1>6. ASSUME NEW paused \in BOOLEAN, Transport(paused) PROVE DecodeStays /\ OutputStays
  <2>1. CASE paused
    <3>1. SetPaused(clock, paused).paused
      BY <1>6, <2>1 DEF Transport, SetPaused, Inv, TypeInv, TypeOK
    <3> QED BY <1>6, <3>1 DEF Transport
  <2>2. CASE ~paused
    BY <1>6, <2>2 DEF Transport, Inv, TypeInv, TypeOK
  <2> QED BY <2>1, <2>2
<1>7. CASE UNCHANGED vars BY <1>7 DEF vars, decoder, output
<1> QED BY <1>2, <1>3, <1>4, <1>5, <1>6, <1>7 DEF Others

\* Where a waiting seek finds the decode thread, and where a full queue the output thread.
LEMMA SomeStage ==
    Inv => /\ Pending => \/ At("loop") \/ Unanchored \/ Paced \/ At("tail") \/ At("moving")
                         \/ At("flushing") \/ At("anchoring") \/ At("serving")
                         \/ Ready \/ (At("sending") /\ ~Room)
           /\ At("sending") /\ ~Room =>
                 \/ Full("hold") \/ Full("write") \/ Full("acknowledge") \/ Full("top")
                 \/ Full("receive") \/ Full("drop")
  BY DEF Inv, TypeInv, TypeOK, DecodeState, OutState, Serving, Pending, At, Unanchored, Paced,
         Ready, Room, Full

\* A session that is not paused takes every seek it is asked for, unless the item ends first,
\* for any number of seeks and any queue: no wait of the decode thread outlasts a seek, the
\* one for room in a full queue included (av_session, drain_paced, run_pcm).
THEOREM SeeksAreTaken == Spec /\ []ThreadsCanStep => RunningSessionSeeks
<1> DEFINE Sp == Spec /\ []ThreadsCanStep
<1>1. /\ Inv /\ HoldsABlock /\ [Next]_vars =>
            \/ DecodeMoves /\ OutputStays
            \/ DecodeStays /\ OutputMoves
            \/ DecodeStays /\ OutputStays
      /\ Inv /\ <<Decode>>_vars => DecodeMoves
      /\ Inv /\ HoldsABlock /\ <<Output>>_vars => OutputMoves
  BY DecodeGetsOn, OutputGetsOn, OthersKeepOff DEF Next, Others
<1>2. DecodeStays =>
        \/ ~Pending'
        \/ /\ At("loop") => At("loop")'
           /\ Unanchored => Unanchored' \/ Paced'
           /\ Paced => Paced'
           /\ Ready => Ready'
           /\ At("tail") => At("tail")'
           /\ At("moving") => At("moving")'
           /\ At("flushing") => At("flushing")'
           /\ At("anchoring") => At("anchoring")'
           /\ At("serving") => At("serving")'
  BY DEF DecodeStays, DecodeState, Serving
<1>3. OutputStays =>
        \/ ~Pending'
        \/ /\ Full("hold") => Full("hold")'
           /\ Full("write") => Full("write")'
           /\ Full("acknowledge") => Full("acknowledge")'
           /\ Full("top") => Full("top")'
           /\ Full("receive") => Full("receive")'
           /\ Full("drop") => Full("drop")'
  BY DEF OutputStays, OutState
<1>4. ThreadsCanStep =>
        /\ At("loop") \/ Unanchored \/ Paced \/ Ready \/ At("tail") \/ At("moving")
           \/ At("flushing") \/ At("anchoring") \/ At("serving") => ENABLED <<Decode>>_vars
        /\ Full("hold") \/ Full("write") \/ Full("acknowledge") \/ Full("top")
           \/ Full("receive") \/ Full("drop") => ENABLED <<Output>>_vars
  BY DEF ThreadsCanStep, At, Unanchored, Paced, Ready, Full
<1>5. Sp => [](Inv /\ HoldsABlock)
  BY Invariant, BlockIsHeld, PTL
<1>6. Sp => (At("loop") ~> ~Pending)
  BY <1>1, <1>2, <1>4, <1>5, PTL DEF Spec, Fairness, DecodeMoves
<1>7. Sp => ((Ready \/ At("serving")) ~> (At("loop") \/ ~Pending))
  BY <1>1, <1>2, <1>4, <1>5, PTL DEF Spec, Fairness, DecodeMoves
<1>8. Sp => (Paced ~> (At("loop") \/ ~Pending))
  BY <1>1, <1>2, <1>4, <1>5, PTL DEF Spec, Fairness, DecodeMoves
<1>9. Sp => (Unanchored ~> (Paced \/ At("loop") \/ ~Pending))
  BY <1>1, <1>2, <1>4, <1>5, PTL DEF Spec, Fairness, DecodeMoves
<1>10. Sp => (At("tail") ~> ~Pending)
  BY <1>1, <1>2, <1>4, <1>5, PTL DEF Spec, Fairness, DecodeMoves
<1>11. Sp => (At("anchoring") ~> (At("serving") \/ ~Pending))
  BY <1>1, <1>2, <1>4, <1>5, PTL DEF Spec, Fairness, DecodeMoves
<1>12. Sp => (At("flushing") ~> (At("anchoring") \/ ~Pending))
  BY <1>1, <1>2, <1>4, <1>5, PTL DEF Spec, Fairness, DecodeMoves
<1>13. Sp => (At("moving") ~> (At("serving") \/ At("flushing") \/ At("anchoring") \/ ~Pending))
  BY <1>1, <1>2, <1>4, <1>5, PTL DEF Spec, Fairness, DecodeMoves
<1>14. Sp => (At("sending") /\ ~Room ~> Ready \/ ~Pending)
  <2>1. Sp => ((Full("receive") \/ Full("drop")) ~> (Ready \/ ~Pending))
    BY <1>1, <1>3, <1>4, <1>5, PTL DEF Spec, Fairness, OutputMoves
  <2>2. Sp => (Full("top") ~> (Full("receive") \/ Full("drop") \/ Ready \/ ~Pending))
    BY <1>1, <1>3, <1>4, <1>5, PTL DEF Spec, Fairness, OutputMoves
  <2>3. Sp => ((Full("write") \/ Full("acknowledge"))
                    ~> (Full("top") \/ Full("receive") \/ Ready \/ ~Pending))
    BY <1>1, <1>3, <1>4, <1>5, PTL DEF Spec, Fairness, OutputMoves
  <2>4. Sp => (Full("hold") ~> (Full("write") \/ Ready \/ ~Pending))
    BY <1>1, <1>3, <1>4, <1>5, PTL DEF Spec, Fairness, OutputMoves
  <2> QED BY <2>1, <2>2, <2>3, <2>4, <1>5, SomeStage, PTL
<1>15. Sp => (Pending ~> ~Pending)
  BY <1>5, <1>6, <1>7, <1>8, <1>9, <1>10, <1>11, <1>12, <1>13, <1>14, SomeStage, PTL
<1>16. ~Pending <=> clock.paused \/ seek.requested = Nowhere \/ decode = "done"
  BY DEF Pending
<1> QED BY <1>15, <1>16, PTL DEF RunningSessionSeeks
=============================================================================
