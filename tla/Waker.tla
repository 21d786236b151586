---------------------------------- MODULE Waker ----------------------------------
(***************************************************************************)
(* The wake handle of the demand-driven render loop (core/src/wake.rs) and *)
(* the sleeping loop behind it (pipeline/src/kiosk.rs).                    *)
(*                                                                         *)
(* Producers on any thread queue something - a render command, or the exit *)
(* flag - and then call Waker::wake.  The kiosk arms the waker once its    *)
(* event loop exists, and from then on sleeps whenever it owes no frame.   *)
(* Every atomic access to the shared words is one step: wake() loads the   *)
(* target and only then calls it or stores the latch, arm() sets the       *)
(* target and only then swaps the latch out.                               *)
(***************************************************************************)
EXTENDS Naturals

CONSTANTS
    Producers,   \* threads that hold a clone of the waker
    MaxSends     \* how many things each of them queues (a bound, not a limit of the code)

ASSUME MaxSendsAssumption == MaxSends \in Nat

VARIABLES
    target,      \* WakerInner::target holds a wake function (OnceLock is set)
    pending,     \* WakerInner::pending, the latch of wakes that came before arming
    commands,    \* the producers that have a command in the render channel
    exit,        \* KioskApp::exit, the shared shutdown flag
    events,      \* a user event is waiting in the event loop's proxy queue
    redraw,      \* winit owes the window a RedrawRequested
    dirty,       \* KioskApp::dirty, an event happened since the last frame
    loop,        \* where the main thread is
    prod,        \* where each producer is in its send
    left         \* what each producer may still queue

vars == <<target, pending, commands, exit, events, redraw, dirty, loop, prod, left>>

\* Where the main thread can be: arming (build, swap, fire), in run_app before the window
\* exists (run), dispatching winit events (events), draining the channel inside a redraw
\* (drain), blocked in winit (asleep), or out of the loop (gone).
Starting == {"build", "swap", "fire", "run"}
LoopStates == Starting \cup {"events", "drain", "asleep", "gone"}

TypeOK ==
    /\ target \in BOOLEAN /\ pending \in BOOLEAN /\ exit \in BOOLEAN
    /\ events \in BOOLEAN /\ redraw \in BOOLEAN /\ dirty \in BOOLEAN
    /\ commands \in SUBSET Producers
    /\ loop \in LoopStates
    /\ prod \in [Producers -> {"idle", "queued", "latch", "call"}]
    /\ left \in [Producers -> 0..MaxSends]

\* A fresh waker; the kiosk is built dirty, and the producers already hold their clones.
Init ==
    /\ target = FALSE /\ pending = FALSE
    /\ commands = {} /\ exit = FALSE
    /\ events = FALSE /\ redraw = FALSE /\ dirty = TRUE
    /\ loop = "build"
    /\ prod = [p \in Producers |-> "idle"]
    /\ left = [p \in Producers |-> MaxSends]

-----------------------------------------------------------------------------
(* Producers *)

\* Slip: queueing past the bound.
Send_NoBound(p) ==
    /\ prod[p] = "idle"
    /\ commands' = commands \cup {p}
    /\ prod' = [prod EXCEPT ![p] = "queued"]
    /\ left' = [left EXCEPT ![p] = @ - 1]
    /\ UNCHANGED <<target, pending, exit, events, redraw, dirty, loop>>

\* RenderTx::send and RenderTx::send_frame queue first and wake second.
Send(p) ==
    /\ prod[p] = "idle" /\ left[p] > 0
    /\ commands' = commands \cup {p}
    /\ prod' = [prod EXCEPT ![p] = "queued"]
    /\ left' = [left EXCEPT ![p] = @ - 1]
    /\ UNCHANGED <<target, pending, exit, events, redraw, dirty, loop>>

\* Slip: the shutdown task raises the flag and forgets the waker.
RequestExit_NoWake(p) ==
    /\ prod[p] = "idle" /\ left[p] > 0
    /\ exit' = TRUE
    /\ left' = [left EXCEPT ![p] = @ - 1]
    /\ UNCHANGED <<target, pending, commands, events, redraw, dirty, loop, prod>>

\* The shutdown task: the flag first, then the same waker.
RequestExit(p) ==
    /\ prod[p] = "idle" /\ left[p] > 0
    /\ exit' = TRUE
    /\ prod' = [prod EXCEPT ![p] = "queued"]
    /\ left' = [left EXCEPT ![p] = @ - 1]
    /\ UNCHANGED <<target, pending, commands, events, redraw, dirty, loop>>

\* Waker::wake, the load: target.get() decides which arm the call takes.
WakeLoad(p) ==
    /\ prod[p] = "queued"
    /\ prod' = [prod EXCEPT ![p] = IF target THEN "call" ELSE "latch"]
    /\ UNCHANGED <<target, pending, commands, exit, events, redraw, dirty, loop, left>>

\* Waker::wake, Some: proxy.send_event(()).  A closed loop takes nothing.
WakeCall(p) ==
    /\ prod[p] = "call"
    /\ prod' = [prod EXCEPT ![p] = "idle"]
    /\ events' = (loop # "gone" \/ events)
    /\ UNCHANGED <<target, pending, commands, exit, redraw, dirty, loop, left>>

\* Waker::wake, None: remember the wake.
WakeLatch(p) ==
    /\ prod[p] = "latch"
    /\ prod' = [prod EXCEPT ![p] = "idle"]
    /\ pending' = TRUE
    /\ UNCHANGED <<target, commands, exit, events, redraw, dirty, loop, left>>

-----------------------------------------------------------------------------
(* The main thread: Waker::arm, then the winit loop *)

ArmSet ==
    /\ loop = "build"
    /\ target' = TRUE
    /\ loop' = "swap"
    /\ UNCHANGED <<pending, commands, exit, events, redraw, dirty, prod, left>>

ArmSwap ==
    /\ loop = "swap"
    /\ pending' = FALSE
    /\ loop' = IF pending THEN "fire" ELSE "run"
    /\ UNCHANGED <<target, commands, exit, events, redraw, dirty, prod, left>>

\* arm() finds the latch set and calls wake(), whose target is by now the proxy.
ArmFire ==
    /\ loop = "fire"
    /\ events' = TRUE
    /\ loop' = "run"
    /\ UNCHANGED <<target, pending, commands, exit, redraw, dirty, prod, left>>

\* ApplicationHandler::resumed: the window exists and asks for its first frame.
Resumed ==
    /\ loop = "run"
    /\ redraw' = TRUE
    /\ loop' = "events"
    /\ UNCHANGED <<target, pending, commands, exit, events, dirty, prod, left>>

\* Slip: a wake that does not earn the panel a frame.
UserEvent_NotDirty ==
    /\ loop \in {"events", "asleep"} /\ events
    /\ events' = FALSE
    /\ loop' = "events"
    /\ UNCHANGED <<target, pending, commands, exit, redraw, dirty, prod, left>>

UserEvent ==
    /\ loop \in {"events", "asleep"} /\ events
    /\ events' = FALSE
    /\ dirty' = TRUE
    /\ loop' = "events"
    /\ UNCHANGED <<target, pending, commands, exit, redraw, prod, left>>

\* A touch, a resize, or the timer of a scheduled change: not a producer's doing.
WindowEvent ==
    /\ loop \in {"events", "asleep"}
    /\ dirty' = TRUE
    /\ loop' = "events"
    /\ UNCHANGED <<target, pending, commands, exit, events, redraw, prod, left>>

\* WindowEvent::RedrawRequested: dirty goes down before the frame drains the channel.
RedrawRequested ==
    /\ loop \in {"events", "asleep"} /\ redraw
    /\ redraw' = FALSE
    /\ dirty' = FALSE
    /\ loop' = "drain"
    /\ UNCHANGED <<target, pending, commands, exit, events, prod, left>>

\* RenderLoop::frame: while let Some(cmd) = rx.try_recv() { apply(cmd) }.
Drain(p) ==
    /\ loop = "drain" /\ p \in commands
    /\ commands' = commands \ {p}
    /\ UNCHANGED <<target, pending, exit, events, redraw, dirty, loop, prod, left>>

\* ... until try_recv answers that both lanes are empty, and the frame is presented.
Present ==
    /\ loop = "drain" /\ commands = {}
    /\ loop' = "events"
    /\ UNCHANGED <<target, pending, commands, exit, events, redraw, dirty, prod, left>>

\* Slip: blocking without asking winit for the frame a dirty panel owes.
AboutToWait_NoRequest ==
    /\ loop = "events"
    /\ loop' = IF exit THEN "gone" ELSE "asleep"
    /\ UNCHANGED <<target, pending, commands, exit, events, redraw, dirty, prod, left>>

\* about_to_wait: leave if asked to, else ask for the frame the panel owes and block.
AboutToWait ==
    /\ loop = "events"
    /\ loop' = IF exit THEN "gone" ELSE "asleep"
    /\ redraw' = (redraw \/ (dirty /\ ~exit))
    /\ UNCHANGED <<target, pending, commands, exit, events, dirty, prod, left>>

Wake(p) == WakeLoad(p) \/ WakeCall(p) \/ WakeLatch(p)

Next ==
    \/ ArmSet \/ ArmSwap \/ ArmFire \/ Resumed \/ UserEvent \/ WindowEvent
    \/ RedrawRequested \/ Present \/ AboutToWait
    \/ \E p \in Producers : \/ Send(p) \/ RequestExit(p) \/ Drain(p)
                            \/ WakeLoad(p) \/ WakeCall(p) \/ WakeLatch(p)

\* A thread inside wake() finishes it; the channel is FIFO, so no producer's command is
\* overtaken for ever.
ProducerFairness(p) == WF_vars(Wake(p)) /\ WF_vars(Drain(p))

\* The main thread runs and winit delivers what it has queued, a redraw no less than a user
\* event.
Fairness ==
    /\ WF_vars(ArmSet) /\ WF_vars(ArmSwap) /\ WF_vars(ArmFire) /\ WF_vars(Resumed)
    /\ WF_vars(UserEvent) /\ WF_vars(RedrawRequested)
    /\ WF_vars(Present) /\ WF_vars(AboutToWait)

Spec == Init /\ [][Next]_vars /\ Fairness /\ \A p \in Producers : ProducerFairness(p)

-----------------------------------------------------------------------------
(* Properties *)

Armed == loop \notin {"build", "swap"}
Waking(p) == prod[p] \in {"queued", "call"}

\* A wake that arrived early is never left in the latch once arming is over: "wakes are
\* remembered, and arming fires once if any arrived early" (core/src/wake.rs, Waker).
EarlyWakesFire == Armed => ~pending

\* The loop never blocks on queued work: a command in the channel has somebody still on
\* the way to wake the loop, a user event or a redraw waiting, or the loop itself is about
\* to look (RenderTx::send, Waker::wake, KioskApp::about_to_wait).
NoSleepOnCommands ==
    \A p \in commands :
        \/ Waking(p) \/ events \/ redraw
        \/ loop \in Starting \cup {"drain", "gone"}
        \/ loop = "events" /\ dirty

\* The loop never sleeps through a shutdown request: an exit flag that is up while the
\* loop is blocked has an event behind it, or a thread about to raise one.
NoSleepOnExit ==
    (exit /\ loop = "asleep") => events \/ redraw \/ \E p \in Producers : Waking(p)

\* Everything queued is drawn, or the loop has left, whatever order the threads ran in.
CommandsAreDrawn == \A p \in Producers : p \in commands ~> (p \notin commands \/ loop = "gone")

\* A shutdown request closes the loop, even one that idles and even one made at startup.
ExitCloses == exit ~> loop = "gone"
=============================================================================
