------------------------------ MODULE AclWriter ------------------------------
(***************************************************************************)
(* The one place ACL data leaves the Bluetooth receiver: the writer task   *)
(* of proto-bluetooth-audio (AclWriter::pump), the credit pool it claims   *)
(* from (substrate-hci AclCredits), the adapter's actor loop that feeds    *)
(* credits back, and the controller at the other end of the transport,     *)
(* which reports completed packets, drops links without reporting what it  *)
(* flushed, and reuses connection handles.                                 *)
(*                                                                         *)
(* Links are numbered as they come up, so that two links on one handle can *)
(* be told apart; the code only knows the handle.  A PDU is the number of  *)
(* its fragments.                                                          *)
(***************************************************************************)
EXTENDS Naturals, Sequences, FiniteSets, Functions

CONSTANTS
    Handles,        \* connection handles
    Buffers,        \* ACL buffers of the controller (HCI_Read_Buffer_Size)
    MaxLinks,       \* links that come up in all
    MaxPdus,        \* PDUs queued in all
    MaxFragments    \* fragments of the longest PDU

\* The pool is clamped to at least one buffer (set_capacity).
ASSUME WriterAssumption ==
    /\ Handles # {} /\ IsFiniteSet(Handles)
    /\ Buffers \in Nat \ {0}
    /\ MaxLinks \in Nat /\ MaxPdus \in Nat /\ MaxFragments \in Nat

VARIABLES
    credits,        \* AclCredits: capacity, outstanding per handle, total
    dead,           \* handles the actor has been told are gone
    permit,         \* the stored permit of the Notify `replenished`
    jobs,           \* the writer's queue: handle, link and fragments left
    writer,         \* where the writer is, and its current job
    links,          \* the actor's links: handle to link number, 0 for none
    pdus,           \* PDUs queued so far
    link,           \* controller: the link on each handle, 0 for none
    held,           \* controller: fragments it holds for each handle
    events,         \* events on their way from the controller
    ups,            \* links that have come up
    crossed         \* a fragment reached another link than its own (history)

host == <<credits, dead, permit, links>>
controller == <<link, events, ups>>
writerVars == <<host, jobs, writer, pdus, controller, held, crossed>>

NoJob == [to |-> CHOOSE h \in Handles : TRUE, link |-> 0, left |-> 0]

Total(f) == SumFunction(f)

-----------------------------------------------------------------------------
(* AclCredits.                                                             *)

\* available(), which saturates at zero.
Available(c) == IF c.total < c.capacity THEN c.capacity - c.total ELSE 0

\* claim(), once a credit is available.
Claimed(c, h) == [c EXCEPT !.total = @ + 1, !.outstanding[h] = @ + 1]

\* How many credits a completion of n packets gives back.
Released(c, h, n) == IF n < c.outstanding[h] THEN n ELSE c.outstanding[h]

\* complete() and link_down() give back n credits of a handle.
Returned(c, h, n) == [c EXCEPT !.total = @ - n, !.outstanding[h] = @ - n]

-----------------------------------------------------------------------------
WriterInit ==
    /\ credits = [capacity |-> 1, outstanding |-> [h \in Handles |-> 0], total |-> 0]
    /\ dead = {}
    /\ permit = FALSE
    /\ jobs = <<>>
    /\ writer = [at |-> "idle", job |-> NoJob]
    /\ links = [h \in Handles |-> 0]
    /\ pdus = 0
    /\ link = [h \in Handles |-> 0]
    /\ held = [h \in Handles |-> 0]
    /\ events = <<>>
    /\ ups = 0
    /\ crossed = FALSE

-----------------------------------------------------------------------------
(* The controller (external: what the host relies on of it).               *)

\* A phone connects, on a handle that is free again.
Connect(h) ==
    /\ link[h] = 0
    /\ ups < MaxLinks
    /\ ups' = ups + 1
    /\ link' = [link EXCEPT ![h] = ups + 1]
    /\ events' = Append(events, [is |-> "up", to |-> h, link |-> ups + 1])
    /\ UNCHANGED <<host, jobs, writer, pdus, held, crossed>>

\* A link drops; what it had buffered is flushed and never reported.
Disconnect(h) ==
    /\ link[h] # 0
    /\ link' = [link EXCEPT ![h] = 0]
    /\ held' = [held EXCEPT ![h] = 0]
    /\ events' = Append(events, [is |-> "down", to |-> h, link |-> link[h]])
    /\ UNCHANGED <<host, jobs, writer, pdus, ups, crossed>>

\* Number_Of_Completed_Packets for everything sent on a handle.
Complete(h) ==
    /\ held[h] > 0
    /\ held' = [held EXCEPT ![h] = 0]
    /\ events' = Append(events, [is |-> "completed", to |-> h, link |-> held[h]])
    /\ UNCHANGED <<host, jobs, writer, pdus, link, ups, crossed>>

-----------------------------------------------------------------------------
(* The adapter's actor loop.                                               *)

\* configure(): bring-up has read the size of the pool.
Configure ==
    /\ credits.capacity # Buffers
    /\ credits' = [credits EXCEPT !.capacity = Buffers]
    /\ permit' = TRUE
    /\ UNCHANGED <<dead, links, jobs, writer, pdus, controller, held, crossed>>

\* send(): a PDU for a link the actor knows; dropped if the writer has gone.
Queue(h, n) ==
    /\ links[h] # 0
    /\ pdus < MaxPdus
    /\ pdus' = pdus + 1
    /\ jobs' = IF writer.at = "gone" THEN jobs
               ELSE Append(jobs, [to |-> h, link |-> links[h], left |-> n])
    /\ UNCHANGED <<host, writer, controller, held, crossed>>

\* Slip: returned credits do not wake the writer.
OnCompleted_Silent(h, n) ==
    /\ credits' = Returned(credits, h, Released(credits, h, n))
    /\ UNCHANGED <<dead, permit, links>>

\* completed(): a zero release wakes nobody.
OnCompleted(h, n) ==
    /\ credits' = Returned(credits, h, Released(credits, h, n))
    /\ permit' = (permit \/ Released(credits, h, n) > 0)
    /\ UNCHANGED <<dead, links>>

\* Slip: only what is queued is written off, not what is outstanding.
OnLinkDown_KeepsCredits(h) ==
    /\ dead' = dead \cup {h}
    /\ permit' = TRUE
    /\ links' = [links EXCEPT ![h] = 0]
    /\ UNCHANGED credits

\* link_down(): the handle is dead, its credits come back, and the writer is
\* woken even when there were none.
OnLinkDown(h) ==
    /\ dead' = dead \cup {h}
    /\ credits' = Returned(credits, h, credits.outstanding[h])
    /\ permit' = TRUE
    /\ links' = [links EXCEPT ![h] = 0]

\* link_up(): a reused handle is no longer dead.
OnLinkUp(h, n) ==
    /\ dead' = dead \ {h}
    /\ links' = [links EXCEPT ![h] = n]
    /\ UNCHANGED <<credits, permit>>

\* The actor takes the controller's events in order.
Handle ==
    /\ events # <<>>
    /\ LET e == Head(events) IN
        CASE e.is = "completed" -> OnCompleted(e.to, e.link)
          [] e.is = "down" -> OnLinkDown(e.to)
          [] e.is = "up" -> OnLinkUp(e.to, e.link)
    /\ events' = Tail(events)
    /\ UNCHANGED <<jobs, writer, pdus, link, ups, held, crossed>>

-----------------------------------------------------------------------------
(* The writer task.                                                        *)

\* The next PDU; one for a dead link is dropped.
Pump ==
    /\ writer.at = "idle"
    /\ jobs # <<>>
    /\ jobs' = Tail(jobs)
    /\ writer' = IF Head(jobs).to \in dead THEN writer
                 ELSE [at |-> "claim", job |-> Head(jobs)]
    /\ UNCHANGED <<host, pdus, controller, held, crossed>>

\* claim(): under the lock, a dead link abandons the PDU, a free credit is
\* taken, and otherwise the writer parks.
Claim ==
    /\ writer.at = "claim"
    /\ IF writer.job.to \in dead
       THEN /\ writer' = [at |-> "idle", job |-> NoJob]
            /\ UNCHANGED credits
       ELSE IF Available(credits) > 0
       THEN /\ credits' = Claimed(credits, writer.job.to)
            /\ writer' = [writer EXCEPT !.at = "send"]
       ELSE /\ writer' = [writer EXCEPT !.at = "parked"]
            /\ UNCHANGED credits
    /\ UNCHANGED <<dead, permit, links, jobs, pdus, controller, held, crossed>>

\* notified(): consumes the permit, and tries again.
Wake ==
    /\ writer.at = "parked"
    /\ permit
    /\ permit' = FALSE
    /\ writer' = [writer EXCEPT !.at = "claim"]
    /\ UNCHANGED <<credits, dead, links, jobs, pdus, controller, held, crossed>>

\* transport.send: the fragment reaches the controller, which has nowhere to
\* put one for a handle without a link; or the transport fails and the
\* writer ends.
Transmit ==
    /\ writer.at = "send"
    /\ LET h == writer.job.to IN
        \/ /\ held' = [held EXCEPT ![h] = IF link[h] = 0 THEN @ ELSE @ + 1]
           /\ crossed' = (crossed \/ link[h] \notin {0, writer.job.link})
           /\ writer' = IF writer.job.left = 1
                        THEN [at |-> "idle", job |-> NoJob]
                        ELSE [at |-> "claim", job |-> [writer.job EXCEPT !.left = @ - 1]]
           /\ UNCHANGED jobs
        \/ /\ writer' = [at |-> "gone", job |-> NoJob]
           /\ jobs' = <<>>
           /\ UNCHANGED <<held, crossed>>
    /\ UNCHANGED <<host, pdus, controller>>

-----------------------------------------------------------------------------
Writer == Pump \/ Claim \/ Wake \/ Transmit

WriterNext ==
    \/ \E h \in Handles : Connect(h) \/ Disconnect(h) \/ Complete(h)
    \/ \E h \in Handles, n \in 1..MaxFragments : Queue(h, n)
    \/ Configure
    \/ Handle
    \/ Writer

\* Both tasks are polled by the runtime whenever they can go on, and a
\* controller reports the packets it has sent.
WriterFairness ==
    /\ WF_writerVars(Writer)
    /\ WF_writerVars(Handle)
    /\ \A h \in Handles : WF_writerVars(Complete(h))

WriterSpec == WriterInit /\ [][WriterNext]_writerVars /\ WriterFairness

-----------------------------------------------------------------------------
WriterTypeOK ==
    /\ credits \in [capacity : {1, Buffers}, outstanding : [Handles -> 0..Buffers],
                    total : 0..Buffers]
    /\ dead \subseteq Handles
    /\ permit \in BOOLEAN
    /\ writer.at \in {"idle", "claim", "parked", "send", "gone"}
    /\ \A j \in {writer.job} \cup Range(jobs) :
        j \in [to : Handles, link : 0..MaxLinks, left : 0..MaxFragments]
    /\ links \in [Handles -> 0..MaxLinks] /\ link \in [Handles -> 0..MaxLinks]
    /\ held \in [Handles -> Nat]
    /\ pdus \in 0..MaxPdus /\ ups \in 0..MaxLinks /\ crossed \in BOOLEAN

\* What the events on their way will give back to a handle.
Reports(e, h) == IF e.to = h /\ e.is = "completed" THEN e.link ELSE 0

OnTheWay(h) == Total([i \in DOMAIN events |-> Reports(events[i], h)])

DownOnTheWay(h) == \E i \in DOMAIN events : events[i].to = h /\ events[i].is = "down"

\* The claim the writer holds on a handle and has not transmitted yet.
InHand(h) ==
    IF writer.at \in {"send", "gone"} /\ writer.job.to = h THEN 1 ELSE 0

\* No credit leaks: unless the end of the link is on its way, every credit
\* out for a handle is a fragment the controller holds, one it is reporting
\* complete, or one the writer is about to hand over.  A phone that walks
\* away in the middle of a write costs the pool nothing (acl.rs `dead`).
NoCreditLeaks ==
    /\ credits.total = Total(credits.outstanding)
    /\ \A h \in Handles :
        \/ DownOnTheWay(h)
        \/ writer.at = "gone"
        \/ credits.outstanding[h] <= held[h] + OnTheWay(h) + InHand(h)

\* As long as every fragment has gone out on the link it was queued for, the
\* controller is never handed a fragment it has no buffer for (#71).
FragmentsFit == ~crossed => Total(held) <= Buffers

\* Every queued PDU leaves or is given up: the writer never sleeps through
\* the return of the credit it waits for, nor waits for a dead link's.
QueueDrains == []<>(writer.at = "gone" \/ (writer.at = "idle" /\ jobs = <<>>))
=============================================================================
