---------------------------- MODULE CommandWindow ----------------------------
(***************************************************************************)
(* How the Bluetooth host meters its HCI commands: CommandCredits of       *)
(* substrate-hci, driven by the host's on_event, pace and tick, with the   *)
(* controller at the other end.  The controller has room for Window        *)
(* commands, says in every answer how many more it has room for, discards  *)
(* what it has no room for, and sometimes never answers.                   *)
(*                                                                         *)
(* A command is the number it was submitted under.  Its opcode is the      *)
(* number modulo two: commands of one kind share one.                      *)
(***************************************************************************)
EXTENDS Naturals, Sequences, SequencesExt

CONSTANTS
    Window,        \* Num_HCI_Command_Packets of an idle controller
    MaxCommands,   \* bound: commands submitted in all
    MaxLosses      \* bound: answers the controller loses

ASSUME CommandAssumption ==
    Window \in Nat \ {0} /\ MaxCommands \in Nat /\ MaxLosses \in Nat

VARIABLES
    commands,      \* CommandCredits: available, waiting, in_flight
    submitted,     \* commands submitted so far
    sent,          \* commands written to the controller, in order
    accepted,      \* controller: commands it is working on
    answers,       \* answers on their way: opcode and allowed_packets
    losses,        \* answers lost so far
    abandoned,     \* a command was given up on (history)
    discarded      \* the controller had no room for a command (history)

commandVars == <<commands, submitted, sent, accepted, answers, losses, abandoned,
                 discarded>>

Opcode(c) == c % 2

CommandInit ==
    /\ commands = [available |-> 1, waiting |-> <<>>, inFlight |-> <<>>]
    /\ submitted = 0
    /\ sent = <<>>
    /\ accepted = <<>>
    /\ answers = <<>>
    /\ losses = 0
    /\ abandoned = FALSE
    /\ discarded = FALSE

-----------------------------------------------------------------------------
(* CommandCredits.  The commands an operation sends are those by which it  *)
(* lengthens `out`.                                                        *)

\* Slip: a fresh command is sent past those that wait, whatever the window.
Submitted_Unmetered(w, c) ==
    [w EXCEPT !.inFlight = Append(@, Opcode(c)), !.out = Append(@, c)]

\* submit(): sent with a credit, queued without one.
Submitted(w, c) ==
    IF w.available = 0 THEN [w EXCEPT !.waiting = Append(@, c)]
    ELSE [w EXCEPT !.available = @ - 1, !.inFlight = Append(@, Opcode(c)),
                   !.out = Append(@, c)]

\* Slip: the queue is peeked at where it should be popped.
Release_Peeks(w) ==
    LET n == IF Len(w.waiting) < w.available THEN Len(w.waiting) ELSE w.available
        out == SubSeq(w.waiting, 1, n)
    IN  [w EXCEPT !.available = @ - n, !.out = @ \o out,
                  !.inFlight = @ \o [i \in 1..n |-> Opcode(out[i])]]

\* release(): everything the window has room for, oldest first.
Release(w) ==
    LET n == IF Len(w.waiting) < w.available THEN Len(w.waiting) ELSE w.available
        out == SubSeq(w.waiting, 1, n)
    IN  [available |-> w.available - n,
         waiting |-> SubSeq(w.waiting, n + 1, Len(w.waiting)),
         inFlight |-> w.inFlight \o [i \in 1..n |-> Opcode(out[i])],
         out |-> w.out \o out]

\* answered(), before its release(): the first command of the opcode is no
\* longer in flight, and the count is the whole window.
Answered(w, op, allowed) ==
    [w EXCEPT !.available = allowed,
              !.inFlight = IF Contains(@, op) THEN RemoveFirst(@, op) ELSE @]

\* abandon_oldest(), before its release(): at least one credit.
Abandoned(w) ==
    [w EXCEPT !.inFlight = Tail(@), !.available = IF @ > 1 THEN @ ELSE 1]

-----------------------------------------------------------------------------
(* The host and the controller.                                            *)

Idle == [available |-> commands.available, waiting |-> commands.waiting,
         inFlight |-> commands.inFlight, out |-> <<>>]

\* pace(): the commands a step of the host leads to, none or the next one.
Paced(w, fresh) == IF fresh = 0 THEN w ELSE Submitted(w, submitted + 1)

\* What the host sends reaches the controller in order, which discards what
\* it has no room for.
Settle(w, fresh) ==
    LET room == IF Len(accepted) < Window THEN Window - Len(accepted) ELSE 0
        n == IF Len(w.out) < room THEN Len(w.out) ELSE room
    IN  /\ commands' = [available |-> w.available, waiting |-> w.waiting,
                        inFlight |-> w.inFlight]
        /\ submitted' = submitted + fresh
        /\ sent' = sent \o w.out
        /\ accepted' = accepted \o SubSeq(w.out, 1, n)
        /\ discarded' = (discarded \/ n < Len(w.out))

\* on_event for an event that is not an answer, or a request of the adapter.
Command ==
    /\ submitted < MaxCommands
    /\ Settle(Paced(Idle, 1), 1)
    /\ UNCHANGED <<answers, losses, abandoned>>

\* on_event for an answer: the window opens and what waits goes out before
\* the command the answer leads to (bring-up's next) is paced.
OnEvent(fresh) ==
    /\ answers # <<>>
    /\ submitted + fresh <= MaxCommands
    /\ LET e == Head(answers)
       IN  Settle(Paced(Release(Answered(Idle, e.op, e.allowed)), fresh), fresh)
    /\ answers' = Tail(answers)
    /\ UNCHANGED <<losses, abandoned>>

\* tick: COMMAND_TIMEOUT without an answer, lost or merely late, gives up on
\* the oldest command, and bring-up moves on to its next.
Tick(fresh) ==
    /\ commands.inFlight # <<>>
    /\ submitted + fresh <= MaxCommands
    /\ Settle(Paced(Release(Abandoned(Idle)), fresh), fresh)
    /\ abandoned' = TRUE
    /\ UNCHANGED <<answers, losses>>

\* The controller (external) answers a command it is working on, in any
\* order, or never does.
Answer(i) ==
    /\ i \in DOMAIN accepted
    /\ accepted' = RemoveAt(accepted, i)
    /\ \/ /\ answers' = Append(answers, [op |-> Opcode(accepted[i]),
                                         allowed |-> Window - Len(accepted) + 1])
          /\ UNCHANGED losses
       \/ /\ losses < MaxLosses
          /\ losses' = losses + 1
          /\ UNCHANGED answers
    /\ UNCHANGED <<commands, submitted, sent, abandoned, discarded>>

CommandNext ==
    \/ Command
    \/ \E fresh \in {0, 1} : OnEvent(fresh) \/ Tick(fresh)
    \/ \E i \in 1..Window : Answer(i)

\* The actor loop takes every event, and its timer fires while a command is
\* in flight.  The controller need not answer.
CommandFairness ==
    /\ WF_commandVars(\E fresh \in {0, 1} : OnEvent(fresh))
    /\ WF_commandVars(\E fresh \in {0, 1} : Tick(fresh))

CommandSpec == CommandInit /\ [][CommandNext]_commandVars /\ CommandFairness

-----------------------------------------------------------------------------
CommandTypeOK ==
    /\ commands.available \in 0..Window
    /\ commands.waiting \in BoundedSeq(1..MaxCommands, MaxCommands)
    /\ commands.inFlight \in BoundedSeq({0, 1}, MaxCommands)
    /\ submitted \in 0..MaxCommands
    /\ sent \in BoundedSeq(1..MaxCommands, MaxCommands)
    /\ accepted \in BoundedSeq(1..MaxCommands, Window)
    /\ losses \in 0..MaxLosses
    /\ abandoned \in BOOLEAN /\ discarded \in BOOLEAN

\* Every command goes out once and in the order it was submitted, through
\* full windows, lost and late answers and commands given up on: none is
\* sent again, overtaken or forgotten (flow.rs submit, release,
\* abandon_oldest).
SentOnceInOrder == sent \o commands.waiting = [i \in 1..submitted |-> i]

\* A controller with one slot is never sent a command it has no room for
\* while every answer comes in time (#90).
CommandsFit == ~abandoned => ~discarded

\* A controller that loses answers, even all of them, does not stop the
\* host: nothing waits for a credit for ever (the idle stall of host.rs
\* tick).
CommandsGoOut == []<>(commands.waiting = <<>>)
=============================================================================
