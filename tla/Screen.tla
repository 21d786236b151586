--------------------------------- MODULE Screen ---------------------------------
(***************************************************************************)
(* What the session manager promises of the panel and of the handles other *)
(* tasks reach it through: one source at a time owns the screen, only the  *)
(* owner puts anything on it, and the screen changes hands empty.          *)
(***************************************************************************)
CONSTANTS
    Sources,    \* who may own the screen
    NoSource,   \* nobody
    Parts       \* what speaks for a source: the item played, a part of the card, a handle

VARIABLES
    owner,      \* the source whose screen it is
    shown       \* the source each part speaks for

screenVars == <<owner, shown>>

Empty == [p \in Parts |-> NoSource]

Init == owner = NoSource /\ shown = Empty

\* A source takes the screen, from nobody or from the owner it had; all goes.
Take(s) ==
    /\ owner # s
    /\ owner' = s /\ shown' = Empty

\* The owner's session is over; all goes.
Release ==
    /\ owner # NoSource
    /\ owner' = NoSource /\ shown' = Empty

\* The owner says something of itself.
Show ==
    /\ owner # NoSource
    /\ \E P \in SUBSET Parts : shown' = [p \in Parts |-> IF p \in P THEN owner ELSE shown[p]]
    /\ owner' = owner

\* Part of what is shown goes, the owner stays.
Withdraw ==
    /\ \E P \in SUBSET Parts : shown' = [p \in Parts |-> IF p \in P THEN NoSource ELSE shown[p]]
    /\ owner' = owner

Next == (\E s \in Sources : Take(s)) \/ Release \/ Show \/ Withdraw

Spec == Init /\ [][Next]_screenVars
=============================================================================
