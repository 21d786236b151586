------------------------------- MODULE SelfUpdate -------------------------------
(***************************************************************************)
(* How a panel replaces its own receiver: the update agent and the tidying *)
(* task inside the receiver (update/src/agent.rs, app/src/update.rs), the  *)
(* launcher that supervises it (launcher/src) and the install tree they    *)
(* share on disk (paths/src/install.rs).                                   *)
(*                                                                         *)
(* Every write to the disk is a step of its own, and the receiver may      *)
(* crash, or the machine lose power, between any two.  Versions are their  *)
(* build numbers.  Time is left out: a night's window and a quiet panel    *)
(* are the environment's to grant, so the agent may look, or activate what *)
(* it has staged, whenever it is not doing something else.                 *)
(***************************************************************************)
EXTENDS Naturals, FiniteSets

CONSTANTS
    Newest,      \* builds are 1..Newest (a bound)
    Strikes,     \* STRIKES_BEFORE_ROLLBACK
    MaxFaults    \* crashes of good versions, failed steps and power cuts: a bound, one for
                 \* behaviours that are orderly (below) and one for the others

ASSUME UpdateAssumption ==
    Newest \in Nat \ {0} /\ Strikes \in Nat \ {0} /\ MaxFaults \in [BOOLEAN -> Nat]

Builds == 1..Newest
None == 0

VARIABLES
    bad,         \* the builds that die young and never get as far as their health marker
    orderly,     \* the tidying task is always through before the agent stages anything
    latest,      \* the release the API calls Latest
    faults,      \* what has gone wrong so far
    marked,      \* history: no health marker failed to be written
    tree,        \* versions/<sha>: absent, whole, or with files missing
    staging,     \* versions/.staging-<sha>: the same, or "part" while it is filled
    manifest,    \* the trees that carry their manifest.json
    marker,      \* the trees that carry their .healthy marker
    current,     \* current.txt
    previous,    \* previous.txt, None before the first update
    known,       \* the launcher's "running": the version it last supervised
    strikes,     \* Supervisor::strikes
    up,          \* the version whose receiver is running, None while the launcher looks
    settled,     \* it has been up for SETTLED
    agent,       \* where the agent is
    staged,      \* Agent::staged
    offer,       \* Agent::offer, and while it stages what it is staging
    tidy,        \* where the tidying task is
    visit,       \* directory entries the tidying task has still to look at
    spared,      \* the previous.txt the tidying task read
    struck       \* history: versions the launcher has rolled back from

disk == <<tree, staging, manifest, marker>>
pointers == <<current, previous>>
launcher == <<known, strikes, struck>>
tidying == <<tidy, visit, spared>>
world == <<bad, orderly, latest, faults, marked>>
vars == <<world, disk, pointers, launcher, up, settled, agent, staged, offer, tidying>>

Init ==
    /\ bad \in SUBSET (Builds \ {1}) /\ orderly \in BOOLEAN /\ latest = 1 /\ faults = 0
    /\ marked = TRUE
    /\ tree = [v \in Builds |-> IF v = 1 THEN "whole" ELSE "absent"]
    /\ staging = [v \in Builds |-> "absent"]
    /\ manifest = {} /\ marker = {}
    /\ current = 1 /\ previous = None
    /\ known = None /\ strikes = 0 /\ struck = {}
    /\ up = None /\ settled = FALSE
    /\ agent = "down" /\ staged = None /\ offer = None
    /\ tidy = "down" /\ visit = {} /\ spared = None

Fault == faults < MaxFaults[orderly] /\ faults' = faults + 1

Publish ==
    /\ latest < Newest /\ latest' = latest + 1
    /\ UNCHANGED <<bad, orderly, faults, marked, disk, pointers, launcher, up, settled, agent,
                   staged, offer, tidying>>

-----------------------------------------------------------------------------
(* The launcher *)

\* Supervisor::on_exit and the rollback main.rs makes of it, for a run of version v.
OnExit(v, kind) ==
    LET healthy == v \in marker
        counted == IF settled THEN 0
                   ELSE IF ~healthy /\ kind # "activate" /\ strikes < Strikes
                   THEN strikes + 1 ELSE strikes
        rollBack == counted >= Strikes /\ ~healthy /\ previous \notin {None, v}
    IN /\ strikes' = IF rollBack THEN 0 ELSE counted
       /\ current' = IF rollBack THEN previous ELSE current
       /\ struck' = IF rollBack THEN struck \cup {v} ELSE struck
       /\ UNCHANGED previous

\* rediscover_staged: any complete tree newer than what runs, in no particular order.
Rediscovered(v) == {w \in manifest \ {current} : tree[w] # "absent" /\ w > v}

\* Slip: every start is a clean slate.
Spawn_CleanSlate ==
    /\ up = None /\ tree[current] # "absent"
    /\ known' = current /\ strikes' = 0
    /\ up' = current /\ settled' = FALSE
    /\ agent' = "idle" /\ offer' = None
    /\ \/ staged' \in Rediscovered(current)
       \/ Rediscovered(current) = {} /\ staged' = None
    /\ tidy' = "due"
    /\ UNCHANGED <<world, disk, pointers, struck, visit, spared>>

\* The launcher reads current.txt; other bits than last time start with a clean slate.  If
\* there is a receiver to spawn it comes up and looks for what an earlier night left.
Spawn ==
    /\ up = None /\ tree[current] # "absent"
    /\ known' = current
    /\ strikes' = IF known \in {None, current} THEN strikes ELSE 0
    /\ up' = current /\ settled' = FALSE
    /\ agent' = "idle" /\ offer' = None
    /\ \/ staged' \in Rediscovered(current)
       \/ Rediscovered(current) = {} /\ staged' = None
    /\ tidy' = "due"
    /\ UNCHANGED <<world, disk, pointers, struck, visit, spared>>

\* Slip: a run that never started is no evidence.
SpawnMissing_NoEvidence ==
    /\ up = None /\ tree[current] = "absent"
    /\ known' = current
    /\ OnExit(current, "activate")
    /\ UNCHANGED <<world, disk, up, settled, agent, staged, offer, tidying>>

\* There is no receiver in the tree current.txt names.
SpawnMissing ==
    /\ up = None /\ tree[current] = "absent"
    /\ known' = current
    /\ OnExit(current, "missing")
    /\ UNCHANGED <<world, disk, up, settled, agent, staged, offer, tidying>>

Down ==
    /\ up' = None /\ settled' = FALSE
    /\ agent' = "down" /\ staged' = None /\ offer' = None
    /\ tidy' = "down" /\ visit' = {} /\ spared' = None

\* The receiver has been up for two minutes.
Settle ==
    /\ up # None /\ up \notin bad /\ tree[up] = "whole" /\ ~settled
    /\ settled' = TRUE
    /\ UNCHANGED <<world, disk, pointers, launcher, up, agent, staged, offer, tidying>>

Doomed == up \in bad \/ (up # None /\ tree[up] # "whole")

\* The receiver dies without being asked to.
Crash ==
    /\ up # None
    /\ IF Doomed THEN UNCHANGED faults ELSE Fault
    /\ OnExit(up, "ended")
    /\ Down
    /\ UNCHANGED <<bad, orderly, latest, marked, disk, known>>

\* The machine loses power: the launcher starts again too, and remembers nothing.
PowerCut ==
    /\ Fault
    /\ known' = None /\ strikes' = 0
    /\ Down
    /\ UNCHANGED <<bad, orderly, latest, marked, disk, pointers, struck>>

-----------------------------------------------------------------------------
(* The agent *)

MayStage == orderly => tidy = "done"

\* check and manual_check: one look at the release API.  A newer version that is there
\* with its manifest is staged already; any other is offered, to the person who asked or
\* straight to stage().
Look ==
    /\ agent = "idle" /\ staged = None /\ latest > up
    /\ IF latest \in manifest THEN staged' = latest /\ UNCHANGED offer
                              ELSE offer' = latest /\ UNCHANGED staged
    /\ UNCHANGED <<world, disk, pointers, launcher, up, settled, agent, tidying>>

\* stage(): a leftover of the same name is thrown away and the download begins.
StartStage ==
    /\ agent = "idle" /\ staged = None /\ offer # None /\ MayStage
    /\ agent' = "download"
    /\ staging' = [staging EXCEPT ![offer] = "part"]
    /\ UNCHANGED <<world, tree, manifest, marker, pointers, launcher, up, settled, staged,
                   offer, tidying>>

\* The digest matches, and extraction begins - from an archive that is still there.
Downloaded ==
    /\ agent = "download" /\ staging[offer] # "absent"
    /\ agent' = "extract"
    /\ UNCHANGED <<world, disk, pointers, launcher, up, settled, staged, offer, tidying>>

\* Extraction makes the directories it needs as it goes, so it gets to the end even when
\* what it had extracted was removed under it.
Extracted ==
    /\ agent = "extract"
    /\ agent' = "name"
    /\ staging' = [staging EXCEPT ![offer] = IF @ = "part" THEN "whole" ELSE "holed"]
    /\ UNCHANGED <<world, tree, manifest, marker, pointers, launcher, up, settled, staged,
                   offer, tidying>>

\* "Named last, and atomically": rename refuses a directory that is already there.
NameTree ==
    /\ agent = "name" /\ staging[offer] # "absent" /\ tree[offer] = "absent"
    /\ agent' = "manifest"
    /\ tree' = [tree EXCEPT ![offer] = staging[offer]]
    /\ staging' = [staging EXCEPT ![offer] = "absent"]
    /\ UNCHANGED <<world, manifest, marker, pointers, launcher, up, settled, staged, offer,
                   tidying>>

\* The manifest travels into the tree, if it can; the version counts as staged either way.
WriteManifest ==
    /\ agent = "manifest"
    /\ \/ tree[offer] # "absent" /\ manifest' = manifest \cup {offer} /\ UNCHANGED faults
       \/ tree[offer] = "absent" /\ UNCHANGED <<manifest, faults>>
       \/ Fault /\ UNCHANGED manifest
    /\ agent' = "idle" /\ staged' = offer /\ offer' = None
    /\ UNCHANGED <<bad, orderly, latest, marked, tree, staging, marker, pointers, launcher, up,
                   settled, tidying>>

\* stage() gives up: the network, the disk, a bad archive; or what it needs has gone, or
\* the name is taken.  The offer is spent.
StageFails ==
    /\ \/ agent \in {"download", "extract", "name"} /\ Fault
       \/ agent = "download" /\ staging[offer] = "absent" /\ UNCHANGED faults
       \/ agent = "name" /\ (staging[offer] = "absent" \/ tree[offer] # "absent")
          /\ UNCHANGED faults
    /\ agent' = "idle" /\ offer' = None
    /\ UNCHANGED <<bad, orderly, latest, marked, disk, pointers, launcher, up, settled, staged,
                   tidying>>

\* Slip: what is being activated is written down as the version to come back to.
WritePrevious_Staged ==
    /\ agent = "idle" /\ staged # None
    /\ previous' = staged
    /\ agent' = "point"
    /\ UNCHANGED <<world, disk, current, launcher, up, settled, staged, offer, tidying>>

\* activate(): previous first ...
WritePrevious ==
    /\ agent = "idle" /\ staged # None
    /\ previous' = current
    /\ agent' = "point"
    /\ UNCHANGED <<world, disk, current, launcher, up, settled, staged, offer, tidying>>

\* ... then current.  A write that fails leaves the version staged for another try.
WriteCurrent ==
    /\ agent = "point"
    /\ \/ current' = staged /\ agent' = "leave" /\ UNCHANGED faults
       \/ agent' = "idle" /\ Fault /\ UNCHANGED current
    /\ UNCHANGED <<bad, orderly, latest, marked, disk, previous, launcher, up, settled, staged,
                   offer, tidying>>

\* The receiver shuts down and exits with ACTIVATE_EXIT_CODE.
Leave ==
    /\ agent = "leave"
    /\ OnExit(up, "activate")
    /\ Down
    /\ UNCHANGED <<world, disk, known>>

-----------------------------------------------------------------------------
(* mark_healthy_and_tidy, on a timer of its own *)

Named(v) == [is |-> "tree", of |-> v]
Unnamed(v) == [is |-> "staging", of |-> v]

\* The health marker is written, or it cannot be; the tidying follows either way.
StartTidy ==
    /\ tidy = "due" /\ settled
    /\ \/ marker' = marker \cup {up} /\ UNCHANGED <<faults, marked>>
       \/ Fault /\ marked' = FALSE /\ UNCHANGED marker
    /\ spared' = previous
    /\ visit' = {Named(v) : v \in {w \in Builds : tree[w] # "absent"}}
           \cup {Unnamed(v) : v \in {w \in Builds : staging[w] # "absent"}}
    /\ tidy' = "visiting"
    /\ UNCHANGED <<bad, orderly, latest, tree, staging, manifest, pointers, launcher, up,
                   settled, agent, staged, offer>>

\* Slips: the rollback target is swept up; everything newer is spared, complete or not.
Sweep_Previous(v) == v # up /\ ~(v > up /\ v \in manifest)
Sweep_SparesNewer(v) == v \notin {up, spared} /\ v < up

\* Neither running, nor the rollback target, nor a staged update waiting for tonight.
Sweep(v) == v \notin {up, spared} /\ ~(v > up /\ v \in manifest)

\* collect_old_versions looks at one entry; a directory in use may keep some of its files.
\* Of a tree that is being extracted only what is there already can go.
TidyEntry ==
    /\ tidy = "visiting"
    /\ \E e \in visit :
        LET v == e.of
        IN /\ visit' = visit \ {e}
           /\ IF e.is = "tree" /\ Sweep(v)
              THEN /\ \/ tree' = [tree EXCEPT ![v] = "absent"] /\ UNCHANGED faults
                         /\ manifest' = manifest \ {v} /\ marker' = marker \ {v}
                      \/ tree' = [tree EXCEPT ![v] = "holed"] /\ Fault
                         /\ manifest' \in {manifest, manifest \ {v}} /\ UNCHANGED marker
                   /\ UNCHANGED staging
              ELSE IF e.is = "staging"
              THEN /\ staging' = [staging EXCEPT ![v] =
                                    IF agent = "extract" /\ offer = v THEN "holed" ELSE "absent"]
                   /\ UNCHANGED <<tree, manifest, marker, faults>>
              ELSE UNCHANGED <<disk, faults>>
    /\ UNCHANGED <<bad, orderly, latest, marked, pointers, launcher, up, settled, agent, staged,
                   offer, tidy, spared>>

EndTidy ==
    /\ tidy = "visiting" /\ visit = {}
    /\ tidy' = "done" /\ spared' = None
    /\ UNCHANGED <<world, disk, pointers, launcher, up, settled, agent, staged, offer, visit>>

-----------------------------------------------------------------------------

Supervise == Spawn \/ SpawnMissing
Agent == Look \/ StartStage \/ Downloaded \/ Extracted \/ NameTree \/ WriteManifest
            \/ StageFails \/ WritePrevious \/ WriteCurrent \/ Leave
Tidy == StartTidy \/ TidyEntry \/ EndTidy

Next == Publish \/ Supervise \/ Settle \/ Crash \/ PowerCut \/ Agent \/ Tidy

\* The launcher restarts for ever, a version that is bad does die, one that is not settles,
\* and the timers and tasks of a receiver that stays up get their turn.
Fairness ==
    /\ WF_vars(Supervise) /\ WF_vars(Doomed /\ Crash) /\ WF_vars(Settle)
    /\ WF_vars(Agent) /\ WF_vars(Tidy)

Spec == Init /\ [][Next]_vars /\ Fairness

-----------------------------------------------------------------------------
(* What has to hold *)

Content == {"absent", "part", "holed", "whole"}
TypeOK ==
    /\ bad \subseteq Builds /\ orderly \in BOOLEAN
    /\ latest \in Builds /\ faults \in 0..MaxFaults[orderly] /\ marked \in BOOLEAN
    /\ tree \in [Builds -> Content \ {"part"}] /\ staging \in [Builds -> Content]
    /\ manifest \subseteq Builds /\ marker \subseteq Builds /\ struck \subseteq Builds
    /\ current \in Builds /\ known \in Builds \cup {None}
    /\ {previous, up, staged, offer, spared} \subseteq Builds \cup {None}
    /\ strikes \in 0..Strikes /\ settled \in BOOLEAN
    /\ agent \in {"down", "idle", "download", "extract", "name", "manifest", "point", "leave"}
    /\ tidy \in {"down", "due", "visiting", "done"}
    /\ (up = None) = (agent = "down")

PointersNameWholeTrees ==
    /\ tree[current] = "whole"
    /\ previous # None => tree[previous] = "whole"
    /\ staged # None => tree[staged] = "whole"

\* "Nothing is written under a name the launcher would spawn until all four have passed":
\* what the pointers name, and what the agent would have them name next, is there with
\* every file it came with, whatever crashed, failed or was tidied away in between - if
\* tidying and staging do not overlap and every version that settled has its marker.
NothingSpawnsHalfATree == orderly /\ marked => PointersNameWholeTrees

\* "The agent is the only owner of the install tree": the same, without those provisos.
AgentOwnsTheTree == PointersNameWholeTrees

\* previous.txt is "the last known-healthy version, the rollback target": what a strike-out
\* falls back to has reported itself healthy, on the same conditions.
PreviousWasHealthy == orderly /\ marked /\ previous # None => previous \in marker

\* A marker that could not be written "costs one unnecessary rollback" (agent.rs
\* mark_healthy_and_tidy) and nothing else: the pointers still name whole trees ...
UnmarkedSpawnsNoHalfATree == orderly => PointersNameWholeTrees

\* ... and what a strike-out falls back to has still been healthy.
UnmarkedFallsBackToHealthy == orderly /\ previous # None => previous \in marker

\* "A tree left over from a night the panel never went quiet is still good": what the agent
\* finds on disk and is about to restart into is not what the launcher has rolled back from.
WaitingTreesAreUntried == staged \notin struck

\* Bad bits do not keep the panel: as long as there is another version to fall back to that
\* is not bad itself, a version that keeps dying young is given up.
BadBitsLoseThePanel ==
    \A v \in Builds : (orderly /\ v \in bad /\ current = v /\ previous \notin bad \cup {None, v})
                            ~> (current # v)

\* If no release is bad the panel ends up running the newest one, whatever crashes and
\* failures it meets on the way - short of a half-removed tree in its place, which stays
\* "for the next boot".
LatestIsTaken ==
    orderly /\ bad = {} => []<>(up = latest \/ tree[latest] = "holed")

\* A pointer to a tree that is not there is survived, in any order of things: the strikes of
\* "Missing" add up and a receiver runs again.
PanelComesBack == tree[current] = "absent" ~> up # None

=============================================================================
