------------------------------ MODULE SelfUpdateProofs ------------------------------
(***************************************************************************)
(* The self-update, for any number of releases, strikes and faults: the    *)
(* pointers name whole trees, and the version a strike-out falls back to   *)
(* has reported itself healthy, if tidying and staging do not overlap and  *)
(* no health marker failed to be written.                                  *)
(*                                                                         *)
(* Both rest on where a version can be while its successor is unproven: a  *)
(* version that has not reported healthy has nothing staged above it, and  *)
(* nothing but itself is staged above the version it would fall back to.   *)
(***************************************************************************)
EXTENDS SelfUpdate, TLAPS

Staging == {"download", "extract", "name", "manifest"}

\* What the receiver's parts know of each other, tidied and staged in any order.
Wired ==
    /\ visit \subseteq [is : {"tree", "staging"}, of : Builds]
    /\ (tidy = "down") = (up = None)
    /\ agent \in Staging => offer # None /\ staged = None
    /\ agent = "name" => staging[offer] # "part"
    /\ agent \in {"point", "leave"} => staged # None /\ previous = up
    /\ up # None /\ agent # "leave" => current = up
    /\ agent = "leave" => current = staged
    /\ offer # None => offer > up
    /\ staged # None => staged > up

\* A tree with a manifest is there, and what waits above the current version is whole.
ManifestsAreKept ==
    \A v \in manifest : tree[v] # "absent" /\ (v > current => tree[v] = "whole")

\* Nothing waits above an unproven version, and only itself above its predecessor.
UnprovenIsLast ==
    current \notin marker =>
        \A v \in manifest : v <= current /\ (previous # None /\ v > previous => v = current)

\* One version at a time waits above the current one.
OneWaits == \A v, w \in manifest : v > current /\ w > current => v = w

\* It is what the agent has staged.
StagedIsWhatWaits ==
    up # None => \A v \in manifest : v > up => v = staged

\* Nothing is staged by a version that has not reported healthy, nor while it tidies.
StagedWhenTidied ==
    /\ agent \in Staging => tidy = "done"
    /\ tidy \in {"visiting", "done"} => up \in marker
    /\ staged # None => up \in marker /\ (tidy # "done" => staged \in manifest)

\* What is being staged is complete when it gets its name.
StagingIsWhole ==
    /\ agent \in {"download", "extract"} => staging[offer] = "part"
    /\ agent = "name" => staging[offer] = "whole"
    /\ agent = "manifest" => tree[offer] = "whole"

\* The tidying task spares the version to fall back to.
FallbackIsSpared == tidy = "visiting" => previous \in {spared, up}

FallbackIsHealthy == previous # None => previous \in marker

Orderly ==
    /\ PointersNameWholeTrees
    /\ FallbackIsHealthy
    /\ ManifestsAreKept
    /\ UnprovenIsLast
    /\ OneWaits
    /\ StagedIsWhatWaits
    /\ StagedWhenTidied
    /\ StagingIsWhole
    /\ FallbackIsSpared

Inv == TypeOK /\ Wired /\ (orderly /\ marked => Orderly)

-----------------------------------------------------------------------------
(* The types, and how the receiver's parts are wired.                      *)

\* OnExit leaves the pointers alone, or falls back from an unproven version.
LEMMA Exit ==
    ASSUME TypeOK, NEW v \in Builds, NEW kind, OnExit(v, kind)
    PROVE  /\ strikes' \in 0..Strikes /\ current' \in Builds /\ struck' \subseteq Builds
           /\ previous' = previous
           /\ \/ current' = current
              \/ current' = previous /\ v \notin marker /\ previous \notin {None, v}
BY UpdateAssumption DEF OnExit, TypeOK, None

\* A fault is within the bound.
LEMMA FaultType == TypeOK /\ Fault => faults' \in 0..MaxFaults[orderly]
<1> SUFFICES ASSUME TypeOK, Fault PROVE faults' \in 0..MaxFaults[orderly]
  OBVIOUS
<1>1. MaxFaults[orderly] \in Nat
  BY UpdateAssumption DEF TypeOK
<1> QED BY <1>1 DEF TypeOK, Fault

LEMMA InitType == Init => TypeOK /\ Wired
<1> SUFFICES ASSUME Init PROVE TypeOK /\ Wired
  OBVIOUS
<1>1. 1 \in Builds /\ None \notin Builds
  BY UpdateAssumption DEF Builds, None
<1>2. Wired
  BY <1>1 DEF Init, Wired, Staging
<1>3. bad \subseteq Builds /\ orderly \in BOOLEAN /\ latest \in Builds
  BY <1>1 DEF Init
<1>4. faults \in 0..MaxFaults[orderly] /\ strikes \in 0..Strikes
  BY <1>3, UpdateAssumption DEF Init
<1>5. tree \in [Builds -> Content \ {"part"}] /\ staging \in [Builds -> Content]
  BY DEF Init, Content
<1> QED BY <1>1, <1>2, <1>3, <1>4, <1>5 DEF Init, TypeOK

LEMMA StepType ==
    ASSUME TypeOK, Wired, [Next]_vars
    PROVE  TypeOK'
<1> USE UpdateAssumption DEF TypeOK, Wired, Staging, Content, Builds, None, world, disk, pointers, launcher, tidying
<1>1. CASE Publish
  BY <1>1 DEF Publish
<1>2. CASE Spawn
  <2>1. strikes' \in 0..Strikes
    BY <1>2 DEF Spawn
  <2>2. staged' \in Builds \cup {None}
    BY <1>2 DEF Spawn, Rediscovered
  <2>3. up' = current /\ current # None
    BY <1>2 DEF Spawn
  <2>11. /\ bad' \subseteq Builds /\ orderly' \in BOOLEAN /\ latest' \in Builds
         /\ marked' \in BOOLEAN /\ faults' \in 0..MaxFaults[orderly']
    BY <1>2, <2>1, <2>2, <2>3 DEF Spawn
  <2>12. /\ tree' \in [Builds -> Content \ {"part"}] /\ staging' \in [Builds -> Content]
         /\ manifest' \subseteq Builds /\ marker' \subseteq Builds /\ struck' \subseteq Builds
    BY <1>2, <2>1, <2>2, <2>3 DEF Spawn
  <2>13. /\ current' \in Builds /\ known' \in Builds \cup {None}
         /\ {previous', up', staged', offer', spared'} \subseteq Builds \cup {None}
    BY <1>2, <2>1, <2>2, <2>3 DEF Spawn
  <2>14. /\ strikes' \in 0..Strikes /\ settled' \in BOOLEAN
         /\ agent' \in {"down", "idle", "download", "extract", "name", "manifest", "point", "leave"}
         /\ tidy' \in {"down", "due", "visiting", "done"}
         /\ (up' = None) = (agent' = "down")
    BY <1>2, <2>1, <2>2, <2>3 DEF Spawn
  <2> QED BY <2>11, <2>12, <2>13, <2>14
<1>3. CASE SpawnMissing
  <2>1. current \in Builds /\ OnExit(current, "missing")
    BY <1>3 DEF SpawnMissing
  <2> QED BY <1>3, <2>1, Exit, SMTT(30) DEF SpawnMissing
<1>4. CASE Settle
  BY <1>4 DEF Settle
<1>5. CASE Crash
  <2>1. up \in Builds /\ OnExit(up, "ended")
    BY <1>5 DEF Crash
  <2>2. faults' \in 0..MaxFaults[orderly]
    BY <1>5, FaultType DEF Crash
  <2>3. /\ strikes' \in 0..Strikes /\ current' \in Builds /\ struck' \subseteq Builds
        /\ previous' = previous
    BY <2>1, Exit
  <2>4. Down /\ UNCHANGED <<bad, orderly, latest, marked, disk, known>>
    BY <1>5 DEF Crash
  <2>11. /\ bad' \subseteq Builds /\ orderly' \in BOOLEAN /\ latest' \in Builds
         /\ marked' \in BOOLEAN /\ faults' \in 0..MaxFaults[orderly']
    BY <2>2, <2>3, <2>4 DEF Down
  <2>12. /\ tree' \in [Builds -> Content \ {"part"}] /\ staging' \in [Builds -> Content]
         /\ manifest' \subseteq Builds /\ marker' \subseteq Builds /\ struck' \subseteq Builds
    BY <2>2, <2>3, <2>4 DEF Down
  <2>13. /\ current' \in Builds /\ known' \in Builds \cup {None}
         /\ {previous', up', staged', offer', spared'} \subseteq Builds \cup {None}
    BY <2>2, <2>3, <2>4 DEF Down
  <2>14. /\ strikes' \in 0..Strikes /\ settled' \in BOOLEAN
         /\ agent' \in {"down", "idle", "download", "extract", "name", "manifest", "point", "leave"}
         /\ tidy' \in {"down", "due", "visiting", "done"}
         /\ (up' = None) = (agent' = "down")
    BY <2>2, <2>3, <2>4 DEF Down
  <2> QED BY <2>11, <2>12, <2>13, <2>14
<1>6. CASE PowerCut
  <2>1. faults' \in 0..MaxFaults[orderly] /\ 0 \in 0..Strikes
    BY <1>6, FaultType DEF PowerCut
  <2>2. /\ Down /\ known' = None /\ strikes' = 0
        /\ UNCHANGED <<bad, orderly, latest, marked, disk, pointers, struck>>
    BY <1>6 DEF PowerCut
  <2>11. /\ bad' \subseteq Builds /\ orderly' \in BOOLEAN /\ latest' \in Builds
         /\ marked' \in BOOLEAN /\ faults' \in 0..MaxFaults[orderly']
    BY <2>1, <2>2 DEF Down
  <2>12. /\ tree' \in [Builds -> Content \ {"part"}] /\ staging' \in [Builds -> Content]
         /\ manifest' \subseteq Builds /\ marker' \subseteq Builds /\ struck' \subseteq Builds
    BY <2>1, <2>2 DEF Down
  <2>13. /\ current' \in Builds /\ known' \in Builds \cup {None}
         /\ {previous', up', staged', offer', spared'} \subseteq Builds \cup {None}
    BY <2>1, <2>2 DEF Down
  <2>14. /\ strikes' \in 0..Strikes /\ settled' \in BOOLEAN
         /\ agent' \in {"down", "idle", "download", "extract", "name", "manifest", "point", "leave"}
         /\ tidy' \in {"down", "due", "visiting", "done"}
         /\ (up' = None) = (agent' = "down")
    BY <2>1, <2>2 DEF Down
  <2> QED BY <2>11, <2>12, <2>13, <2>14
<1>7. CASE Look
  BY <1>7 DEF Look
<1>8. CASE StartStage
  BY <1>8 DEF StartStage, MayStage
<1>9. CASE Downloaded
  BY <1>9 DEF Downloaded
<1>10. CASE Extracted
  BY <1>10 DEF Extracted
<1>11. CASE NameTree
  BY <1>11 DEF NameTree
<1>12. CASE WriteManifest
  <2>1. manifest' \subseteq Builds /\ offer \in Builds
    BY <1>12 DEF WriteManifest
  <2>2. faults' \in 0..MaxFaults[orderly]
    BY <1>12, FaultType DEF WriteManifest
  <2> QED BY <1>12, <2>1, <2>2 DEF WriteManifest
<1>13. CASE StageFails
  BY <1>13 DEF StageFails, Fault
<1>14. CASE WritePrevious
  BY <1>14 DEF WritePrevious
<1>15. CASE WriteCurrent
  BY <1>15 DEF WriteCurrent, Fault
<1>16. CASE Leave
  <2>1. up \in Builds /\ OnExit(up, "activate")
    BY <1>16 DEF Leave
  <2> QED BY <1>16, <2>1, Exit DEF Leave, Down
<1>17. CASE StartTidy
  <2>1. marker' \subseteq Builds /\ marked' \in BOOLEAN
    BY <1>17 DEF StartTidy
  <2>2. faults' \in 0..MaxFaults[orderly]
    BY <1>17, FaultType DEF StartTidy
  <2>3. UNCHANGED <<bad, orderly, latest, tree, staging, manifest, pointers, launcher, up,
                    settled, agent, staged, offer>> /\ spared' = previous /\ tidy' = "visiting"
    BY <1>17 DEF StartTidy
  <2> QED BY <2>1, <2>2, <2>3
<1>18. CASE TidyEntry
  <2>1. PICK e \in visit :
          \/ /\ \/ tree' = [tree EXCEPT ![e.of] = "absent"] /\ UNCHANGED faults
                \/ tree' = [tree EXCEPT ![e.of] = "holed"] /\ Fault
             /\ manifest' \in {manifest, manifest \ {e.of}} /\ marker' \in {marker, marker \ {e.of}}
             /\ UNCHANGED staging
          \/ \E c \in {"holed", "absent"} : staging' = [staging EXCEPT ![e.of] = c]
             /\ UNCHANGED <<tree, manifest, marker, faults>>
          \/ UNCHANGED <<disk, faults>>
    BY <1>18 DEF TidyEntry
  <2>2. e.of \in Builds
    OBVIOUS
  <2>3. tree' \in [Builds -> Content \ {"part"}] /\ staging' \in [Builds -> Content]
    BY <2>1, <2>2
  <2>4. manifest' \subseteq Builds /\ marker' \subseteq Builds
    BY <2>1
  <2>5. faults' \in 0..MaxFaults[orderly]
    BY <2>1, FaultType
  <2>6. UNCHANGED <<bad, orderly, latest, marked, pointers, launcher, up, settled, agent, staged, offer,
                    tidy, spared>>
    BY <1>18 DEF TidyEntry
  <2> QED BY <2>3, <2>4, <2>5, <2>6
<1>19. CASE EndTidy
  BY <1>19 DEF EndTidy
<1>20. CASE UNCHANGED vars
  BY <1>20 DEF vars
<1> QED BY <1>1, <1>2, <1>3, <1>4, <1>5, <1>6, <1>7, <1>8, <1>9, <1>10, <1>11, <1>12, <1>13, <1>14, <1>15, <1>16, <1>17, <1>18, <1>19, <1>20 DEF Next, Supervise, Agent, Tidy

LEMMA StepWired ==
    ASSUME TypeOK, Wired, [Next]_vars
    PROVE  Wired'
<1> USE UpdateAssumption DEF TypeOK, Wired, Staging, Content, Builds, None, world, disk, pointers, launcher, tidying
<1>1. CASE Publish
  BY <1>1 DEF Publish
<1>2. CASE Spawn
  BY <1>2 DEF Spawn, Rediscovered
<1>3. CASE SpawnMissing
  BY <1>3 DEF SpawnMissing, OnExit
<1>4. CASE Settle
  BY <1>4 DEF Settle
<1>5. CASE Crash
  BY <1>5 DEF Crash, Down
<1>6. CASE PowerCut
  BY <1>6 DEF PowerCut, Down, Fault
<1>7. CASE Look
  BY <1>7 DEF Look
<1>8. CASE StartStage
  BY <1>8 DEF StartStage, MayStage
<1>9. CASE Downloaded
  BY <1>9 DEF Downloaded
<1>10. CASE Extracted
  BY <1>10 DEF Extracted
<1>11. CASE NameTree
  BY <1>11 DEF NameTree
<1>12. CASE WriteManifest
  BY <1>12 DEF WriteManifest, Fault
<1>13. CASE StageFails
  BY <1>13 DEF StageFails, Fault
<1>14. CASE WritePrevious
  BY <1>14 DEF WritePrevious
<1>15. CASE WriteCurrent
  BY <1>15 DEF WriteCurrent, Fault
<1>16. CASE Leave
  BY <1>16 DEF Leave, Down
<1>17. CASE StartTidy
  BY <1>17 DEF StartTidy, Named, Unnamed, Fault
<1>18. CASE TidyEntry
  BY <1>18 DEF TidyEntry, Fault, Sweep
<1>19. CASE EndTidy
  BY <1>19 DEF EndTidy
<1>20. CASE UNCHANGED vars
  BY <1>20 DEF vars
<1> QED BY <1>1, <1>2, <1>3, <1>4, <1>5, <1>6, <1>7, <1>8, <1>9, <1>10, <1>11, <1>12, <1>13, <1>14, <1>15, <1>16, <1>17, <1>18, <1>19, <1>20 DEF Next, Supervise, Agent, Tidy

\* Every step keeps what staging and tidying make sure of, if they do not overlap.
LEMMA StepOrderly ==
    ASSUME TypeOK, Wired, orderly, marked', Orderly, [Next]_vars
    PROVE  Orderly'
<1> USE UpdateAssumption DEF TypeOK, Wired, Staging, Builds, None, Orderly, PointersNameWholeTrees, FallbackIsHealthy,
           ManifestsAreKept, UnprovenIsLast, OneWaits, StagedIsWhatWaits, StagedWhenTidied,
           StagingIsWhole, FallbackIsSpared, world, disk, pointers, launcher, tidying
<1>1. CASE Publish
  BY <1>1 DEF Publish
<1>2. CASE Spawn
  <2>1. /\ up' = current /\ agent' = "idle" /\ offer' = None /\ tidy' = "due"
        /\ UNCHANGED <<world, disk, pointers, struck, visit, spared>> /\ up = None
    BY <1>2 DEF Spawn
  <2>2. \/ staged' \in manifest /\ staged' > current
        \/ staged' = None /\ \A v \in manifest : ~(v > current)
    BY <1>2, SMTT(30) DEF Spawn, Rediscovered
  <2>2a. staged' # None => current \in marker /\ staged' \in manifest
    <3>1. \A v \in manifest : ~(v > current /\ v <= current)
      OBVIOUS
    <3>2. current \notin marker => \A v \in manifest : v <= current
      BY DEF UnprovenIsLast
    <3> HIDE DEF TypeOK, Orderly
    <3> QED BY <2>2, <3>1, <3>2
  <2>3. PointersNameWholeTrees'
    BY <2>1, <2>2
  <2>4. FallbackIsHealthy'
    BY <2>1, <2>2
  <2>5. ManifestsAreKept'
    BY <2>1, <2>2
  <2>6. UnprovenIsLast'
    BY <2>1, <2>2
  <2>7. OneWaits'
    BY <2>1, <2>2
  <2>8. StagedIsWhatWaits'
    BY <2>1, <2>2
  <2>9. StagedWhenTidied'
    BY <2>2a, <2>1, <2>2
  <2>10. StagingIsWhole'
    BY <2>1, <2>2
  <2>11. FallbackIsSpared'
    BY <2>1, <2>2
  <2> QED BY <2>3, <2>4, <2>5, <2>6, <2>7, <2>8, <2>9, <2>10, <2>11
<1>3. CASE SpawnMissing
  BY <1>3 DEF SpawnMissing
<1>4. CASE Settle
  BY <1>4 DEF Settle
<1>5. CASE Crash
  <2>1. Down /\ UNCHANGED <<bad, orderly, latest, marked, disk, known>> /\ up \in Builds
    BY <1>5 DEF Crash
  <2>2. /\ previous' = previous
        /\ \/ current' = current
           \/ current' = previous /\ up \notin marker /\ previous \notin {None, up}
    BY <1>5, <2>1, Exit DEF Crash
  <2> QED BY <2>1, <2>2 DEF Down
<1>6. CASE PowerCut
  BY <1>6 DEF PowerCut, Down, Fault
<1>7. CASE Look
  BY <1>7 DEF Look
<1>8. CASE StartStage
  BY <1>8 DEF StartStage, MayStage
<1>9. CASE Downloaded
  BY <1>9 DEF Downloaded
<1>10. CASE Extracted
  BY <1>10 DEF Extracted
<1>11. CASE NameTree
  BY <1>11 DEF NameTree
<1>12. CASE WriteManifest
  <2>1. /\ agent = "manifest" /\ agent' = "idle" /\ staged' = offer /\ offer' = None
        /\ manifest' \in {manifest, manifest \cup {offer}}
        /\ UNCHANGED <<bad, orderly, latest, marked, tree, staging, marker, pointers, launcher, up,
                       settled, tidying>>
    BY <1>12 DEF WriteManifest
  <2>2. /\ offer \in Builds /\ offer > up /\ tree[offer] = "whole" /\ up \in Builds
        /\ current = up /\ staged = None /\ up \in marker /\ tidy = "done"
        /\ \A v \in manifest : ~(v > up)
    BY <2>1
  <2>3. PointersNameWholeTrees'
    BY <2>1, <2>2
  <2>4. FallbackIsHealthy'
    BY <2>1, <2>2
  <2>5. ManifestsAreKept'
    BY <2>1, <2>2
  <2>6. UnprovenIsLast'
    BY <2>1, <2>2
  <2>7. OneWaits'
    BY <2>1, <2>2
  <2>8. StagedIsWhatWaits'
    BY <2>1, <2>2
  <2>9. StagedWhenTidied'
    BY <2>1, <2>2
  <2>10. StagingIsWhole'
    BY <2>1, <2>2
  <2>11. FallbackIsSpared'
    BY <2>1, <2>2
  <2> QED BY <2>3, <2>4, <2>5, <2>6, <2>7, <2>8, <2>9, <2>10, <2>11
<1>13. CASE StageFails
  BY <1>13 DEF StageFails, Fault
<1>14. CASE WritePrevious
  BY <1>14 DEF WritePrevious
<1>15. CASE WriteCurrent
  <2>1. /\ agent = "point" /\ up \in Builds /\ current = up /\ previous = up
        /\ staged \in Builds /\ staged > up /\ up \in marker
        /\ \A v \in manifest : v > up => v = staged
    BY <1>15 DEF WriteCurrent
  <2>2. /\ \/ current' = staged /\ agent' = "leave"
           \/ current' = current /\ agent' = "idle"
        /\ UNCHANGED <<bad, orderly, latest, marked, disk, previous, launcher, up, settled, staged,
                       offer, tidying>>
    BY <1>15 DEF WriteCurrent
  <2>3. PointersNameWholeTrees'
    BY <2>1, <2>2
  <2>4. FallbackIsHealthy'
    BY <2>1, <2>2
  <2>5. ManifestsAreKept'
    BY <2>1, <2>2
  <2>6. UnprovenIsLast'
    BY <2>1, <2>2
  <2>7. OneWaits'
    BY <2>1, <2>2
  <2>8. StagedIsWhatWaits'
    BY <2>1, <2>2
  <2>9. StagedWhenTidied'
    BY <2>1, <2>2
  <2>10. StagingIsWhole'
    BY <2>1, <2>2
  <2>11. FallbackIsSpared'
    BY <2>1, <2>2
  <2> QED BY <2>3, <2>4, <2>5, <2>6, <2>7, <2>8, <2>9, <2>10, <2>11
<1>16. CASE Leave
  <2>1. Down /\ UNCHANGED <<world, disk, known>> /\ up \in Builds
    BY <1>16 DEF Leave
  <2>2. /\ previous' = previous
        /\ \/ current' = current
           \/ current' = previous /\ up \notin marker /\ previous \notin {None, up}
    BY <1>16, <2>1, Exit DEF Leave
  <2> QED BY <2>1, <2>2 DEF Down
<1>17. CASE StartTidy
  BY <1>17 DEF StartTidy, Named, Unnamed
<1>18. CASE TidyEntry
  <2>1. /\ tidy = "visiting" /\ agent \notin Staging /\ up \in marker /\ up \in Builds
        /\ UNCHANGED <<bad, orderly, latest, marked, pointers, launcher, up, settled, agent, staged,
                       offer, tidy, spared>>
        /\ visit' \subseteq visit
    BY <1>18 DEF TidyEntry
  <2>2. PICK e \in visit :
          \/ /\ Sweep(e.of) /\ UNCHANGED staging
             /\ \/ /\ tree' = [tree EXCEPT ![e.of] = "absent"]
                   /\ manifest' = manifest \ {e.of} /\ marker' = marker \ {e.of}
                \/ /\ tree' = [tree EXCEPT ![e.of] = "holed"]
                   /\ manifest' \in {manifest, manifest \ {e.of}} /\ UNCHANGED marker
          \/ UNCHANGED <<tree, manifest, marker>>
    BY <1>18 DEF TidyEntry
  <2>3. CASE UNCHANGED <<tree, manifest, marker>>
    BY <2>1, <2>3
  <2>4. CASE Sweep(e.of) /\ ~ UNCHANGED <<tree, manifest, marker>>
    <3> DEFINE s == e.of
    <3>1. /\ s \in Builds /\ s \notin {up, spared} /\ ~(s > up /\ s \in manifest)
      BY <2>4 DEF Sweep
    <3>2. s # current /\ s # previous /\ s # staged
      BY <2>1, <3>1
    <3>3. /\ \A v \in Builds : v # s => tree'[v] = tree[v]
          /\ tree'[s] # "absent" \/ s \notin manifest'
          /\ manifest' \subseteq manifest /\ manifest \subseteq manifest' \cup {s}
          /\ marker' \subseteq marker /\ marker \subseteq marker' \cup {s}
      BY <2>2, <2>4, <3>1
    <3> HIDE DEF s
    <3>4. PointersNameWholeTrees' /\ FallbackIsHealthy' /\ FallbackIsSpared'
      BY <2>1, <3>2, <3>3
    <3>5. ManifestsAreKept'
      BY <2>1, <3>1, <3>2, <3>3
    <3>6. UnprovenIsLast' /\ OneWaits' /\ StagedIsWhatWaits'
      BY <2>1, <3>1, <3>2, <3>3
    <3>7. StagedWhenTidied' /\ StagingIsWhole'
      BY <2>1, <3>1, <3>2, <3>3
    <3> QED BY <3>4, <3>5, <3>6, <3>7
  <2> QED BY <2>2, <2>3, <2>4
<1>19. CASE EndTidy
  BY <1>19 DEF EndTidy
<1>20. CASE UNCHANGED vars
  BY <1>20 DEF vars
<1> QED BY <1>1, <1>2, <1>3, <1>4, <1>5, <1>6, <1>7, <1>8, <1>9, <1>10, <1>11, <1>12, <1>13, <1>14, <1>15, <1>16, <1>17, <1>18, <1>19, <1>20 DEF Next, Supervise, Agent, Tidy

-----------------------------------------------------------------------------
(* The invariant and the theorems.                                         *)

LEMMA InitOrderly == Init => Orderly
<1> SUFFICES ASSUME Init PROVE Orderly
  OBVIOUS
<1> USE DEF Init
<1>1. 1 \in Builds /\ tree[1] = "whole"
  BY UpdateAssumption DEF Builds
<1>2. PointersNameWholeTrees /\ FallbackIsHealthy
  BY <1>1 DEF PointersNameWholeTrees, FallbackIsHealthy
<1>3. ManifestsAreKept /\ UnprovenIsLast /\ OneWaits /\ StagedIsWhatWaits
  BY DEF ManifestsAreKept, UnprovenIsLast, OneWaits, StagedIsWhatWaits
<1>4. StagedWhenTidied /\ StagingIsWhole /\ FallbackIsSpared
  BY DEF StagedWhenTidied, StagingIsWhole, FallbackIsSpared, Staging
<1> QED BY <1>2, <1>3, <1>4 DEF Orderly

\* Whether tidying and staging overlap is settled at the start, and a marker that could
\* not be written is not forgotten.
LEMMA OrderlyIsFixed == [Next]_vars => (orderly' <=> orderly) /\ (marked' => marked)
BY DEF Next, Supervise, Agent, Tidy, Publish, Spawn, SpawnMissing, Settle, Crash, PowerCut, Look,
       StartStage, Downloaded, Extracted, NameTree, WriteManifest, StageFails, WritePrevious,
       WriteCurrent, Leave, StartTidy, TidyEntry, EndTidy, vars, world

LEMMA Invariant == Spec => []Inv
<1>1. Init => Inv
  BY InitType, InitOrderly DEF Inv
<1>2. Inv /\ [Next]_vars => Inv'
  BY StepType, StepWired, StepOrderly, OrderlyIsFixed DEF Inv
<1> QED BY <1>1, <1>2, PTL DEF Spec

\* The install tree, the pointers, the launcher, the agent and the tidying
\* task keep their types, in any order of things.
THEOREM Typing == Spec => []TypeOK
<1>1. Inv => TypeOK
  BY DEF Inv
<1> QED BY <1>1, Invariant, PTL

\* For any number of releases and faults: what current.txt and previous.txt
\* name, and what the agent would have them name next, is there whole, if
\* collect_old_versions and stage() do not overlap and mark_healthy_and_tidy
\* has written every marker it had to (install.rs, agent.rs).
THEOREM OnlyWholeTreesAreSpawned == Spec => []NothingSpawnsHalfATree
<1>1. Inv => NothingSpawnsHalfATree
  BY DEF Inv, Orderly, NothingSpawnsHalfATree
<1> QED BY <1>1, Invariant, PTL

\* For any number of releases and faults: the version on_exit falls back to
\* has written its .healthy marker, on the same conditions.
THEOREM FallsBackToHealthy == Spec => []PreviousWasHealthy
<1>1. Inv => PreviousWasHealthy
  BY DEF Inv, Orderly, FallbackIsHealthy, PreviousWasHealthy
<1> QED BY <1>1, Invariant, PTL
=============================================================================
