------------------------------- MODULE WakerProofs -------------------------------
(* For any set of producers: the render loop never blocks on queued work. *)
EXTENDS Waker, TLAPS

\* Type correctness of the waker and the kiosk loop.
THEOREM Typing == Spec => []TypeOK
<1>1. Init => TypeOK
  <2>1. Init => left \in [Producers -> 0..MaxSends]
    BY MaxSendsAssumption DEF Init
  <2>2. Init => prod \in [Producers -> {"idle", "queued", "latch", "call"}]
    BY DEF Init
  <2> QED BY <2>1, <2>2, Zenon DEF Init, TypeOK, LoopStates, Starting
<1>2. TypeOK /\ [Next]_vars => TypeOK'
  <2> SUFFICES ASSUME TypeOK, [Next]_vars PROVE TypeOK'
    OBVIOUS
  <2> USE MaxSendsAssumption DEF TypeOK, LoopStates, Starting
  <2>1. CASE ArmSet BY <2>1 DEF ArmSet
  <2>2. CASE ArmSwap BY <2>2 DEF ArmSwap
  <2>3. CASE ArmFire BY <2>3 DEF ArmFire
  <2>4. CASE Resumed BY <2>4 DEF Resumed
  <2>5. CASE UserEvent BY <2>5 DEF UserEvent
  <2>6. CASE WindowEvent BY <2>6 DEF WindowEvent
  <2>7. CASE RedrawRequested BY <2>7 DEF RedrawRequested
  <2>8. CASE Present BY <2>8 DEF Present
  <2>9. CASE AboutToWait BY <2>9 DEF AboutToWait
  <2>10. ASSUME NEW p \in Producers, Send(p) PROVE TypeOK' BY <2>10 DEF Send
  <2>11. ASSUME NEW p \in Producers, RequestExit(p) PROVE TypeOK' BY <2>11 DEF RequestExit
  <2>12. ASSUME NEW p \in Producers, Drain(p) PROVE TypeOK' BY <2>12 DEF Drain
  <2>13. ASSUME NEW p \in Producers, WakeLoad(p) PROVE TypeOK' BY <2>13 DEF WakeLoad
  <2>14. ASSUME NEW p \in Producers, WakeCall(p) PROVE TypeOK' BY <2>14 DEF WakeCall
  <2>15. ASSUME NEW p \in Producers, WakeLatch(p) PROVE TypeOK' BY <2>15 DEF WakeLatch
  <2>16. CASE UNCHANGED vars BY <2>16 DEF vars
  <2> QED
    BY <2>1, <2>2, <2>3, <2>4, <2>5, <2>6, <2>7, <2>8, <2>9, <2>10, <2>11, <2>12,
       <2>13, <2>14, <2>15, <2>16 DEF Next
<1> QED BY <1>1, <1>2, PTL DEF Spec

(***************************************************************************)
(* The strengthening: the target is set exactly once arming has begun, so  *)
(* a producer that takes the latch arm of wake() did so before the window  *)
(* asked for its first frame.                                              *)
(***************************************************************************)
TargetSet == loop # "build" => target
IInv == TargetSet /\ NoSleepOnCommands /\ NoSleepOnExit

\* The strengthened invariant holds of every behaviour.
LEMMA InvariantHolds == Spec => []IInv
<1>1. Init => IInv
  BY Zenon DEF Init, IInv, TargetSet, NoSleepOnCommands, NoSleepOnExit
<1>2. TypeOK /\ TypeOK' /\ IInv /\ [Next]_vars => IInv'
  <2> SUFFICES ASSUME TypeOK, TypeOK', IInv, [Next]_vars PROVE TargetSet' /\ NoSleepOnCommands' /\ NoSleepOnExit'
    BY DEF IInv
  <2> USE DEF IInv, TypeOK, LoopStates, Starting, TargetSet, NoSleepOnCommands, NoSleepOnExit, Waking
  <2>1. CASE ArmSet BY <2>1 DEF ArmSet
  <2>2. CASE ArmSwap BY <2>2 DEF ArmSwap
  <2>3. CASE ArmFire BY <2>3 DEF ArmFire
  <2>4. CASE Resumed BY <2>4 DEF Resumed
  <2>5. CASE UserEvent BY <2>5 DEF UserEvent
  <2>6. CASE WindowEvent BY <2>6 DEF WindowEvent
  <2>7. CASE RedrawRequested BY <2>7 DEF RedrawRequested
  <2>8. CASE Present BY <2>8 DEF Present
  <2>9. CASE AboutToWait BY <2>9 DEF AboutToWait
  <2>10. ASSUME NEW p \in Producers, Send(p) PROVE TargetSet' /\ NoSleepOnCommands' /\ NoSleepOnExit'
    BY <2>10 DEF Send
  <2>11. ASSUME NEW p \in Producers, RequestExit(p) PROVE TargetSet' /\ NoSleepOnCommands' /\ NoSleepOnExit'
    BY <2>11 DEF RequestExit
  <2>12. ASSUME NEW p \in Producers, Drain(p) PROVE TargetSet' /\ NoSleepOnCommands' /\ NoSleepOnExit'
    BY <2>12 DEF Drain
  <2>13. ASSUME NEW p \in Producers, WakeLoad(p) PROVE TargetSet' /\ NoSleepOnCommands' /\ NoSleepOnExit'
    BY <2>13 DEF WakeLoad
  <2>14. ASSUME NEW p \in Producers, WakeCall(p) PROVE TargetSet' /\ NoSleepOnCommands' /\ NoSleepOnExit'
    BY <2>14 DEF WakeCall
  <2>15. ASSUME NEW p \in Producers, WakeLatch(p) PROVE TargetSet' /\ NoSleepOnCommands' /\ NoSleepOnExit'
    BY <2>15 DEF WakeLatch
  <2>16. CASE UNCHANGED vars BY <2>16 DEF vars
  <2> QED
    BY <2>1, <2>2, <2>3, <2>4, <2>5, <2>6, <2>7, <2>8, <2>9, <2>10, <2>11, <2>12,
       <2>13, <2>14, <2>15, <2>16 DEF Next
<1> QED BY <1>1, <1>2, Typing, PTL DEF Spec

\* No interleaving of producers with arming, drawing and sleeping leaves a command in the
\* channel, or the exit flag up, with the loop blocked and nobody about to wake it - even
\* though a wake that races arm() can be lost in the latch (EarlyWakesFire fails).
THEOREM NeverSleepsOnWork == Spec => [](NoSleepOnCommands /\ NoSleepOnExit)
<1>1. IInv => NoSleepOnCommands /\ NoSleepOnExit
  BY DEF IInv
<1> QED BY <1>1, InvariantHolds, PTL

-----------------------------------------------------------------------------
(***************************************************************************)
(* Every command is drawn.  A command that waits is at one of finitely     *)
(* many stages, each of which a fair action ends and no action undoes.     *)
(* What it means for an action to be enabled is beyond the prover, so that *)
(* the fair actions are enabled where their guards hold (GuardsSuffice) is *)
(* a hypothesis; TLC checks it, WakerProofs.cfg.                           *)
(***************************************************************************)

At(l) == loop = l

\* The loop takes events from winit, or blocks in it.
Serving == loop \in {"events", "asleep"}

\* A frame is asked for, an event waits, a frame is owed.
Asks == Serving /\ redraw
Called == Serving /\ events
Owes == At("events") /\ dirty

\* The thread in wake() is about to look for the target, or to call it.
Loads(p) == Serving /\ prod[p] = "queued"
Rings(p) == Serving /\ prod[p] = "call"

Looks == loop \in {"drain", "gone"}
Drains(p) == At("drain") /\ p \in commands
Waits(p) == p \in commands /\ ~At("gone")

\* The guard of each fair action lets it be taken, and taking it changes something.
GuardsSuffice ==
    /\ At("build") => ENABLED <<ArmSet>>_vars
    /\ At("swap") => ENABLED <<ArmSwap>>_vars
    /\ At("fire") => ENABLED <<ArmFire>>_vars
    /\ At("run") => ENABLED <<Resumed>>_vars
    /\ Called => ENABLED <<UserEvent>>_vars
    /\ Asks => ENABLED <<RedrawRequested>>_vars
    /\ Owes => ENABLED <<AboutToWait>>_vars
    /\ \A p \in Producers : /\ Loads(p) \/ Rings(p) => ENABLED <<Wake(p)>>_vars
                            /\ Drains(p) => ENABLED <<Drain(p)>>_vars

\* A stage is left only for one nearer to the frame.
Nearer(p) ==
    /\ At("build") => At("build")' \/ At("swap")'
    /\ At("swap") => At("swap")' \/ At("fire")' \/ At("run")'
    /\ At("fire") => At("fire")' \/ At("run")'
    /\ At("run") => At("run")' \/ Asks'
    /\ Loads(p) => Loads(p)' \/ Rings(p)' \/ Looks'
    /\ Rings(p) => Rings(p)' \/ Called' \/ Looks'
    /\ Called => Called' \/ Owes' \/ Looks'
    /\ Owes => Owes' \/ Asks' \/ Looks'
    /\ Asks => Asks' \/ Looks'
    /\ Drains(p) => Drains(p)' \/ ~Waits(p)'

\* No step of any thread takes a command back to an earlier stage.
LEMMA NoStepBack ==
    ASSUME NEW p \in Producers
    PROVE  TypeOK /\ TargetSet /\ [Next]_vars => Nearer(p)
<1> SUFFICES ASSUME TypeOK, TargetSet, [Next]_vars PROVE Nearer(p)
  OBVIOUS
<1> USE DEF Nearer, At, Serving, Asks, Called, Owes, Loads, Rings, Looks, Drains, Waits, TypeOK
<1>1. CASE ArmSet BY <1>1 DEF ArmSet
<1>2. CASE ArmSwap BY <1>2 DEF ArmSwap
<1>3. CASE ArmFire BY <1>3 DEF ArmFire
<1>4. CASE Resumed BY <1>4 DEF Resumed
<1>5. CASE UserEvent BY <1>5 DEF UserEvent
<1>6. CASE WindowEvent BY <1>6 DEF WindowEvent
<1>7. CASE RedrawRequested BY <1>7 DEF RedrawRequested
<1>8. CASE Present BY <1>8 DEF Present
<1>9. CASE AboutToWait BY <1>9 DEF AboutToWait
<1>10. ASSUME NEW q \in Producers, Send(q) PROVE Nearer(p) BY <1>10 DEF Send
<1>11. ASSUME NEW q \in Producers, RequestExit(q) PROVE Nearer(p) BY <1>11 DEF RequestExit
<1>12. ASSUME NEW q \in Producers, Drain(q) PROVE Nearer(p) BY <1>12 DEF Drain
<1>13. ASSUME NEW q \in Producers, WakeLoad(q) PROVE Nearer(p) BY <1>13 DEF WakeLoad, TargetSet
<1>14. ASSUME NEW q \in Producers, WakeCall(q) PROVE Nearer(p) BY <1>14 DEF WakeCall
<1>15. ASSUME NEW q \in Producers, WakeLatch(q) PROVE Nearer(p) BY <1>15 DEF WakeLatch
<1>16. CASE UNCHANGED vars BY <1>16 DEF vars
<1> QED
  BY <1>1, <1>2, <1>3, <1>4, <1>5, <1>6, <1>7, <1>8, <1>9, <1>10, <1>11, <1>12, <1>13,
     <1>14, <1>15, <1>16 DEF Next

\* The fair action of each stage, taken there, ends it.
LEMMA StagesEnd ==
    ASSUME NEW p \in Producers
    PROVE  /\ <<ArmSet>>_vars => At("swap")'
           /\ <<ArmSwap>>_vars => At("fire")' \/ At("run")'
           /\ <<ArmFire>>_vars => At("run")'
           /\ <<Resumed>>_vars => Asks'
           /\ <<UserEvent>>_vars => Owes'
           /\ <<RedrawRequested>>_vars => Looks'
           /\ Owes /\ <<AboutToWait>>_vars => Asks' \/ Looks'
           /\ TypeOK /\ TargetSet /\ Loads(p) /\ <<Wake(p)>>_vars => Rings(p)'
           /\ Rings(p) /\ <<Wake(p)>>_vars => Called'
           /\ <<Drain(p)>>_vars => ~Waits(p)'
<1> USE DEF At, Serving, Asks, Called, Owes, Loads, Rings, Looks, Waits
<1>1. <<ArmSet>>_vars => At("swap")'
  BY DEF ArmSet
<1>2. <<ArmSwap>>_vars => At("fire")' \/ At("run")'
  BY DEF ArmSwap
<1>3. <<ArmFire>>_vars => At("run")'
  BY DEF ArmFire
<1>4. <<Resumed>>_vars => Asks'
  BY DEF Resumed
<1>5. <<UserEvent>>_vars => Owes'
  BY DEF UserEvent
<1>6. <<RedrawRequested>>_vars => Looks'
  BY DEF RedrawRequested
<1>7. Owes /\ <<AboutToWait>>_vars => Asks' \/ Looks'
  BY DEF AboutToWait
<1>8. TypeOK /\ TargetSet /\ Loads(p) /\ <<Wake(p)>>_vars => Rings(p)'
  BY DEF Wake, WakeLoad, WakeCall, WakeLatch, TypeOK, TargetSet
<1>9. Rings(p) /\ <<Wake(p)>>_vars => Called'
  BY DEF Wake, WakeLoad, WakeCall, WakeLatch
<1>10. <<Drain(p)>>_vars => ~Waits(p)'
  BY DEF Drain
<1> QED BY <1>1, <1>2, <1>3, <1>4, <1>5, <1>6, <1>7, <1>8, <1>9, <1>10

\* A command that waits is at one of the stages: this is where the loop never blocking on
\* queued work is needed.
LEMMA SomeStage ==
    ASSUME NEW p \in Producers
    PROVE  TypeOK /\ NoSleepOnCommands /\ Waits(p) =>
             \/ At("build") \/ At("swap") \/ At("fire") \/ At("run")
             \/ Loads(p) \/ Rings(p) \/ Called \/ Owes \/ Asks \/ Drains(p)
<1> SUFFICES ASSUME TypeOK, NoSleepOnCommands, Waits(p), ~ Serving
             PROVE At("build") \/ At("swap") \/ At("fire") \/ At("run") \/ Drains(p)
  BY DEF NoSleepOnCommands, Waits, Waking, Loads, Rings, Called, Owes, Asks, Drains, At,
         Starting, Serving
<1> QED BY DEF TypeOK, LoopStates, Starting, Serving, Waits, At, Drains

\* Every command queued, by whichever thread and however its wake races with arming, drawing
\* and sleeping, is drawn in the end, or the loop has left (RenderTx::send, Waker::wake,
\* KioskApp::about_to_wait).
THEOREM EveryCommandIsDrawn == Spec /\ []GuardsSuffice => CommandsAreDrawn
<1>1. ASSUME NEW p \in Producers
      PROVE  Spec /\ []GuardsSuffice => (p \in commands ~> (p \notin commands \/ loop = "gone"))
  <2>1. Spec => ProducerFairness(p)
    BY DEF Spec
  <2>2. GuardsSuffice => /\ Loads(p) \/ Rings(p) => ENABLED <<Wake(p)>>_vars
                         /\ Drains(p) => ENABLED <<Drain(p)>>_vars
    BY DEF GuardsSuffice
  <2>3. Looks => Drains(p) \/ ~Waits(p)
    BY DEF Looks, Drains, Waits, At
  <2>4. Spec => [](TypeOK /\ TargetSet /\ NoSleepOnCommands)
    BY Typing, InvariantHolds, PTL DEF IInv
  <2>5. TypeOK /\ TargetSet /\ [Next]_vars => Nearer(p)
    BY NoStepBack
  <2> DEFINE Sp == Spec /\ []GuardsSuffice
  <2>6. Sp => (Drains(p) ~> ~Waits(p))
    BY <2>1, <2>2, <2>4, <2>5, StagesEnd, PTL DEF Spec, ProducerFairness, Nearer
  <2>7. Sp => (Looks ~> ~Waits(p))
    BY <2>3, <2>6, PTL
  <2>8. Sp => (Asks ~> Looks)
    BY <2>4, <2>5, StagesEnd, PTL DEF Spec, Fairness, GuardsSuffice, Nearer
  <2>9. Sp => (Owes ~> (Asks \/ Looks))
    BY <2>4, <2>5, StagesEnd, PTL DEF Spec, Fairness, GuardsSuffice, Nearer
  <2>10. Sp => (Called ~> (Owes \/ Looks))
    BY <2>4, <2>5, StagesEnd, PTL DEF Spec, Fairness, GuardsSuffice, Nearer
  <2>11. Sp => (Rings(p) ~> (Called \/ Looks))
    BY <2>1, <2>2, <2>4, <2>5, StagesEnd, PTL DEF Spec, ProducerFairness, Nearer
  <2>12. Sp => (Loads(p) ~> (Rings(p) \/ Looks))
    BY <2>1, <2>2, <2>4, <2>5, StagesEnd, PTL DEF Spec, ProducerFairness, Nearer
  <2>13. Sp => ((At("build") \/ At("swap") \/ At("fire") \/ At("run")) ~> Asks)
    BY <2>4, <2>5, StagesEnd, PTL DEF Spec, Fairness, GuardsSuffice, Nearer
  <2>14. Sp => (Waits(p) ~> ~Waits(p))
    BY <2>4, <2>7, <2>8, <2>9, <2>10, <2>11, <2>12, <2>13, <2>6, SomeStage, PTL
  <2>15. (p \in commands => Waits(p) \/ loop = "gone")
         /\ (~Waits(p) => p \notin commands \/ loop = "gone")
    BY DEF Waits, At
  <2> QED BY <2>14, <2>15, PTL
<1> QED BY <1>1 DEF CommandsAreDrawn
=============================================================================
