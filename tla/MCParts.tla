------------------------------ MODULE MCParts ------------------------------
(***************************************************************************)
(* Three components that share no state, checked in one run: the writer of *)
(* ACL data, the window of HCI commands and the RTP reorder buffer.  A     *)
(* behaviour is one of one component, chosen at the start (`moving`),      *)
(* while the others keep their initial state.                              *)
(***************************************************************************)
EXTENDS AclWriter, CommandWindow, ReorderBuffer

VARIABLE moving    \* the component this behaviour is of

allVars == <<moving, writerVars, commandVars, bufferVars>>

Init ==
    /\ moving \in {"writer", "commands", "buffer"}
    /\ WriterInit /\ CommandInit /\ BufferInit

Next ==
    /\ UNCHANGED moving
    /\ \/ /\ moving = "writer" /\ WriterNext
          /\ UNCHANGED <<commandVars, bufferVars>>
       \/ /\ moving = "commands" /\ CommandNext
          /\ UNCHANGED <<writerVars, bufferVars>>
       \/ /\ moving = "buffer" /\ BufferNext
          /\ UNCHANGED <<writerVars, commandVars>>

\* The fairness of the components.  A component that does not move is in its
\* initial state, where nothing fairness speaks of is enabled.
Spec == Init /\ [][Next]_allVars /\ WriterFairness /\ CommandFairness

-----------------------------------------------------------------------------
\* The type invariant of each component.
TypeOK == WriterTypeOK /\ CommandTypeOK /\ BufferTypeOK

\* The controller is never handed what it has no room for: no ACL fragment
\* beyond its buffers and no command beyond its window.
ControllerHasRoom == FragmentsFit /\ CommandsFit

\* Nothing waits for a credit for ever: neither a PDU behind the writer of
\* ACL data, nor a command behind the window.
NothingIsStuck == QueueDrains /\ CommandsGoOut
=============================================================================
