------------------------------ MODULE MCSelfUpdate ------------------------------
(* Three builds, of which the later two may be bad. *)
EXTENDS SelfUpdate
MCFaults == [o \in BOOLEAN |-> IF o THEN 3 ELSE 1]
ManyFaults == [o \in BOOLEAN |-> IF o THEN 7 ELSE 0]
NoFaults == [o \in BOOLEAN |-> 0]
=============================================================================
