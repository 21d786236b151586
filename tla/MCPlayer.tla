------------------------------ MODULE MCPlayer ------------------------------
(***************************************************************************)
(* The FCast player among its callers: one sender's connection, the panel  *)
(* and the session manager's reports of an end.  A second sender is used   *)
(* only by hand, where two of them get in each other's way.                *)
(***************************************************************************)
EXTENDS FCastPlayer

Spec == PlayerSpec
=============================================================================
