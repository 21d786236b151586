---------------------------- MODULE MCSessionManager ----------------------------
(* Two sources contending for the screen. *)
EXTENDS SessionManager
=============================================================================
