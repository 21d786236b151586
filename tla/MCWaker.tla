--------------------------------- MODULE MCWaker ---------------------------------
(* Two producer threads and the kiosk's main thread. *)
EXTENDS Waker
=============================================================================
