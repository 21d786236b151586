--------------------------------- MODULE MCErtm ---------------------------------
(* One end sends whole and segmented SDUs past the wrap of a small sequence space while
   the other sends one of its own; and three plain SDUs in a window of three. *)
EXTENDS Ertm
MCBothWays == [p \in Ends |-> IF p = "A" THEN <<1, 3, 2>> ELSE <<1>>]
MCThree == [p \in Ends |-> IF p = "A" THEN <<1, 1, 1>> ELSE <<>>]
=============================================================================
