------------------------------ MODULE MCTraps ------------------------------
(* A small stack whose frames wrap around the end of memory, with a hole that
   a second frame, or a few pushes, run into. *)
EXTENDS Traps

SmallStart == [gp |-> 9, rs |-> 1, rp |-> 4]
SmallLoads == {<<"rh", 2>>, <<"rh", 26>>, <<"rs", 28>>}
=============================================================================
