-------------------------------- MODULE MCVm --------------------------------
(* Tables of three entries: slot 0 for user pages, 1 recursive, 2 for the  *)
(* kernel.  The kernel is frame 3, the bitmap frame 4, the screen frame 1. *)
EXTENDS Vm

MCFrames == 0 .. 21
MCRam == 6 .. 21
MCClear == {[f \in MCFrames |-> Empty]}

=============================================================================
