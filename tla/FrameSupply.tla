---------------------------- MODULE FrameSupply ----------------------------
(***************************************************************************)
(* kmalloc_mem as the code that maps memory sees it.  Vm allocates its     *)
(* frames by these operators; PhysMem, the bitmap, keeps them as a promise *)
(* to the kernel, which returns no page.                                   *)
(*                                                                         *)
(* A supply is a record with the frames that are free and whether a call   *)
(* has failed.                                                             *)
(***************************************************************************)
EXTENDS Naturals

(* kmalloc_mem returns the lowest free page, or NULL, which is the address *)
(* of frame 0; nobody looks.                                               *)
Fresh(s) == IF s.free = {} THEN 0 ELSE CHOOSE f \in s.free : \A g \in s.free : f <= g

(* A fault to seed: kmalloc_mem does not mark the page it returns.         *)
TakenUnmarked(s) == [s EXCEPT !.failed = @ \/ s.free = {}]

Taken(s) == [s EXCEPT !.free = @ \ {Fresh(s)}, !.failed = @ \/ s.free = {}]

=============================================================================
