----------------------------- MODULE MCConsole ------------------------------
(* A display of three columns: three text lines (two where keys are hit)   *)
(* above the status line, which has the last key in column 0 and the clock *)
(* in column 2.  A register of the display holds a quarter of what it has  *)
(* to hold.  Where keys are hit the model stops as soon as a coordinate    *)
(* has left the display.                                                   *)
EXTENDS Console

=============================================================================
