----------------------------- MODULE MCHandlers -----------------------------
(* Two digits, minutes of three seconds, two ticks a second, a print every *)
(* three ticks; the counter has room for hours of four digits and wraps.   *)
(* The keys are both shifts and the A.                                     *)
EXTENDS Handlers

MCSuffix == <<117, 112>>
MCKeys == {KBCSC.LEFTSHIFT, KBCSC.RIGHTSHIFT, KBCSC.A}

=============================================================================
