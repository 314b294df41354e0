------------------------------ MODULE Handlers ------------------------------
(***************************************************************************)
(* The two interrupt handlers side by side: ticks of Clock and keys of     *)
(* Keyboard in any order.  kbc_irq shows its character in a column of the  *)
(* status line, before those of the clock.                                 *)
(***************************************************************************)
EXTENDS Clock, Keyboard

CONSTANT KEY_X  \* the column of the last key, 52

ASSUME HandlersParameters == KEY_X \in 0 .. CLOCK_X - 1

vars == <<clock, keyboard>>

Init == ClockInit /\ KeyboardInit

irq_timer ==
  /\ timer_callback
  /\ UNCHANGED keyboard

(* print_cx_cy(52, 24, "%c", c), where there is a character to show.       *)
irq_kb ==
  /\ kbc_irq
  /\ line' = [line EXCEPT ![KEY_X] = IF echo' = NOTHING THEN @ ELSE echo']
  /\ UNCHANGED <<tick, wrapped>>

KeyMoves ==
  /\ \E k \in Keys : Press(k) \/ Repeat(k) \/ Release(k)
  /\ UNCHANGED clock

Next == irq_timer \/ irq_kb \/ KeyMoves

Spec == Init /\ [][Next]_vars

=============================================================================
