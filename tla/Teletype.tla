------------------------------ MODULE Teletype ------------------------------
(***************************************************************************)
(* What a console promises: a sheet of ROWS lines of COLUMNS characters    *)
(* and a position on it.  A character that is asked for is typed at the    *)
(* position, which moves on by one and from the end of the sheet back to   *)
(* its start; nothing happens that was not asked for.  Console, the code   *)
(* of sys/write.c, implements it.                                          *)
(***************************************************************************)
EXTENDS Integers

CONSTANTS ROWS, COLUMNS
VARIABLES text, position, request

ttvars == <<text, position, request>>

Size == ROWS * COLUMNS
Column == position % COLUMNS

TTInit == position = 0 /\ request = "none"

Ask ==
  /\ request = "none"
  /\ UNCHANGED <<text, position>>

Done == request' = "none"

Type ==
  /\ request \notin {"none", "newline", "backspace"}
  /\ text' = [text EXCEPT ![position] = request]
  /\ position' = (position + 1) % Size
  /\ Done

NewLine ==
  /\ request = "newline"
  /\ position' = (position - Column + COLUMNS) % Size
  /\ UNCHANGED text
  /\ Done

BackSpace ==
  /\ request = "backspace"
  /\ position' = IF Column > 0 THEN position - 1 ELSE position
  /\ UNCHANGED text
  /\ Done

TTSpec == TTInit /\ [][Ask \/ Type \/ NewLine \/ BackSpace]_ttvars

=============================================================================
