------------------------------ MODULE Console -------------------------------
(***************************************************************************)
(* The screen: putchar of sys/write.c, run by the tasks with interrupts    *)
(* on, the echo of the keyboard handler (sys/kbc.c) and the clock of the   *)
(* timer handler (sys/timer.c), both run with interrupts off.              *)
(*                                                                         *)
(* The tasks' putchar takes a step for each load and each store of what it *)
(* shares with the handlers, as the source mentions them: c_x++ is a load  *)
(* and a store, and a test is the load of what it tests.  A handler is a   *)
(* step of its own between any two of them.  The scheduler does not        *)
(* preempt, so one putchar at most is interrupted.                         *)
(***************************************************************************)
EXTENDS Integers, SequencesExt

CONSTANTS
  ROW, COL,     \* lines and columns of the screen
  TAB,          \* the width of a tab, 8
  KEY_X,        \* where kbc_irq shows the last key
  CLOCK_X,      \* where timer_callback shows the time
  CLOCK_LEN,    \* and its length
  REGISTER,     \* what a cursor register of the display can hold, 256
  Text,         \* characters tasks print
  Keys,         \* characters of the keys that are hit
  Times,        \* times the clock shows
  X_LIMIT, Y_LIMIT  \* bound: nothing happens once the coordinates reach these

VARIABLES
  c_x, c_y,  \* where the next character goes
  screen,    \* the memory of the display
  crtc,      \* its registers: the selected one and the two of the cursor
  job,       \* the task's putchar: where it is and its local variables
  clock,     \* the time that was shown last
  strayed,   \* whether a character went to a place outside the text lines
  undercut,  \* whether the last key came while a backspace was decrementing
  crossed    \* whether a key came after the last cursor update had begun
             \* (three history variables: no step depends on them)

vars == <<c_x, c_y, screen, crtc, job, clock, strayed, undercut, crossed>>

Cells == 0 .. ROW * COL - 1
Status == ROW - 1  \* the last line, which is for the handlers
Control == {"newline", "backspace", "tab"}
Blank == [ch |-> "space", colour |-> "BOB"]
Junk  == [ch |-> "junk", colour |-> "any"]
Both  == {"x", "y"}

(* x and y are what putchar has loaded, due what it has still to load of a *)
(* place.                                                                  *)
Idle  == [pc |-> "idle", ch |-> "space", x |-> 0, y |-> 0, due |-> Both]

(* No key gives a tab or a backspace (sys/kbc_scancodes.c).                *)
ASSUME ConsoleParameters ==
  /\ ROW \in Nat /\ ROW > 2
  /\ COL \in Nat \ {0}
  /\ TAB \in 1 .. COL
  /\ REGISTER \in Nat \ {0}
  /\ CLOCK_X \in Nat /\ CLOCK_LEN \in Nat /\ CLOCK_X + CLOCK_LEN <= COL
  /\ KEY_X \in 0 .. CLOCK_X - 1
  /\ X_LIMIT \in Nat /\ X_LIMIT > COL
  /\ Y_LIMIT \in Nat /\ Y_LIMIT >= ROW
  /\ Keys \cap {"tab", "backspace"} = {}

-----------------------------------------------------------------------------
(* A whole putchar, the one of the keyboard handler.                       *)

(* Memory next to the display is not modelled.                             *)
Painted(s, at, ch, colour) ==
  [i \in Cells |-> IF i = at THEN [ch |-> ch, colour |-> colour] ELSE s[i]]

(* A fault to seed: the last line is taken for a text line.                *)
LineAfterLate(y) == IF y + 1 = ROW THEN 0 ELSE y + 1

(* c_y++ and the test that follows it.                                     *)
LineAfter(y) == IF y + 1 = ROW - 1 THEN 0 ELSE y + 1

(* The coordinates after character ch at column x of line y.               *)
Moved(x, y, ch) ==
  IF ch = "newline" THEN <<0, LineAfter(y)>>
  ELSE IF ch = "backspace" THEN <<IF x >= 1 THEN x - 1 ELSE x, y>>
  ELSE IF ch = "tab" THEN IF x + TAB <= COL THEN <<x + TAB, y>>
                          ELSE <<(x + TAB) % COL, LineAfter(y)>>
  ELSE IF x + 1 = COL THEN <<0, LineAfter(y)>> ELSE <<x + 1, y>>

(* The cursor registers after update_cursor_no_type.                       *)
CursorAt(position) ==
  [index |-> "high", low |-> position % REGISTER,
   high |-> (position \div REGISTER) % REGISTER]

-----------------------------------------------------------------------------
(* clrscr has run: it prints a space fewer than a line has on each line.   *)
Init ==
  /\ c_x = 0
  /\ c_y = 0
  /\ screen = [i \in Cells |-> IF i < (ROW - 1) * (COL - 1) THEN Blank ELSE Junk]
  /\ crtc = CursorAt(0)
  /\ job = Idle
  /\ clock = "none"
  /\ strayed = FALSE
  /\ undercut = FALSE
  /\ crossed = FALSE

OffTheText(x, y) == x \notin 0 .. COL - 1 \/ y \notin 0 .. Status - 1

At(pc) == job.pc = pc
Goto(pc) == job' = [job EXCEPT !.pc = pc]

putchar(ch) ==
  /\ At("idle")
  /\ job' = [Idle EXCEPT !.ch = ch, !.pc = IF ch \in Control THEN ch ELSE "address"]
  /\ UNCHANGED <<c_x, c_y, screen, crtc, clock, strayed, undercut, crossed>>

(* A step that stores a coordinate, and where putchar goes on.             *)
Move(pc, x, y, next) ==
  /\ At(pc)
  /\ c_x' = x
  /\ c_y' = y
  /\ Goto(next)
  /\ UNCHANGED <<screen, crtc, clock, strayed, undercut, crossed>>

(* One that tests a coordinate.                                            *)
Test(pc, holds, yes, no) == Move(pc, c_x, c_y, IF holds THEN yes ELSE no)

Coordinate(c) == IF c = "x" THEN c_x ELSE c_y

(* One that loads it.                                                      *)
Load(pc, c, next) ==
  /\ At(pc)
  /\ job' = [job EXCEPT ![c] = Coordinate(c), !.pc = next]
  /\ UNCHANGED <<c_x, c_y, screen, crtc, clock, strayed, undercut, crossed>>

(* One of the two loads of a place, which C has in either order.           *)
Locate(pc, next) ==
  /\ At(pc)
  /\ \E c \in job.due :
       job' = [job EXCEPT ![c] = Coordinate(c),
                          !.due = IF @ = {c} THEN Both ELSE @ \ {c},
                          !.pc = IF job.due = {c} THEN next ELSE pc]
  /\ UNCHANGED <<c_x, c_y, screen, crtc, clock, strayed, undercut>>

Newline == Move("newline", 0, c_y, "down")

Backspace == Test("backspace", c_x >= 1, "back", "position")
Back      == Load("back", "x", "back off")
BackOff   == Move("back off", job.x - 1, c_y, "position")

(* nextStop is a local variable.                                           *)
Tab  == Load("tab", "x", "stop")
Stop == IF job.x + TAB <= COL THEN Move("stop", job.x + TAB, c_y, "position")
        ELSE Move("stop", (job.x + TAB) % COL, c_y, "down")

(* current_addr is computed, then used twice.                              *)
Address == Locate("address", "char") /\ UNCHANGED crossed

(* A step that writes one byte of a cell.                                  *)
Write(pc, byte, value, next) ==
  /\ At(pc)
  /\ screen' = [i \in Cells |->
                  IF i = job.y * COL + job.x THEN [screen[i] EXCEPT ![byte] = value]
                  ELSE screen[i]]
  /\ Goto(next)
  /\ strayed' = (strayed \/ OffTheText(job.x, job.y))
  /\ UNCHANGED <<c_x, c_y, crtc, clock, undercut, crossed>>

Char   == Write("char", "ch", job.ch, "colour")
Colour == Write("colour", "colour", "BOB", "step")

(* update_cursor.                                                          *)
Step   == Load("step", "x", "step on")
StepOn == Move("step on", job.x + 1, c_y, "edge")
Edge   == Test("edge", c_x = COL, "return", "position")
Return == Move("return", 0, c_y, "down")

(* Faults to seed: the text runs into the last line, and it never uses the *)
(* line above that.                                                        *)
WrapLate  == Test("wrap", c_y = ROW, "top", "position")
WrapEarly == Test("wrap", c_y = ROW - 2, "top", "position")

(* The next line, in all three places where putchar goes there.            *)
Down == Load("down", "y", "line")
Line == Move("line", c_x, job.y + 1, "wrap")
Wrap == Test("wrap", c_y = ROW - 1, "top", "position")
Top  == Move("top", c_x, 0, "position")

(* update_cursor_no_type: the position, then four writes to the display.   *)
Position ==
  /\ Locate("position", "select low")
  /\ crossed' = (crossed /\ job.due # Both)

Updating ==
  \/ job.pc \in {"select low", "low", "select high", "high"}
  \/ At("position") /\ job.due # Both

outb(pc, register, value, next) ==
  /\ At(pc)
  /\ crtc' = [crtc EXCEPT ![register] = value]
  /\ job' = IF next = "idle" THEN Idle ELSE [job EXCEPT !.pc = next]
  /\ UNCHANGED <<c_x, c_y, screen, clock, strayed, undercut, crossed>>

(* The cursor's position, of which the code keeps two bytes.               *)
position == job.y * COL + job.x

(* Faults to seed: the position is not cut to a byte, or not shifted.      *)
LowUncut == outb("low", crtc.index, position, "select high")
HighUnshifted == outb("high", crtc.index, position % REGISTER, "idle")

(* The data port writes whatever register is selected.                     *)
Select(pc, register) == outb(pc, "index", register, register)
Low  == outb("low", crtc.index, position % REGISTER, "select high")
High == outb("high", crtc.index, (position \div REGISTER) % REGISTER, "idle")

Task ==
  \/ \E ch \in Text : putchar(ch)
  \/ Newline \/ Backspace \/ Back \/ BackOff \/ Tab \/ Stop
  \/ Address \/ Char \/ Colour \/ Step \/ StepOn \/ Edge \/ Return
  \/ Down \/ Line \/ Wrap \/ Top
  \/ Position \/ Select("select low", "low") \/ Low
  \/ Select("select high", "high") \/ High

(* The timer handler prints the time at every 18th tick.                   *)
irq_timer ==
  /\ \E time \in Times :
       /\ clock' = time
       /\ screen' = [i \in Cells |->
            IF i - Status * COL \in CLOCK_X .. CLOCK_X + CLOCK_LEN - 1
            THEN [ch |-> time, colour |-> "DOS"] ELSE screen[i]]
  /\ UNCHANGED <<c_x, c_y, crtc, job, strayed, undercut, crossed>>

(* The keyboard handler shows the key and echoes it.                       *)
irq_kb ==
  /\ \E ch \in Keys :
       LET shown == Painted(screen, Status * COL + KEY_X, ch, "DOS")
           moved == Moved(c_x, c_y, ch)
       IN  /\ screen' = IF ch \in Control THEN shown
                        ELSE Painted(shown, c_y * COL + c_x, ch, "BOB")
           /\ c_x' = moved[1]
           /\ c_y' = moved[2]
           /\ crtc' = CursorAt(moved[2] * COL + moved[1])
           /\ strayed' = (strayed \/ OffTheText(IF ch \in Control THEN 0 ELSE c_x, c_y))
  /\ undercut' = (job.pc \in {"back", "back off"})
  /\ crossed' = Updating
  /\ UNCHANGED <<job, clock>>

Next ==
  /\ c_x < X_LIMIT /\ c_y < Y_LIMIT
  /\ Task \/ irq_timer \/ irq_kb

Spec == Init /\ [][Next]_vars

-----------------------------------------------------------------------------
(* Properties.                                                             *)

Chars == Text \cup Keys \cup Times \cup {"space", "junk"}
PCs == Control \cup {"idle", "address", "char", "colour", "step", "step on", "edge",
                     "return", "back", "back off", "stop", "down", "line", "wrap", "top",
                     "position", "select low", "low", "select high", "high"}

Jobs == [pc : PCs, ch : Chars, x : -1 .. X_LIMIT - 1, y : 0 .. Y_LIMIT - 1,
         due : {Both, {"x"}, {"y"}}]

(* Every variable has its type: the column is never further left than -1,  *)
(* and the cursor registers hold bytes.                                    *)
TypeOK ==
  /\ c_x \in -1 .. X_LIMIT
  /\ c_y \in 0 .. Y_LIMIT
  /\ screen \in [Cells -> [ch : Chars, colour : {"BOB", "DOS", "any"}]]
  /\ crtc \in [index : {"low", "high"}, low : 0 .. REGISTER - 1, high : 0 .. REGISTER - 1]
  /\ job \in Jobs
  /\ clock \in Times \cup {"none"}
  /\ strayed \in BOOLEAN /\ undercut \in BOOLEAN /\ crossed \in BOOLEAN

ClockCells ==
  {i \in Cells : i - Status * COL \in CLOCK_X .. CLOCK_X + CLOCK_LEN - 1}

(* The clock shows the time of the last interrupt, and nothing printed by  *)
(* a handler for the last line is among the text.                          *)
ClockStays ==
  /\ \A i \in ClockCells :
       clock # "none" => screen[i] = [ch |-> clock, colour |-> "DOS"]
  /\ \A i \in Cells : i < Status * COL => screen[i].colour # "DOS"

(* Between tasks that print and handlers that print, the coordinates leave *)
(* the text in four ways only: a tab ends at the right edge, a column or a *)
(* line has been incremented and its reset has not come yet, or Return was *)
(* echoed after a backspace's test and before its decrement.  The clock is *)
(* overwritten only by a character that arrives when they are out of it.   *)
(* Wherever else a key interrupts a putchar, they recover.                 *)
OnlyTheEdgesAreUnsafe ==
  ~strayed =>
    /\ c_x \in -1 .. COL /\ c_y \in 0 .. ROW - 1
    /\ c_x = -1 => undercut
    /\ c_x = COL => job.pc \notin {"colour", "step", "step on", "down", "line", "wrap", "top"}
    /\ c_y = ROW - 1 => job.pc \in {"wrap", "top"}
    /\ ClockStays

(* The comment at c_x and c_y: they track the cursor.  Whenever no putchar *)
(* is under way the display shows the cursor, a position of two bytes,     *)
(* where the next character will go, except in one case: a key came after  *)
(* the first load of the last update of a task, up to its last port write. *)
(* The next character, of a task or of a key, puts it right.               *)
OnlyACrossedUpdateLosesTheCursor ==
  At("idle") /\ ~crossed =>
    crtc.high * REGISTER + crtc.low = (c_y * COL + c_x) % (REGISTER * REGISTER)

(* Where the character in hand will leave the position.                    *)
Landing ==
  LET moved == IF job.pc \in {"colour", "step", "step on"} THEN Moved(c_x, c_y, "letter")
               ELSE IF At("return") \/ (At("edge") /\ c_x = COL) THEN <<0, LineAfter(c_y)>>
               ELSE IF At("down") \/ At("line") THEN <<c_x, LineAfter(c_y)>>
               ELSE IF At("top") \/ (At("wrap") /\ c_y = ROW - 1) THEN <<c_x, 0>>
               ELSE <<c_x, c_y>>
  IN  moved[2] * COL + moved[1]

(* Tasks that print while the clock ticks see a teletype: every character  *)
(* of theirs appears, one after the other, and nothing else changes.       *)
TT == INSTANCE Teletype WITH
        ROWS <- ROW - 1, COLUMNS <- COL,
        text <- [i \in 0 .. (ROW - 1) * COL - 1 |-> screen[i].ch],
        position <- Landing,
        request <- IF job.pc \in {"newline", "backspace", "back", "back off", "address", "char"}
                   THEN job.ch ELSE "none"

ImplementsTeletype == TT!TTSpec

=============================================================================
