--------------------------- MODULE Console_proofs ---------------------------
(***************************************************************************)
(* Theorems about Console, for a display of any size, any text and any     *)
(* keys: the types; that the coordinates leave the text and the clock is   *)
(* overwritten in no other way than OnlyTheEdgesAreUnsafe says; that the   *)
(* display shows the cursor where it belongs but for a key that crosses an *)
(* update; that with the clock alone, and no tabs, the clock stays and the *)
(* text is a teletype's.                                                   *)
(***************************************************************************)
EXTENDS Console, TLAPS

(* Why a column can be left of the first: a key took it back to 0 between  *)
(* the test of a backspace and its decrement.                              *)
Undercuts ==
  /\ c_x = -1 => undercut
  /\ At("back") => c_x >= 0 /\ (c_x = 0 => undercut)
  /\ At("back off") => job.x >= 0 /\ (job.x = 0 => undercut)

InLine == {"colour", "step", "step on", "down", "line", "wrap", "top"}

(* What holds of the coordinates, and of what a putchar has loaded of them *)
(* and is about to use, until a character goes astray.                     *)
OnTrack ==
  /\ c_x <= COL /\ c_y <= ROW - 1
  /\ c_x \in {-1, COL} =>
       /\ job.pc \notin InLine
       /\ At("char") \/ (At("address") /\ "x" \notin job.due) => job.x = c_x
  /\ c_y = ROW - 1 => job.pc \in {"wrap", "top"}
  /\ At("colour") => ~OffTheText(job.x, job.y)
  /\ At("step on") => job.x \in 0 .. COL - 1
  /\ At("back off") => job.x <= COL
  /\ At("line") => job.y < ROW - 1

IInv ==
  /\ TypeOK
  /\ Undercuts
  /\ ~strayed => OnTrack /\ ClockStays

-----------------------------------------------------------------------------
(* The display.                                                            *)

LEMMA Sizes ==
  /\ ROW \in Nat /\ COL \in Nat /\ Status \in Nat /\ Status * COL \in Nat
  /\ ROW > 2 /\ COL > 0 /\ Status = ROW - 1
  /\ X_LIMIT \in Nat /\ Y_LIMIT \in Nat /\ TAB \in 1 .. COL /\ REGISTER \in Nat \ {0}
  /\ KEY_X \in Nat /\ CLOCK_X \in Nat /\ CLOCK_LEN \in Nat /\ KEY_X < CLOCK_X
  /\ X_LIMIT > COL /\ Y_LIMIT >= ROW
  BY ConsoleParameters DEF Status

(* A place on a text line is a cell before the last line.                  *)
LEMMA OnTheText ==
  ASSUME NEW x \in Nat, NEW y \in Nat, x < COL, y < ROW - 1
  PROVE  y * COL + x \in Nat /\ y * COL + x < Status * COL
  <1>1. PICK k \in Nat : Status = y + 1 + k
    BY Sizes, SMT
  <1>2. Status * COL = y * COL + COL + k * COL /\ k * COL \in Nat /\ y * COL \in Nat
    BY <1>1, Sizes, SMT
  <1> QED
    BY <1>2, Sizes, SMT

LEMMA LineAfterIsText ==
  ASSUME NEW y \in Nat, y < ROW - 1
  PROVE  LineAfter(y) \in Nat /\ LineAfter(y) < ROW - 1
  BY Sizes DEF LineAfter

(* A whole putchar at a place on the text ends at one.                     *)
LEMMA MovedIsText ==
  ASSUME NEW x \in Nat, NEW y \in Nat, NEW ch, x < COL, y < ROW - 1, ch # "tab"
  PROVE  /\ Moved(x, y, ch)[1] \in Nat /\ Moved(x, y, ch)[1] < COL
         /\ Moved(x, y, ch)[2] \in Nat /\ Moved(x, y, ch)[2] < ROW - 1
  BY LineAfterIsText, Sizes DEF Moved

(* Anywhere else it keeps to the bounds.                                   *)
LEMMA MovedIsBounded ==
  ASSUME NEW x \in -1 .. X_LIMIT - 1, NEW y \in 0 .. Y_LIMIT - 1, NEW ch \in Keys
  PROVE  /\ Moved(x, y, ch)[1] \in 0 .. X_LIMIT
         /\ Moved(x, y, ch)[2] \in 0 .. Y_LIMIT
  <1>1. LineAfter(y) \in 0 .. Y_LIMIT
    BY Sizes DEF LineAfter
  <1>2. ch \notin {"tab", "backspace"}
    BY ConsoleParameters
  <1> QED
    BY <1>1, <1>2, Sizes DEF Moved

LEMMA CursorIsBytes ==
  ASSUME NEW p \in Int
  PROVE  /\ p % REGISTER \in 0 .. REGISTER - 1
         /\ (p \div REGISTER) % REGISTER \in 0 .. REGISTER - 1
  BY Sizes

(* The cells of the clock are none of the text's, nor that of the key.     *)
LEMMA ClockCellsApart ==
  ASSUME NEW i \in ClockCells
  PROVE  i \in Cells /\ i >= Status * COL /\ i # Status * COL + KEY_X
  BY Sizes DEF ClockCells, Cells

LEMMA CellsAreNaturals == Cells \subseteq Nat
  BY Sizes DEF Cells

-----------------------------------------------------------------------------
LEMMA IdleIsJob == Idle \in Jobs /\ Idle.pc = "idle"
  BY Sizes DEF Idle, PCs, Chars, Jobs

LEMMA InitTypes == Init => TypeOK
  <1> SUFFICES ASSUME Init PROVE TypeOK
    OBVIOUS
  <1>1. CursorAt(0) \in [index : {"low", "high"}, low : 0 .. REGISTER - 1, high : 0 .. REGISTER - 1]
    BY CursorIsBytes DEF CursorAt
  <1>2. Idle \in Jobs
    BY IdleIsJob
  <1>3. screen \in [Cells -> [ch : Chars, colour : {"BOB", "DOS", "any"}]]
    BY DEF Init, Blank, Junk, Chars
  <1>4. c_x \in -1 .. X_LIMIT /\ c_y \in 0 .. Y_LIMIT
    BY Sizes DEF Init
  <1>5. /\ crtc = CursorAt(0) /\ job = Idle /\ clock \in Times \cup {"none"}
        /\ strayed \in BOOLEAN /\ undercut \in BOOLEAN /\ crossed \in BOOLEAN
    BY DEF Init
  <1> QED
    BY <1>1, <1>2, <1>3, <1>4, <1>5 DEF TypeOK

LEMMA InitIInv == Init => IInv
  <1> SUFFICES ASSUME Init PROVE Undercuts /\ OnTrack /\ ClockStays
    BY InitTypes DEF IInv
  <1>1. OnTrack /\ Undercuts
    BY Sizes DEF Init, OnTrack, Undercuts, InLine, At, Idle
  <1>2. ClockStays
    BY DEF Init, ClockStays, Blank, Junk
  <1> QED
    BY <1>1, <1>2

LEMMA Ranges ==
  ASSUME TypeOK
  PROVE  /\ c_x \in -1 .. X_LIMIT /\ c_y \in 0 .. Y_LIMIT
         /\ c_x \in Int /\ c_y \in Nat /\ c_x >= -1 /\ job.x \in Int /\ job.y \in Nat
         /\ c_y \in Int /\ job.y \in Int
  <1>1. c_x \in -1 .. X_LIMIT /\ c_y \in 0 .. Y_LIMIT /\ job \in Jobs
    BY Zenon DEF TypeOK
  <1>2. job.x \in -1 .. X_LIMIT - 1 /\ job.y \in 0 .. Y_LIMIT - 1
    BY <1>1 DEF Jobs
  <1> QED
    BY <1>1, <1>2, Sizes

(* What the coordinates are in a state with a step ahead of it.            *)
LEMMA Bounds ==
  ASSUME TypeOK, c_x < X_LIMIT, c_y < Y_LIMIT
  PROVE  /\ c_x \in -1 .. X_LIMIT - 1 /\ c_y \in 0 .. Y_LIMIT - 1
         /\ job.x \in -1 .. X_LIMIT - 1 /\ job.y \in 0 .. Y_LIMIT - 1
         /\ job \in Jobs
  BY Sizes DEF TypeOK, Jobs

LEMMA JobStays ==
  ASSUME TypeOK, NEW pc \in PCs
  PROVE  /\ [job EXCEPT !.pc = pc] \in Jobs
         /\ [job EXCEPT !.pc = pc].pc = pc /\ [job EXCEPT !.pc = pc].ch = job.ch
         /\ [job EXCEPT !.pc = pc].x = job.x /\ [job EXCEPT !.pc = pc].y = job.y
         /\ [job EXCEPT !.pc = pc].due = job.due
  BY DEF TypeOK, Jobs

-----------------------------------------------------------------------------
(* Steps of a task that store a coordinate or test one.                    *)
LEMMA MoveInv ==
  ASSUME IInv, NEW pc, NEW x \in -1 .. X_LIMIT, NEW y \in 0 .. Y_LIMIT,
         NEW next \in {"down", "position", "back", "edge", "return", "wrap", "top"},
         Move(pc, x, y, next),
         x = -1 => undercut, next = "back" => x >= 1,
         ~strayed => /\ x <= COL /\ y <= ROW - 1
                     /\ x \in {-1, COL} => next \notin {"down", "wrap", "top"}
                     /\ y = ROW - 1 => next \in {"wrap", "top"}
  PROVE  IInv'
  <1>0. next \in PCs
    BY DEF PCs
  <1>1. job' \in Jobs /\ job'.pc = next
    BY <1>0, JobStays DEF IInv, Move, Goto
  <1>2. TypeOK'
    BY <1>1 DEF IInv, TypeOK, Move
  <1>3. Undercuts'
    <2>1. x \in Int /\ x >= -1
      BY Sizes
    <2>2. c_x' = x /\ undercut' = undercut
      BY DEF Move
    <2>3. next = "back" => c_x' >= 0 /\ c_x' # 0
      BY <2>1, <2>2
    <2>4. c_x' = -1 => undercut'
      BY <2>2, Zenon
    <2>5. next # "back off"
      OBVIOUS
    <2> QED
      BY <1>1, <2>3, <2>4, <2>5, Zenon DEF Undercuts, At
  <1>4. ~strayed' => OnTrack'
    BY <1>1 DEF Move, OnTrack, InLine, At
  <1>5. ~strayed' => ClockStays'
    BY DEF IInv, Move, ClockStays
  <1> QED
    BY <1>2, <1>3, <1>4, <1>5 DEF IInv

(* What a step that loads leaves in the job.                               *)
LEMMA LoadIs ==
  ASSUME TypeOK, c_x < X_LIMIT, c_y < Y_LIMIT,
         NEW pc, NEW c \in Both, NEW next \in PCs, Load(pc, c, next)
  PROVE  /\ job' \in Jobs /\ job'.pc = next /\ job'.ch = job.ch /\ job'.due = job.due
         /\ job'.x = IF c = "x" THEN c_x ELSE job.x
         /\ job'.y = IF c = "y" THEN c_y ELSE job.y
  <1>1. CASE c = "x"
    <2>1. job' = [job EXCEPT !.x = c_x, !.pc = next]
      BY <1>1 DEF Load, Coordinate
    <2> QED
      BY <1>1, <2>1, Bounds DEF Jobs
  <1>2. CASE c = "y"
    <2>1. job' = [job EXCEPT !.y = c_y, !.pc = next]
      BY <1>2 DEF Load, Coordinate
    <2> QED
      BY <1>2, <2>1, Bounds DEF Jobs
  <1> QED
    BY <1>1, <1>2 DEF Both

LEMMA LocateIs ==
  ASSUME TypeOK, c_x < X_LIMIT, c_y < Y_LIMIT,
         NEW pc \in PCs, NEW next \in PCs, Locate(pc, next)
  PROVE  \E c \in job.due :
           /\ c \in Both
           /\ job' \in Jobs /\ job'.ch = job.ch
           /\ job'.pc = IF job.due = {c} THEN next ELSE pc
           /\ job'.due = IF job.due = {c} THEN Both ELSE job.due \ {c}
           /\ job'.x = IF c = "x" THEN c_x ELSE job.x
           /\ job'.y = IF c = "y" THEN c_y ELSE job.y
  <1>1. PICK c \in job.due :
          job' = [job EXCEPT ![c] = Coordinate(c),
                             !.due = IF @ = {c} THEN Both ELSE @ \ {c},
                             !.pc = IF job.due = {c} THEN next ELSE pc]
    BY DEF Locate
  <1> DEFINE due == IF job.due = {c} THEN Both ELSE job.due \ {c}
             goes == IF job.due = {c} THEN next ELSE pc
  <1>2. job.due \in {Both, {"x"}, {"y"}} /\ c \in Both
    BY Bounds DEF Jobs, Both
  <1>3. due \in {Both, {"x"}, {"y"}} /\ goes \in PCs
    BY <1>2 DEF Both
  <1>4. CASE c = "x"
    <2>1. job' = [job EXCEPT !.x = c_x, !.due = due, !.pc = goes]
      BY <1>1, <1>4, Bounds DEF Coordinate, Jobs
    <2> HIDE DEF due, goes
    <2>2. job' \in Jobs /\ job'.ch = job.ch /\ job'.pc = goes /\ job'.due = due
          /\ job'.x = c_x /\ job'.y = job.y
      BY <1>3, <2>1, Bounds DEF Jobs
    <2> QED
      BY <1>2, <1>4, <2>2 DEF due, goes
  <1>5. CASE c = "y"
    <2>1. job' = [job EXCEPT !.y = c_y, !.due = due, !.pc = goes]
      BY <1>1, <1>5, Bounds DEF Coordinate, Jobs
    <2> HIDE DEF due, goes
    <2>2. job' \in Jobs /\ job'.ch = job.ch /\ job'.pc = goes /\ job'.due = due
          /\ job'.y = c_y /\ job'.x = job.x
      BY <1>3, <2>1, Bounds DEF Jobs
    <2> QED
      BY <1>2, <1>5, <2>2 DEF due, goes
  <1> QED
    BY <1>2, <1>4, <1>5 DEF Both

(* A load on its own.                                                      *)
LEMMA LoadInv ==
  ASSUME IInv, c_x < X_LIMIT, c_y < Y_LIMIT,
         Back \/ Tab \/ Step \/ Down
  PROVE  IInv'
  <1>0. {"back off", "stop", "step on", "line"} \subseteq PCs /\ Both = {"x", "y"} /\ TypeOK
    BY DEF PCs, Both, IInv
  <1>1. /\ c_x' = c_x /\ c_y' = c_y /\ screen' = screen /\ crtc' = crtc /\ clock' = clock
        /\ strayed' = strayed /\ undercut' = undercut /\ crossed' = crossed
    BY DEF Back, Tab, Step, Down, Load
  <1>2. /\ job' \in Jobs
        /\ \/ job.pc = "back" /\ job'.pc = "back off" /\ job'.x = c_x
           \/ job.pc = "tab" /\ job'.pc = "stop"
           \/ job.pc = "step" /\ job'.pc = "step on" /\ job'.x = c_x
           \/ job.pc = "down" /\ job'.pc = "line" /\ job'.y = c_y
    <2>1. CASE Back
      <3>1. job.pc = "back"
        BY <2>1 DEF Back, Load, At
      <3> QED
        BY <1>0, <2>1, <3>1, LoadIs DEF Back
    <2>2. CASE Tab
      <3>1. job.pc = "tab"
        BY <2>2 DEF Tab, Load, At
      <3> QED
        BY <1>0, <2>2, <3>1, LoadIs DEF Tab
    <2>3. CASE Step
      <3>1. job.pc = "step"
        BY <2>3 DEF Step, Load, At
      <3> QED
        BY <1>0, <2>3, <3>1, LoadIs DEF Step
    <2>4. CASE Down
      <3>1. job.pc = "down"
        BY <2>4 DEF Down, Load, At
      <3> QED
        BY <1>0, <2>4, <3>1, LoadIs DEF Down
    <2> QED
      BY <2>1, <2>2, <2>3, <2>4
  <1>3. TypeOK'
    BY <1>0, <1>1, <1>2 DEF TypeOK
  <1>4. Undercuts'
    BY <1>1, <1>2 DEF IInv, Undercuts, At
  <1>5. ASSUME ~strayed' PROVE OnTrack' /\ ClockStays'
    <2>1. OnTrack /\ ClockStays
      BY <1>1, <1>5 DEF IInv
    <2>2. ClockStays'
      BY <1>1, <2>1 DEF ClockStays
    <2>3. c_x \in Int /\ c_y \in Int /\ c_x >= -1 /\ COL \in Int /\ ROW \in Int
      <3>1. c_x \in Int /\ c_y \in Int /\ c_x >= -1
        BY <1>0, Ranges, Zenon
      <3> QED
        BY <3>1, Sizes
    <2>4. /\ c_x <= COL /\ c_y <= ROW - 1
          /\ c_x \in {-1, COL} => job.pc \notin {"step", "down"}
          /\ job.pc \in {"back", "tab", "step", "down"} => c_y # ROW - 1
      BY <2>1 DEF OnTrack, InLine
    <2>5. job.pc \in {"step", "down"} => c_x \in 0 .. COL - 1 /\ c_x \notin {-1, COL} /\ c_y < ROW - 1
      BY <2>3, <2>4
    <2>6. OnTrack'
      BY <1>1, <1>2, <2>3, <2>4, <2>5 DEF OnTrack, At, InLine
    <2> QED
      BY <2>2, <2>6
  <1> QED
    BY <1>3, <1>4, <1>5 DEF IInv

(* The loads of a place.                                                   *)
LEMMA LocateInv ==
  ASSUME IInv, c_x < X_LIMIT, c_y < Y_LIMIT, Address \/ Position
  PROVE  IInv'
  <1>0. /\ c_x' = c_x /\ c_y' = c_y /\ screen' = screen /\ crtc' = crtc /\ clock' = clock
        /\ strayed' = strayed /\ undercut' = undercut /\ crossed' \in BOOLEAN
    <2>1. crossed' \in BOOLEAN
      BY DEF Address, Position, IInv, TypeOK
    <2> QED
      BY <2>1, Zenon DEF Address, Position, Locate
  <1>1. {"address", "char", "position", "select low"} \subseteq PCs /\ TypeOK
    BY DEF PCs, IInv
  <1>2. CASE Address
    <2>1. job.pc = "address"
      BY <1>2, Zenon DEF Address, Locate, At
    <2>0. Locate("address", "char")
      BY <1>2, Zenon DEF Address
    <2>2. PICK c \in job.due :
            /\ c \in Both
            /\ job' \in Jobs /\ job'.ch = job.ch
            /\ job'.pc = IF job.due = {c} THEN "char" ELSE "address"
            /\ job'.due = IF job.due = {c} THEN Both ELSE job.due \ {c}
            /\ job'.x = IF c = "x" THEN c_x ELSE job.x
            /\ job'.y = IF c = "y" THEN c_y ELSE job.y
      <3>1. "address" \in PCs /\ "char" \in PCs
        BY <1>1
      <3> QED
        BY <1>1, <2>0, <3>1, LocateIs, Zenon
    <2>3. job'.pc \in {"address", "char"}
      BY <2>2
    <2>4. TypeOK'
      BY <1>0, <1>1, <2>2 DEF TypeOK
    <2>5. Undercuts'
      BY <1>0, <2>3 DEF IInv, Undercuts, At
    <2>6. ASSUME ~strayed' PROVE OnTrack' /\ ClockStays'
      <3>1. OnTrack /\ ClockStays
        BY <1>0, <2>6 DEF IInv
      <3>2. c_x \in {-1, COL} /\ (job'.pc = "char" \/ "x" \notin job'.due) => job'.x = c_x
        <4> SUFFICES ASSUME c_x \in {-1, COL}, job'.pc = "char" \/ "x" \notin job'.due, c # "x"
                     PROVE  job'.x = c_x
          BY <2>2
        <4>1. c = "y" /\ job'.x = job.x
          BY <2>2 DEF Both
        <4>2. "x" \notin job.due
          BY <2>2, <4>1 DEF Both
        <4> QED
          BY <2>1, <3>1, <4>1, <4>2 DEF OnTrack, At
      <3>3. OnTrack'
        BY <1>0, <2>1, <2>3, <3>1, <3>2 DEF OnTrack, At, InLine
      <3> QED
        BY <1>0, <3>1, <3>3 DEF ClockStays
    <2> QED
      BY <2>4, <2>5, <2>6 DEF IInv
  <1>3. CASE Position
    <2>1. job.pc = "position"
      BY <1>3, Zenon DEF Position, Locate, At
    <2>2. job' \in Jobs /\ job'.pc \in {"position", "select low"}
      BY <1>1, <1>3, LocateIs DEF Position
    <2>3. TypeOK'
      BY <1>0, <1>1, <2>2 DEF TypeOK
    <2>4. Undercuts'
      BY <1>0, <2>2 DEF IInv, Undercuts, At
    <2>5. ~strayed' => OnTrack' /\ ClockStays'
      BY <1>0, <2>1, <2>2 DEF IInv, OnTrack, InLine, At, ClockStays
    <2> QED
      BY <2>3, <2>4, <2>5 DEF IInv
  <1> QED
    BY <1>2, <1>3

(* A byte of the cell that was located.                                    *)
LEMMA WriteInv ==
  ASSUME IInv, NEW pc \in {"char", "colour"}, NEW byte \in {"ch", "colour"}, NEW value,
         NEW next \in {"colour", "step"}, pc = "char" <=> next = "colour",
         byte = "ch" => value \in Chars, byte = "colour" => value = "BOB",
         Write(pc, byte, value, next)
  PROVE  IInv'
  <1>0. next \in PCs /\ TypeOK
    BY DEF PCs, IInv
  <1>1. screen' \in [Cells -> [ch : Chars, colour : {"BOB", "DOS", "any"}]]
    <2>1. \A i \in Cells : [screen[i] EXCEPT ![byte] = value] \in [ch : Chars, colour : {"BOB", "DOS", "any"}]
      <3> SUFFICES ASSUME NEW i \in Cells
                   PROVE  [screen[i] EXCEPT ![byte] = value] \in [ch : Chars, colour : {"BOB", "DOS", "any"}]
        OBVIOUS
      <3>1. screen[i] \in [ch : Chars, colour : {"BOB", "DOS", "any"}]
        BY DEF IInv, TypeOK
      <3>2. CASE byte = "ch"
        BY <3>1, <3>2
      <3>3. CASE byte = "colour"
        BY <3>1, <3>3
      <3> QED
        BY <3>2, <3>3
    <2> QED
      BY <2>1 DEF Write, IInv, TypeOK
  <1>2. /\ job.pc = pc /\ job' \in Jobs /\ job'.pc = next /\ job'.x = job.x /\ job'.y = job.y
        /\ job.x \in Int /\ job.y \in Nat
    BY <1>0, JobStays DEF Write, Goto, At, TypeOK, Jobs
  <1>3. /\ c_x' = c_x /\ c_y' = c_y /\ crtc' = crtc /\ clock' = clock
        /\ undercut' = undercut /\ crossed' = crossed
        /\ strayed' = (strayed \/ OffTheText(job.x, job.y))
    BY Zenon DEF Write
  <1>4. TypeOK'
    <2>1. strayed' \in BOOLEAN
      BY <1>3, <1>0 DEF OffTheText, TypeOK
    <2> QED
      BY <1>0, <1>1, <1>2, <1>3, <2>1 DEF TypeOK
  <1>5. Undercuts'
    BY <1>2, <1>3 DEF IInv, Undercuts, At
  <1>6. ASSUME ~strayed' PROVE OnTrack' /\ ClockStays'
    <2>1. OnTrack /\ ClockStays /\ ~OffTheText(job.x, job.y)
      BY <1>3, <1>6 DEF IInv
    <2>2. job.x \in 0 .. COL - 1 /\ job.y \in 0 .. Status - 1
      BY <2>1 DEF OffTheText
    <2>3. job.y * COL + job.x < Status * COL /\ job.y * COL + job.x \in Nat
      BY <2>2, OnTheText, Sizes
    <2>4. c_x \notin {-1, COL}
      <3>1. pc = "char" => (c_x \in {-1, COL} => job.x = c_x)
        BY <1>2, <2>1 DEF OnTrack, At
      <3>2. pc = "colour" => c_x \notin {-1, COL}
        BY <1>2, <2>1 DEF OnTrack, InLine
      <3>3. job.x \notin {-1, COL}
        BY <2>2, Sizes
      <3> QED
        BY <3>1, <3>2, <3>3
    <2>5. c_y # ROW - 1
      BY <1>2, <2>1 DEF OnTrack
    <2>6. OffTheText(job.x, job.y)' = OffTheText(job'.x, job'.y)
      BY DEF OffTheText
    <2>7. OnTrack'
      BY <1>2, <1>3, <2>1, <2>4, <2>5 DEF OnTrack, At, OffTheText, Status
    <2>8. \A i \in ClockCells : screen'[i] = screen[i]
      <3> SUFFICES ASSUME NEW i \in ClockCells PROVE screen'[i] = screen[i]
        OBVIOUS
      <3>1. i \in Cells /\ i # job.y * COL + job.x
        BY <2>3, ClockCellsApart, CellsAreNaturals, Sizes
      <3> QED
        BY <3>1 DEF Write
    <2>9. \A i \in Cells : screen'[i].colour \in {screen[i].colour, "BOB"}
      <3> SUFFICES ASSUME NEW i \in Cells
                   PROVE  screen'[i].colour \in {screen[i].colour, "BOB"}
        OBVIOUS
      <3>1. screen[i] \in [ch : Chars, colour : {"BOB", "DOS", "any"}]
        BY <1>0 DEF TypeOK
      <3>2. screen'[i] = screen[i] \/ screen'[i] = [screen[i] EXCEPT ![byte] = value]
        BY DEF Write
      <3>3. CASE byte = "ch"
        BY <3>1, <3>2, <3>3
      <3>4. CASE byte = "colour"
        BY <3>1, <3>2, <3>4
      <3> QED
        BY <3>3, <3>4
    <2>10. ClockStays'
      BY <1>3, <2>1, <2>8, <2>9 DEF ClockStays, ClockCells
    <2> QED
      BY <2>7, <2>10
  <1> QED
    BY <1>4, <1>5, <1>6 DEF IInv

(* A port write.                                                           *)
LEMMA OutbInv ==
  ASSUME IInv, NEW pc \in {"select low", "low", "select high", "high"},
         NEW register \in {"index", "low", "high"}, NEW value,
         register = "index" => value \in {"low", "high"},
         register # "index" => value \in 0 .. REGISTER - 1,
         NEW next \in {"idle", "low", "high", "select high"},
         outb(pc, register, value, next)
  PROVE  IInv'
  <1>1. crtc' \in [index : {"low", "high"}, low : 0 .. REGISTER - 1, high : 0 .. REGISTER - 1]
    <2>1. CASE register = "index"
      BY <2>1 DEF outb, IInv, TypeOK
    <2>2. CASE register = "low"
      BY <2>2 DEF outb, IInv, TypeOK
    <2>3. CASE register = "high"
      BY <2>3 DEF outb, IInv, TypeOK
    <2> QED
      BY <2>1, <2>2, <2>3
  <1>2. job' \in Jobs /\ job'.pc = next /\ job.pc = pc
    <2>1. next \in PCs
      BY DEF PCs
    <2>2. CASE next = "idle"
      <3>1. job' = Idle /\ job.pc = pc
        BY <2>2 DEF outb, At
      <3> QED
        BY <2>2, <3>1, IdleIsJob
    <2>3. CASE next # "idle"
      BY <2>1, <2>3, JobStays DEF outb, IInv, At
    <2> QED
      BY <2>2, <2>3
  <1>3. TypeOK'
    BY <1>1, <1>2 DEF outb, IInv, TypeOK
  <1>4. Undercuts'
    BY <1>2 DEF outb, IInv, Undercuts, At
  <1>5. ~strayed' => OnTrack' /\ ClockStays'
    BY <1>2 DEF outb, IInv, OnTrack, InLine, ClockStays, At
  <1> QED
    BY <1>3, <1>4, <1>5 DEF IInv

-----------------------------------------------------------------------------
(* One lemma for each kind of step.                                        *)

(* Where a port write leads.                                               *)
LEMMA OutbIs ==
  ASSUME TypeOK, NEW pc, NEW register, NEW value,
         NEW next \in {"low", "select high", "high", "idle"}, outb(pc, register, value, next)
  PROVE  job.pc = pc /\ job'.pc = next /\ (next # "idle" => job'.x = job.x /\ job'.y = job.y)
  <1>1. next \in PCs
    BY DEF PCs
  <1>2. CASE next = "idle"
    BY <1>2, IdleIsJob DEF outb, At
  <1>3. CASE next # "idle"
    BY <1>1, <1>3, JobStays DEF outb, At
  <1> QED
    BY <1>2, <1>3

LEMMA PortsGoOn ==
  ASSUME TypeOK, Select("select low", "low") \/ Low \/ Select("select high", "high") \/ High
  PROVE  job'.pc \in {"low", "select high", "high", "idle"}
  BY OutbIs DEF Select, Low, High

LEMMA TaskMoves ==
  ASSUME IInv, c_x < X_LIMIT, c_y < Y_LIMIT,
         Newline \/ Backspace \/ BackOff \/ Stop \/ StepOn \/ Edge \/ Return \/ Line \/ Wrap \/ Top
  PROVE  IInv'
  <1>0. /\ c_x \in -1 .. X_LIMIT - 1 /\ c_y \in 0 .. Y_LIMIT - 1
        /\ job.x \in -1 .. X_LIMIT - 1 /\ job.y \in 0 .. Y_LIMIT - 1
        /\ Undercuts /\ (~strayed => OnTrack)
    BY Bounds DEF IInv
  <1>2. CASE Newline \/ Return
    <2>1. ~strayed => c_y <= ROW - 1 /\ c_y # ROW - 1
      BY <1>0, <1>2 DEF Newline, Return, Move, OnTrack, At
    <2> QED
      BY <1>0, <1>2, <2>1, MoveInv, Sizes DEF Newline, Return
  <1>3. CASE Backspace
    <2>1. ~strayed => c_y <= ROW - 1 /\ c_y # ROW - 1 /\ c_x <= COL
      BY <1>0, <1>3 DEF Backspace, Test, Move, OnTrack, At
    <2>2. c_x = -1 => undercut
      BY <1>0 DEF Undercuts
    <2> QED
      BY <1>0, <1>3, <2>1, <2>2, MoveInv, Sizes DEF Backspace, Test
  <1>4. CASE BackOff
    <2>1. At("back off") /\ Move("back off", job.x - 1, c_y, "position")
      BY <1>4 DEF BackOff, Move
    <2>2. ~strayed => c_y <= ROW - 1 /\ c_y # ROW - 1 /\ job.x <= COL
      BY <1>0, <2>1 DEF OnTrack, At
    <2>3. job.x >= 0 /\ (job.x = 0 => undercut)
      BY <1>0, <2>1 DEF Undercuts
    <2> DEFINE x == job.x - 1
    <2>4. x \in -1 .. X_LIMIT /\ (x = -1 => undercut) /\ c_y \in 0 .. Y_LIMIT
      BY <1>0, <2>3, Sizes
    <2>5. ~strayed => x <= COL /\ x # COL
      BY <1>0, <2>2, Sizes
    <2> HIDE DEF x
    <2> QED
      BY <2>1, <2>2, <2>4, <2>5, MoveInv DEF x
  <1>5. CASE Stop
    <2>1. ~strayed => c_y <= ROW - 1 /\ c_y # ROW - 1
      BY <1>0, <1>5 DEF Stop, Move, OnTrack, At
    <2>2. CASE job.x + TAB <= COL
      BY <1>0, <1>5, <2>1, <2>2, MoveInv, Sizes DEF Stop
    <2>3. CASE ~(job.x + TAB <= COL)
      <3> DEFINE x == (job.x + TAB) % COL
      <3>1. x \in 0 .. COL - 1
        BY <1>0, Sizes
      <3>2. Move("stop", x, c_y, "down")
        BY <1>5, <2>3 DEF Stop
      <3> HIDE DEF x
      <3> QED
        BY <1>0, <2>1, <3>1, <3>2, MoveInv, Sizes
    <2> QED
      BY <2>2, <2>3
  <1>6. CASE StepOn
    <2>1. ~strayed => c_y <= ROW - 1 /\ c_y # ROW - 1 /\ job.x \in 0 .. COL - 1
      BY <1>0, <1>6 DEF StepOn, Move, OnTrack, At
    <2> DEFINE x == job.x + 1
    <2>2. x \in -1 .. X_LIMIT /\ x # -1 /\ c_y \in 0 .. Y_LIMIT /\ (~strayed => x <= COL)
      BY <1>0, <2>1, Sizes
    <2>3. Move("step on", x, c_y, "edge")
      BY <1>6 DEF StepOn
    <2> HIDE DEF x
    <2> QED
      BY <2>1, <2>2, <2>3, MoveInv
  <1>7. CASE Edge
    <2>1. ~strayed => c_y <= ROW - 1 /\ c_y # ROW - 1 /\ c_x <= COL
      BY <1>0, <1>7 DEF Edge, Test, Move, OnTrack, At
    <2>2. c_x = -1 => undercut
      BY <1>0 DEF Undercuts
    <2> QED
      BY <1>0, <1>7, <2>1, <2>2, MoveInv, Sizes DEF Edge, Test
  <1>8. CASE Line
    <2>1. ~strayed => c_x <= COL /\ c_x \notin {-1, COL} /\ job.y < ROW - 1
      BY <1>0, <1>8 DEF Line, Move, OnTrack, InLine, At
    <2>2. c_x = -1 => undercut
      BY <1>0 DEF Undercuts
    <2> QED
      BY <1>0, <1>8, <2>1, <2>2, MoveInv, Sizes DEF Line
  <1>9. CASE Wrap
    <2>1. ~strayed => c_x <= COL /\ c_x \notin {-1, COL} /\ c_y <= ROW - 1
      BY <1>0, <1>9 DEF Wrap, Test, Move, OnTrack, InLine, At
    <2>2. c_x = -1 => undercut
      BY <1>0 DEF Undercuts
    <2> QED
      BY <1>0, <1>9, <2>1, <2>2, MoveInv, Sizes DEF Wrap, Test
  <1>10. CASE Top
    <2>1. ~strayed => c_x <= COL /\ c_x \notin {-1, COL}
      BY <1>0, <1>10 DEF Top, Move, OnTrack, InLine, At
    <2>2. c_x = -1 => undercut
      BY <1>0 DEF Undercuts
    <2> QED
      BY <1>0, <1>10, <2>1, <2>2, MoveInv, Sizes DEF Top
  <1> QED
    BY <1>2, <1>3, <1>4, <1>5, <1>6, <1>7, <1>8, <1>9, <1>10

LEMMA PutcharInv ==
  ASSUME IInv, NEW ch \in Text, putchar(ch)
  PROVE  IInv'
  <1> DEFINE start == IF ch \in Control THEN ch ELSE "address"
  <1>1. start \in {"newline", "backspace", "tab", "address"} /\ ch \in Chars
    BY DEF Control, Chars
  <1>2. job' = [pc |-> start, ch |-> ch, x |-> 0, y |-> 0, due |-> Both]
    BY DEF putchar, Idle
  <1> HIDE DEF start
  <1>3. /\ job' \in Jobs /\ job'.pc = start /\ "x" \in job'.due /\ job.pc = "idle"
        /\ c_x' = c_x /\ c_y' = c_y
    <2>1. start \in PCs
      BY <1>1 DEF PCs, Control
    <2>2. job.pc = "idle" /\ c_x' = c_x /\ c_y' = c_y
      BY Zenon DEF putchar, At
    <2> QED
      BY <1>1, <1>2, <2>1, <2>2, Sizes DEF Jobs, Both
  <1>4. TypeOK'
    BY <1>3 DEF putchar, IInv, TypeOK
  <1>5. Undercuts'
    BY <1>1, <1>3 DEF putchar, IInv, Undercuts, At
  <1>6. ASSUME ~strayed' PROVE OnTrack' /\ ClockStays'
    <2>1. OnTrack /\ ClockStays
      BY <1>6 DEF putchar, IInv
    <2>2. c_y # ROW - 1
      BY <1>3, <2>1 DEF OnTrack
    <2>3. OnTrack'
      BY <1>1, <1>3, <2>1, <2>2 DEF OnTrack, At, InLine
    <2>4. ClockStays'
      BY <2>1 DEF putchar, ClockStays
    <2> QED
      BY <2>3, <2>4
  <1> QED
    BY <1>4, <1>5, <1>6 DEF IInv

LEMMA PositionIsBytes ==
  ASSUME TypeOK
  PROVE  /\ position % REGISTER \in 0 .. REGISTER - 1
         /\ (position \div REGISTER) % REGISTER \in 0 .. REGISTER - 1
  <1>1. job.x \in Int /\ job.y \in Int
    BY Ranges, Zenon
  <1>2. position \in Int
    BY <1>1, Sizes DEF position
  <1> QED
    BY <1>2, CursorIsBytes

LEMMA PortsInv ==
  ASSUME IInv, Select("select low", "low") \/ Low \/ Select("select high", "high") \/ High
  PROVE  IInv'
  <1>1. /\ position % REGISTER \in 0 .. REGISTER - 1
        /\ (position \div REGISTER) % REGISTER \in 0 .. REGISTER - 1
    BY PositionIsBytes DEF IInv
  <1>2. crtc.index \in {"low", "high"}
    BY DEF IInv, TypeOK
  <1>3. CASE Select("select low", "low")
    BY <1>3, OutbInv DEF Select
  <1>4. CASE Low
    <2> DEFINE value == position % REGISTER
    <2>1. outb("low", crtc.index, value, "select high")
      BY <1>4 DEF Low
    <2> HIDE DEF value
    <2> QED
      BY <1>1, <1>2, <2>1, OutbInv DEF value
  <1>5. CASE Select("select high", "high")
    BY <1>5, OutbInv DEF Select
  <1>6. CASE High
    <2> DEFINE value == (position \div REGISTER) % REGISTER
    <2>1. outb("high", crtc.index, value, "idle")
      BY <1>6 DEF High
    <2> HIDE DEF value
    <2> QED
      BY <1>1, <1>2, <2>1, OutbInv DEF value
  <1> QED
    BY <1>3, <1>4, <1>5, <1>6

LEMMA TimerInv ==
  ASSUME IInv, irq_timer
  PROVE  IInv'
  <1> USE DEF IInv
  <1>1. PICK time \in Times :
          /\ clock' = time
          /\ screen' = [i \in Cells |->
               IF i - Status * COL \in CLOCK_X .. CLOCK_X + CLOCK_LEN - 1
               THEN [ch |-> time, colour |-> "DOS"] ELSE screen[i]]
    BY DEF irq_timer
  <1>2. screen' \in [Cells -> [ch : Chars, colour : {"BOB", "DOS", "any"}]]
    <2>1. [ch |-> time, colour |-> "DOS"] \in [ch : Chars, colour : {"BOB", "DOS", "any"}]
      BY DEF Chars
    <2> QED
      BY <1>1, <2>1 DEF TypeOK
  <1>3. TypeOK'
    BY <1>1, <1>2 DEF irq_timer, TypeOK
  <1>4. Undercuts'
    BY DEF irq_timer, Undercuts, At
  <1>5. ASSUME ~strayed' PROVE OnTrack' /\ ClockStays'
    <2>1. OnTrack /\ ClockStays
      BY <1>5 DEF irq_timer
    <2>2. OnTrack'
      BY <2>1 DEF irq_timer, OnTrack, InLine, At, OffTheText
    <2>3. \A i \in ClockCells : screen'[i] = [ch |-> clock', colour |-> "DOS"]
      BY <1>1 DEF ClockCells
    <2>4. \A i \in Cells : i < Status * COL => screen'[i] = screen[i]
      <3>1. \A i \in Cells : i < Status * COL =>
                i - Status * COL \notin CLOCK_X .. CLOCK_X + CLOCK_LEN - 1
        BY Sizes DEF Cells
      <3> QED
        BY <1>1, <3>1, Zenon
    <2>5. ClockStays'
      BY <2>1, <2>3, <2>4 DEF ClockStays, ClockCells
    <2> QED
      BY <2>2, <2>5
  <1> QED
    BY <1>3, <1>4, <1>5

(* What Painted leaves alone.                                              *)
LEMMA PaintedTypes ==
  ASSUME NEW s \in [Cells -> [ch : Chars, colour : {"BOB", "DOS", "any"}]], NEW at,
         NEW ch \in Chars, NEW colour \in {"BOB", "DOS", "any"}
  PROVE  /\ Painted(s, at, ch, colour) \in [Cells -> [ch : Chars, colour : {"BOB", "DOS", "any"}]]
         /\ \A i \in Cells : /\ i # at => Painted(s, at, ch, colour)[i] = s[i]
                             /\ i = at => Painted(s, at, ch, colour)[i].colour = colour
  BY DEF Painted

LEMMA MembershipIsBoolean ==
  ASSUME NEW x, NEW S, NEW b, b = (x \in S)
  PROVE  b \in BOOLEAN
  OBVIOUS

LEMMA KeyInv ==
  ASSUME IInv, c_x < X_LIMIT, c_y < Y_LIMIT, irq_kb
  PROVE  IInv'
  <1>0. c_x \in -1 .. X_LIMIT - 1 /\ c_y \in 0 .. Y_LIMIT - 1 /\ TypeOK
    BY Bounds DEF IInv
  <1>1. PICK ch \in Keys :
          /\ screen' = IF ch \in Control
                       THEN Painted(screen, Status * COL + KEY_X, ch, "DOS")
                       ELSE Painted(Painted(screen, Status * COL + KEY_X, ch, "DOS"),
                                    c_y * COL + c_x, ch, "BOB")
          /\ c_x' = Moved(c_x, c_y, ch)[1]
          /\ c_y' = Moved(c_x, c_y, ch)[2]
          /\ crtc' = CursorAt(Moved(c_x, c_y, ch)[2] * COL + Moved(c_x, c_y, ch)[1])
          /\ strayed' = (strayed \/ OffTheText(IF ch \in Control THEN 0 ELSE c_x, c_y))
    BY DEF irq_kb
  <1>10. job' = job /\ clock' = clock /\ crossed' = Updating
         /\ undercut' = (job.pc \in {"back", "back off"})
    BY Zenon DEF irq_kb
  <1>2. c_x' \in 0 .. X_LIMIT /\ c_y' \in 0 .. Y_LIMIT
    BY <1>0, <1>1, MovedIsBounded
  <1>3. crtc' \in [index : {"low", "high"}, low : 0 .. REGISTER - 1, high : 0 .. REGISTER - 1]
    <2>1. c_y' * COL + c_x' \in Int /\ crtc' = CursorAt(c_y' * COL + c_x')
      BY <1>1, <1>2, Sizes
    <2> QED
      BY <2>1, CursorIsBytes DEF CursorAt
  <1> DEFINE shown == Painted(screen, Status * COL + KEY_X, ch, "DOS")
             echoed == Painted(shown, c_y * COL + c_x, ch, "BOB")
  <1>4. ch \in Chars
    BY DEF Chars
  <1>5. /\ shown \in [Cells -> [ch : Chars, colour : {"BOB", "DOS", "any"}]]
        /\ \A i \in Cells : i # Status * COL + KEY_X => shown[i] = screen[i]
    BY <1>0, <1>4, PaintedTypes DEF TypeOK
  <1>6. screen' = IF ch \in Control THEN shown ELSE echoed
    BY <1>1
  <1> HIDE DEF shown
  <1>7. /\ echoed \in [Cells -> [ch : Chars, colour : {"BOB", "DOS", "any"}]]
        /\ \A i \in Cells : /\ i # c_y * COL + c_x => echoed[i] = shown[i]
                            /\ i = c_y * COL + c_x => echoed[i].colour = "BOB"
    BY <1>4, <1>5, PaintedTypes
  <1> HIDE DEF echoed
  <1>8. TypeOK'
    <2>1. strayed' \in BOOLEAN
      BY <1>0, <1>1 DEF OffTheText, TypeOK
    <2>2. screen' \in [Cells -> [ch : Chars, colour : {"BOB", "DOS", "any"}]]
      BY <1>5, <1>6, <1>7
    <2>3. undercut' \in BOOLEAN
      BY <1>10, MembershipIsBoolean
    <2>4. crossed' \in BOOLEAN
      BY <1>10 DEF Updating, At
    <2> QED
      <3>1. /\ job' \in Jobs /\ clock' \in Times \cup {"none"}
            /\ c_x' \in -1 .. X_LIMIT
        <4>1. job \in Jobs /\ clock \in Times \cup {"none"}
          BY <1>0, Zenon DEF TypeOK
        <4>2. c_x' \in -1 .. X_LIMIT
          BY <1>2, Sizes
        <4> QED
          BY <1>10, <4>1, <4>2, Zenon
      <3> QED
        BY <1>2, <1>3, <2>1, <2>2, <2>3, <2>4, <3>1, Zenon DEF TypeOK
  <1>11. Undercuts'
    <2>1. job'.pc \in {"back", "back off"} => undercut'
      BY <1>10
    <2>2. job'.pc = "back off" => job'.x >= 0
      BY <1>10 DEF IInv, Undercuts, At
    <2> QED
      <3>1. c_x' >= 0 /\ c_x' # -1
        BY <1>2, Sizes
      <3> QED
        BY <2>1, <2>2, <3>1 DEF Undercuts, At
  <1>9. ASSUME ~strayed' PROVE OnTrack' /\ ClockStays'
    <2>1. /\ OnTrack /\ ClockStays /\ c_y \in Nat /\ c_y < ROW - 1
          /\ ch \notin Control => c_x \in Nat /\ c_x < COL
      <3>1. ~strayed /\ ~OffTheText(IF ch \in Control THEN 0 ELSE c_x, c_y)
        BY <1>1, <1>9
      <3>2. c_y \in 0 .. Status - 1
        BY <3>1 DEF OffTheText
      <3>3. ch \notin Control => c_x \in 0 .. COL - 1
        BY <3>1 DEF OffTheText
      <3> QED
        BY <3>1, <3>2, <3>3, Sizes DEF IInv
    <2>2. ch \notin {"tab", "backspace"}
      BY ConsoleParameters
    <2>3. c_x' \in Nat /\ c_x' < COL /\ c_y' \in Nat /\ c_y' < ROW - 1
      <3>1. CASE ch \in Control
        <4>1. Moved(c_x, c_y, ch) = <<0, LineAfter(c_y)>>
          BY <2>2, <3>1 DEF Moved, Control
        <4> QED
          BY <1>1, <2>1, <4>1, LineAfterIsText, Sizes
      <3>2. CASE ch \notin Control
        BY <1>1, <2>1, <2>2, <3>2, MovedIsText
      <3> QED
        BY <3>1, <3>2
    <2>4. OnTrack'
      <3>1. c_x' \notin {-1, COL} /\ c_x' <= COL /\ c_y' # ROW - 1 /\ c_y' <= ROW - 1
        BY <2>3, Sizes
      <3>2. /\ At("colour") => ~OffTheText(job.x, job.y)
            /\ At("step on") => job.x \in 0 .. COL - 1
            /\ At("back off") => job.x <= COL
            /\ At("line") => job.y < ROW - 1
        BY <2>1 DEF OnTrack
      <3> QED
        BY <1>10, <3>1, <3>2 DEF OnTrack, At, OffTheText
    <2>5. ch \notin Control => c_y * COL + c_x < Status * COL
      BY <2>1, OnTheText
    <2>6. \A i \in ClockCells : screen'[i] = screen[i]
      <3> SUFFICES ASSUME NEW i \in ClockCells PROVE screen'[i] = screen[i]
        OBVIOUS
      <3>1. i \in Cells /\ i # Status * COL + KEY_X /\ (ch \notin Control => i # c_y * COL + c_x)
        BY <1>0, <2>5, ClockCellsApart, CellsAreNaturals, Sizes
      <3> QED
        BY <1>5, <1>6, <1>7, <3>1
    <2>7. \A i \in Cells : i < Status * COL => screen'[i].colour \in {screen[i].colour, "BOB"}
      <3> SUFFICES ASSUME NEW i \in Cells, i < Status * COL
                   PROVE  screen'[i].colour \in {screen[i].colour, "BOB"}
        OBVIOUS
      <3>1. i # Status * COL + KEY_X
        BY CellsAreNaturals, Sizes
      <3> QED
        BY <1>5, <1>6, <1>7, <3>1
    <2>8. ClockStays'
      BY <1>10, <2>1, <2>6, <2>7 DEF ClockStays
    <2> QED
      BY <2>4, <2>8
  <1> QED
    BY <1>8, <1>9, <1>11 DEF IInv

LEMMA NextIInv == IInv /\ [Next]_vars => IInv'
  <1> SUFFICES ASSUME IInv, [Next]_vars PROVE IInv'
    OBVIOUS
  <1>1. CASE UNCHANGED vars
    BY <1>1 DEF vars, IInv, TypeOK, Undercuts, OnTrack, InLine, ClockStays, At, OffTheText
  <1>2. CASE Next
    <2>1. c_x < X_LIMIT /\ c_y < Y_LIMIT
      BY <1>2 DEF Next
    <2>2. ASSUME NEW ch \in Text, putchar(ch) PROVE IInv'
      BY <2>2, PutcharInv
    <2>3. CASE Newline \/ Backspace \/ BackOff \/ Stop \/ StepOn \/ Edge \/ Return \/ Line \/ Wrap \/ Top
      BY <2>1, <2>3, TaskMoves
    <2>4. CASE Back \/ Tab \/ Step \/ Down
      BY <2>1, <2>4, LoadInv
    <2>5. CASE Char
      <3>1. job.ch \in Chars
        BY DEF IInv, TypeOK, Jobs
      <3> QED
        BY <2>5, <3>1, WriteInv DEF Char
    <2>6. CASE Colour
      BY <2>6, WriteInv DEF Colour
    <2>7. CASE Address \/ Position
      BY <2>1, <2>7, LocateInv
    <2>8. CASE Select("select low", "low") \/ Low \/ Select("select high", "high") \/ High
      BY <2>8, PortsInv
    <2>9. CASE irq_timer
      BY <2>9, TimerInv
    <2>10. CASE irq_kb
      BY <2>1, <2>10, KeyInv
    <2> QED
      BY <1>2, <2>2, <2>3, <2>4, <2>5, <2>6, <2>7, <2>8, <2>9, <2>10 DEF Next, Task
  <1> QED
    BY <1>1, <1>2

-----------------------------------------------------------------------------
LEMMA Inductive == Spec => []IInv
  BY InitIInv, NextIInv, PTL DEF Spec

(* The types, in every reachable state: in particular the column is never  *)
(* further left than -1, whatever keys come between the test of a          *)
(* backspace and its decrement, and the cursor registers hold bytes.       *)
THEOREM TypesHold == Spec => []TypeOK
  BY Inductive, PTL DEF IInv

(* On a display of any size and with any text and keys, the coordinates    *)
(* leave the text only where OnlyTheEdgesAreUnsafe says, whichever loads   *)
(* and stores of putchar the keys come between, and the clock is           *)
(* overwritten only by a character put there (write.c:69 to 127, 228 to    *)
(* 246).                                                                   *)
THEOREM OnlyEdges == Spec => []OnlyTheEdgesAreUnsafe
  <1>1. IInv => OnlyTheEdgesAreUnsafe
    <2> SUFFICES ASSUME IInv, ~strayed PROVE OnlyTheEdgesAreUnsafe
      BY DEF OnlyTheEdgesAreUnsafe
    <2>1. c_x \in -1 .. COL /\ c_y \in 0 .. ROW - 1
      <3>1. c_x \in -1 .. X_LIMIT /\ c_y \in 0 .. Y_LIMIT /\ c_x <= COL /\ c_y <= ROW - 1
        BY DEF IInv, OnTrack, TypeOK
      <3> QED
        BY <3>1, Sizes
    <2> QED
      BY <2>1 DEF IInv, OnTrack, Undercuts, InLine, OnlyTheEdgesAreUnsafe
  <1> QED
    BY <1>1, Inductive, PTL

-----------------------------------------------------------------------------

(* Without keys and tabs no character ever goes astray, and what putchar   *)
(* has loaded of the coordinates is what they are.                         *)
Steady ==
  /\ ~strayed /\ ~undercut
  /\ job.pc \notin {"tab", "stop"}
  /\ c_x = COL => job.pc \in {"edge", "return"}
  /\ At("char") \/ (At("address") /\ "x" \notin job.due) => job.x = c_x
  /\ At("char") \/ (At("address") /\ "y" \notin job.due) => job.y = c_y
  /\ job.pc \in {"step on", "back off"} => job.x = c_x
  /\ At("line") => job.y = c_y

(* Where the coordinates are at each place of putchar.                     *)
LEMMA Where ==
  ASSUME IInv, Steady
  PROVE  /\ c_x \in Nat /\ c_y \in Nat /\ c_x <= COL /\ c_y <= ROW - 1
         /\ job.pc \notin {"edge", "return"} => c_x < COL
         /\ job.pc \notin {"wrap", "top"} => c_y < ROW - 1
         /\ job.pc \in {"back", "back off"} => c_x >= 1
         /\ job.pc \in PCs /\ job \in Jobs
  <1>1. c_x \in Int /\ c_y \in Nat /\ c_x >= -1 /\ job \in Jobs
    BY Ranges, Zenon DEF IInv, TypeOK
  <1>2. OnTrack /\ Undercuts /\ ~undercut
    BY DEF IInv, Steady
  <1>3. c_x # -1 /\ (At("back") => c_x # 0) /\ (At("back off") => job.x # 0)
    BY <1>2 DEF Undercuts
  <1>4. c_x \in Nat /\ (job.pc \in {"back", "back off"} => c_x >= 1)
    <2>1. job.pc = "back off" => job.x = c_x
      BY DEF Steady
    <2>2. c_x # -1
      BY <1>3, Zenon
    <2>3. c_x \in Nat
      BY <1>1, <2>2
    <2>4. job.pc \in {"back", "back off"} => c_x # 0
      BY <1>3, <2>1 DEF At
    <2>5. c_x # 0 => c_x >= 1
      BY <2>3
    <2> QED
      BY <2>3, <2>4, <2>5, Zenon
  <1>5. c_x <= COL /\ c_y <= ROW - 1 /\ (c_y = ROW - 1 => job.pc \in {"wrap", "top"})
    BY <1>2 DEF OnTrack
  <1>6. c_x = COL => job.pc \in {"edge", "return"}
    BY DEF Steady
  <1>7. job.pc \in PCs
    BY <1>1 DEF Jobs
  <1>8. (c_x # COL => c_x < COL) /\ (c_y # ROW - 1 => c_y < ROW - 1)
    BY <1>1, <1>5, Sizes
  <1> QED
    BY <1>1, <1>4, <1>5, <1>6, <1>7, <1>8, Zenon

LEMMA SteadyMoves ==
  ASSUME IInv, Steady, NEW pc, NEW x, NEW y,
         NEW next \in {"down", "position", "back", "edge", "return", "wrap", "top"},
         Move(pc, x, y, next), x = COL => next \in {"edge", "return"}
  PROVE  Steady'
  <1>0. next \in PCs
    BY DEF PCs
  <1>1. job'.pc = next /\ c_x' = x /\ strayed' = strayed /\ undercut' = undercut
    BY <1>0, JobStays DEF IInv, Move, Goto
  <1> QED
    BY <1>1 DEF Steady, At

LEMMA NextSteady ==
  ASSUME Keys = {}, "tab" \notin Text, IInv, Steady, [Next]_vars
  PROVE  Steady'
  <1>0. /\ c_x \in Nat /\ c_y \in Nat /\ c_x <= COL /\ c_y <= ROW - 1
        /\ job.pc \notin {"edge", "return"} => c_x < COL
        /\ job.pc \notin {"wrap", "top"} => c_y < ROW - 1
        /\ job.pc \in PCs /\ job \in Jobs /\ TypeOK
    BY Where DEF IInv
  <1>p. COL \in Nat /\ COL > 0 /\ ROW \in Nat
    BY Sizes
  <1>1. CASE UNCHANGED vars
    BY <1>1 DEF vars, Steady, At
  <1>2. CASE Next
    <2>0. c_x < X_LIMIT /\ c_y < Y_LIMIT
      BY <1>2 DEF Next
    <2>1. ASSUME NEW ch \in Text, putchar(ch) PROVE Steady'
      <3>1. /\ ch # "tab" /\ job.pc = "idle" /\ c_x' = c_x /\ strayed' = strayed
            /\ undercut' = undercut
        BY <2>1, Zenon DEF putchar, At
      <3>2. job'.pc \in {"newline", "backspace", "address"} /\ job'.due = Both
        BY <2>1, <3>1 DEF putchar, Idle, Control
      <3> QED
        BY <3>1, <3>2 DEF Steady, At, Both
    <2>2. CASE Newline \/ Return
      <3>1. Move("newline", 0, c_y, "down") \/ Move("return", 0, c_y, "down")
        BY <2>2 DEF Newline, Return
      <3>2. 0 # COL
        BY <1>p
      <3> QED
        BY <3>1, <3>2, SteadyMoves
    <2>3. CASE Backspace
      <3>1. job.pc = "backspace" /\ Move("backspace", c_x, c_y, IF c_x >= 1 THEN "back" ELSE "position")
        BY <2>3 DEF Backspace, Test, Move, At
      <3>2. c_x # COL
        BY <3>1 DEF Steady
      <3> QED
        BY <3>1, <3>2, SteadyMoves
    <2>4. CASE BackOff
      <3>1. job.pc = "back off" /\ Move("back off", job.x - 1, c_y, "position")
        BY <2>4 DEF BackOff, Move, At
      <3>2. job.x = c_x
        BY <3>1 DEF Steady
      <3>3. job.x - 1 # COL
        BY <1>0, <1>p, <3>2
      <3> QED
        BY <3>1, <3>3, SteadyMoves
    <2>5. ~Tab /\ ~Stop
      BY DEF Steady, Tab, Load, Stop, Move, At
    <2>6. CASE StepOn
      BY <2>6, SteadyMoves DEF StepOn
    <2>7. CASE Edge
      <3>1. Move("edge", c_x, c_y, IF c_x = COL THEN "return" ELSE "position")
        BY <2>7 DEF Edge, Test
      <3> QED
        BY <3>1, SteadyMoves
    <2>8. CASE Line \/ Wrap \/ Top
      <3>1. \/ job.pc = "line" /\ Move("line", c_x, job.y + 1, "wrap")
            \/ job.pc = "wrap" /\ Move("wrap", c_x, c_y, IF c_y = ROW - 1 THEN "top" ELSE "position")
            \/ job.pc = "top" /\ Move("top", c_x, 0, "position")
        BY <2>8 DEF Line, Wrap, Test, Top, Move, At
      <3>2. c_x # COL
        BY <3>1 DEF Steady
      <3> QED
        BY <3>1, <3>2, SteadyMoves
    <2>9. CASE Back \/ Step \/ Down
      <3>1. {"back off", "step on", "line"} \subseteq PCs /\ Both = {"x", "y"}
        BY DEF PCs, Both
      <3>2. c_x' = c_x /\ c_y' = c_y /\ strayed' = strayed /\ undercut' = undercut
        BY <2>9 DEF Back, Step, Down, Load
      <3>3. \/ job.pc = "back" /\ job'.pc = "back off" /\ job'.x = c_x
            \/ job.pc = "step" /\ job'.pc = "step on" /\ job'.x = c_x
            \/ job.pc = "down" /\ job'.pc = "line" /\ job'.y = c_y
        <4>1. CASE Back
          <5>1. job.pc = "back"
            BY <4>1 DEF Back, Load, At
          <5> QED
            BY <1>0, <2>0, <3>1, <4>1, <5>1, LoadIs DEF Back
        <4>2. CASE Step
          <5>1. job.pc = "step"
            BY <4>2 DEF Step, Load, At
          <5> QED
            BY <1>0, <2>0, <3>1, <4>2, <5>1, LoadIs DEF Step
        <4>3. CASE Down
          <5>1. job.pc = "down"
            BY <4>3 DEF Down, Load, At
          <5> QED
            BY <1>0, <2>0, <3>1, <4>3, <5>1, LoadIs DEF Down
        <4> QED
          BY <2>9, <4>1, <4>2, <4>3
      <3> QED
        BY <3>2, <3>3 DEF Steady, At
    <2>10. CASE Address
      <3>0. /\ c_x' = c_x /\ c_y' = c_y /\ strayed' = strayed /\ undercut' = undercut
            /\ Locate("address", "char") /\ job.pc = "address"
        BY <2>10, Zenon DEF Address, Locate, At
      <3>1. "address" \in PCs /\ "char" \in PCs
        BY DEF PCs
      <3>2. PICK c \in job.due :
              /\ c \in Both
              /\ job' \in Jobs /\ job'.ch = job.ch
              /\ job'.pc = IF job.due = {c} THEN "char" ELSE "address"
              /\ job'.due = IF job.due = {c} THEN Both ELSE job.due \ {c}
              /\ job'.x = IF c = "x" THEN c_x ELSE job.x
              /\ job'.y = IF c = "y" THEN c_y ELSE job.y
        BY <1>0, <2>0, <3>0, <3>1, LocateIs, Zenon
      <3>3. job'.pc \in {"address", "char"}
        BY <3>2
      <3>4. job'.pc = "char" \/ "x" \notin job'.due => job'.x = c_x
        <4>1. CASE c = "x"
          BY <3>2, <4>1
        <4>2. CASE c # "x"
          BY <3>0, <3>2, <4>2 DEF Steady, At, Both
        <4> QED
          BY <4>1, <4>2
      <3>5. job'.pc = "char" \/ "y" \notin job'.due => job'.y = c_y
        <4>1. CASE c = "y"
          BY <3>2, <4>1
        <4>2. CASE c # "y"
          BY <3>0, <3>2, <4>2 DEF Steady, At, Both
        <4> QED
          BY <4>1, <4>2
      <3> QED
        BY <3>0, <3>3, <3>4, <3>5 DEF Steady, At
    <2>11. CASE Char \/ Colour
      <3>1. /\ job.pc \in {"char", "colour"} /\ c_x' = c_x /\ undercut' = undercut
            /\ strayed' = (strayed \/ OffTheText(job.x, job.y))
        BY <2>11 DEF Char, Colour, Write, At
      <3>2. job'.pc \in {"colour", "step"}
        <4>1. "colour" \in PCs /\ "step" \in PCs
          BY DEF PCs
        <4> QED
          BY <1>0, <2>11, <4>1, JobStays DEF Char, Colour, Write, Goto
      <3>3. ~OffTheText(job.x, job.y)
        <4>1. CASE job.pc = "char"
          <5>1. job.x = c_x /\ job.y = c_y
            BY <4>1 DEF Steady, At
          <5>2. c_x \in 0 .. COL - 1 /\ c_y \in 0 .. Status - 1
            BY <1>0, <1>p, <4>1 DEF Status
          <5> QED
            BY <5>1, <5>2 DEF OffTheText
        <4>2. CASE job.pc = "colour"
          BY <4>2 DEF IInv, Steady, OnTrack, At
        <4> QED
          BY <3>1, <4>1, <4>2
      <3> QED
        BY <3>1, <3>2, <3>3 DEF Steady, At
    <2>12. CASE Position
      <3>1. "position" \in PCs /\ "select low" \in PCs
        BY DEF PCs
      <3>2. job'.pc \in {"position", "select low"}
        BY <1>0, <2>0, <2>12, <3>1, LocateIs DEF Position
      <3>3. c_x' = c_x /\ strayed' = strayed /\ undercut' = undercut /\ job.pc = "position"
        BY <2>12 DEF Position, Locate, At
      <3> QED
        BY <3>2, <3>3 DEF Steady, At
    <2>13. CASE Select("select low", "low") \/ Low \/ Select("select high", "high") \/ High
      <3>1. c_x' = c_x /\ strayed' = strayed /\ undercut' = undercut
        BY <2>13 DEF Select, Low, High, outb
      <3>2. job.pc \in {"select low", "low", "select high", "high"}
        BY <2>13 DEF Select, Low, High, outb, At
      <3>3. job'.pc \in {"low", "select high", "high", "idle"}
        BY <2>13, PortsGoOn DEF IInv
      <3> QED
        BY <3>1, <3>2, <3>3 DEF Steady, At
    <2>14. CASE irq_timer
      BY <2>14 DEF irq_timer, Steady, At
    <2>15. ~irq_kb
      BY DEF irq_kb
    <2> QED
      BY <1>2, <2>1, <2>2, <2>3, <2>4, <2>5, <2>6, <2>7, <2>8, <2>9, <2>10, <2>11, <2>12,
         <2>13, <2>14, <2>15 DEF Next, Task
  <1> QED
    BY <1>1, <1>2

(* Tasks that print without tabs, while the clock ticks and no key is hit, *)
(* never write over the clock: on a display of any size the text keeps to  *)
(* the lines above it (write.c:69 to 127, timer.c:30).                     *)
THEOREM ClockIsSafe ==
  ASSUME Keys = {}, "tab" \notin Text
  PROVE  Spec => []ClockStays
  <1>1. Init => Steady
    BY Sizes DEF Init, Steady, At, Idle
  <1>2. IInv /\ Steady /\ [Next]_vars => Steady'
    BY NextSteady
  <1>3. IInv /\ Steady => ClockStays
    BY DEF IInv, Steady
  <1>4. Spec => []IInv
    BY Inductive
  <1> QED
    BY <1>1, <1>2, <1>3, <1>4, PTL DEF Spec

-----------------------------------------------------------------------------
(* The cursor.                                                             *)
Place == c_y * COL + c_x

(* What the two loads and the four port writes of an update have left to   *)
(* do, unless a key crossed them.                                          *)
CursorFollows ==
  ~crossed =>
    /\ At("idle") => /\ crtc.low = Place % REGISTER
                     /\ crtc.high = (Place \div REGISTER) % REGISTER
    /\ At("position") => /\ "x" \notin job.due => job.x = c_x
                         /\ "y" \notin job.due => job.y = c_y
    /\ job.pc \in {"select low", "low", "select high", "high"} => job.x = c_x /\ job.y = c_y
    /\ At("low") => crtc.index = "low"
    /\ At("high") => crtc.index = "high"
    /\ job.pc \in {"select high", "high"} => crtc.low = Place % REGISTER

LEMMA RemainderIs ==
  ASSUME NEW n \in Nat, n > 0, NEW q \in Int, NEW r \in 0 .. n - 1
  PROVE  (q * n + r) % n = r
  <1> DEFINE a == q * n + r
  <1>1. a \in Int
    OBVIOUS
  <1> HIDE DEF a
  <1>2. PICK p \in Int, s \in 0 .. n - 1 : p = a \div n /\ s = a % n /\ a = p * n + s
    BY <1>1
  <1>3. p = q
    <2>1. SUFFICES ASSUME p # q PROVE FALSE
      OBVIOUS
    <2>2. CASE p < q
      <3>1. PICK k \in Nat : q = p + 1 + k
        BY <2>2
      <3>2. q * n = p * n + n + k * n /\ k * n >= 0
        BY <3>1
      <3> QED
        BY <1>2, <3>2 DEF a
    <2>3. CASE q < p
      <3>1. PICK k \in Nat : p = q + 1 + k
        BY <2>3
      <3>2. p * n = q * n + n + k * n /\ k * n >= 0
        BY <3>1
      <3> QED
        BY <1>2, <3>2 DEF a
    <2> QED
      BY <2>1, <2>2, <2>3
  <1>4. p * n + s = q * n + r
    BY <1>2 DEF a
  <1> QED
    BY <1>2, <1>3, <1>4 DEF a

(* What two bytes of a position say of it.                                 *)
LEMMA TwoBytes ==
  ASSUME NEW p \in Int
  PROVE  ((p \div REGISTER) % REGISTER) * REGISTER + (p % REGISTER) = p % (REGISTER * REGISTER)
  <1>0. REGISTER \in Nat /\ REGISTER > 0
    BY Sizes
  <1>1. PICK q \in Int, r \in 0 .. REGISTER - 1 :
          q = p \div REGISTER /\ r = p % REGISTER /\ p = q * REGISTER + r
    BY <1>0
  <1>2. PICK s \in Int, t \in 0 .. REGISTER - 1 :
          t = q % REGISTER /\ q = s * REGISTER + t
    BY <1>0
  <1>3. PICK n \in Nat : n = REGISTER * REGISTER
    BY <1>0
  <1>4. p = s * n + (t * REGISTER + r)
    BY <1>0, <1>1, <1>2, <1>3
  <1>5. n > 0 /\ t * REGISTER + r \in 0 .. n - 1
    <2>1. PICK k \in Nat : REGISTER = t + 1 + k
      BY <1>0
    <2>2. n = t * REGISTER + REGISTER + k * REGISTER /\ k * REGISTER \in Nat /\ t * REGISTER \in Nat
      BY <1>0, <1>3, <2>1
    <2>3. PICK a \in Nat, b \in Nat : a = t * REGISTER /\ b = k * REGISTER
      BY <2>2
    <2>4. n = a + REGISTER + b
      BY <2>2, <2>3
    <2>5. n > 0 /\ a + r \in 0 .. n - 1
      BY <1>0, <2>4
    <2> QED
      BY <2>3, <2>5
  <1>6. (s * n + (t * REGISTER + r)) % n = t * REGISTER + r
    BY <1>5, RemainderIs
  <1> QED
    BY <1>1, <1>2, <1>3, <1>4, <1>6

(* A step before the update, which sets everything right.                  *)
LEMMA BeforeTheUpdate ==
  ASSUME job'.pc \notin {"idle", "select low", "low", "select high", "high"},
         job'.pc = "position" => job'.due = Both
  PROVE  CursorFollows'
  BY DEF CursorFollows, At, Both

LEMMA PortsFollow ==
  ASSUME IInv, CursorFollows,
         Select("select low", "low") \/ Low \/ Select("select high", "high") \/ High
  PROVE  CursorFollows'
  <1>0. /\ TypeOK
        /\ crtc \in [index : {"low", "high"}, low : 0 .. REGISTER - 1, high : 0 .. REGISTER - 1]
    BY DEF IInv, TypeOK
  <1>1. Place' = Place /\ crossed' = crossed /\ c_x' = c_x /\ c_y' = c_y
    BY DEF Select, Low, High, outb, Place
  <1> SUFFICES ASSUME ~crossed PROVE CursorFollows'
    BY <1>1 DEF CursorFollows
  <1>a. job.pc \in {"select low", "low", "select high", "high"} =>
          job.x = c_x /\ job.y = c_y /\ position = Place
    BY DEF CursorFollows, position, Place
  <1>2. CASE Select("select low", "low")
    <2>1. job.pc = "select low" /\ job'.pc = "low" /\ job'.x = job.x /\ job'.y = job.y
      BY <1>0, <1>2, OutbIs DEF Select
    <2>2. crtc'.index = "low"
      BY <1>0, <1>2 DEF Select, outb
    <2> QED
      BY <1>1, <1>a, <2>1, <2>2 DEF CursorFollows, At
  <1>3. CASE Low
    <2>1. job.pc = "low" /\ job'.pc = "select high" /\ job'.x = job.x /\ job'.y = job.y
      BY <1>0, <1>3, OutbIs DEF Low
    <2>2. crtc.index = "low"
      BY <2>1 DEF CursorFollows, At
    <2>3. crtc'.low = Place % REGISTER
      BY <1>0, <1>3, <1>a, <2>1, <2>2 DEF Low, outb
    <2> QED
      BY <1>1, <1>a, <2>1, <2>3 DEF CursorFollows, At
  <1>4. CASE Select("select high", "high")
    <2>1. job.pc = "select high" /\ job'.pc = "high" /\ job'.x = job.x /\ job'.y = job.y
      BY <1>0, <1>4, OutbIs DEF Select
    <2>2. crtc'.index = "high" /\ crtc'.low = crtc.low
      BY <1>0, <1>4 DEF Select, outb
    <2> QED
      BY <1>1, <1>a, <2>1, <2>2 DEF CursorFollows, At
  <1>5. CASE High
    <2>1. job.pc = "high" /\ job'.pc = "idle"
      BY <1>0, <1>5, OutbIs DEF High
    <2>2. crtc.index = "high" /\ crtc.low = Place % REGISTER
      BY <2>1 DEF CursorFollows, At
    <2>3. crtc'.low = crtc.low /\ crtc'.high = (Place \div REGISTER) % REGISTER
      BY <1>0, <1>5, <1>a, <2>1, <2>2 DEF High, outb
    <2> QED
      BY <1>1, <2>1, <2>2, <2>3 DEF CursorFollows, At
  <1> QED
    BY <1>2, <1>3, <1>4, <1>5

LEMMA PositionFollows ==
  ASSUME IInv, CursorFollows, c_x < X_LIMIT, c_y < Y_LIMIT, Position
  PROVE  CursorFollows'
  <1>0. "position" \in PCs /\ "select low" \in PCs /\ Locate("position", "select low") /\ TypeOK
    <2>1. Locate("position", "select low") /\ TypeOK
      BY Zenon DEF Position, IInv
    <2> QED
      BY <2>1 DEF PCs
  <1>1. PICK c \in job.due :
          /\ c \in Both
          /\ job' \in Jobs /\ job'.ch = job.ch
          /\ job'.pc = IF job.due = {c} THEN "select low" ELSE "position"
          /\ job'.due = IF job.due = {c} THEN Both ELSE job.due \ {c}
          /\ job'.x = IF c = "x" THEN c_x ELSE job.x
          /\ job'.y = IF c = "y" THEN c_y ELSE job.y
    BY <1>0, LocateIs, Zenon
  <1>2. /\ c_x' = c_x /\ c_y' = c_y /\ job.pc = "position"
        /\ crossed' = (crossed /\ job.due # Both)
    BY Zenon DEF Position, Locate, At
  <1>3. job.due \in {Both, {"x"}, {"y"}} /\ Both = {"x", "y"}
    BY <1>0 DEF TypeOK, Jobs, Both
  <1> SUFFICES ASSUME ~crossed' PROVE CursorFollows'
    BY DEF CursorFollows
  <1>4. CASE job.due = Both
    <2>1. job'.pc = "position" /\ job'.due = Both \ {c}
      BY <1>1, <1>3, <1>4
    <2> QED
      BY <1>1, <1>2, <1>3, <2>1 DEF CursorFollows, At
  <1>5. CASE job.due # Both
    <2>1. job.due = {c} /\ job'.pc = "select low"
      BY <1>1, <1>3, <1>5
    <2>2. /\ "x" \notin job.due => job.x = c_x
          /\ "y" \notin job.due => job.y = c_y
      BY <1>2, <1>5 DEF CursorFollows, At
    <2>3. job'.x = c_x /\ job'.y = c_y
      BY <1>1, <1>3, <2>1, <2>2
    <2> QED
      BY <1>2, <2>1, <2>3 DEF CursorFollows, At
  <1> QED
    BY <1>4, <1>5

LEMMA KeyFollows ==
  ASSUME IInv, irq_kb
  PROVE  CursorFollows'
  <1>1. job' = job /\ crossed' = Updating /\ crtc' = CursorAt(Place')
    <2>1. PICK ch \in Keys :
            /\ c_x' = Moved(c_x, c_y, ch)[1] /\ c_y' = Moved(c_x, c_y, ch)[2]
            /\ crtc' = CursorAt(Moved(c_x, c_y, ch)[2] * COL + Moved(c_x, c_y, ch)[1])
      BY DEF irq_kb
    <2>2. crtc' = CursorAt(Place')
      BY <2>1 DEF Place
    <2> QED
      BY <2>2, Zenon DEF irq_kb
  <1>2. crtc'.low = Place' % REGISTER /\ crtc'.high = (Place' \div REGISTER) % REGISTER
    BY <1>1 DEF CursorAt
  <1>3. ~Updating => /\ job.pc \notin {"select low", "low", "select high", "high"}
                     /\ job.pc = "position" => job.due = Both
    BY DEF Updating, At
  <1> QED
    BY <1>1, <1>2, <1>3 DEF CursorFollows, At, Both

(* Where the steps of a task lead that come before an update.              *)
LEMMA OtherSteps ==
  ASSUME TypeOK, c_x < X_LIMIT, c_y < Y_LIMIT,
         \/ Newline \/ Backspace \/ BackOff \/ Stop \/ StepOn \/ Edge \/ Return \/ Line \/ Wrap \/ Top
         \/ Back \/ Tab \/ Step \/ Down \/ Char \/ Colour
  PROVE  /\ job.pc \notin {"idle", "address", "position"} /\ job'.due = job.due
         /\ job'.pc \notin {"idle", "address", "select low", "low", "select high", "high"}
  <1> DEFINE From == {"newline", "backspace", "back off", "stop", "step on", "edge", "return",
                      "line", "wrap", "top", "back", "tab", "step", "down", "char", "colour"}
             To == {"down", "position", "back", "edge", "return", "wrap", "top",
                    "back off", "stop", "step on", "line", "colour", "step"}
  <1>0. To \subseteq PCs
    BY DEF PCs
  <1>1. ASSUME NEW pc \in From, NEW next \in To, At(pc), Goto(next)
        PROVE  job.pc = pc /\ job'.pc = next /\ job'.due = job.due
    BY <1>0, <1>1, JobStays DEF Goto, At
  <1>2. ASSUME NEW pc \in From, NEW next \in To, NEW c \in Both, Load(pc, c, next)
        PROVE  job.pc = pc /\ job'.pc = next /\ job'.due = job.due
    <2>1. next \in PCs /\ job.pc = pc
      BY <1>0, <1>2, Zenon DEF Load, At
    <2> QED
      BY <1>2, <2>1, LoadIs, Zenon
  <1>3. CASE Newline \/ Backspace \/ BackOff \/ Stop \/ StepOn \/ Edge \/ Return \/ Line \/ Wrap \/ Top
    BY <1>1, <1>3 DEF Newline, Backspace, BackOff, Stop, StepOn, Edge, Return, Line, Wrap, Top, Test, Move
  <1>4. CASE Back \/ Tab \/ Step \/ Down
    BY <1>2, <1>4 DEF Back, Tab, Step, Down, Both
  <1>5. CASE Char \/ Colour
    BY <1>1, <1>5 DEF Char, Colour, Write
  <1> QED
    BY <1>3, <1>4, <1>5

(* Away from the two places it locates, putchar has loads of both due.     *)
DueAfresh == job.pc \notin {"address", "position"} => job.due = Both

LEMMA NextFollows ==
  ASSUME IInv, DueAfresh, CursorFollows, [Next]_vars
  PROVE  DueAfresh' /\ CursorFollows'
  <1>0. TypeOK
    BY DEF IInv
  <1>1. CASE UNCHANGED vars
    BY <1>1 DEF vars, CursorFollows, DueAfresh, At, Place
  <1>2. CASE Next
    <2>0. c_x < X_LIMIT /\ c_y < Y_LIMIT
      BY <1>2 DEF Next
    <2>1. ASSUME NEW ch \in Text, putchar(ch)
          PROVE  DueAfresh' /\ CursorFollows'
      <3>1. job'.pc \in Control \cup {"address"} /\ job'.due = Both
        BY <2>1 DEF putchar, Idle
      <3> QED
        BY <3>1, BeforeTheUpdate DEF Control, DueAfresh
    <2>2. CASE \/ Newline \/ Backspace \/ BackOff \/ Stop \/ StepOn \/ Edge \/ Return \/ Line \/ Wrap \/ Top
               \/ Back \/ Tab \/ Step \/ Down \/ Char \/ Colour
      <3>1. /\ job.pc \notin {"idle", "address", "position"} /\ job'.due = job.due
            /\ job'.pc \notin {"idle", "address", "select low", "low", "select high", "high"}
        BY <1>0, <2>0, <2>2, OtherSteps
      <3>2. job'.due = Both
        BY <3>1 DEF DueAfresh
      <3> QED
        BY <3>1, <3>2, BeforeTheUpdate DEF DueAfresh
    <2>3. CASE Address \/ Position
      <3>1. DueAfresh'
        <4>1. PICK pc \in {"address", "position"}, next \in {"char", "select low"} :
                Locate(pc, next)
          BY <2>3 DEF Address, Position
        <4>2. pc \in PCs /\ next \in PCs
          BY DEF PCs
        <4> QED
          BY <1>0, <2>0, <4>1, <4>2, LocateIs DEF DueAfresh
      <3>2. CASE Address
        <4>1. "address" \in PCs /\ "char" \in PCs
          BY DEF PCs
        <4>2. job'.pc \in {"address", "char"}
          BY <1>0, <2>0, <3>2, <4>1, LocateIs DEF Address
        <4> QED
          BY <3>1, <4>2, BeforeTheUpdate
      <3> QED
        BY <2>0, <2>3, <3>1, <3>2, PositionFollows
    <2>4. CASE Select("select low", "low") \/ Low \/ Select("select high", "high") \/ High
      <3>1. /\ job.pc \in {"select low", "low", "select high", "high"}
            /\ job' = Idle \/ \E next : Goto(next)
        BY <2>4 DEF Select, Low, High, outb, At, Goto
      <3>2. job.due = Both
        BY <3>1 DEF DueAfresh
      <3>3. job'.due = Both
        <4>1. CASE job' = Idle
          BY <4>1 DEF Idle
        <4>2. ASSUME NEW next, Goto(next) PROVE job'.due = Both
          BY <1>0, <3>2, <4>2 DEF Goto, TypeOK, Jobs
        <4> QED
          BY <3>1, <4>1, <4>2
      <3> QED
        BY <2>4, <3>3, PortsFollow DEF DueAfresh
    <2>5. CASE irq_timer
      BY <2>5 DEF irq_timer, CursorFollows, DueAfresh, At, Place
    <2>6. CASE irq_kb
      <3>1. job' = job
        BY <2>6, Zenon DEF irq_kb
      <3> QED
        BY <2>6, <3>1, KeyFollows DEF DueAfresh
    <2> QED
      BY <1>2, <2>1, <2>2, <2>3, <2>4, <2>5, <2>6 DEF Next, Task
  <1> QED
    BY <1>1, <1>2

(* On any display: whenever no putchar is under way the display shows the  *)
(* cursor where the next character will go, in two bytes, unless a key     *)
(* came after the first load of the last update (write.c:244 to 255).      *)
THEOREM CursorIsShown == Spec => []OnlyACrossedUpdateLosesTheCursor
  <1>1. Init => DueAfresh /\ CursorFollows
    <2> SUFFICES ASSUME Init PROVE DueAfresh /\ CursorFollows
      OBVIOUS
    <2>1. job = Idle /\ crtc = CursorAt(0) /\ Place = 0
      BY Sizes DEF Init, Place
    <2> QED
      BY <2>1 DEF CursorFollows, DueAfresh, CursorAt, Idle, At
  <1>2. IInv /\ DueAfresh /\ CursorFollows /\ [Next]_vars => DueAfresh' /\ CursorFollows'
    BY NextFollows
  <1>3. IInv /\ CursorFollows => OnlyACrossedUpdateLosesTheCursor
    <2> SUFFICES ASSUME IInv, CursorFollows, At("idle"), ~crossed
                 PROVE  crtc.high * REGISTER + crtc.low = Place % (REGISTER * REGISTER)
      BY DEF OnlyACrossedUpdateLosesTheCursor, Place
    <2>1. crtc.low = Place % REGISTER /\ crtc.high = (Place \div REGISTER) % REGISTER
      BY DEF CursorFollows
    <2>2. c_x \in Int /\ c_y \in Int
      BY Ranges, Zenon DEF IInv
    <2>3. Place \in Int
      BY <2>2, Sizes DEF Place
    <2> QED
      BY <2>1, <2>3, TwoBytes
  <1> QED
    BY <1>1, <1>2, <1>3, Inductive, PTL DEF Spec

-----------------------------------------------------------------------------
(* The teletype.                                                           *)

(* A putchar's character, until it is done.                                *)
InHand ==
  /\ At("newline") => job.ch = "newline"
  /\ job.pc \in {"backspace", "back", "back off"} => job.ch = "backspace"
  /\ job.pc \in {"address", "char"} => job.ch \notin {"none", "newline", "backspace"}

Sheet == Status * COL
TextShown == [i \in 0 .. (ROW - 1) * COL - 1 |-> screen[i].ch]
Request == IF job.pc \in {"newline", "backspace", "back", "back off", "address", "char"}
           THEN job.ch ELSE "none"

TInv == IInv /\ Steady /\ InHand

LEMMA Small ==
  ASSUME NEW n \in Nat, n > 0
  PROVE  n % n = 0 /\ \A a \in 0 .. n - 1 : a % n = a
  <1>1. n % n = 0
    <2>1. (1 * n + 0) % n = 0
      BY RemainderIs
    <2> QED
      BY <2>1
  <1>2. ASSUME NEW a \in 0 .. n - 1 PROVE a % n = a
    <2>1. (0 * n + a) % n = a
      BY RemainderIs
    <2> QED
      BY <2>1
  <1> QED
    BY <1>1, <1>2

(* The arithmetic of lines and columns is that of the sheet.               *)
LEMMA Lines ==
  ASSUME NEW x \in Nat, NEW y \in Nat, x < COL, y < ROW - 1
  PROVE  /\ (y * COL + x) % COL = x
         /\ LineAfter(y) * COL = (y * COL + COL) % Sheet
         /\ Moved(x, y, "letter")[2] * COL + Moved(x, y, "letter")[1] = (y * COL + x + 1) % Sheet
  <1>1. (y * COL + x) % COL = x
    BY RemainderIs, Sizes
  <1>2. Sheet \in Nat /\ Sheet > 0 /\ y * COL \in Nat /\ Sheet = (ROW - 1) * COL
    <2>1. y * COL \in Nat /\ y * COL + x < Sheet
      BY OnTheText, Sizes DEF Sheet
    <2> QED
      BY <2>1, Sizes DEF Sheet
  <1>3. LineAfter(y) * COL = (y * COL + COL) % Sheet
    <2>1. (y + 1) * COL = y * COL + COL
      BY Sizes
    <2>2. CASE y + 1 = ROW - 1
      <3>1. y * COL + COL = Sheet
        BY <1>2, <2>1, <2>2
      <3>2. LineAfter(y) * COL = 0
        BY <2>2, Sizes DEF LineAfter
      <3> QED
        BY <1>2, <3>1, <3>2, Small
    <2>3. CASE y + 1 # ROW - 1
      <3>1. y * COL + COL \in 0 .. Sheet - 1
        <4>1. y + 1 \in Nat /\ y + 1 < ROW - 1
          BY <2>3, Sizes
        <4>2. (y + 1) * COL + 0 < Status * COL /\ (y + 1) * COL + 0 \in Nat
          BY <4>1, OnTheText, Sizes
        <4> QED
          BY <1>2, <2>1, <4>2, Sizes DEF Sheet
      <3> QED
        BY <1>2, <2>1, <2>3, <3>1, Small DEF LineAfter
    <2> QED
      BY <2>2, <2>3
  <1>4. Moved(x, y, "letter")[2] * COL + Moved(x, y, "letter")[1] = (y * COL + x + 1) % Sheet
    <2>1. CASE x + 1 = COL
      <3>1. Moved(x, y, "letter") = <<0, LineAfter(y)>>
        BY <2>1 DEF Moved
      <3>2. y * COL + x + 1 = y * COL + COL /\ LineAfter(y) * COL \in Int
        BY <1>2, <2>1, Sizes, LineAfterIsText
      <3> QED
        BY <1>3, <3>1, <3>2
    <2>2. CASE x + 1 # COL
      <3>1. Moved(x, y, "letter") = <<x + 1, y>>
        BY <2>2 DEF Moved
      <3>2. y * COL + (x + 1) < Status * COL /\ y * COL + (x + 1) \in Nat
        BY <2>2, OnTheText, Sizes
      <3>3. y * COL + x + 1 \in 0 .. Sheet - 1 /\ y * COL + (x + 1) = y * COL + x + 1
        BY <1>2, <3>2, Sizes DEF Sheet
      <3>4. (y * COL + x + 1) % Sheet = y * COL + x + 1
        BY <1>2, <3>3, Small
      <3> QED
        BY <3>1, <3>3, <3>4
    <2> QED
      BY <2>1, <2>2
  <1> QED
    BY <1>1, <1>3, <1>4

(* The sheet is part of the display.                                       *)
LEMMA SheetIsCells ==
  0 .. (ROW - 1) * COL - 1 \subseteq Cells
  <1>1. ROW * COL = (ROW - 1) * COL + COL
    BY Sizes
  <1>2. (ROW - 1) * COL \in Int
    BY Sizes
  <1> QED
    BY <1>1, <1>2, Sizes DEF Cells

LEMMA NotTheClock ==
  ASSUME NEW n \in Nat, NEW i \in 0 .. n - 1
  PROVE  i - n \notin CLOCK_X .. CLOCK_X + CLOCK_LEN - 1
  <1>1. CLOCK_X \in Nat
    BY ConsoleParameters
  <1> QED
    BY <1>1

LEMMA SameText ==
  ASSUME \A i \in 0 .. (ROW - 1) * COL - 1 : screen'[i].ch = screen[i].ch
  PROVE  TextShown' = TextShown
  BY DEF TextShown

(* What TInv says of the coordinates.                                      *)
LEMMA Here ==
  ASSUME TInv
  PROVE  /\ TypeOK /\ job \in Jobs /\ job.pc \in PCs
         /\ c_x \in Nat /\ c_y \in Nat /\ c_x <= COL /\ c_y <= ROW - 1
         /\ job.pc \notin {"edge", "return"} => c_x < COL
         /\ job.pc \notin {"wrap", "top"} => c_y < ROW - 1
         /\ job.pc \in {"back", "back off"} => c_x >= 1
         /\ job.pc \in {"back off", "step on", "char"} => job.x = c_x
         /\ job.pc \in {"line", "char"} => job.y = c_y
  <1>1. TypeOK /\ job.pc \notin {"tab", "stop"}
    BY DEF TInv, IInv, Steady
  <1>2. job.pc \in {"back off", "step on", "char"} => job.x = c_x
    BY DEF TInv, Steady, At
  <1>3. job.pc \in {"line", "char"} => job.y = c_y
    BY DEF TInv, Steady, At
  <1>4. IInv /\ Steady
    BY DEF TInv
  <1> QED
    BY <1>1, <1>2, <1>3, <1>4, Where, Zenon

(* What a step of a task leaves: its place and its character.              *)
LEMMA JobGoes ==
  ASSUME TypeOK, NEW next \in PCs, Goto(next)
  PROVE  job'.pc = next /\ job'.ch = job.ch
  BY JobStays DEF Goto

LEMMA InHandStays ==
  ASSUME TInv, c_x < X_LIMIT, c_y < Y_LIMIT, "none" \notin Text, Keys = {}, Next
  PROVE  InHand'
  <1>0. TypeOK /\ InHand
    BY DEF TInv, IInv
  <1>1. ASSUME NEW ch \in Text, putchar(ch)
        PROVE  InHand'
    <2>1. job'.pc = (IF ch \in Control THEN ch ELSE "address") /\ job'.ch = ch
      BY <1>1 DEF putchar, Idle
    <2>2. ch # "none"
      OBVIOUS
    <2>3. CASE ch \in Control
      BY <2>1, <2>3 DEF InHand, At, Control
    <2>4. CASE ch \notin Control
      BY <2>1, <2>2, <2>4 DEF InHand, At, Control
    <2> QED
      BY <2>3, <2>4
  <1>2. ASSUME NEW next \in {"down", "position", "edge", "return", "wrap", "top", "colour", "step",
                             "select low", "low", "select high", "high", "idle", "step on", "line"},
               job'.pc = next
        PROVE  InHand'
    BY <1>2 DEF InHand, At
  <1>3. CASE Newline \/ BackOff \/ StepOn \/ Edge \/ Return \/ Line \/ Wrap \/ Top \/ Char \/ Colour
    <2>1. PICK next \in {"down", "position", "edge", "return", "wrap", "top", "colour", "step"} :
            Goto(next)
      BY <1>3 DEF Newline, BackOff, StepOn, Edge, Return, Line, Wrap, Top, Test, Move, Char, Colour, Write
    <2>2. next \in PCs
      BY DEF PCs
    <2>3. job'.pc = next
      BY <1>0, <2>1, <2>2, JobGoes
    <2> QED
      BY <1>2, <2>3
  <1>4. CASE Backspace
    <2>1. job.pc = "backspace" /\ Goto(IF c_x >= 1 THEN "back" ELSE "position")
      BY <1>4 DEF Backspace, Test, Move, At
    <2>2. (IF c_x >= 1 THEN "back" ELSE "position") \in PCs
      BY DEF PCs
    <2>3. job'.pc = (IF c_x >= 1 THEN "back" ELSE "position") /\ job'.ch = job.ch
      BY <1>0, <2>1, <2>2, JobGoes
    <2>4. job'.pc \in {"back", "position"}
      BY <2>3
    <2> QED
      BY <1>0, <2>1, <2>3, <2>4 DEF InHand, At
  <1>5. CASE Back \/ Step \/ Down
    <2>1. PICK pc \in {"back", "step", "down"}, c \in Both,
               next \in {"back off", "step on", "line"} :
            Load(pc, c, next) /\ (next = "back off" => pc = "back")
      BY <1>5 DEF Back, Step, Down, Both
    <2>2. next \in PCs /\ job.pc = pc
      BY <2>1, Zenon DEF PCs, Load, At
    <2>3. job'.pc = next /\ job'.ch = job.ch
      BY <1>0, <2>1, <2>2, LoadIs, Zenon
    <2> QED
      BY <1>0, <2>1, <2>2, <2>3 DEF InHand, At
  <1>6. CASE Address \/ Position
    <2>1. PICK pc \in {"address", "position"}, next \in {"char", "select low"} :
            Locate(pc, next) /\ (next = "char" <=> pc = "address")
      BY <1>6 DEF Address, Position
    <2>2. pc \in PCs /\ next \in PCs /\ job.pc = pc
      BY <2>1, Zenon DEF PCs, Locate, At
    <2>3. job'.pc \in {pc, next} /\ job'.ch = job.ch
      BY <1>0, <2>1, <2>2, LocateIs
    <2> QED
      BY <1>0, <2>1, <2>2, <2>3 DEF InHand, At
  <1>7. CASE Select("select low", "low") \/ Low \/ Select("select high", "high") \/ High
    BY <1>0, <1>2, <1>7, PortsGoOn
  <1>8. CASE irq_timer
    BY <1>0, <1>8 DEF irq_timer, InHand, At
  <1>9. ~irq_kb /\ ~Tab /\ ~Stop
    BY DEF irq_kb, TInv, Steady, Tab, Load, Stop, Move, At
  <1> QED
    BY <1>1, <1>3, <1>4, <1>5, <1>6, <1>7, <1>8, <1>9 DEF Next, Task

Stands == TextShown' = TextShown /\ Landing' = Landing /\ Request' = Request

(* Landing, place by place.                                                *)
LEMMA LandingIs ==
  /\ job.pc \in {"colour", "step", "step on"} =>
       Landing = Moved(c_x, c_y, "letter")[2] * COL + Moved(c_x, c_y, "letter")[1]
  /\ job.pc = "return" \/ (job.pc = "edge" /\ c_x = COL) => Landing = LineAfter(c_y) * COL + 0
  /\ job.pc \in {"down", "line"} => Landing = LineAfter(c_y) * COL + c_x
  /\ job.pc = "top" \/ (job.pc = "wrap" /\ c_y = ROW - 1) => Landing = 0 * COL + c_x
  /\ \/ job.pc = "edge" /\ c_x # COL
     \/ job.pc = "wrap" /\ c_y # ROW - 1
     \/ job.pc \notin {"colour", "step", "step on", "return", "edge", "down", "line", "top", "wrap"}
     => Landing = Place
  BY DEF Landing, At, Place

LEMMA LandingWillBe ==
  /\ job'.pc \in {"colour", "step", "step on"} =>
       Landing' = Moved(c_x', c_y', "letter")[2] * COL + Moved(c_x', c_y', "letter")[1]
  /\ job'.pc = "return" \/ (job'.pc = "edge" /\ c_x' = COL) => Landing' = LineAfter(c_y') * COL + 0
  /\ job'.pc \in {"down", "line"} => Landing' = LineAfter(c_y') * COL + c_x'
  /\ job'.pc = "top" \/ (job'.pc = "wrap" /\ c_y' = ROW - 1) => Landing' = 0 * COL + c_x'
  /\ \/ job'.pc = "edge" /\ c_x' # COL
     \/ job'.pc = "wrap" /\ c_y' # ROW - 1
     \/ job'.pc \notin {"colour", "step", "step on", "return", "edge", "down", "line", "top", "wrap"}
     => Landing' = c_y' * COL + c_x'
  BY DEF Landing, At

(* Where putchar takes requests, before their effect.                      *)
Asking == {"newline", "backspace", "back", "back off", "address", "char"}

LEMMA RequestsEnd ==
  /\ job.pc \notin Asking => Request = "none"
  /\ job'.pc \notin Asking => Request' = "none"
  /\ job.pc \in Asking /\ job'.pc \in Asking /\ job'.ch = job.ch => Request' = Request
  BY DEF Request, Asking

(* Stores and tests that leave the place where the character will land.    *)
LEMMA MovesStand ==
  ASSUME TInv, StepOn \/ Edge \/ Return \/ Line \/ Wrap \/ Top
  PROVE  Stands
  <1>0. /\ c_x \in Nat /\ c_y \in Nat /\ TypeOK
        /\ job.pc = "step on" => job.x = c_x
        /\ job.pc = "line" => job.y = c_y
    BY Here
  <1> DEFINE Places == {"step on", "edge", "return", "line", "wrap", "top", "down", "position"}
  <1>1. Places \subseteq PCs /\ Places \cap Asking = {}
    BY DEF PCs, Asking
  <1>2. ASSUME NEW pc \in Places, NEW x, NEW y, NEW next \in Places, Move(pc, x, y, next)
        PROVE  job.pc = pc /\ job'.pc = next /\ c_x' = x /\ c_y' = y /\ screen' = screen
    <2>1. job.pc = pc /\ c_x' = x /\ c_y' = y /\ screen' = screen /\ Goto(next)
      BY <1>2, Zenon DEF Move, At
    <2> QED
      BY <1>0, <1>1, <2>1, JobGoes
  <1>3. TextShown' = TextShown
    <2>1. screen' = screen
      BY Zenon DEF StepOn, Edge, Return, Line, Wrap, Top, Test, Move
    <2> QED
      BY <2>1, SameText
  <1>4. CASE StepOn
    <2>1. job.pc = "step on" /\ job'.pc = "edge" /\ c_x' = job.x + 1 /\ c_y' = c_y
      BY <1>2, <1>4 DEF StepOn
    <2>2. c_x' = c_x + 1
      BY <1>0, <2>1
    <2>3. Landing = Moved(c_x, c_y, "letter")[2] * COL + Moved(c_x, c_y, "letter")[1]
      BY <2>1, LandingIs
    <2>4. CASE c_x + 1 = COL
      <3>1. Moved(c_x, c_y, "letter") = <<0, LineAfter(c_y)>>
        BY <2>4 DEF Moved
      <3>2. Landing' = LineAfter(c_y') * COL + 0
        BY <2>1, <2>2, <2>4, LandingWillBe
      <3>3. Landing' = LineAfter(c_y) * COL + 0
        BY <2>1, <3>2, Zenon
      <3>4. Landing' = Landing
        BY <2>3, <3>1, <3>3
      <3>5. Request' = Request
        BY <1>1, <2>1, RequestsEnd
      <3> QED
        BY <1>3, <3>4, <3>5, Zenon DEF Stands
    <2>5. CASE c_x + 1 # COL
      <3>1. Moved(c_x, c_y, "letter") = <<c_x + 1, c_y>>
        BY <2>5 DEF Moved
      <3>2. Landing' = c_y' * COL + c_x'
        BY <2>1, <2>2, <2>5, LandingWillBe
      <3>3. Landing' = c_y * COL + (c_x + 1)
        BY <2>1, <2>2, <3>2, Zenon
      <3>4. Landing' = Landing
        BY <2>3, <3>1, <3>3
      <3>5. Request' = Request
        BY <1>1, <2>1, RequestsEnd
      <3> QED
        BY <1>3, <3>4, <3>5, Zenon DEF Stands
    <2> QED
      BY <2>4, <2>5
  <1>5. CASE Edge
    <2>1. /\ job.pc = "edge" /\ job'.pc = (IF c_x = COL THEN "return" ELSE "position")
          /\ c_x' = c_x /\ c_y' = c_y
      BY <1>2, <1>5 DEF Edge, Test
    <2>2. Landing' = Landing
      <3>1. CASE c_x = COL
        <4>1. Landing = LineAfter(c_y) * COL + 0 /\ Landing' = LineAfter(c_y') * COL + 0
          BY <2>1, <3>1, LandingIs, LandingWillBe
        <4> QED
          BY <2>1, <4>1, Zenon
      <3>2. CASE c_x # COL
        <4>1. Landing = Place /\ Landing' = c_y' * COL + c_x'
          BY <2>1, <3>2, LandingIs, LandingWillBe
        <4> QED
          BY <2>1, <4>1, Zenon DEF Place
      <3> QED
        BY <3>1, <3>2
    <2> QED
      BY <1>1, <1>3, <2>1, <2>2, RequestsEnd DEF Stands
  <1>6. CASE Return
    <2>1. job.pc = "return" /\ job'.pc = "down" /\ c_x' = 0 /\ c_y' = c_y
      BY <1>2, <1>6 DEF Return
    <2>2. Landing = LineAfter(c_y) * COL + 0 /\ Landing' = LineAfter(c_y') * COL + c_x'
      BY <2>1, LandingIs, LandingWillBe
    <2>3. Landing' = Landing
      BY <2>1, <2>2, Zenon
    <2> QED
      BY <1>1, <1>3, <2>1, <2>3, RequestsEnd DEF Stands
  <1>7. CASE Line
    <2>1. job.pc = "line" /\ job'.pc = "wrap" /\ c_x' = c_x /\ c_y' = job.y + 1
      BY <1>2, <1>7 DEF Line
    <2>2. Landing = LineAfter(c_y) * COL + c_x /\ c_y' = c_y + 1
      BY <1>0, <2>1, LandingIs
    <2>3. Landing' = Landing
      <3>1. CASE c_y + 1 = ROW - 1
        <4>1. LineAfter(c_y) = 0
          BY <3>1 DEF LineAfter
        <4>2. Landing' = 0 * COL + c_x'
          BY <2>1, <2>2, <3>1, LandingWillBe
        <4> QED
          BY <2>1, <2>2, <4>1, <4>2, Zenon
      <3>2. CASE c_y + 1 # ROW - 1
        <4>1. LineAfter(c_y) = c_y + 1
          BY <3>2 DEF LineAfter
        <4>2. Landing' = c_y' * COL + c_x'
          BY <2>1, <2>2, <3>2, LandingWillBe
        <4> QED
          BY <2>1, <2>2, <4>1, <4>2, Zenon
      <3> QED
        BY <3>1, <3>2
    <2> QED
      BY <1>1, <1>3, <2>1, <2>3, RequestsEnd DEF Stands
  <1>8. CASE Wrap
    <2>1. /\ job.pc = "wrap" /\ job'.pc = (IF c_y = ROW - 1 THEN "top" ELSE "position")
          /\ c_x' = c_x /\ c_y' = c_y
      BY <1>2, <1>8 DEF Wrap, Test
    <2>2. Landing' = Landing
      <3>1. CASE c_y = ROW - 1
        <4>1. Landing = 0 * COL + c_x /\ Landing' = 0 * COL + c_x'
          BY <2>1, <3>1, LandingIs, LandingWillBe
        <4> QED
          BY <2>1, <4>1, Zenon
      <3>2. CASE c_y # ROW - 1
        <4>1. Landing = Place /\ Landing' = c_y' * COL + c_x'
          BY <2>1, <3>2, LandingIs, LandingWillBe
        <4> QED
          BY <2>1, <4>1, Zenon DEF Place
      <3> QED
        BY <3>1, <3>2
    <2> QED
      BY <1>1, <1>3, <2>1, <2>2, RequestsEnd DEF Stands
  <1>9. CASE Top
    <2>1. job.pc = "top" /\ job'.pc = "position" /\ c_x' = c_x /\ c_y' = 0
      BY <1>2, <1>9 DEF Top
    <2>2. Landing = 0 * COL + c_x /\ Landing' = c_y' * COL + c_x'
      BY <2>1, LandingIs, LandingWillBe
    <2>3. Landing' = Landing
      BY <2>1, <2>2, Zenon
    <2> QED
      BY <1>1, <1>3, <2>1, <2>3, RequestsEnd DEF Stands
  <1> QED
    BY <1>4, <1>5, <1>6, <1>7, <1>8, <1>9

(* A step that only goes on to a place where the character lands alike.    *)
LEMMA GoesOn ==
  ASSUME TextShown' = TextShown, c_x' = c_x, c_y' = c_y,
         job.pc \notin Asking => job'.pc \notin Asking,
         job.pc \in Asking => job'.pc \in Asking /\ job'.ch = job.ch,
         \/ job.pc \in {"colour", "step"} /\ job'.pc \in {"step", "step on"}
         \/ job.pc = "down" /\ job'.pc = "line"
         \/ {job.pc, job'.pc} \cap {"colour", "step", "step on", "return", "edge", "down",
                                    "line", "top", "wrap"} = {}
  PROVE  Stands
  <1>1. Request' = Request
    BY RequestsEnd
  <1>2. Landing' = Landing
    <2>1. CASE job.pc \in {"colour", "step"} /\ job'.pc \in {"step", "step on"}
      <3>1. /\ Landing = Moved(c_x, c_y, "letter")[2] * COL + Moved(c_x, c_y, "letter")[1]
            /\ Landing' = Moved(c_x', c_y', "letter")[2] * COL + Moved(c_x', c_y', "letter")[1]
        BY <2>1, LandingIs, LandingWillBe
      <3> QED
        BY <3>1, Zenon
    <2>2. CASE job.pc = "down" /\ job'.pc = "line"
      <3>1. /\ Landing = LineAfter(c_y) * COL + c_x /\ Landing' = LineAfter(c_y') * COL + c_x'
        BY <2>2, LandingIs, LandingWillBe
      <3> QED
        BY <3>1, Zenon
    <2>3. CASE {job.pc, job'.pc} \cap {"colour", "step", "step on", "return", "edge", "down",
                                       "line", "top", "wrap"} = {}
      <3>1. Landing = Place /\ Landing' = c_y' * COL + c_x'
        BY <2>3, LandingIs, LandingWillBe
      <3> QED
        BY <3>1, Zenon DEF Place
    <2> QED
      BY <2>1, <2>2, <2>3
  <1> QED
    BY <1>1, <1>2 DEF Stands

(* Loads, the test before a decrement, and the port writes.                *)
LEMMA LoadsStand ==
  ASSUME TInv, c_x < X_LIMIT, c_y < Y_LIMIT,
         \/ Back \/ Step \/ Down \/ Address \/ Position
         \/ Backspace /\ c_x >= 1
         \/ Select("select low", "low") \/ Low \/ Select("select high", "high") \/ High
  PROVE  Stands
  <1>0. TypeOK
    BY Here
  <1>1. TextShown' = TextShown
    <2>1. screen' = screen
      BY Zenon DEF Back, Step, Down, Load, Address, Position, Locate, Backspace, Test, Move,
                   Select, Low, High, outb
    <2> QED
      BY <2>1, SameText
  <1>2. c_x' = c_x /\ c_y' = c_y
    BY Zenon DEF Back, Step, Down, Load, Address, Position, Locate, Backspace, Test, Move,
                 Select, Low, High, outb
  <1>3. CASE Back \/ Step \/ Down
    <2>1. PICK pc \in {"back", "step", "down"}, c \in Both,
               next \in {"back off", "step on", "line"} :
            Load(pc, c, next) /\ <<pc, next>> \in {<<"back", "back off">>, <<"step", "step on">>,
                                                  <<"down", "line">>}
      BY <1>3 DEF Back, Step, Down, Both
    <2>2. next \in PCs /\ job.pc = pc
      BY <2>1, Zenon DEF PCs, Load, At
    <2>3. job'.pc = next /\ job'.ch = job.ch
      BY <1>0, <2>1, <2>2, LoadIs, Zenon
    <2> QED
      BY <1>1, <1>2, <2>1, <2>2, <2>3, GoesOn DEF Asking
  <1>4. CASE Address \/ Position
    <2>1. PICK pc \in {"address", "position"}, next \in {"char", "select low"} :
            Locate(pc, next) /\ (next = "char" <=> pc = "address")
      BY <1>4 DEF Address, Position
    <2>2. pc \in PCs /\ next \in PCs /\ job.pc = pc
      BY <2>1, Zenon DEF PCs, Locate, At
    <2>3. job'.pc \in {pc, next} /\ job'.ch = job.ch
      BY <1>0, <2>1, <2>2, LocateIs
    <2> QED
      BY <1>1, <1>2, <2>1, <2>2, <2>3, GoesOn DEF Asking
  <1>5. CASE Backspace /\ c_x >= 1
    <2>1. job.pc = "backspace" /\ Goto("back")
      BY <1>5 DEF Backspace, Test, Move, At
    <2>2. "back" \in PCs
      BY DEF PCs
    <2>3. job'.pc = "back" /\ job'.ch = job.ch
      BY <1>0, <2>1, <2>2, JobGoes
    <2> QED
      BY <1>1, <1>2, <2>1, <2>3, GoesOn DEF Asking
  <1>6. CASE Select("select low", "low") \/ Low \/ Select("select high", "high") \/ High
    <2>1. job.pc \in {"select low", "low", "select high", "high"}
      BY <1>6 DEF Select, Low, High, outb, At
    <2>2. job'.pc \in {"low", "select high", "high", "idle"}
      BY <1>0, <1>6, PortsGoOn
    <2> QED
      BY <1>1, <1>2, <2>1, <2>2, GoesOn DEF Asking
  <1> QED
    BY <1>3, <1>4, <1>5, <1>6

(* A change of colour, a tick and a stuttering step.                       *)
LEMMA OthersStand ==
  ASSUME TInv, Colour \/ irq_timer \/ UNCHANGED vars
  PROVE  Stands
  <1>1. CASE UNCHANGED vars
    <2>1. TextShown' = TextShown
      BY <1>1, SameText DEF vars
    <2>2. Request' = Request /\ Landing' = Landing
      BY <1>1 DEF vars, Request, Landing, At
    <2> QED
      BY <2>1, <2>2 DEF Stands
  <1>2. CASE irq_timer
    <2>1. \A i \in 0 .. (ROW - 1) * COL - 1 : screen'[i] = screen[i]
      <3> SUFFICES ASSUME NEW i \in 0 .. (ROW - 1) * COL - 1 PROVE screen'[i] = screen[i]
        OBVIOUS
      <3>1. i \in Cells
        BY SheetIsCells
      <3>2. i - Status * COL \notin CLOCK_X .. CLOCK_X + CLOCK_LEN - 1
        <4>1. PICK n \in Nat : n = Status * COL
          BY Sizes
        <4>2. i \in 0 .. n - 1
          BY <4>1 DEF Status
        <4> QED
          BY <4>1, <4>2, NotTheClock
      <3> QED
        BY <1>2, <3>1, <3>2 DEF irq_timer
    <2>2. TextShown' = TextShown
      BY <2>1, SameText
    <2>3. Request' = Request /\ Landing' = Landing
      BY <1>2 DEF irq_timer, Request, Landing, At
    <2> QED
      BY <2>2, <2>3 DEF Stands
  <1>3. CASE Colour
    <2>1. \A i \in Cells : screen'[i].ch = screen[i].ch
      <3> SUFFICES ASSUME NEW i \in Cells PROVE screen'[i].ch = screen[i].ch
        OBVIOUS
      <3>1. screen[i] \in [ch : Chars, colour : {"BOB", "DOS", "any"}]
        BY DEF TInv, IInv, TypeOK
      <3>2. screen'[i] = screen[i] \/ screen'[i] = [screen[i] EXCEPT !["colour"] = "BOB"]
        BY <1>3, Zenon DEF Colour, Write
      <3> QED
        BY <3>1, <3>2
    <2>2. TextShown' = TextShown
      BY <2>1, SheetIsCells, SameText
    <2>3. job.pc = "colour" /\ Goto("step") /\ c_x' = c_x /\ c_y' = c_y
      BY <1>3, Zenon DEF Colour, Write, At
    <2>4. "step" \in PCs /\ TypeOK
      BY Here DEF PCs
    <2>5. job'.pc = "step"
      BY <2>3, <2>4, JobGoes
    <2> QED
      BY <2>2, <2>3, <2>5, GoesOn DEF Asking
  <1> QED
    BY <1>1, <1>2, <1>3

TTStep == [TT!Ask \/ TT!Type \/ TT!NewLine \/ TT!BackSpace]_(TT!ttvars)

LEMMA SheetSize == TT!Size = Sheet
  BY DEF TT!Size, Sheet, Status

LEMMA CharTypes ==
  ASSUME TInv, Char
  PROVE  TT!Type
  <1>0. /\ c_x \in Nat /\ c_y \in Nat /\ TypeOK
        /\ screen \in [Cells -> [ch : Chars, colour : {"BOB", "DOS", "any"}]]
    BY Here DEF TypeOK
  <1>1. job.pc = "char" /\ job'.pc = "colour" /\ c_x' = c_x /\ c_y' = c_y
    <2>1. job.pc = "char" /\ Goto("colour") /\ c_x' = c_x /\ c_y' = c_y
      BY Zenon DEF Char, Write, At
    <2>2. "colour" \in PCs
      BY DEF PCs
    <2> QED
      BY <1>0, <2>1, <2>2, JobGoes
  <1>2. c_x < COL /\ c_y < ROW - 1 /\ job.x = c_x /\ job.y = c_y
    BY <1>1, Here
  <1>3. Request = job.ch /\ job.ch \notin {"none", "newline", "backspace"} /\ Request' = "none"
    BY <1>1 DEF Request, TInv, InHand
  <1>4. Landing = Place /\ job.y * COL + job.x = Place
    <2>1. Landing = Place
      BY <1>1, LandingIs
    <2> QED
      BY <1>2, <2>1, Zenon DEF Place
  <1>5. Landing' = (Place + 1) % Sheet
    <2>1. Landing' = Moved(c_x', c_y', "letter")[2] * COL + Moved(c_x', c_y', "letter")[1]
      BY <1>1, LandingWillBe
    <2>2. Landing' = Moved(c_x, c_y, "letter")[2] * COL + Moved(c_x, c_y, "letter")[1]
      BY <1>1, <2>1, Zenon
    <2>3. Landing' = (c_y * COL + c_x + 1) % Sheet
      BY <1>0, <1>2, <2>2, Lines, Zenon
    <2> QED
      BY <2>3, Zenon DEF Place
  <1>6. TextShown' = [TextShown EXCEPT ![Place] = job.ch]
    <2>1. \A i \in Cells : screen'[i].ch = IF i = Place THEN job.ch ELSE screen[i].ch
      <3> SUFFICES ASSUME NEW i \in Cells
                   PROVE  screen'[i].ch = IF i = Place THEN job.ch ELSE screen[i].ch
        OBVIOUS
      <3>1. screen[i] \in [ch : Chars, colour : {"BOB", "DOS", "any"}]
        BY <1>0
      <3>2. screen'[i] = IF i = job.y * COL + job.x THEN [screen[i] EXCEPT !["ch"] = job.ch]
                         ELSE screen[i]
        BY Zenon DEF Char, Write
      <3>3. screen'[i] = IF i = Place THEN [screen[i] EXCEPT !.ch = job.ch] ELSE screen[i]
        BY <1>4, <3>2, Zenon
      <3> QED
        BY <3>1, <3>3
    <2> QED
      BY <2>1, SheetIsCells DEF TextShown
  <1> QED
    BY <1>3, <1>4, <1>5, <1>6, SheetSize DEF TT!Type, TT!Done, TextShown, Request

LEMMA NewlineIsNewLine ==
  ASSUME TInv, Newline
  PROVE  TT!NewLine
  <1>0. c_x \in Nat /\ c_y \in Nat /\ TypeOK
    BY Here
  <1>1. job.pc = "newline" /\ job'.pc = "down" /\ c_x' = 0 /\ c_y' = c_y
    <2>1. job.pc = "newline" /\ Goto("down") /\ c_x' = 0 /\ c_y' = c_y
      BY Zenon DEF Newline, Move, At
    <2>2. "down" \in PCs
      BY DEF PCs
    <2> QED
      BY <1>0, <2>1, <2>2, JobGoes
  <1>2. c_x < COL /\ c_y < ROW - 1
    BY <1>1, Here
  <1>3. Request = "newline" /\ Request' = "none"
    BY <1>1 DEF Request, TInv, InHand, At
  <1>4. TextShown' = TextShown
    BY SameText DEF Newline, Move
  <1>5. Landing = Place /\ Landing' = LineAfter(c_y) * COL + 0
    <2>1. Landing = Place /\ Landing' = LineAfter(c_y') * COL + c_x'
      BY <1>1, LandingIs, LandingWillBe
    <2> QED
      BY <1>1, <2>1, Zenon
  <1>6. Landing % COL = c_x
    BY <1>0, <1>2, <1>5, Lines DEF Place
  <1>7. Landing' = (Landing - (Landing % COL) + COL) % Sheet
    <2>1. Place - c_x = c_y * COL /\ LineAfter(c_y) * COL \in Int
      BY <1>0, <1>2, LineAfterIsText, Sizes DEF Place
    <2> QED
      BY <1>0, <1>2, <1>5, <1>6, <2>1, Lines
  <1> QED
    BY <1>3, <1>4, <1>7, SheetSize DEF TT!NewLine, TT!Done, TT!Column, TextShown, Request

(* A backspace is done by its decrement, or by a test that fails.          *)
LEMMA BackspaceIsBackSpace ==
  ASSUME TInv, BackOff \/ (Backspace /\ ~(c_x >= 1))
  PROVE  TT!BackSpace
  <1>0. c_x \in Nat /\ c_y \in Nat /\ TypeOK
    BY Here
  <1>1. job.pc \in {"back off", "backspace"} /\ job'.pc = "position" /\ c_y' = c_y
        /\ c_x' = IF c_x >= 1 THEN c_x - 1 ELSE c_x
    <2>1. "position" \in PCs
      BY DEF PCs
    <2>2. CASE BackOff
      <3>1. job.pc = "back off" /\ Goto("position") /\ c_y' = c_y /\ c_x' = job.x - 1
        BY <2>2, Zenon DEF BackOff, Move, At
      <3>2. job.x = c_x /\ c_x >= 1
        BY <3>1, Here
      <3> QED
        BY <1>0, <2>1, <3>1, <3>2, JobGoes
    <2>3. CASE Backspace /\ ~(c_x >= 1)
      <3>1. job.pc = "backspace" /\ Goto("position") /\ c_y' = c_y /\ c_x' = c_x
        BY <2>3 DEF Backspace, Test, Move, At
      <3> QED
        BY <1>0, <2>1, <2>3, <3>1, JobGoes
    <2> QED
      BY <2>2, <2>3
  <1>2. c_x < COL /\ c_y < ROW - 1
    BY <1>1, Here
  <1>3. Request = "backspace" /\ Request' = "none"
    BY <1>1 DEF Request, TInv, InHand, At
  <1>4. TextShown' = TextShown
    <2>1. screen' = screen
      BY Zenon DEF BackOff, Backspace, Test, Move
    <2> QED
      BY <2>1, SameText
  <1>5. Landing = Place /\ Landing' = c_y * COL + c_x'
    <2>1. Landing = Place /\ Landing' = c_y' * COL + c_x'
      BY <1>1, LandingIs, LandingWillBe
    <2> QED
      BY <1>1, <2>1, Zenon
  <1>6. Landing % COL = c_x
    BY <1>0, <1>2, <1>5, Lines DEF Place
  <1>7. Landing' = IF Landing % COL > 0 THEN Landing - 1 ELSE Landing
    <2>1. c_y * COL \in Nat
      BY <1>0, Sizes
    <2>2. c_x' = IF c_x >= 1 THEN c_x - 1 ELSE c_x
      BY <1>1
    <2> QED
      BY <1>0, <1>5, <1>6, <2>1, <2>2 DEF Place
  <1> QED
    BY <1>3, <1>4, <1>7 DEF TT!BackSpace, TT!Done, TT!Column, TextShown, Request

LEMMA PutcharAsks ==
  ASSUME TInv, NEW ch \in Text, "tab" \notin Text, putchar(ch)
  PROVE  TT!Ask
  <1>1. job.pc = "idle" /\ c_x' = c_x /\ c_y' = c_y /\ screen' = screen
    BY Zenon DEF putchar, At
  <1>2. job'.pc \in {"newline", "backspace", "address"}
    BY DEF putchar, Idle, Control
  <1>3. Request = "none"
    BY <1>1 DEF Request
  <1>4. Landing' = Landing
    <2>1. Landing = Place /\ Landing' = c_y' * COL + c_x'
      BY <1>1, <1>2, LandingIs, LandingWillBe
    <2> QED
      BY <1>1, <2>1, Zenon DEF Place
  <1>5. TextShown' = TextShown
    BY <1>1, SameText
  <1> QED
    BY <1>3, <1>4, <1>5 DEF TT!Ask, TextShown, Request

LEMMA StandsIsStep ==
  Stands => TTStep
  BY DEF Stands, TTStep, TT!ttvars, TextShown, Request

LEMMA TaskTypes ==
  ASSUME TInv, "tab" \notin Text, Keys = {}, [Next]_vars
  PROVE  TTStep
  <1>0. Next => c_x < X_LIMIT /\ c_y < Y_LIMIT
    BY DEF Next
  <1>1. CASE Char
    BY <1>1, CharTypes DEF TTStep
  <1>2. CASE Newline
    BY <1>2, NewlineIsNewLine DEF TTStep
  <1>3. CASE BackOff \/ (Backspace /\ ~(c_x >= 1))
    BY <1>3, BackspaceIsBackSpace DEF TTStep
  <1>4. ASSUME NEW ch \in Text, putchar(ch) PROVE TTStep
    BY <1>4, PutcharAsks DEF TTStep
  <1>5. CASE StepOn \/ Edge \/ Return \/ Line \/ Wrap \/ Top
    BY <1>5, MovesStand, StandsIsStep
  <1>6. CASE /\ Next
             /\ \/ Back \/ Step \/ Down \/ Address \/ Position
                \/ Backspace /\ c_x >= 1
                \/ Select("select low", "low") \/ Low \/ Select("select high", "high") \/ High
    BY <1>0, <1>6, LoadsStand, StandsIsStep
  <1>7. CASE Colour \/ irq_timer \/ UNCHANGED vars
    BY <1>7, OthersStand, StandsIsStep
  <1>8. ~Tab /\ ~Stop
    BY DEF TInv, Steady, Tab, Load, Stop, Move, At
  <1>9. ~irq_kb
    BY DEF irq_kb
  <1> QED
    BY <1>1, <1>2, <1>3, <1>4, <1>5, <1>6, <1>7, <1>8, <1>9 DEF Next, Task

(* Tasks that print letters, newlines and backspaces on a display of any   *)
(* size, while the clock interrupts them anywhere, see a teletype: every   *)
(* step of putchar types, moves the position as it should, or changes      *)
(* nothing a reader of the text sees (write.c:71 to 124, 226 to 256).      *)
THEOREM ConsoleImplementsTeletype ==
  ASSUME Keys = {}, "tab" \notin Text, "none" \notin Text
  PROVE  Spec => ImplementsTeletype
  <1>1. Init => Steady /\ InHand
    BY Sizes DEF Init, Steady, InHand, At, Idle
  <1>2. IInv /\ Steady /\ InHand /\ [Next]_vars => IInv' /\ Steady' /\ InHand'
    <2> SUFFICES ASSUME TInv, [Next]_vars PROVE IInv' /\ Steady' /\ InHand'
      BY DEF TInv
    <2>1. IInv' /\ Steady'
      BY NextIInv, NextSteady DEF TInv
    <2>2. CASE Next
      BY <2>1, <2>2, InHandStays DEF Next
    <2>3. CASE UNCHANGED vars
      BY <2>1, <2>3 DEF vars, TInv, InHand, At
    <2> QED
      BY <2>2, <2>3
  <1>3. IInv /\ Steady /\ InHand /\ [Next]_vars => TTStep
    BY TaskTypes DEF TInv
  <1>4. Init => TT!TTInit
    BY Sizes DEF Init, TT!TTInit, Landing, At, Idle
  <1> QED
    BY <1>1, <1>2, <1>3, <1>4, InitIInv, PTL DEF Spec, ImplementsTeletype, TT!TTSpec, TTStep

=============================================================================
