------------------------------- MODULE Clock --------------------------------
(***************************************************************************)
(* The clock on the status line: timer_callback of sys/timer.c, which the  *)
(* timer handler calls at every tick, and print_cx_cy of sys/write.c,      *)
(* which writes characters from a column on and leaves the others.         *)
(*                                                                         *)
(* A character is a number: a digit, a member of Suffix, or the colon.     *)
(***************************************************************************)
EXTENDS Integers, SequencesExt

CONSTANTS
  RADIX,    \* 10
  SIXTY,    \* seconds in a minute, minutes in an hour
  HZ,       \* ticks in a second, 100
  EVERY,    \* ticks between two prints, 18
  WORD,     \* how many values the counter of ticks has, 2^32
  CLOCK_X,  \* the column of the clock, 57
  COL,      \* columns of the display, 80
  Suffix    \* " system uptime"

VARIABLES
  tick,     \* ticks, modulo WORD
  line,     \* the status line and the memory after it
  wrapped   \* whether tick has wrapped (a history variable)

clock == <<tick, line, wrapped>>

HOUR == SIXTY * SIXTY
Hours(t) == (t \div HZ) \div HOUR

(* itoa(n, buffer, 10)                                                     *)
Decimal[n \in 0 .. WORD - 1] ==
  IF n < RADIX THEN <<n>> ELSE Append(Decimal[n \div RADIX], n % RADIX)

(* The cells a text can reach: hours have as many digits as WORD allows.   *)
Cell == 0 .. CLOCK_X + Len(Decimal[Hours(WORD - 1)]) + 6 + Len(Suffix)
Untouched == -1
Colon == -2

ASSUME ClockParameters ==
  /\ RADIX \in Nat /\ RADIX > 1
  /\ SIXTY \in RADIX .. RADIX * RADIX
  /\ HZ \in Nat \ {0} /\ EVERY \in Nat \ {0} /\ CLOCK_X \in Nat
  /\ WORD \in Nat /\ WORD > HZ * HOUR
  /\ Suffix \in Seq(Nat)
  /\ COL = CLOCK_X + 9 + Len(Suffix)

-----------------------------------------------------------------------------
(* A fault to seed: the limit is one too low, as that for hours is.        *)
PaddedShort(n, limit) == IF n < limit - 1 THEN <<0>> \o Decimal[n] ELSE Decimal[n]

(* "0%d" below the limit, "%d" from it on.                                 *)
Padded(n, limit) == IF n < limit THEN <<0>> \o Decimal[n] ELSE Decimal[n]

Time(h, m, s) == h \o <<Colon>> \o m \o <<Colon>> \o s \o Suffix

(* A fault to seed: 60 is taken for seconds, 3600 for minutes.             *)
TextStrict(t) ==
  LET secs == t \div HZ
      m0   == secs % HOUR
      mins == IF m0 > SIXTY THEN m0 \div SIXTY ELSE m0
  IN  IF secs > HOUR
      THEN Time(Padded(Hours(t), RADIX - 1), Padded(mins, RADIX), Padded(mins % SIXTY, RADIX))
      ELSE IF secs > SIXTY
      THEN Time(<<0, 0>>, Padded(secs \div SIXTY, RADIX), Padded(secs % SIXTY, RADIX))
      ELSE Time(<<0, 0>>, <<0, 0>>, Padded(secs, RADIX))

(* What timer_callback prints: the second assignment to mins is made only  *)
(* from 60 on, and the seconds come from mins.                             *)
Text(t) ==
  LET secs == t \div HZ
      m0   == secs % HOUR
      mins == IF m0 >= SIXTY THEN m0 \div SIXTY ELSE m0
  IN  IF secs >= HOUR
      THEN Time(Padded(Hours(t), RADIX - 1), Padded(mins, RADIX), Padded(mins % SIXTY, RADIX))
      ELSE IF secs >= SIXTY
      THEN Time(<<0, 0>>, Padded(secs \div SIXTY, RADIX), Padded(secs % SIXTY, RADIX))
      ELSE Time(<<0, 0>>, <<0, 0>>, Padded(secs, RADIX))

(* print_cx_cy(CLOCK_X, 24, text)                                          *)
Written(text, l) ==
  [i \in Cell |-> IF i - CLOCK_X \in 0 .. Len(text) - 1
                  THEN text[i - CLOCK_X + 1] ELSE l[i]]

ClockInit ==
  /\ tick = 0
  /\ line = [i \in Cell |-> Untouched]
  /\ wrapped = FALSE

timer_callback ==
  /\ tick' = (tick + 1) % WORD
  /\ line' = IF tick' % EVERY = 0 THEN Written(Text(tick'), line) ELSE line
  /\ wrapped' = (wrapped \/ tick' = 0)

-----------------------------------------------------------------------------
(* Properties.                                                             *)

(* The tick of the print that is on the display.                           *)
Shown == tick - (tick % EVERY)
Visible == Shown > 0 /\ ~wrapped

TwoDigits(n) == <<n \div RADIX, n % RADIX>>
Uptime(t) ==
  LET secs == t \div HZ
  IN  TwoDigits(secs \div HOUR) \o <<Colon>>
        \o TwoDigits((secs \div SIXTY) % SIXTY) \o <<Colon>> \o TwoDigits(secs % SIXTY)

Reads(text) == \A i \in 1 .. Len(text) : line[CLOCK_X + i - 1] = text[i]

(* In the first hour the clock shows the time since the first tick, by the *)
(* last print, digit for digit and from both ends of every range.          *)
FirstHourIsRight ==
  Visible /\ Hours(Shown) = 0 => Reads(Uptime(Shown) \o Suffix)

(* The line never shows parts of an older text after the newer one, except *)
(* in the tenth hour, whose "9" has a digit less than "08"; and until      *)
(* hours have four digits nothing is written past the display.             *)
NothingIsLeftOver ==
  Visible =>
    /\ Hours(Shown) # RADIX - 1 =>
         \A i \in Cell : i - CLOCK_X >= Len(Text(Shown)) => line[i] = Untouched
    /\ Hours(Shown) < RADIX * RADIX * RADIX =>
         \A i \in Cell : i >= COL => line[i] = Untouched

(* What the text says of itself: it is the system's uptime.  Left aside is *)
(* the tenth hour, which lacks a digit.                                    *)
UptimeIsShown ==
  Visible /\ Hours(Shown) < RADIX * RADIX /\ Hours(Shown) # RADIX - 1
    => Reads(Uptime(Shown))

=============================================================================
