------------------------------ MODULE Numbers -------------------------------
(***************************************************************************)
(* printf of a number in sys/write.c: itoa converts it in the one global   *)
(* buffer, puts prints the buffer, and the timer handler, which may run    *)
(* between any two accesses, converts the hours, minutes and seconds of    *)
(* the clock in the same buffer with print_cx_cy.                          *)
(*                                                                         *)
(* Characters are digits 0, 1, 2 ... and NUL.                              *)
(***************************************************************************)
EXTENDS Integers, Sequences

CONSTANTS
  DEC, HEX,    \* the bases, 10 and 16
  PAD,         \* digits of a hexadecimal number, 16
  INT, WORD,   \* how many values an int and an unsigned long have
  BUFFER,      \* characters in the buffer, 64
  Values,      \* values that tasks print
  ClockTimes   \* what a tick may convert: sequences of numbers

VARIABLES
  buffer,
  job,        \* the task's printf: [pc, base, value, count, low, ptr, tmp, other]
  asked,      \* the conversion and the value it was called with
  printed,    \* the characters printed for that value
  disturbed   \* whether a tick has overwritten what was still to be used
              \* (a history variable: no step depends on it)

vars == <<buffer, job, asked, printed, disturbed>>

Index == 0 .. BUFFER - 1
NUL == -1
Conversion == {"d", "x", "p"}

(* The digits of v in a base.                                              *)
Digits(base, v) ==
  LET of[n \in 0 .. WORD - 1] ==
        IF n < base THEN <<n>> ELSE Append(of[n \div base], n % base)
  IN  of[v]

ASSUME NumbersParameters ==
  /\ DEC \in Nat /\ DEC > 1 /\ HEX \in Nat /\ HEX > 1 /\ DEC # HEX
  /\ INT \in Nat \ {0} /\ WORD \in Nat \ {0} /\ WORD % INT = 0 /\ INT % 2 = 0
  /\ BUFFER \in Nat /\ PAD \in Nat
  /\ Values \subseteq 0 .. WORD - 1
  /\ \A times \in ClockTimes : times \in Seq(0 .. INT \div 2 - 1) \ {<<>>}
  /\ \A v \in 0 .. WORD - 1 : Len(Digits(DEC, v)) < BUFFER
  /\ Len(Digits(HEX, WORD - 1)) <= PAD /\ PAD < BUFFER

-----------------------------------------------------------------------------
(* va_arg(params, int) widened to the uint64_t of itoa; %p takes a long.   *)
Argument(conversion, v) ==
  IF conversion = "p" THEN v
  ELSE IF v % INT < INT \div 2 THEN v % INT ELSE WORD - INT + (v % INT)

(* itoa as a whole, in the timer handler: digits and the terminator.       *)
Converted(b, digits) ==
  [i \in Index |-> IF i < Len(digits) THEN digits[i + 1]
                   ELSE IF i = Len(digits) THEN NUL ELSE b[i]]

Idle == [pc |-> "idle", base |-> DEC, value |-> 0, count |-> 0,
         low |-> 0, ptr |-> 0, tmp |-> NUL, other |-> NUL]

Init ==
  /\ buffer = [i \in Index |-> NUL]
  /\ job = Idle
  /\ asked = <<"d", 0>>
  /\ printed = <<0>>
  /\ disturbed = FALSE

At(pc) == job.pc = pc

printf(conversion, v) ==
  /\ At("idle")
  /\ asked' = <<conversion, v>>
  /\ job' = [Idle EXCEPT !.pc = "digit", !.value = Argument(conversion, v),
                         !.base = IF conversion = "d" THEN DEC ELSE HEX]
  /\ printed' = <<>>
  /\ disturbed' = FALSE
  /\ UNCHANGED buffer

(* A step of itoa: it may write a character of the buffer.                 *)
Put(pc, at, char, next) ==
  /\ At(pc)
  /\ buffer' = [buffer EXCEPT ![at] = char]
  /\ job' = next
  /\ UNCHANGED <<asked, printed, disturbed>>

Get(pc, next) ==
  /\ At(pc)
  /\ job' = next
  /\ UNCHANGED <<buffer, asked, printed, disturbed>>

Digit ==
  LET rest == job.value \div job.base
  IN  Put("digit", job.ptr, job.value % job.base,
          [job EXCEPT !.ptr = @ + 1, !.value = rest, !.count = @ + 1,
                      !.pc = IF rest = 0 THEN "pad" ELSE "digit"])

(* A fault to seed: one zero too many.                                     *)
PadLong ==
  IF job.count <= PAD /\ job.base = HEX
  THEN Put("pad", job.ptr, 0, [job EXCEPT !.ptr = @ + 1, !.count = @ + 1])
  ELSE Get("pad", [job EXCEPT !.pc = "terminate"])

(* The zeros go after the digits, which are still in reverse order.        *)
Pad ==
  IF job.count < PAD /\ job.base = HEX
  THEN Put("pad", job.ptr, 0, [job EXCEPT !.ptr = @ + 1, !.count = @ + 1])
  ELSE Get("pad", [job EXCEPT !.pc = "terminate"])

(* A fault to seed: the string is not terminated.                          *)
Unterminated ==
  Get("terminate", [job EXCEPT !.ptr = @ - 1, !.pc = "reverse"])

Terminate ==
  Put("terminate", job.ptr, NUL, [job EXCEPT !.ptr = @ - 1, !.pc = "reverse"])

(* A fault to seed: the pointers are compared for equality.                *)
TurnUnequal ==
  Get("reverse", IF job.low # job.ptr
                 THEN [job EXCEPT !.tmp = buffer[job.low], !.pc = "other"]
                 ELSE [job EXCEPT !.ptr = 0, !.pc = "test"])

(* low and ptr approach each other; then puts starts from the beginning.   *)
Turn ==
  Get("reverse", IF job.low < job.ptr
                 THEN [job EXCEPT !.tmp = buffer[job.low], !.pc = "other"]
                 ELSE [job EXCEPT !.ptr = 0, !.pc = "test"])

Other == Get("other", [job EXCEPT !.other = buffer[job.ptr], !.pc = "to low"])
ToLow == Put("to low", job.low, job.other, [job EXCEPT !.low = @ + 1, !.pc = "to ptr"])
ToPtr == Put("to ptr", job.ptr, job.tmp, [job EXCEPT !.ptr = @ - 1, !.pc = "reverse"])

(* puts reads a character for its test, and again to print it, unless the  *)
(* compiler keeps what it has read.                                        *)
Test ==
  Get("test", IF buffer[job.ptr] = NUL THEN Idle
              ELSE [job EXCEPT !.tmp = buffer[job.ptr], !.pc = "print"])

(* A fault to seed: the pointer stays.                                     *)
PutcharStuck ==
  /\ At("print")
  /\ printed' = <<job.tmp>>
  /\ job' = [job EXCEPT !.pc = "test"]
  /\ UNCHANGED <<buffer, asked, disturbed>>

Putchar ==
  /\ At("print")
  /\ \E char \in {job.tmp, buffer[job.ptr]} : printed' = Append(printed, char)
  /\ job' = [job EXCEPT !.ptr = @ + 1, !.pc = "test"]
  /\ UNCHANGED <<buffer, asked, disturbed>>

Task ==
  \/ \E c \in Conversion, v \in Values : printf(c, v)
  \/ Digit \/ Pad \/ Terminate
  \/ Turn \/ Other \/ ToLow \/ ToPtr
  \/ Test \/ Putchar

(* The characters a tick overwrites are 0 .. Span(times).                  *)
Span(times) ==
  LET lengths == {Len(Digits(DEC, times[i])) : i \in DOMAIN times}
  IN  CHOOSE n \in lengths : \A m \in lengths : m <= n

(* Before itoa has written, and past those characters, a tick is harmless. *)
Harmless(times) ==
  \/ At("idle")
  \/ At("digit") /\ job.ptr = 0
  \/ (At("test") \/ At("print")) /\ job.ptr > Span(times)

(* The buffer after the numbers of the clock, one after the other.         *)
Overwritten(times) ==
  LET after[n \in 0 .. Len(times)] ==
        IF n = 0 THEN buffer ELSE Converted(after[n - 1], Digits(DEC, times[n]))
  IN  after[Len(times)]

irq_timer(times) ==
  /\ buffer' = Overwritten(times)
  /\ disturbed' = (disturbed \/ ~Harmless(times))
  /\ UNCHANGED <<job, asked, printed>>

Next == Task \/ \E times \in ClockTimes : irq_timer(times)

Spec == Init /\ [][Next]_vars

(* Interrupts leave the task time to go on.                                *)
FairSpec == Spec /\ WF_vars(Task)

-----------------------------------------------------------------------------
(* Properties.                                                             *)

(* Every variable has its type; no access of itoa or puts is outside the   *)
(* buffer, whatever a tick puts there meanwhile.                           *)
TypeOK ==
  /\ buffer \in [Index -> {NUL} \cup (0 .. DEC - 1) \cup (0 .. HEX - 1)]
  /\ job.ptr \in -1 .. BUFFER - 1 /\ job.low \in Index
  /\ ~At("reverse") => job.ptr \in Index
  /\ job.value \in 0 .. WORD - 1
  /\ disturbed \in BOOLEAN

(* The number a task prints: an int keeps its value modulo 2^64, as itoa   *)
(* takes it for unsigned, and %x and %p fill up with zeros.                *)
Signed(v) == IF v % INT < INT \div 2 THEN v % INT ELSE (v % INT) - INT
Expected ==
  LET n      == IF asked[1] = "p" THEN asked[2] ELSE Signed(asked[2]) % WORD
      digits == Digits(IF asked[1] = "d" THEN DEC ELSE HEX, n)
  IN  IF asked[1] = "d" THEN digits
      ELSE [i \in 1 .. PAD - Len(digits) |-> 0] \o digits

(* A number comes out right unless a tick has come between its first digit *)
(* in the buffer and the moment puts is past what the clock's numbers      *)
(* overwrite; a tick at any other time does no harm.                       *)
RightUnlessOverwritten == At("idle") /\ ~disturbed => printed = Expected

(* A number that is disturbed is wrong, but puts still finds an end: it    *)
(* prints no more than the number, or the longest number of the clock, has *)
(* digits, even where a tick replaces a character puts has tested.         *)
NeverLonger ==
  \/ Len(printed) <= Len(Expected)
  \/ \E times \in ClockTimes : Len(printed) <= Span(times)

(* Whatever ticks do, every printf of a number ends.                       *)
EveryPrintfEnds == ~At("idle") ~> At("idle")

=============================================================================
