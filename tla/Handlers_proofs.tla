-------------------------- MODULE Handlers_proofs ---------------------------
(***************************************************************************)
(* Theorems about Handlers, for any keys, any constants of the clock and a *)
(* line of any length: the shift state follows the shift keys; a character *)
(* tells its key; the first hour is shown as it is; and no text leaves     *)
(* parts of an older one.                                                  *)
(*                                                                         *)
(* The digits of a number are a recursive function, so what is needed of   *)
(* them is proved from the least number that would lack it (ByDigits).     *)
(***************************************************************************)
EXTENDS Handlers, FiniteSetTheorems, SequenceTheorems, WellFoundedInduction, TLAPS

-----------------------------------------------------------------------------
(* The shift state.                                                        *)

KeyTypes ==
  /\ held \subseteq Keys
  /\ wire \in Seq(Byte)
  /\ shift \subseteq {1, 2}

ShiftKeys == {KBCSC.LEFTSHIFT, KBCSC.RIGHTSHIFT}
BitOf(k) == IF k = KBCSC.LEFTSHIFT THEN 1 ELSE 2

(* Code b is about key k: its press or its release.                        *)
About(b, k) == b = k \/ b = k + BREAK

(* Code i on the wire is the last one about key k.                         *)
IsLast(w, i, k) ==
  /\ i \in 1 .. Len(w)
  /\ About(w[i], k)
  /\ \A j \in i + 1 .. Len(w) : ~About(w[j], k)

(* The last code on the wire about a shift key tells whether it is down;   *)
(* if there is none, the bit does.                                         *)
Told(w, down, bits, k) ==
  /\ \A i \in 1 .. Len(w) : IsLast(w, i, k) => (w[i] = k <=> k \in down)
  /\ (\A i \in 1 .. Len(w) : ~About(w[i], k)) => (BitOf(k) \in bits <=> k \in down)

KInv == KeyTypes /\ \A k \in ShiftKeys : Told(wire, held, shift, k)

-----------------------------------------------------------------------------
LEMMA Codes ==
  /\ Keys \subseteq 1 .. 127 /\ BREAK = 128
  /\ KBCSC.LEFTSHIFT = 42 /\ KBCSC.RIGHTSHIFT = 54
  /\ ShiftKeys = {42, 54}
  BY KeyboardParameters DEF BREAK, KBCSC, ShiftKeys

LEMMA InitKInv == KeyboardInit => KInv
  BY DEF KeyboardInit, KInv, KeyTypes, Told, IsLast

(* A code about another key changes nothing.                               *)
LEMMA OtherCode ==
  ASSUME NEW w \in Seq(Byte), NEW b \in Byte, NEW down, NEW down2, NEW bits, NEW k,
         Told(w, down, bits, k), ~About(b, k), k \in down <=> k \in down2
  PROVE  Told(Append(w, b), down2, bits, k)
  <1> DEFINE w2 == Append(w, b)
  <1>1. /\ Len(w2) = Len(w) + 1 /\ w2[Len(w) + 1] = b /\ Len(w) \in Nat
        /\ \A i \in 1 .. Len(w) : w2[i] = w[i]
    OBVIOUS
  <1> HIDE DEF w2
  <1>2. ASSUME NEW i \in 1 .. Len(w2), IsLast(w2, i, k)
        PROVE  w2[i] = k <=> k \in down2
    <2>1. i \in 1 .. Len(w)
      BY <1>1, <1>2 DEF IsLast
    <2>2. IsLast(w, i, k)
      BY <1>1, <1>2, <2>1 DEF IsLast
    <2> QED
      BY <1>1, <2>1, <2>2 DEF Told
  <1>3. ASSUME \A i \in 1 .. Len(w2) : ~About(w2[i], k)
        PROVE  BitOf(k) \in bits <=> k \in down2
    <2>1. \A i \in 1 .. Len(w) : ~About(w[i], k)
      BY <1>1, <1>3
    <2> QED
      BY <2>1 DEF Told
  <1> QED
    BY <1>2, <1>3 DEF Told, w2

(* A code about the key itself tells the truth.                            *)
LEMMA OwnCode ==
  ASSUME NEW w \in Seq(Byte), NEW b \in Byte, NEW down, NEW bits, NEW k,
         About(b, k), b = k <=> k \in down
  PROVE  Told(Append(w, b), down, bits, k)
  <1> DEFINE w2 == Append(w, b)
  <1>1. Len(w2) = Len(w) + 1 /\ w2[Len(w) + 1] = b /\ Len(w) \in Nat
    OBVIOUS
  <1> HIDE DEF w2
  <1>2. ASSUME NEW i \in 1 .. Len(w2), IsLast(w2, i, k)
        PROVE  w2[i] = k <=> k \in down
    <2>1. i = Len(w) + 1
      BY <1>1, <1>2 DEF IsLast
    <2> QED
      BY <1>1, <2>1
  <1>3. ~\A i \in 1 .. Len(w2) : ~About(w2[i], k)
    BY <1>1
  <1> QED
    BY <1>2, <1>3 DEF Told, w2

LEMMA SendInv ==
  ASSUME KInv, NEW k \in Keys, Press(k) \/ Repeat(k) \/ Release(k)
  PROVE  KInv'
  <1>1. PICK b \in {k, k + BREAK} :
          /\ wire' = Append(wire, b) /\ shift' = shift
          /\ held' \subseteq Keys
          /\ b = k <=> k \in held'
          /\ \A other \in ShiftKeys : other # k => (other \in held <=> other \in held')
    <2>0. held \subseteq Keys /\ k # k + BREAK
      BY Codes DEF KInv, KeyTypes
    <2>1. CASE Press(k)
      <3> WITNESS k \in {k, k + BREAK}
      <3> QED
        BY <2>0, <2>1 DEF Press, Send
    <2>2. CASE Repeat(k)
      <3> WITNESS k \in {k, k + BREAK}
      <3> QED
        BY <2>0, <2>2 DEF Repeat, Send
    <2>3. CASE Release(k)
      <3> WITNESS k + BREAK \in {k, k + BREAK}
      <3> QED
        BY <2>0, <2>3 DEF Release, Send
    <2> QED
      BY <2>1, <2>2, <2>3
  <1>2. b \in Byte /\ k \in 1 .. 127
    BY Codes DEF Byte
  <1>3. KeyTypes'
    BY <1>1, <1>2 DEF KInv, KeyTypes
  <1>4. ASSUME NEW s \in ShiftKeys PROVE Told(wire', held', shift', s)
    <2>1. wire \in Seq(Byte) /\ Told(wire, held, shift, s)
      BY DEF KInv, KeyTypes
    <2>2. CASE s = k
      BY <1>1, <1>2, <2>1, <2>2, OwnCode DEF About
    <2>3. CASE s # k
      <3>1. ~About(b, s)
        BY <1>1, <1>2, <2>3, Codes DEF About
      <3> QED
        BY <1>1, <1>2, <2>1, <2>3, <3>1, OtherCode
    <2> QED
      BY <2>2, <2>3
  <1> QED
    BY <1>3, <1>4 DEF KInv

(* What a code does to the bit of a shift key.                             *)
LEMMA AdjustedBits ==
  ASSUME NEW s \in SUBSET {1, 2}, NEW b \in Byte, NEW k \in ShiftKeys
  PROVE  /\ Adjusted(s, b) \subseteq {1, 2}
         /\ b = k => BitOf(k) \in Adjusted(s, b)
         /\ b = k + BREAK => BitOf(k) \notin Adjusted(s, b)
         /\ ~About(b, k) => (BitOf(k) \in Adjusted(s, b) <=> BitOf(k) \in s)
  <1>1. CASE b = 42
    BY <1>1, Codes DEF Adjusted, BitOf, About
  <1>2. CASE b = 54
    BY <1>2, Codes DEF Adjusted, BitOf, About
  <1>3. CASE b = 170
    BY <1>3, Codes DEF Adjusted, BitOf, About
  <1>4. CASE b = 182
    BY <1>4, Codes DEF Adjusted, BitOf, About
  <1>5. CASE b \notin {42, 54, 170, 182}
    BY <1>5, Codes DEF Adjusted, BitOf, About
  <1> QED
    BY <1>1, <1>2, <1>3, <1>4, <1>5

LEMMA IrqInv ==
  ASSUME KInv, kbc_irq
  PROVE  KInv'
  <1> DEFINE b == Head(wire)
  <1>1. /\ wire \in Seq(Byte) /\ Len(wire) \in Nat \ {0} /\ wire # <<>>
        /\ b \in Byte /\ b = wire[1]
        /\ wire' = Tail(wire) /\ held' = held /\ shift' = Adjusted(shift, b)
    <2>1. wire # <<>> /\ wire' = Tail(wire) /\ held' = held /\ shift' = Adjusted(shift, b)
      BY Zenon DEF kbc_irq
    <2>2. wire \in Seq(Byte)
      BY DEF KInv, KeyTypes
    <2>3. Len(wire) \in Nat \ {0} /\ b \in Byte /\ b = wire[1]
      BY <2>1, <2>2
    <2> QED
      BY <2>1, <2>2, <2>3
  <1>2. /\ wire' \in Seq(Byte) /\ Len(wire') = Len(wire) - 1
        /\ \A i \in 1 .. Len(wire') : wire'[i] = wire[i + 1]
    BY <1>1
  <1> HIDE DEF b
  <1>3. shift \in SUBSET {1, 2}
    BY DEF KInv, KeyTypes
  <1>4. KeyTypes'
    BY <1>1, <1>2, <1>3, AdjustedBits DEF KInv, KeyTypes, ShiftKeys
  <1>5. ASSUME NEW k \in ShiftKeys PROVE Told(wire', held', shift', k)
    <2>1. Told(wire, held, shift, k)
      BY DEF KInv
    <2>2. ASSUME NEW i \in 1 .. Len(wire'), IsLast(wire', i, k)
          PROVE  wire'[i] = k <=> k \in held'
      <3>1. i + 1 \in 1 .. Len(wire)
        BY <1>1, <1>2
      <3>2. \A j \in i + 2 .. Len(wire) : ~About(wire[j], k)
        <4> SUFFICES ASSUME NEW j \in i + 2 .. Len(wire) PROVE ~About(wire[j], k)
          OBVIOUS
        <4>1. j - 1 \in i + 1 .. Len(wire') /\ j - 1 \in 1 .. Len(wire') /\ (j - 1) + 1 = j
          BY <1>1, <1>2
        <4> QED
          BY <1>2, <2>2, <4>1 DEF IsLast
      <3>3. IsLast(wire, i + 1, k)
        BY <1>2, <2>2, <3>1, <3>2 DEF IsLast
      <3> QED
        BY <1>1, <1>2, <2>1, <3>1, <3>3 DEF Told
    <2>3. ASSUME \A i \in 1 .. Len(wire') : ~About(wire'[i], k)
          PROVE  BitOf(k) \in shift' <=> k \in held'
      <3>1. \A j \in 2 .. Len(wire) : ~About(wire[j], k)
        <4> SUFFICES ASSUME NEW j \in 2 .. Len(wire) PROVE ~About(wire[j], k)
          OBVIOUS
        <4>1. j - 1 \in 1 .. Len(wire') /\ (j - 1) + 1 = j
          BY <1>1, <1>2
        <4> QED
          BY <1>2, <2>3, <4>1
      <3>2. CASE About(b, k)
        <4>1. IsLast(wire, 1, k)
          BY <1>1, <3>1, <3>2 DEF IsLast
        <4>2. b = k <=> k \in held
          BY <1>1, <2>1, <4>1 DEF Told
        <4> QED
          <5>1. k # k + BREAK
            BY Codes
          <5>2. CASE b = k
            BY <1>1, <1>3, <4>2, <5>2, AdjustedBits
          <5>3. CASE b = k + BREAK
            BY <1>1, <1>3, <4>2, <5>1, <5>3, AdjustedBits
          <5> QED
            BY <3>2, <5>2, <5>3 DEF About
      <3>3. CASE ~About(b, k)
        <4>1. \A i \in 1 .. Len(wire) : ~About(wire[i], k)
          BY <1>1, <3>1, <3>3
        <4> QED
          BY <1>1, <1>3, <2>1, <3>3, <4>1, AdjustedBits DEF Told
      <3> QED
        BY <3>2, <3>3
    <2> QED
      BY <2>2, <2>3 DEF Told
  <1> QED
    BY <1>4, <1>5 DEF KInv

(* Whatever keys are pressed, held and released while codes wait: as soon  *)
(* as all have been read the shift state is that of the two shift keys     *)
(* (kbc.c:13 to 30).                                                       *)
THEOREM ShiftIsRight == Spec => []ShiftFollowsKeys
  <1>1. Init => KInv
    BY InitKInv DEF Init
  <1>2. KInv /\ [Next]_vars => KInv'
    <2> SUFFICES ASSUME KInv, [Next]_vars PROVE KInv'
      OBVIOUS
    <2>1. CASE irq_kb
      BY <2>1, IrqInv DEF irq_kb
    <2>2. CASE KeyMoves
      BY <2>2, SendInv DEF KeyMoves
    <2>3. CASE irq_timer \/ UNCHANGED vars
      BY <2>3 DEF irq_timer, vars, keyboard, KInv, KeyTypes
    <2> QED
      BY <2>1, <2>2, <2>3 DEF Next
  <1>3. KInv => ShiftFollowsKeys
    BY Codes DEF KInv, Told, ShiftFollowsKeys, BitOf
  <1> QED
    BY <1>1, <1>2, <1>3, PTL DEF Spec

-----------------------------------------------------------------------------
(* The echo.                                                               *)

(* The rows do not overlap, so that a code has the row it lies in.         *)
LEMMA RowsApart ==
  /\ \A r \in Rows : r.first \in Byte /\ r.last \in Byte /\ r.last < BREAK
  /\ \A q, r \in Rows : q = r \/ q.last < r.first \/ r.last < q.first
BY DEF Rows, Letters, Symbols, KBCSC, Byte, BREAK

LEMMA RowIs ==
  ASSUME NEW r \in Rows, NEW b \in r.first .. r.last, NEW s \in BOOLEAN
  PROVE  kbcsc_tochar(b, s) = (IF s THEN r.shifted ELSE r.plain)[b - r.first + 1]
<1>1. {q \in Rows : q.first <= b /\ b <= q.last} = {r}
  <2>1. /\ r.first \in Int /\ r.last \in Int /\ b \in Int /\ r.first <= b /\ b <= r.last
    BY RowsApart DEF Byte
  <2>2. ASSUME NEW q \in Rows, q.first <= b, b <= q.last PROVE q = r
    <3>1. q.first \in Int /\ q.last \in Int
      BY RowsApart DEF Byte
    <3>2. q = r \/ q.last < r.first \/ r.last < q.first
      BY RowsApart
    <3> QED  BY <2>1, <2>2, <3>1, <3>2
  <2> QED  BY <2>1, <2>2, Zenon
<1>2. (CHOOSE q \in {r} : TRUE) = r
  OBVIOUS
<1> QED  BY <1>1, <1>2 DEF kbcsc_tochar

LEMMA NoRow ==
  ASSUME NEW b \in Byte, NEW s \in BOOLEAN, \A r \in Rows : b \notin r.first .. r.last
  PROVE  kbcsc_tochar(b, s) = NOTHING
<1>1. {q \in Rows : q.first <= b /\ b <= q.last} = {}
  BY RowsApart DEF Byte
<1> QED  BY <1>1 DEF kbcsc_tochar

(* What is shown for each code, without shift and with it.                 *)
Plain ==
  [b \in 1 .. 57 |->
     <<NOTHING, 49, 50, 51, 52, 53, 54, 55, 56, 57, 48, 45, 61, NOTHING, NOTHING,
       113, 119, 101, 114, 116, 121, 117, 105, 111, 112, 91, 93, 10, NOTHING,
       97, 115, 100, 102, 103, 104, 106, 107, 108, 59, 39, 39, NOTHING, 92,
       122, 120, 99, 118, 98, 110, 109, 44, 46, 47, NOTHING, NOTHING, NOTHING, 32>>[b]]
Shifted ==
  [b \in 1 .. 57 |->
     <<NOTHING, 33, 64, 35, 36, 37, 94, 38, 42, 40, 41, 95, 43, NOTHING, NOTHING,
       81, 87, 69, 82, 84, 89, 85, 73, 79, 80, 123, 125, 10, NOTHING,
       65, 83, 68, 70, 71, 72, 74, 75, 76, 58, 34, 126, NOTHING, 124,
       90, 88, 67, 86, 66, 78, 77, 60, 62, 47, NOTHING, NOTHING, NOTHING, 32>>[b]]

(* The table by code: what kbcsc_tochar returns is its entry.              *)
LEMMA ShownIs ==
  ASSUME NEW b \in Byte
  PROVE  /\ b \in 1 .. 57 => kbcsc_tochar(b, FALSE) = Plain[b] /\ kbcsc_tochar(b, TRUE) = Shifted[b]
         /\ b \notin 1 .. 57 => kbcsc_tochar(b, FALSE) = NOTHING /\ kbcsc_tochar(b, TRUE) = NOTHING
<1>1. ASSUME NEW r \in Rows, b \in r.first .. r.last
      PROVE  /\ b \in 1 .. 57
             /\ r.plain[b - r.first + 1] = Plain[b]
             /\ r.shifted[b - r.first + 1] = Shifted[b]
  BY <1>1, SMTT(60) DEF Rows, Letters, Symbols, KBCSC, Plain, Shifted, NOTHING
<1>2. ASSUME \A r \in Rows : b \notin r.first .. r.last, b \in 1 .. 57
      PROVE  Plain[b] = NOTHING /\ Shifted[b] = NOTHING
  BY <1>2, SMTT(60) DEF Rows, Letters, Symbols, KBCSC, Plain, Shifted, NOTHING
<1> QED  BY <1>1, <1>2, RowIs, NoRow

(* No two codes share a character but those of the apostrophe and the      *)
(* tilde, 40 and 41, without shift.                                        *)
LEMMA PlainApart ==
  ASSUME NEW b \in 1 .. 57, NEW c \in 1 .. 57, Plain[b] # NOTHING, Plain[b] = Plain[c]
  PROVE  b = c \/ {b, c} = {40, 41}
<1>1. b = c \/ (b = 40 /\ c = 41) \/ (b = 41 /\ c = 40)
  BY SMTT(120) DEF Plain, NOTHING
<1> QED  BY <1>1

LEMMA ShiftedApart ==
  ASSUME NEW b \in 1 .. 57, NEW c \in 1 .. 57, Shifted[b] # NOTHING, Shifted[b] = Shifted[c]
  PROVE  b = c
BY SMTT(120) DEF Shifted, NOTHING

LEMMA KeysAreApart == ApartPlain /\ ApartShifted
<1>1. KBCSC.AT = 40 /\ KBCSC.TILDA = 41 /\ BREAK = 128
  BY DEF KBCSC, BREAK
<1>2. ASSUME NEW b \in Byte, NEW c \in Byte, kbcsc_tochar(b, FALSE) # NOTHING,
             kbcsc_tochar(b, FALSE) = kbcsc_tochar(c, FALSE)
      PROVE  b < 128 /\ (b = c \/ {b, c} = {40, 41})
  <2>1. b \in 1 .. 57 /\ c \in 1 .. 57
    BY <1>2, ShownIs, Zenon
  <2>2. Plain[b] # NOTHING /\ Plain[b] = Plain[c]
    BY <1>2, <2>1, ShownIs
  <2>3. b < 128
    BY <2>1
  <2> QED  BY <2>1, <2>2, <2>3, PlainApart
<1>3. ASSUME NEW b \in Byte, NEW c \in Byte, kbcsc_tochar(b, TRUE) # NOTHING,
             kbcsc_tochar(b, TRUE) = kbcsc_tochar(c, TRUE)
      PROVE  b < 128 /\ b = c
  <2>1. b \in 1 .. 57 /\ c \in 1 .. 57
    BY <1>3, ShownIs, Zenon
  <2>2. Shifted[b] # NOTHING /\ Shifted[b] = Shifted[c]
    BY <1>3, <2>1, ShownIs
  <2>3. b < 128
    BY <2>1
  <2> QED  BY <2>1, <2>2, <2>3, ShiftedApart
<1>4. ApartPlain
  <2>1. Apart(FALSE, {40, 41})
    BY <1>1, <1>2, Zenon DEF Apart
  <2> QED  BY <1>1, <2>1, Zenon DEF ApartPlain
<1>5. ApartShifted
  BY <1>1, <1>3 DEF ApartShifted, Apart
<1> QED  BY <1>4, <1>5

(* Whatever is held and hit, one character is shown for one key, except    *)
(* that the apostrophe and the tilde look alike without shift; the codes   *)
(* of releases show nothing (kbcsc_tochar, kbc_scancodes.c:9 to 60).       *)
THEOREM EchoIsTold == Spec => []EchoTellsTheKey
<1>1. Init => EchoTellsTheKey
  BY KeysAreApart DEF EchoTellsTheKey
<1>2. EchoTellsTheKey /\ [Next]_vars => EchoTellsTheKey'
  BY KeysAreApart DEF EchoTellsTheKey
<1> QED  BY <1>1, <1>2, PTL DEF Spec

(* The codes that keys send, and the characters they may show.             *)
Sent == Keys \cup {k + BREAK : k \in Keys}
EchoOfAKey == echo # NOTHING => \E k \in Keys, s \in BOOLEAN : echo = kbcsc_tochar(k, s)
EInv == wire \in Seq(Sent) /\ EchoOfAKey

(* What is shown is always the character of a key that is hit, in one of   *)
(* its two forms, however presses and releases queue up: with EchoIsTold,  *)
(* the display names that key.                                             *)
THEOREM EchoIsOfAKey == Spec => []EchoOfAKey
<1>1. Init => EInv
  BY DEF Init, KeyboardInit, EInv, EchoOfAKey
<1>2. ASSUME EInv, [Next]_vars PROVE EInv'
  <2>1. CASE irq_kb
    <3> DEFINE b == Head(wire)
               s == Adjusted(shift, b) # {}
               c == kbcsc_tochar(b, s)
    <3>1. wire # <<>> /\ wire' = Tail(wire) /\ echo' = IF c # NOTHING THEN c ELSE echo
      BY <2>1, Zenon DEF irq_kb, kbc_irq
    <3>2. wire' \in Seq(Sent) /\ b \in Sent
      BY <1>2, <3>1 DEF EInv
    <3>3. s \in BOOLEAN
      OBVIOUS
    <3> HIDE DEF b, s
    <3>4. ASSUME c # NOTHING PROVE b \in Keys
      <4>1. b \in Byte /\ (b > 127 \/ b \in Keys)
        <5>1. CASE b \in Keys
          BY <5>1, Codes DEF Byte
        <5>2. ASSUME NEW k \in Keys, b = k + BREAK PROVE b \in 129 .. 255
          BY <5>2, Codes
        <5>3. b \in Keys \/ b \in 129 .. 255
          BY <3>2, <5>2, Zenon DEF Sent
        <5> QED  BY <5>1, <5>3 DEF Byte
      <4>2. b \in 1 .. 57
        <5>1. CASE s = TRUE
          BY <3>4, <4>1, <5>1, ShownIs
        <5>2. CASE s = FALSE
          BY <3>4, <4>1, <5>2, ShownIs
        <5> QED  BY <3>3, <5>1, <5>2
      <4> QED  BY <4>1, <4>2
    <3>5. EchoOfAKey'
      BY <1>2, <3>1, <3>3, <3>4, Zenon DEF EInv, EchoOfAKey
    <3> QED  BY <3>2, <3>5 DEF EInv
  <2>2. ASSUME NEW k \in Keys, Press(k) \/ Repeat(k) \/ Release(k) PROVE EInv'
    <3>1. PICK code \in Sent : wire' = Append(wire, code) /\ echo' = echo
      BY <2>2, Zenon DEF Press, Repeat, Release, Send, Sent
    <3>2. wire' \in Seq(Sent)
      BY <1>2, <3>1 DEF EInv
    <3> QED  BY <1>2, <3>1, <3>2, Zenon DEF EInv, EchoOfAKey
  <2>3. CASE irq_timer \/ UNCHANGED vars
    BY <1>2, <2>3, Zenon DEF irq_timer, vars, keyboard, EInv, EchoOfAKey
  <2> QED  BY <1>2, <2>1, <2>2, <2>3 DEF Next, KeyMoves
<1>3. EInv => EchoOfAKey
  BY DEF EInv
<1> QED  BY <1>1, <1>2, <1>3, PTL DEF Spec

-----------------------------------------------------------------------------
(* The digits of a number.                                                 *)

(* A set of natural numbers has a least element: the initial segments are  *)
(* finite sets, and those are well-founded by strict inclusion.            *)
LEMMA Least ==
  ASSUME NEW T \in SUBSET Nat, T # {}
  PROVE  \E n \in T : \A m \in T : n <= m
  <1> DEFINE Initial == {0 .. i : i \in T}
             Sub == StrictSubsetOrdering(Nat)
             Fin == FiniteSubsetsOf(Nat)
  <1>1. Initial \subseteq Fin
    <2> SUFFICES ASSUME NEW i \in T PROVE 0 .. i \in Fin
      OBVIOUS
    <2>1. i \in Nat
      OBVIOUS
    <2>2. IsFiniteSet(0 .. i)
      BY <2>1, FS_Interval
    <2>3. 0 .. i \in SUBSET Nat
      BY <2>1
    <2> QED
      BY <2>2, <2>3, Zenon DEF FiniteSubsetsOf
  <1>2. Initial # {}
    OBVIOUS
  <1>3. IsWellFoundedOn(Sub, Fin)
    BY FS_StrictSubsetOrderingWellFounded
  <1> HIDE DEF Initial, Sub, Fin
  <1>4. \E I \in Initial : \A J \in Initial : ~(<<J, I>> \in Sub)
    BY <1>1, <1>2, <1>3, WFMin, Zenon
  <1>5. PICK I \in Initial : \A J \in Initial : ~(<<J, I>> \in Sub)
    BY <1>4
  <1>6. PICK n \in T : I = 0 .. n
    BY <1>5 DEF Initial
  <1>7. ASSUME NEW m \in T, m < n PROVE FALSE
    <2>1. 0 .. m \in Initial
      BY DEF Initial
    <2>2. m \in Nat /\ n \in Nat
      OBVIOUS
    <2>3. n \in 0 .. n /\ ~(n \in 0 .. m)
      BY <1>7, <2>2
    <2>4. (0 .. m) \subseteq (0 .. n) /\ (0 .. m) # (0 .. n)
      BY <1>7, <2>2, <2>3
    <2>5. 0 .. m \in SUBSET Nat /\ 0 .. n \in SUBSET Nat
      BY <2>2
    <2>6. \A A, B \in SUBSET Nat : A \subseteq B /\ A # B => <<A, B>> \in Sub
      BY DEF Sub, StrictSubsetOrdering
    <2>7. <<0 .. m, 0 .. n>> \in Sub
      BY <2>4, <2>5, <2>6, Zenon
    <2> QED
      BY <1>5, <1>6, <2>1, <2>7, Zenon
  <1> QED
    BY <1>7

(* Induction over the natural numbers, for the set of those that have a    *)
(* property.                                                               *)
LEMMA ByInduction ==
  ASSUME NEW S \in SUBSET Nat, 0 \in S, \A n \in S : n + 1 \in S
  PROVE  S = Nat
<1>1. ASSUME Nat \ S # {} PROVE FALSE
  <2>1. PICK n \in Nat \ S : \A m \in Nat \ S : n <= m
    BY <1>1, Least
  <2>2. n - 1 \in Nat /\ n - 1 \notin Nat \ S
    BY <2>1
  <2> QED  BY <2>1, <2>2
<1>2. \A n \in Nat : n \in S
  BY <1>1
<1> QED  BY <1>2, Zenon

(* The constants as the proofs use them.                                   *)
LEMMA ClockConstants ==
  /\ RADIX \in Nat /\ RADIX > 1 /\ SIXTY \in Nat /\ SIXTY >= RADIX /\ SIXTY <= RADIX * RADIX
  /\ HZ \in Nat /\ HZ >= 1 /\ EVERY \in Nat /\ EVERY >= 1 /\ CLOCK_X \in Nat
  /\ WORD \in Nat /\ WORD > HZ * HOUR /\ Suffix \in Seq(Nat) /\ Len(Suffix) \in Nat
  /\ COL = CLOCK_X + 9 + Len(Suffix) /\ KEY_X \in Nat /\ KEY_X < CLOCK_X
<1>1. /\ RADIX \in Nat /\ RADIX > 1 /\ SIXTY \in RADIX .. RADIX * RADIX
      /\ HZ \in Nat \ {0} /\ EVERY \in Nat \ {0} /\ CLOCK_X \in Nat
      /\ WORD \in Nat /\ WORD > HZ * HOUR /\ Suffix \in Seq(Nat)
      /\ COL = CLOCK_X + 9 + Len(Suffix) /\ KEY_X \in 0 .. CLOCK_X - 1
  BY ClockParameters, HandlersParameters
<1>2. RADIX * RADIX \in Nat
  BY <1>1
<1>3. SIXTY \in Nat /\ SIXTY >= RADIX /\ SIXTY <= RADIX * RADIX
  BY <1>1, <1>2
<1> QED  BY <1>1, <1>3

(* A quotient is no greater than what was divided.                         *)
LEMMA Quotients ==
  ASSUME NEW n \in Nat, n >= 1, NEW v \in Nat
  PROVE  /\ v \div n \in Nat /\ v % n \in 0 .. n - 1 /\ v % n \in Nat /\ v \div n <= v
         /\ v = n * (v \div n) + (v % n)
         /\ v < n => v \div n = 0 /\ v % n = v
         /\ n > 1 /\ v >= n => v \div n # 0 /\ v \div n < v
         /\ v >= n => v \div n # 0
<1>1. PICK q \in Int, r \in 0 .. n - 1 : q = v \div n /\ r = v % n /\ v = n * q + r
  <2>1. v \div n \in Int /\ v % n \in 0 .. n - 1 /\ v = n * (v \div n) + (v % n)
    OBVIOUS
  <2> QED  BY <2>1
<1>2. q >= 0
  <2>1. CASE q <= -1
    <3>1. n * q <= -n
      BY <2>1
    <3> QED  BY <1>1, <3>1
  <2> QED  BY <1>1, <2>1
<1>3. CASE q = 0
  BY <1>1, <1>3
<1>4. CASE q >= 1
  <2>1. n * q >= n /\ n * q >= q
    BY <1>4
  <2>2. n > 1 => n * q >= 2 * q
    BY <1>4
  <2> QED  BY <1>1, <1>4, <2>1, <2>2
<1> QED  BY <1>1, <1>2, <1>3, <1>4

(* Division is monotone.                                                   *)
LEMMA QuotientsGrow ==
  ASSUME NEW n \in Nat, n >= 1, NEW v \in Nat, NEW w \in Nat, v <= w
  PROVE  v \div n <= w \div n
<1>1. PICK q \in Int, r \in 0 .. n - 1 : q = v \div n /\ v = n * q + r
  <2>1. v \div n \in Int /\ v % n \in 0 .. n - 1 /\ v = n * (v \div n) + (v % n)
    OBVIOUS
  <2> QED  BY <2>1
<1>2. PICK p \in Int, s \in 0 .. n - 1 : p = w \div n /\ w = n * p + s
  <2>1. w \div n \in Int /\ w % n \in 0 .. n - 1 /\ w = n * (w \div n) + (w % n)
    OBVIOUS
  <2> QED  BY <2>1
<1>3. CASE q - p >= 1
  <2>1. n * (q - p) >= n
    BY <1>3
  <2>2. n * q - n * p = n * (q - p)
    OBVIOUS
  <2> QED  BY <1>1, <1>2, <2>1, <2>2
<1> QED  BY <1>1, <1>2, <1>3

(* A number below a product has a quotient below the other factor.         *)
LEMMA QuotientBelow ==
  ASSUME NEW n \in Nat, n >= 1, NEW m \in Nat, NEW v \in Nat, v < n * m
  PROVE  v \div n < m
<1>1. PICK q \in Int, r \in 0 .. n - 1 : q = v \div n /\ v = n * q + r
  <2>1. v \div n \in Int /\ v % n \in 0 .. n - 1 /\ v = n * (v \div n) + (v % n)
    OBVIOUS
  <2> QED  BY <2>1
<1>2. CASE q - m >= 0
  <2>1. n * (q - m) >= 0
    BY <1>2
  <2>2. n * q - n * m = n * (q - m)
    OBVIOUS
  <2>3. n * m \in Int
    OBVIOUS
  <2> QED  BY <1>1, <2>1, <2>2, <2>3
<1> QED  BY <1>1, <1>2

-----------------------------------------------------------------------------
(* The digits of the numbers below a limit, as a function.                 *)
IsDecimal(of, limit) ==
  of = [n \in 0 .. limit |-> IF n < RADIX THEN <<n>> ELSE Append(of[n \div RADIX], n % RADIX)]

LEMMA DecimalExists ==
  ASSUME NEW limit \in Nat
  PROVE  \E of : IsDecimal(of, limit)
<1> DEFINE S == {k \in Nat : \E of : IsDecimal(of, k)}
           Body(of, n) == IF n < RADIX THEN <<n>> ELSE Append(of[n \div RADIX], n % RADIX)
<1>1. 0 \in S
  <2>1. PICK of : of = [n \in 0 .. 0 |-> <<n>>]
    OBVIOUS
  <2>2. \A n \in 0 .. 0 : of[n] = Body(of, n)
    BY <2>1, ClockConstants
  <2>3. of = [n \in 0 .. 0 |-> Body(of, n)]
    BY <2>1, <2>2
  <2> QED  BY <2>3 DEF IsDecimal
<1>2. ASSUME NEW k \in S PROVE k + 1 \in S
  <2>1. k \in Nat
    OBVIOUS
  <2>2. PICK g : g = [n \in 0 .. k |-> Body(g, n)]
    BY DEF IsDecimal
  <2>3. PICK h : h = [n \in 0 .. k + 1 |-> IF n <= k THEN g[n] ELSE Body(g, n)]
    OBVIOUS
  <2>4. \A n \in 0 .. k + 1 : h[n] = IF n <= k THEN g[n] ELSE Body(g, n)
    BY <2>3
  <2>5. \A n \in 0 .. k : g[n] = Body(g, n)
    BY <2>2
  <2>6. ASSUME NEW n \in 0 .. k + 1 PROVE h[n] = Body(g, n)
    <3>1. CASE n <= k
      <4>1. n \in 0 .. k
        BY <2>1, <3>1
      <4>2. h[n] = g[n]
        BY <2>4, <3>1, Zenon
      <4> QED  BY <2>5, <4>1, <4>2, Zenon
    <3>2. CASE ~(n <= k)
      BY <2>4, <3>2, Zenon
    <3> QED  BY <3>1, <3>2
  <2>7. ASSUME NEW n \in 0 .. k + 1 PROVE h[n] = Body(h, n)
    <3>1. CASE n < RADIX
      BY <2>6, <3>1
    <3>2. CASE ~(n < RADIX)
      <4>1. n \in Nat /\ n >= RADIX /\ RADIX \in Nat /\ RADIX > 1
        BY <2>1, <3>2, ClockConstants
      <4>2. n \div RADIX \in Nat /\ n \div RADIX < n
        <5>1. RADIX >= 1
          BY <4>1
        <5> QED  BY <4>1, <5>1, Quotients
      <4>3. n \div RADIX \in 0 .. k + 1 /\ n \div RADIX <= k
        BY <2>1, <4>2
      <4>4. h[n \div RADIX] = g[n \div RADIX]
        BY <2>4, <4>3
      <4> QED  BY <2>6, <3>2, <4>4
    <3> QED  BY <3>1, <3>2
  <2>8. h = [n \in 0 .. k + 1 |-> h[n]]
    BY <2>3
  <2>9. h = [n \in 0 .. k + 1 |-> Body(h, n)]
    BY <2>7, <2>8
  <2>10. IsDecimal(h, k + 1)
    BY <2>9, Zenon DEF IsDecimal
  <2> QED  BY <2>1, <2>10
<1> HIDE DEF S
<1>3. S \in SUBSET Nat
  BY DEF S
<1>4. S = Nat
  BY <1>1, <1>2, <1>3, ByInduction, Zenon
<1> QED  BY <1>4 DEF S

(* The values of the counter.                                              *)
Word == 0 .. WORD - 1

LEMMA WordsAre ==
  /\ WORD \in Nat /\ WORD > 0 /\ 0 \in Word /\ WORD - 1 \in Word
  /\ \A v \in Word : v \in Nat /\ v <= WORD - 1 /\ \A w \in Nat : w <= v => w \in Word
<1>1. WORD \in Nat /\ HZ \in Nat /\ HOUR \in Nat /\ WORD > HZ * HOUR
  BY ClockConstants DEF HOUR
<1>2. HZ * HOUR >= 0
  BY <1>1
<1>3. HZ * HOUR \in Int
  BY <1>1
<1>4. WORD > 0
  BY <1>1, <1>2, <1>3
<1> QED  BY <1>1, <1>4 DEF Word

LEMMA DecimalIs ==
  ASSUME NEW v \in Word
  PROVE  /\ v < RADIX => Decimal[v] = <<v>>
         /\ v >= RADIX => Decimal[v] = Append(Decimal[v \div RADIX], v % RADIX)
<1>0. v \in Nat /\ RADIX \in Nat
  BY WordsAre, ClockConstants
<1>1. \E of : IsDecimal(of, WORD - 1)
  BY WordsAre, DecimalExists
<1>2. IsDecimal(Decimal, WORD - 1)
  BY <1>1, Zenon DEF Decimal, IsDecimal
<1>3. PICK of : of = Decimal /\ IsDecimal(of, WORD - 1)
  BY <1>2
<1>4. of[v] = IF v < RADIX THEN <<v>> ELSE Append(of[v \div RADIX], v % RADIX)
  BY <1>3 DEF Word, IsDecimal
<1>5. Decimal[v] = IF v < RADIX THEN <<v>> ELSE Append(Decimal[v \div RADIX], v % RADIX)
  BY <1>3, <1>4, Zenon
<1>6. v >= RADIX => ~(v < RADIX)
  BY <1>0
<1> QED  BY <1>5, <1>6, Zenon

(* What holds of a number when it holds of the number without its last     *)
(* digit holds of every number.                                            *)
LEMMA ByDigits ==
  ASSUME NEW S \in SUBSET Word, \A v \in Word : (v >= RADIX => v \div RADIX \in S) => v \in S
  PROVE  S = Word
<1>1. ASSUME Word \ S # {} PROVE FALSE
  <2>1. Word \ S \in SUBSET Nat
    BY WordsAre
  <2>2. PICK n \in Word \ S : \A m \in Word \ S : n <= m
    BY <1>1, <2>1, Least
  <2>3. n \in Nat /\ n \in Word /\ RADIX \in Nat /\ RADIX > 1 /\ RADIX >= 1
    BY <2>2, WordsAre, ClockConstants
  <2>4. n >= RADIX /\ n \div RADIX \notin S
    BY <2>2
  <2>5. n \div RADIX \in Nat /\ n \div RADIX < n
    BY <2>3, <2>4, Quotients
  <2>6. n \div RADIX \in Word
    BY <2>3, <2>5, WordsAre
  <2> QED  BY <2>2, <2>3, <2>4, <2>5, <2>6
<1> QED  BY <1>1

LEMMA DecimalType ==
  ASSUME NEW v \in Word
  PROVE  Decimal[v] \in Seq(Nat) /\ Len(Decimal[v]) \in Nat /\ Len(Decimal[v]) >= 1
<1> DEFINE S == {w \in Word : Decimal[w] \in Seq(Nat) /\ Len(Decimal[w]) >= 1}
<1>1. ASSUME NEW w \in Word, w >= RADIX => w \div RADIX \in S PROVE w \in S
  <2>0. w \in Nat /\ RADIX \in Nat /\ RADIX >= 1
    BY WordsAre, ClockConstants
  <2>1. CASE w < RADIX
    <3>1. Decimal[w] = <<w>>
      BY <2>1, DecimalIs
    <3>2. <<w>> \in Seq(Nat) /\ Len(<<w>>) >= 1
      BY <2>0
    <3> QED  BY <3>1, <3>2
  <2>2. CASE w >= RADIX
    <3>1. Decimal[w] = Append(Decimal[w \div RADIX], w % RADIX)
      BY <2>0, <2>2, DecimalIs
    <3>2. Decimal[w \div RADIX] \in Seq(Nat)
      BY <1>1, <2>2
    <3>3. w % RADIX \in Nat
      BY <2>0, Quotients
    <3> HIDE DEF S
    <3>4. PICK d \in Seq(Nat), r \in Nat : d = Decimal[w \div RADIX] /\ r = w % RADIX
      BY <3>2, <3>3
    <3>5. Append(d, r) \in Seq(Nat) /\ Len(Append(d, r)) = Len(d) + 1 /\ Len(d) \in Nat
      OBVIOUS
    <3>6. Append(d, r) \in Seq(Nat) /\ Len(Append(d, r)) >= 1
      BY <3>5
    <3>7. Decimal[w] = Append(d, r)
      BY <3>1, <3>4
    <3> QED  BY <3>6, <3>7 DEF S
  <2> QED  BY <2>0, <2>1, <2>2
<1> HIDE DEF S
<1>2. S \in SUBSET Word
  BY DEF S
<1>3. S = Word
  BY <1>1, <1>2, ByDigits, Zenon
<1>4. Decimal[v] \in Seq(Nat) /\ Len(Decimal[v]) >= 1
  BY <1>3 DEF S
<1> QED  BY <1>4, LenProperties

(* A number from RADIX on has one digit more than without the last.        *)
LEMMA DecimalLength ==
  ASSUME NEW v \in Word
  PROVE  /\ v < RADIX => Len(Decimal[v]) = 1
         /\ v >= RADIX => v \div RADIX \in Word /\ Len(Decimal[v]) = Len(Decimal[v \div RADIX]) + 1
<1>0. v \in Nat /\ RADIX \in Nat /\ RADIX >= 1
  BY WordsAre, ClockConstants
<1>1. CASE v < RADIX
  <2>1. Decimal[v] = <<v>>
    BY <1>1, DecimalIs
  <2> QED  BY <1>0, <1>1, <2>1
<1>2. CASE v >= RADIX
  <2>1. Decimal[v] = Append(Decimal[v \div RADIX], v % RADIX)
    BY <1>0, <1>2, DecimalIs
  <2>2. v \div RADIX \in Nat /\ v \div RADIX <= v /\ v % RADIX \in Nat
    BY <1>0, Quotients
  <2>3. v \div RADIX \in Word
    BY <2>2, WordsAre
  <2>4. PICK d \in Seq(Nat), r \in Nat : d = Decimal[v \div RADIX] /\ r = v % RADIX
    BY <2>2, <2>3, DecimalType
  <2>5. Len(Append(d, r)) = Len(d) + 1
    OBVIOUS
  <2> QED  BY <1>0, <1>2, <2>1, <2>3, <2>4, <2>5
<1> QED  BY <1>0, <1>1, <1>2

(* A greater number has no fewer digits.                                   *)
LEMMA DecimalGrows ==
  ASSUME NEW v \in Word, NEW w \in Word, w <= v
  PROVE  Len(Decimal[w]) <= Len(Decimal[v])
<1> DEFINE S == {x \in Word : \A y \in Word : y <= x => Len(Decimal[y]) <= Len(Decimal[x])}
<1>1. ASSUME NEW x \in Word, x >= RADIX => x \div RADIX \in S PROVE x \in S
  <2> SUFFICES ASSUME NEW y \in Word, y <= x PROVE Len(Decimal[y]) <= Len(Decimal[x])
    OBVIOUS
  <2>0. x \in Nat /\ y \in Nat /\ RADIX \in Nat /\ RADIX >= 1
    BY WordsAre, ClockConstants
  <2>1. Len(Decimal[x]) \in Nat /\ Len(Decimal[x]) >= 1 /\ Len(Decimal[y]) \in Nat
    BY DecimalType
  <2>2. CASE y < RADIX
    <3>1. Len(Decimal[y]) = 1
      BY <2>2, DecimalLength
    <3> QED  BY <2>1, <3>1
  <2>3. CASE y >= RADIX
    <3>1. x >= RADIX
      BY <2>0, <2>3
    <3>2. y \div RADIX <= x \div RADIX
      BY <2>0, QuotientsGrow
    <3>3. y \div RADIX \in Word /\ Len(Decimal[y]) = Len(Decimal[y \div RADIX]) + 1
      BY <2>3, DecimalLength
    <3>4. x \div RADIX \in Word /\ Len(Decimal[x]) = Len(Decimal[x \div RADIX]) + 1
      BY <3>1, DecimalLength
    <3>5. x \div RADIX \in S
      BY <1>1, <3>1
    <3>6. Len(Decimal[y \div RADIX]) <= Len(Decimal[x \div RADIX])
      BY <3>2, <3>3, <3>5
    <3>7. Len(Decimal[y \div RADIX]) \in Nat /\ Len(Decimal[x \div RADIX]) \in Nat
      BY <3>3, <3>4, DecimalType
    <3> HIDE DEF S
    <3> QED  BY <3>3, <3>4, <3>6, <3>7
  <2> QED  BY <2>0, <2>2, <2>3
<1> HIDE DEF S
<1>2. S \in SUBSET Word
  BY DEF S
<1>3. S = Word
  BY <1>1, <1>2, ByDigits, Zenon
<1> QED  BY <1>3 DEF S

(* Two digits below RADIX squared, at most three below its cube.           *)
LEMMA FewDigits ==
  ASSUME NEW v \in Word
  PROVE  /\ v < RADIX => Decimal[v] = <<v>>
         /\ v >= RADIX /\ v < RADIX * RADIX => Decimal[v] = <<v \div RADIX, v % RADIX>>
         /\ v >= RADIX => Len(Decimal[v]) >= 2
         /\ v < RADIX * RADIX * RADIX => Len(Decimal[v]) <= 3
<1>0. v \in Nat /\ RADIX \in Nat /\ RADIX >= 1 /\ RADIX * RADIX \in Nat
  <2>1. v \in Nat /\ RADIX \in Nat /\ RADIX > 1
    BY WordsAre, ClockConstants
  <2>2. \A m \in Nat : m * m \in Nat
    OBVIOUS
  <2> QED  BY <2>1, <2>2
<1>1. v < RADIX => Decimal[v] = <<v>>
  BY DecimalIs
<1>2. ASSUME v >= RADIX, v < RADIX * RADIX PROVE Decimal[v] = <<v \div RADIX, v % RADIX>>
  <2>1. v \div RADIX < RADIX
    BY <1>0, <1>2, QuotientBelow
  <2>2. v \div RADIX \in Word
    BY <1>2, DecimalLength
  <2>3. Decimal[v \div RADIX] = <<v \div RADIX>>
    BY <2>1, <2>2, DecimalIs
  <2>4. Decimal[v] = Append(<<v \div RADIX>>, v % RADIX)
    BY <1>0, <1>2, <2>3, DecimalIs
  <2>5. ASSUME NEW a \in Nat, NEW b \in Nat PROVE Append(<<a>>, b) = <<a, b>>
    <3>1. /\ Append(<<a>>, b) \in Seq(Nat) /\ Len(Append(<<a>>, b)) = 2
          /\ Append(<<a>>, b)[1] = a /\ Append(<<a>>, b)[2] = b
      OBVIOUS
    <3>2. /\ <<a, b>> \in Seq(Nat) /\ Len(<<a, b>>) = 2
          /\ <<a, b>>[1] = a /\ <<a, b>>[2] = b
      OBVIOUS
    <3>3. \A i \in 1 .. 2 : i = 1 \/ i = 2
      OBVIOUS
    <3>4. \A i \in 1 .. 2 : Append(<<a>>, b)[i] = <<a, b>>[i]
      BY <3>1, <3>2, <3>3, Zenon
    <3> QED  BY <3>1, <3>2, <3>4, SeqEqual, Zenon
  <2>6. v \div RADIX \in Nat /\ v % RADIX \in Nat
    BY <1>0, Quotients
  <2> QED  BY <2>4, <2>5, <2>6
<1>3. ASSUME v >= RADIX PROVE Len(Decimal[v]) >= 2
  <2>1. v \div RADIX \in Word /\ Len(Decimal[v]) = Len(Decimal[v \div RADIX]) + 1
    BY <1>3, DecimalLength
  <2>2. Len(Decimal[v \div RADIX]) \in Nat /\ Len(Decimal[v \div RADIX]) >= 1
    BY <2>1, DecimalType
  <2> QED  BY <2>1, <2>2
<1>4. ASSUME v < RADIX * RADIX * RADIX PROVE Len(Decimal[v]) <= 3
  <2>1. CASE v < RADIX
    <3>1. Len(Decimal[v]) = 1
      BY <2>1, DecimalLength
    <3> QED  BY <3>1
  <2>2. CASE v >= RADIX
    <3> DEFINE q == v \div RADIX
    <3>1. q \in Word /\ Len(Decimal[v]) = Len(Decimal[q]) + 1
      BY <2>2, DecimalLength
    <3>2. RADIX * RADIX * RADIX = RADIX * (RADIX * RADIX)
      BY <1>0
    <3>3. q < RADIX * RADIX
      BY <1>0, <1>4, <3>2, QuotientBelow
    <3>4. q \in Nat
      BY <3>1, WordsAre
    <3> HIDE DEF q
    <3>5. CASE q < RADIX
      <4>1. Len(Decimal[q]) = 1
        BY <3>1, <3>5, DecimalLength
      <4> QED  BY <3>1, <4>1
    <3>6. CASE q >= RADIX
      <4>1. q \div RADIX \in Word /\ Len(Decimal[q]) = Len(Decimal[q \div RADIX]) + 1
        BY <3>1, <3>6, DecimalLength
      <4>2. q \div RADIX < RADIX
        BY <1>0, <3>3, <3>4, QuotientBelow
      <4>3. Len(Decimal[q \div RADIX]) = 1
        BY <4>1, <4>2, DecimalLength
      <4> QED  BY <3>1, <4>1, <4>3
    <3> QED  BY <1>0, <3>4, <3>5, <3>6
  <2> QED  BY <1>0, <2>1, <2>2
<1> QED  BY <1>1, <1>2, <1>3, <1>4

-----------------------------------------------------------------------------
(* The digits of the hours as they are shown, and as many as have been     *)
(* shown by then: the tenth hour has one digit, after two.                 *)
Width(h) == IF h < RADIX - 1 THEN 2 ELSE Len(Decimal[h])
Widest(h) == IF h < RADIX THEN 2 ELSE Len(Decimal[h])

(* The columns after CLOCK_X that the text of any print so far has reached *)
(* when the last one showed hour h.                                        *)
Reach(h) == Widest(h) + 6 + Len(Suffix)

ClockTypes ==
  /\ tick \in Word
  /\ wrapped \in BOOLEAN
  /\ line = [i \in Cell |-> line[i]]

(* What is on the display is the last text, and after the place where the  *)
(* longest text so far ended there is nothing.                             *)
OnDisplay ==
  ~wrapped =>
    /\ Shown > 0 => Reads(Text(Shown))
    /\ \A i \in Cell : i - CLOCK_X >= Reach(Hours(Shown)) => line[i] = Untouched

CInv == ClockTypes /\ OnDisplay

(* Sequences of two, and what joins them.                                  *)
LEMMA TwoLong ==
  ASSUME NEW a \in Int, NEW b \in Int
  PROVE  /\ <<a>> \o <<b>> = <<a, b>>
         /\ <<a, b>> \in Seq(Int) /\ Len(<<a, b>>) = 2
<1>1. /\ <<a>> \in Seq(Int) /\ <<b>> \in Seq(Int)
      /\ Len(<<a>>) = 1 /\ Len(<<b>>) = 1 /\ <<a>>[1] = a /\ <<b>>[1] = b
  OBVIOUS
<1>2. PICK s1 \in Seq(Int), s2 \in Seq(Int) :
        s1 = <<a>> /\ s2 = <<b>> /\ Len(s1) = 1 /\ Len(s2) = 1 /\ s1[1] = a /\ s2[1] = b
  BY <1>1
<1>3. /\ s1 \o s2 \in Seq(Int) /\ Len(s1 \o s2) = 2
      /\ (s1 \o s2)[1] = a /\ (s1 \o s2)[2] = b
  BY <1>2, ConcatProperties
<1>4. <<a, b>> \in Seq(Int) /\ Len(<<a, b>>) = 2 /\ <<a, b>>[1] = a /\ <<a, b>>[2] = b
  OBVIOUS
<1>5. \A i \in 1 .. 2 : i = 1 \/ i = 2
  OBVIOUS
<1>6. \A i \in 1 .. 2 : (s1 \o s2)[i] = <<a, b>>[i]
  BY <1>3, <1>4, <1>5, Zenon
<1>7. s1 \o s2 = <<a, b>>
  BY <1>3, <1>4, <1>6, SeqEqual, Zenon
<1> QED  BY <1>2, <1>4, <1>7, Zenon

(* Minutes and seconds have two digits.                                    *)
LEMMA MinutesHaveTwo ==
  ASSUME NEW n \in Word, n < SIXTY
  PROVE  /\ Padded(n, RADIX) = TwoDigits(n)
         /\ TwoDigits(n) \in Seq(Int) /\ Len(TwoDigits(n)) = 2
<1>1. n \in Nat /\ RADIX \in Nat /\ RADIX >= 1 /\ n \div RADIX \in Nat /\ n % RADIX \in Nat
  <2>1. n \in Nat /\ RADIX \in Nat /\ RADIX >= 1
    BY WordsAre, ClockConstants
  <2> QED  BY <2>1, Quotients
<1>2. TwoDigits(n) \in Seq(Int) /\ Len(TwoDigits(n)) = 2
  BY <1>1, TwoLong DEF TwoDigits
<1>3. CASE n < RADIX
  <2>1. Padded(n, RADIX) = <<0>> \o <<n>>
    BY <1>3, FewDigits DEF Padded
  <2>2. <<0>> \o <<n>> = <<0, n>>
    BY <1>1, TwoLong
  <2>3. n \div RADIX = 0 /\ n % RADIX = n
    BY <1>1, <1>3, Quotients
  <2> QED  BY <1>2, <2>1, <2>2, <2>3, Zenon DEF TwoDigits
<1>4. CASE n >= RADIX
  <2>1. n < RADIX * RADIX
    <3>1. PICK sq \in Int : sq = RADIX * RADIX
      BY <1>1
    <3>2. SIXTY <= sq /\ SIXTY \in Nat
      BY <3>1, ClockConstants
    <3> QED  BY <1>1, <3>1, <3>2
  <2>2. Decimal[n] = <<n \div RADIX, n % RADIX>>
    BY <1>4, <2>1, FewDigits
  <2>3. ~(n < RADIX)
    BY <1>1, <1>4
  <2> QED  BY <1>2, <2>2, <2>3, Zenon DEF Padded, TwoDigits
<1> QED  BY <1>1, <1>2, <1>3, <1>4

(* Hours have a zero before their digit below RADIX - 1.                   *)
LEMMA HoursHave ==
  ASSUME NEW h \in Word
  PROVE  /\ Padded(h, RADIX - 1) \in Seq(Int)
         /\ Len(Padded(h, RADIX - 1)) = Width(h)
         /\ Width(h) \in Nat /\ Width(h) <= Widest(h) /\ Widest(h) \in Nat
         /\ h # RADIX - 1 => Width(h) = Widest(h)
<1>1. h \in Nat /\ RADIX \in Nat /\ Len(Decimal[h]) \in Nat /\ Decimal[h] \in Seq(Nat)
  BY WordsAre, ClockConstants, DecimalType
<1>2. CASE h < RADIX - 1
  <2>1. h < RADIX
    BY <1>1, <1>2
  <2>2. Padded(h, RADIX - 1) = <<0>> \o <<h>>
    BY <1>2, <2>1, FewDigits DEF Padded
  <2>3. <<0>> \o <<h>> = <<0, h>> /\ <<0, h>> \in Seq(Int) /\ Len(<<0, h>>) = 2
    BY <1>1, TwoLong
  <2>4. Width(h) = 2 /\ Widest(h) = 2
    BY <1>2, <2>1 DEF Width, Widest
  <2>5. Padded(h, RADIX - 1) \in Seq(Int) /\ Len(Padded(h, RADIX - 1)) = 2
    BY <2>2, <2>3, Zenon
  <2> QED  BY <2>4, <2>5
<1>3. CASE ~(h < RADIX - 1)
  <2>1. Padded(h, RADIX - 1) = Decimal[h] /\ Width(h) = Len(Decimal[h])
    BY <1>3 DEF Padded, Width
  <2>2. Decimal[h] \in Seq(Int)
    BY <1>1
  <2>3. CASE h < RADIX
    <3>1. Len(Decimal[h]) = 1 /\ Widest(h) = 2 /\ h = RADIX - 1
      BY <1>1, <1>3, <2>3, DecimalLength DEF Widest
    <3> QED  BY <1>1, <2>1, <2>2, <3>1
  <2>4. CASE ~(h < RADIX)
    <3>1. Widest(h) = Len(Decimal[h])
      BY <2>4 DEF Widest
    <3> QED  BY <1>1, <2>1, <2>2, <3>1
  <2> QED  BY <2>3, <2>4
<1> QED  BY <1>2, <1>3

LEMMA Joined ==
  ASSUME NEW a \in Seq(Int), NEW b \in Seq(Int)
  PROVE  a \o b \in Seq(Int) /\ Len(a \o b) = Len(a) + Len(b)
  BY ConcatProperties, Zenon

LEMMA TimeHas ==
  ASSUME NEW h \in Seq(Int), NEW m \in Seq(Int), NEW s \in Seq(Int)
  PROVE  /\ Time(h, m, s) \in Seq(Int)
         /\ Len(Time(h, m, s)) = Len(h) + Len(m) + Len(s) + 2 + Len(Suffix)
<1>1. PICK c \in Seq(Int) : c = <<Colon>> /\ Len(c) = 1
  <2>1. <<Colon>> \in Seq(Int) /\ Len(<<Colon>>) = 1
    BY DEF Colon
  <2> QED  BY <2>1
<1>2. PICK suffix \in Seq(Int) : suffix = Suffix
  BY ClockConstants
<1>3. PICK x1 \in Seq(Int) : x1 = h \o c /\ Len(x1) = Len(h) + Len(c)
  BY <1>1, Joined
<1>4. PICK x2 \in Seq(Int) : x2 = x1 \o m /\ Len(x2) = Len(x1) + Len(m)
  BY <1>3, Joined
<1>5. PICK x3 \in Seq(Int) : x3 = x2 \o c /\ Len(x3) = Len(x2) + Len(c)
  BY <1>1, <1>4, Joined
<1>6. PICK x4 \in Seq(Int) : x4 = x3 \o s /\ Len(x4) = Len(x3) + Len(s)
  BY <1>5, Joined
<1>7. PICK x5 \in Seq(Int) : x5 = x4 \o suffix /\ Len(x5) = Len(x4) + Len(suffix)
  BY <1>2, <1>6, Joined
<1>8. Time(h, m, s) = x5
  BY <1>1, <1>2, <1>3, <1>4, <1>5, <1>6, <1>7, Zenon DEF Time
<1>9. Len(h) \in Nat /\ Len(m) \in Nat /\ Len(s) \in Nat /\ Len(suffix) \in Nat
  OBVIOUS
<1>10. Len(x5) = Len(h) + Len(m) + Len(s) + 2 + Len(suffix)
  BY <1>1, <1>3, <1>4, <1>5, <1>6, <1>7, <1>9
<1>11. Len(suffix) = Len(Suffix)
  BY <1>2
<1> QED  BY <1>8, <1>10, <1>11, Zenon

LEMMA HourIs == HOUR \in Nat /\ HOUR >= 1 /\ HOUR = SIXTY * SIXTY /\ HOUR >= SIXTY /\ SIXTY >= 1
<1>1. SIXTY \in Nat /\ SIXTY >= 1
  BY ClockConstants
<1>2. \A n \in Nat : n >= 1 => n * n \in Nat /\ n * n >= n
  OBVIOUS
<1> QED  BY <1>1, <1>2 DEF HOUR

(* The parts of a count of seconds.                                        *)
LEMMA Parts ==
  ASSUME NEW secs \in Word
  PROVE  /\ secs \div HOUR \in Word /\ secs % HOUR \in Word /\ secs % HOUR < HOUR
         /\ secs \div SIXTY \in Word /\ secs % SIXTY \in Word /\ secs % SIXTY < SIXTY
         /\ secs < HOUR => secs \div HOUR = 0 /\ secs \div SIXTY < SIXTY
         /\ secs < SIXTY => secs \div SIXTY = 0 /\ secs % SIXTY = secs
<1>1. secs \in Nat /\ HOUR \in Nat /\ HOUR >= 1 /\ SIXTY \in Nat /\ SIXTY >= 1
  BY WordsAre, HourIs, ClockConstants
<1>2. /\ secs \div HOUR \in Nat /\ secs % HOUR \in 0 .. HOUR - 1 /\ secs \div HOUR <= secs
      /\ secs = HOUR * (secs \div HOUR) + (secs % HOUR)
      /\ secs < HOUR => secs \div HOUR = 0
  BY <1>1, Quotients
<1>3. /\ secs \div SIXTY \in Nat /\ secs % SIXTY \in 0 .. SIXTY - 1 /\ secs \div SIXTY <= secs
      /\ secs = SIXTY * (secs \div SIXTY) + (secs % SIXTY)
      /\ secs < SIXTY => secs \div SIXTY = 0 /\ secs % SIXTY = secs
  BY <1>1, Quotients
<1>4. secs < HOUR => secs \div SIXTY < SIXTY
  BY <1>1, HourIs, QuotientBelow
<1>5. ASSUME NEW n \in Nat, n >= 1, NEW q \in Nat, NEW r \in 0 .. n - 1, secs = n * q + r
      PROVE  r <= secs
  <2>1. n * q >= 0 /\ n * q \in Int
    BY <1>5
  <2> QED  BY <1>1, <1>5, <2>1
<1>6. secs % HOUR <= secs
  BY <1>1, <1>2, <1>5
<1>7. secs % SIXTY <= secs
  BY <1>1, <1>3, <1>5
<1> QED  BY <1>1, <1>2, <1>3, <1>4, <1>6, <1>7, WordsAre

(* What is printed: the hours, and two digits each for minutes and seconds *)
LEMMA TextIs ==
  ASSUME NEW t \in Word
  PROVE  /\ t \div HZ \in Word /\ Hours(t) \in Word
         /\ t \div HZ >= HOUR =>
              \E m, s \in Word :
                /\ m < SIXTY /\ s < SIXTY
                /\ Text(t) = Time(Padded(Hours(t), RADIX - 1), TwoDigits(m), TwoDigits(s))
         /\ t \div HZ < HOUR =>
              /\ Hours(t) = 0 /\ (t \div HZ) \div SIXTY < SIXTY
              /\ Text(t) = Time(<<0, 0>>, TwoDigits((t \div HZ) \div SIXTY),
                                          TwoDigits((t \div HZ) % SIXTY))
<1>1. PICK secs \in Word : secs = t \div HZ
  <2>1. t \in Nat /\ HZ \in Nat /\ HZ >= 1
    BY WordsAre, ClockConstants
  <2>2. t \div HZ \in Nat /\ t \div HZ <= t
    BY <2>1, Quotients
  <2> QED  BY <2>2, WordsAre
<1>2. Hours(t) = secs \div HOUR /\ Hours(t) \in Word
  BY <1>1, Parts DEF Hours
<1>3. PICK m0 \in Word : m0 = secs % HOUR /\ m0 < HOUR
  BY Parts
<1>4. secs \in Nat /\ m0 \in Nat /\ HOUR \in Nat /\ SIXTY \in Nat /\ 0 < SIXTY
  BY WordsAre, HourIs, ClockConstants
<1>5. PICK mins \in Word : mins = (IF m0 >= SIXTY THEN m0 \div SIXTY ELSE m0) /\ mins < SIXTY
  <2>1. CASE m0 >= SIXTY
    BY <1>3, <2>1, Parts
  <2>2. CASE ~(m0 >= SIXTY)
    BY <1>4, <2>2
  <2> QED  BY <2>1, <2>2
<1>6. /\ mins % SIXTY \in Word /\ mins % SIXTY < SIXTY
      /\ secs % SIXTY \in Word /\ secs % SIXTY < SIXTY
      /\ secs \div SIXTY \in Word
  BY Parts
<1>7. CASE secs >= HOUR
  <2>1. Text(t) = Time(Padded(Hours(t), RADIX - 1), Padded(mins, RADIX), Padded(mins % SIXTY, RADIX))
    BY <1>1, <1>3, <1>5, <1>7, Zenon DEF Text
  <2>2. Padded(mins, RADIX) = TwoDigits(mins) /\ Padded(mins % SIXTY, RADIX) = TwoDigits(mins % SIXTY)
    BY <1>5, <1>6, MinutesHaveTwo
  <2>3. Text(t) = Time(Padded(Hours(t), RADIX - 1), TwoDigits(mins), TwoDigits(mins % SIXTY))
    BY <2>1, <2>2, Zenon
  <2>4. ~(secs < HOUR)
    BY <1>4, <1>7
  <2> QED  BY <1>1, <1>2, <1>5, <1>6, <2>3, <2>4, Zenon
<1>8. CASE secs < HOUR
  <2>1. Hours(t) = 0 /\ secs \div SIXTY < SIXTY
    BY <1>2, <1>8, Parts
  <2>2. ~(secs >= HOUR)
    BY <1>4, <1>8
  <2>3. Padded(secs % SIXTY, RADIX) = TwoDigits(secs % SIXTY)
    BY <1>6, MinutesHaveTwo
  <2>4. Text(t) = Time(<<0, 0>>, TwoDigits(secs \div SIXTY), TwoDigits(secs % SIXTY))
    <3>1. CASE secs >= SIXTY
      <4>1. Text(t) = Time(<<0, 0>>, Padded(secs \div SIXTY, RADIX), Padded(secs % SIXTY, RADIX))
        BY <1>1, <2>2, <3>1, Zenon DEF Text
      <4>2. Padded(secs \div SIXTY, RADIX) = TwoDigits(secs \div SIXTY)
        BY <1>6, <2>1, MinutesHaveTwo
      <4> QED  BY <2>3, <4>1, <4>2, Zenon
    <3>2. CASE ~(secs >= SIXTY)
      <4>1. Text(t) = Time(<<0, 0>>, <<0, 0>>, Padded(secs, RADIX))
        BY <1>1, <2>2, <3>2, Zenon DEF Text
      <4>2. secs \div SIXTY = 0 /\ secs % SIXTY = secs
        <5>1. secs < SIXTY
          BY <1>4, <3>2
        <5> QED  BY <5>1, Parts
      <4>3. TwoDigits(0) = <<0, 0>>
        <5>1. \A n \in Nat : n >= 1 => 0 \div n = 0 /\ 0 % n = 0
          BY Quotients
        <5>2. RADIX \in Nat /\ RADIX >= 1
          BY ClockConstants
        <5> QED  BY <5>1, <5>2, Zenon DEF TwoDigits
      <4> QED  BY <2>3, <4>1, <4>2, <4>3, Zenon
    <3> QED  BY <3>1, <3>2
  <2> QED  BY <1>1, <1>2, <2>1, <2>2, <2>4, Zenon
<1>9. secs >= HOUR \/ secs < HOUR
  BY <1>4
<1> QED  BY <1>7, <1>8, <1>9, Zenon

(* How long a text is.                                                     *)
LEMMA TextHas ==
  ASSUME NEW t \in Word
  PROVE  /\ Text(t) \in Seq(Int)
         /\ Len(Text(t)) = Width(Hours(t)) + 6 + Len(Suffix)
<1>0. Hours(t) \in Word /\ t \div HZ \in Nat /\ HOUR \in Nat /\ Len(Suffix) \in Nat
  BY TextIs, WordsAre, HourIs, ClockConstants
<1>1. ASSUME NEW h \in Seq(Int), Len(h) = Width(Hours(t)), NEW m \in Word, NEW s \in Word,
             m < SIXTY, s < SIXTY, Text(t) = Time(h, TwoDigits(m), TwoDigits(s))
      PROVE  Text(t) \in Seq(Int) /\ Len(Text(t)) = Width(Hours(t)) + 6 + Len(Suffix)
  <2>1. PICK m2 \in Seq(Int), s2 \in Seq(Int) :
          m2 = TwoDigits(m) /\ s2 = TwoDigits(s) /\ Len(m2) = 2 /\ Len(s2) = 2
    BY <1>1, MinutesHaveTwo
  <2>2. Text(t) = Time(h, m2, s2)
    BY <1>1, <2>1, Zenon
  <2>3. /\ Time(h, m2, s2) \in Seq(Int)
        /\ Len(Time(h, m2, s2)) = Len(h) + Len(m2) + Len(s2) + 2 + Len(Suffix)
    BY TimeHas
  <2>4. Len(h) \in Nat
    OBVIOUS
  <2>5. Len(h) + Len(m2) + Len(s2) + 2 + Len(Suffix) = Width(Hours(t)) + 6 + Len(Suffix)
    BY <1>0, <1>1, <2>1, <2>4
  <2> QED  BY <2>2, <2>3, <2>5, Zenon
<1>2. CASE t \div HZ >= HOUR
  <2>1. PICK m \in Word, s \in Word :
          /\ m < SIXTY /\ s < SIXTY
          /\ Text(t) = Time(Padded(Hours(t), RADIX - 1), TwoDigits(m), TwoDigits(s))
    BY <1>2, TextIs
  <2>2. PICK h \in Seq(Int) : h = Padded(Hours(t), RADIX - 1) /\ Len(h) = Width(Hours(t))
    BY <1>0, HoursHave
  <2>3. Text(t) = Time(h, TwoDigits(m), TwoDigits(s))
    BY <2>1, <2>2, Zenon
  <2> QED  BY <1>1, <2>1, <2>2, <2>3, Zenon
<1>3. CASE t \div HZ < HOUR
  <2> DEFINE m == (t \div HZ) \div SIXTY
             s == (t \div HZ) % SIXTY
  <2>1. /\ m \in Word /\ s \in Word /\ m < SIXTY /\ s < SIXTY
        /\ Hours(t) = 0 /\ Text(t) = Time(<<0, 0>>, TwoDigits(m), TwoDigits(s))
    BY <1>3, TextIs, Parts
  <2> HIDE DEF m, s
  <2>2. Width(0) = 2
    BY ClockConstants DEF Width
  <2>3. <<0, 0>> \in Seq(Int) /\ Len(<<0, 0>>) = 2
    OBVIOUS
  <2>4. Len(<<0, 0>>) = Width(Hours(t))
    BY <2>1, <2>2, <2>3, Zenon
  <2> QED  BY <1>1, <2>1, <2>3, <2>4, Zenon
<1> QED  BY <1>0, <1>2, <1>3

(* In the first hour the text is the time.                                 *)
LEMMA FirstHourText ==
  ASSUME NEW t \in Word, Hours(t) = 0
  PROVE  Text(t) = Uptime(t) \o Suffix
<1>1. PICK secs \in Word : secs = t \div HZ
  BY TextIs
<1>2. secs \in Nat /\ HOUR \in Nat /\ HOUR >= 1 /\ SIXTY \in Nat /\ SIXTY >= 1
  BY WordsAre, HourIs, ClockConstants
<1>3. secs \div HOUR = 0
  BY <1>1 DEF Hours
<1>4. secs < HOUR
  BY <1>2, <1>3, Quotients
<1>5. PICK m \in Word : m = secs \div SIXTY /\ m < SIXTY
  BY <1>4, Parts
<1>6. m % SIXTY = m
  BY <1>5, Parts, WordsAre, Quotients, <1>2
<1>7. Text(t) = Time(<<0, 0>>, TwoDigits(m), TwoDigits(secs % SIXTY))
  BY <1>1, <1>4, <1>5, TextIs
<1>8. TwoDigits(0) = <<0, 0>>
  <2>1. \A n \in Nat : n >= 1 => 0 \div n = 0 /\ 0 % n = 0
    BY Quotients
  <2>2. RADIX \in Nat /\ RADIX >= 1
    BY ClockConstants
  <2> QED  BY <2>1, <2>2, Zenon DEF TwoDigits
<1> QED  BY <1>1, <1>3, <1>5, <1>6, <1>7, <1>8, Zenon DEF Time, Uptime

LEMMA HoursGrow ==
  ASSUME NEW t \in Word, NEW u \in Word, t <= u
  PROVE  Hours(t) <= Hours(u) /\ Widest(Hours(t)) <= Widest(Hours(u))
<1>1. t \in Nat /\ u \in Nat /\ HZ \in Nat /\ HZ >= 1 /\ HOUR \in Nat /\ HOUR >= 1 /\ RADIX \in Nat
  BY WordsAre, ClockConstants, HourIs
<1>2. t \div HZ \in Nat /\ u \div HZ \in Nat /\ t \div HZ <= u \div HZ
  BY <1>1, Quotients, QuotientsGrow
<1>3. (t \div HZ) \div HOUR <= (u \div HZ) \div HOUR
  BY <1>1, <1>2, QuotientsGrow
<1>4. PICK h \in Word, k \in Word : h = Hours(t) /\ k = Hours(u) /\ h <= k
  BY <1>3, TextIs DEF Hours
<1>5. h \in Nat /\ k \in Nat /\ Len(Decimal[h]) \in Nat /\ Len(Decimal[k]) \in Nat
      /\ Len(Decimal[h]) <= Len(Decimal[k])
  BY <1>4, WordsAre, DecimalType, DecimalGrows
<1>6. k >= RADIX => Len(Decimal[k]) >= 2
  BY FewDigits
<1>7. Widest(h) <= Widest(k)
  BY <1>1, <1>4, <1>5, <1>6 DEF Widest
<1> QED  BY <1>4, <1>7

(* No text goes past the last cell.                                        *)
LEMMA TextFits ==
  ASSUME NEW t \in Word, NEW i \in 1 .. Len(Text(t))
  PROVE  CLOCK_X + i - 1 \in Cell
<1> DEFINE d == Len(Decimal[Hours(WORD - 1)])
<1>1. WORD - 1 \in Word /\ Hours(WORD - 1) \in Word /\ Hours(t) \in Word /\ t <= WORD - 1
  BY WordsAre, TextIs
<1>2. d \in Nat /\ d >= 1
  BY <1>1, DecimalType
<1>3. Widest(Hours(WORD - 1)) <= d + 1
  BY <1>2 DEF Widest
<1>4. Widest(Hours(t)) <= Widest(Hours(WORD - 1))
  BY <1>1, HoursGrow
<1>5. /\ Width(Hours(t)) \in Nat /\ Widest(Hours(t)) \in Nat /\ Widest(Hours(WORD - 1)) \in Nat
      /\ Width(Hours(t)) <= Widest(Hours(t))
  BY <1>1, HoursHave
<1>6. Len(Text(t)) = Width(Hours(t)) + 6 + Len(Suffix)
  BY TextHas
<1>7. CLOCK_X \in Nat /\ Len(Suffix) \in Nat
  BY ClockConstants
<1>8. Cell = 0 .. CLOCK_X + d + 6 + Len(Suffix)
  BY DEF Cell
<1> HIDE DEF d
<1> QED  BY <1>2, <1>3, <1>4, <1>5, <1>6, <1>7, <1>8

(* What a print leaves on the line.                                        *)
LEMMA PrintLeaves ==
  ASSUME NEW t \in Word, NEW l
  PROVE  /\ \A i \in 1 .. Len(Text(t)) : Written(Text(t), l)[CLOCK_X + i - 1] = Text(t)[i]
         /\ \A i \in Cell : i - CLOCK_X >= Len(Text(t)) => Written(Text(t), l)[i] = l[i]
         /\ Written(Text(t), l) = [i \in Cell |-> Written(Text(t), l)[i]]
<1>1. PICK n \in Nat : n = Len(Text(t))
  BY TextHas
<1>2. CLOCK_X \in Nat /\ Cell \subseteq Int
  BY ClockConstants DEF Cell
<1>3. \A i \in Cell : Written(Text(t), l)[i] =
        IF i - CLOCK_X \in 0 .. n - 1 THEN Text(t)[i - CLOCK_X + 1] ELSE l[i]
  BY <1>1, Zenon DEF Written
<1>4. ASSUME NEW i \in 1 .. n PROVE Written(Text(t), l)[CLOCK_X + i - 1] = Text(t)[i]
  <2>1. CLOCK_X + i - 1 \in Cell
    BY <1>1, TextFits
  <2>2. (CLOCK_X + i - 1) - CLOCK_X \in 0 .. n - 1 /\ (CLOCK_X + i - 1) - CLOCK_X + 1 = i
    BY <1>2
  <2> QED  BY <1>3, <2>1, <2>2
<1>5. ASSUME NEW i \in Cell, i - CLOCK_X >= n PROVE Written(Text(t), l)[i] = l[i]
  <2>1. i \in Int /\ ~(i - CLOCK_X \in 0 .. n - 1)
    BY <1>2, <1>5
  <2> QED  BY <1>3, <2>1, Zenon
<1>6. Written(Text(t), l) = [i \in Cell |-> Written(Text(t), l)[i]]
  BY DEF Written
<1> QED  BY <1>1, <1>4, <1>5, <1>6

(* The last print before tick v.                                           *)
Printed(v) == v - (v % EVERY)

LEMMA PrintedIs ==
  ASSUME NEW v \in Word
  PROVE  /\ Printed(v) \in Word /\ Printed(v) >= 0
         /\ v % EVERY = 0 => Printed(v) = v
         /\ v + 1 \in Word /\ (v + 1) % EVERY # 0 => Printed(v + 1) = Printed(v)
         /\ v + 1 \in Word => Printed(v) <= v + 1
<1>1. v \in Nat /\ v + 1 \in Nat /\ EVERY \in Nat /\ EVERY >= 1
  BY WordsAre, ClockConstants
<1>2. PICK q \in Nat, r \in 0 .. EVERY - 1 : r = v % EVERY /\ v = EVERY * q + r
  <2>1. v \div EVERY \in Nat /\ v % EVERY \in 0 .. EVERY - 1 /\ v = EVERY * (v \div EVERY) + (v % EVERY)
    BY <1>1, Quotients
  <2> QED  BY <2>1, Zenon
<1>3. PICK p \in Nat, s \in 0 .. EVERY - 1 : s = (v + 1) % EVERY /\ v + 1 = EVERY * p + s
  <2>1. /\ (v + 1) \div EVERY \in Nat /\ (v + 1) % EVERY \in 0 .. EVERY - 1
        /\ v + 1 = EVERY * ((v + 1) \div EVERY) + ((v + 1) % EVERY)
    <3>1. \A w \in Nat : /\ w \div EVERY \in Nat /\ w % EVERY \in 0 .. EVERY - 1
                         /\ w = EVERY * (w \div EVERY) + (w % EVERY)
      BY <1>1, Quotients
    <3> QED  BY <1>1, <3>1, Zenon
  <2> QED  BY <2>1, Zenon
<1>4. EVERY * q \in Nat
  <2>1. \A a, b \in Nat : a * b \in Nat
    OBVIOUS
  <2> QED  BY <1>1, <1>2, <2>1
<1>5. v - r \in Nat /\ v - r <= v
  BY <1>1, <1>2, <1>4
<1>6. v - r \in Word
  BY <1>5, WordsAre
<1>7. ASSUME s # 0 PROVE (v + 1) - s = v - r
  <2>1. EVERY * (p - q) = r + 1 - s
    <3>1. EVERY * (p - q) = EVERY * p - EVERY * q
      BY <1>1, <1>2, <1>3
    <3>2. EVERY * p \in Int /\ EVERY * q \in Int
      BY <1>1, <1>2, <1>3
    <3> QED  BY <1>1, <1>2, <1>3, <3>1, <3>2
  <2>2. r + 1 - s < EVERY /\ r + 1 - s > -EVERY
    BY <1>1, <1>2, <1>3, <1>7
  <2>3. p - q < 1
    <3>1. ASSUME p - q >= 1 PROVE FALSE
      <4>1. EVERY * (p - q) >= EVERY
        BY <1>1, <1>2, <1>3, <3>1
      <4> QED  BY <1>1, <1>2, <1>3, <2>1, <2>2, <4>1
    <3> QED  BY <1>2, <1>3, <3>1
  <2>4. p - q > -1
    <3>1. ASSUME p - q <= -1 PROVE FALSE
      <4>1. EVERY * (p - q) <= -EVERY
        BY <1>1, <1>2, <1>3, <3>1
      <4> QED  BY <1>1, <1>2, <1>3, <2>1, <2>2, <4>1
    <3> QED  BY <1>2, <1>3, <3>1
  <2>5. p = q
    BY <1>2, <1>3, <2>3, <2>4
  <2>6. EVERY * (p - q) = 0
    BY <1>1, <1>2, <2>5
  <2>7. r \in Int /\ s \in Int
    BY <1>1
  <2>8. 0 = r + 1 - s
    BY <2>1, <2>6, Zenon
  <2> QED  BY <1>1, <2>7, <2>8
<1>8. Printed(v) = v - r /\ Printed(v + 1) = (v + 1) - s
  BY <1>2, <1>3 DEF Printed
<1>9. v % EVERY = 0 => v - r = v
  BY <1>1, <1>2
<1>10. v - r >= 0 /\ v - r <= v + 1
  BY <1>1, <1>5
<1> QED  BY <1>3, <1>6, <1>7, <1>8, <1>9, <1>10

(* A tick and its print.                                                   *)
LEMMA TickInv ==
  ASSUME CInv, timer_callback
  PROVE  CInv'
<1>0. PICK l, w : l = line /\ w = wrapped
  OBVIOUS
<1>1. PICK v \in Word : v = tick /\ l = line /\ w = wrapped /\ w \in BOOLEAN
  BY <1>0, Zenon DEF CInv, ClockTypes
<1>2. PICK u \in Word : u = (v + 1) % WORD /\ (u = 0 \/ u = v + 1)
  <2>1. v \in Nat /\ v <= WORD - 1 /\ WORD \in Nat /\ WORD > 0
    BY WordsAre
  <2>2. CASE v + 1 = WORD
    <3>1. WORD % WORD = 0
      BY <2>1
    <3>2. (v + 1) % WORD = 0
      BY <2>2, <3>1, Zenon
    <3> QED  BY <3>2, WordsAre
  <2>3. CASE v + 1 < WORD
    <3>1. (v + 1) % WORD = v + 1 /\ v + 1 \in Word
      <4>1. \A x \in Nat : x < WORD => x % WORD = x /\ x \in Word
        BY <2>1, Quotients DEF Word
      <4>2. v + 1 \in Nat
        BY <2>1
      <4> QED  BY <2>3, <4>1, <4>2, Zenon
    <3> QED  BY <3>1
  <2> QED  BY <2>1, <2>2, <2>3
<1>3. tick' = u /\ wrapped' = (w \/ u = 0)
  BY <1>1, <1>2, Zenon DEF timer_callback
<1>4. PICK m : m = line' /\ m = (IF u % EVERY = 0 THEN Written(Text(u), l) ELSE l)
  BY <1>1, <1>3, Zenon DEF timer_callback
<1>5. l = [i \in Cell |-> l[i]]
  BY <1>1, Zenon DEF CInv, ClockTypes
<1>6. ~w => /\ Printed(v) > 0 => \A i \in 1 .. Len(Text(Printed(v))) :
                                    l[CLOCK_X + i - 1] = Text(Printed(v))[i]
            /\ \A i \in Cell : i - CLOCK_X >= Reach(Hours(Printed(v))) => l[i] = Untouched
  BY <1>1, Zenon DEF CInv, OnDisplay, Shown, Printed, Reads
<1>7. ClockTypes'
  <2>1. m = [i \in Cell |-> m[i]]
    <3>1. CASE u % EVERY = 0
      <4>1. m = Written(Text(u), l)
        BY <1>4, <3>1, Zenon
      <4>2. Written(Text(u), l) = [i \in Cell |-> Written(Text(u), l)[i]]
        BY PrintLeaves
      <4> QED  BY <4>1, <4>2, Zenon
    <3>2. CASE u % EVERY # 0
      BY <1>4, <1>5, <3>2, Zenon
    <3> QED  BY <3>1, <3>2
  <2>2. line' = [i \in Cell |-> line'[i]]
    BY <1>4, <2>1, Zenon
  <2>3. tick' \in Word /\ wrapped' \in BOOLEAN
    BY <1>3
  <2> QED  BY <2>2, <2>3, Zenon DEF ClockTypes, Word, Cell
<1>8. ASSUME ~w, u # 0
      PROVE  /\ Printed(u) > 0 => \A i \in 1 .. Len(Text(Printed(u))) :
                                    m[CLOCK_X + i - 1] = Text(Printed(u))[i]
             /\ \A i \in Cell : i - CLOCK_X >= Reach(Hours(Printed(u))) => m[i] = Untouched
  <2>1. u = v + 1
    BY <1>2, <1>8
  <2>2. CASE u % EVERY = 0
    <3>1. Printed(u) = u
      BY <2>2, PrintedIs
    <3>2. m = Written(Text(u), l)
      BY <1>4, <2>2
    <3>3. \A i \in 1 .. Len(Text(u)) : m[CLOCK_X + i - 1] = Text(u)[i]
      BY <3>2, PrintLeaves
    <3>4. ASSUME NEW i \in Cell, i - CLOCK_X >= Reach(Hours(u)) PROVE m[i] = Untouched
      <4>1. Printed(v) \in Word /\ Printed(v) <= u
        BY <2>1, PrintedIs
      <4>2. /\ Width(Hours(u)) \in Nat /\ Widest(Hours(u)) \in Nat /\ Widest(Hours(Printed(v))) \in Nat
            /\ Width(Hours(u)) <= Widest(Hours(u))
            /\ Widest(Hours(Printed(v))) <= Widest(Hours(u))
        BY <4>1, TextIs, HoursHave, HoursGrow
      <4>3. /\ Len(Text(u)) = Width(Hours(u)) + 6 + Len(Suffix) /\ Len(Suffix) \in Nat
            /\ i \in Int /\ CLOCK_X \in Int
        BY TextHas, ClockConstants DEF Cell
      <4>4. i - CLOCK_X >= Len(Text(u)) /\ i - CLOCK_X >= Reach(Hours(Printed(v)))
        BY <3>4, <4>2, <4>3 DEF Reach
      <4>5. m[i] = l[i]
        BY <3>2, <4>4, PrintLeaves
      <4>6. l[i] = Untouched
        BY <1>6, <1>8, <4>4
      <4> QED  BY <4>5, <4>6, Zenon
    <3> QED  BY <3>1, <3>3, <3>4, Zenon
  <2>3. CASE u % EVERY # 0
    <3>1. Printed(u) = Printed(v)
      BY <2>1, <2>3, PrintedIs
    <3>2. m = l
      BY <1>4, <2>3
    <3> QED  BY <1>6, <1>8, <3>1, <3>2, Zenon
  <2> QED  BY <2>2, <2>3
<1>9. OnDisplay'
  <2>1. SUFFICES ASSUME ~wrapped'
                 PROVE  /\ Shown' > 0 => Reads(Text(Shown))'
                        /\ \A i \in Cell : i - CLOCK_X >= Reach(Hours(Shown')) => line'[i] = Untouched
    BY Zenon DEF OnDisplay, Cell, Reach, Hours, Untouched
  <2>2. ~w /\ u # 0
    BY <1>3, <2>1
  <2>3. Shown' = Printed(u)
    BY <1>3, Zenon DEF Shown, Printed
  <2> QED  BY <1>4, <1>8, <2>2, <2>3, Zenon DEF Reads
<1> QED  BY <1>7, <1>9 DEF CInv

(* A key's character goes to a column before the clock.                    *)
LEMMA EchoInv ==
  ASSUME CInv, irq_kb
  PROVE  CInv'
<1>1. PICK l : l = line /\ l = [i \in Cell |-> l[i]]
  BY Zenon DEF CInv, ClockTypes
<1>2. PICK c, m : m = line' /\ m = [l EXCEPT ![KEY_X] = c]
  <2>1. line' = [line EXCEPT ![KEY_X] = IF echo' = NOTHING THEN line[KEY_X] ELSE echo']
    BY Zenon DEF irq_kb
  <2> QED  BY <1>1, <2>1
<1>3. tick' = tick /\ wrapped' = wrapped /\ Shown' = Shown
  BY DEF irq_kb, Shown
<1>4. m = [i \in Cell |-> m[i]] /\ \A i \in Cell : i # KEY_X => m[i] = l[i]
  BY <1>1, <1>2
<1>5. KEY_X \in Nat /\ CLOCK_X \in Nat /\ KEY_X < CLOCK_X
  BY ClockConstants
<1>6. ClockTypes'
  <2>1. line' = [i \in Cell |-> line'[i]]
    BY <1>2, <1>4, Zenon
  <2> QED  BY <1>3, <2>1, Zenon DEF CInv, ClockTypes, Word, Cell
<1>7. OnDisplay'
  <2>1. SUFFICES ASSUME ~wrapped'
                 PROVE  /\ Shown' > 0 => Reads(Text(Shown))'
                        /\ \A i \in Cell : i - CLOCK_X >= Reach(Hours(Shown')) => line'[i] = Untouched
    BY Zenon DEF OnDisplay, Cell, Reach, Hours, Untouched
  <2>2. /\ Shown > 0 => Reads(Text(Shown))
        /\ \A i \in Cell : i - CLOCK_X >= Reach(Hours(Shown)) => line[i] = Untouched
    BY <1>3, <2>1, Zenon DEF CInv, OnDisplay
  <2>3. PICK t \in Word : t = Shown
    <3>1. tick \in Word /\ Shown = Printed(tick)
      BY DEF CInv, ClockTypes, Shown, Printed
    <3> QED  BY <3>1, PrintedIs
  <2>4. ASSUME t > 0, NEW i \in 1 .. Len(Text(t)) PROVE m[CLOCK_X + i - 1] = Text(t)[i]
    <3>1. CLOCK_X + i - 1 \in Cell
      BY TextFits
    <3>2. CLOCK_X + i - 1 # KEY_X
      BY <1>5, TextHas
    <3>3. l[CLOCK_X + i - 1] = Text(t)[i]
      BY <1>1, <2>2, <2>3, <2>4, Zenon DEF Reads
    <3> QED  BY <1>4, <3>1, <3>2, <3>3, Zenon
  <2>5. ASSUME NEW i \in Cell, i - CLOCK_X >= Reach(Hours(t)) PROVE m[i] = Untouched
    <3>1. Reach(Hours(t)) \in Nat
      <4>1. Widest(Hours(t)) \in Nat /\ Len(Suffix) \in Nat
        BY TextIs, HoursHave, ClockConstants
      <4> QED  BY <4>1 DEF Reach
    <3>2. i # KEY_X
      <4>1. i \in Int
        BY ClockConstants DEF Cell
      <4> QED  BY <1>5, <2>5, <3>1, <4>1
    <3>3. l[i] = Untouched
      BY <1>1, <2>2, <2>3, <2>5, Zenon
    <3> QED  BY <1>4, <3>2, <3>3, Zenon
  <2> QED  BY <1>2, <1>3, <2>3, <2>4, <2>5, Zenon DEF Reads
<1> QED  BY <1>6, <1>7 DEF CInv

LEMMA InitCInv == Init => CInv
<1> SUFFICES ASSUME Init PROVE CInv
  OBVIOUS
<1>1. tick = 0 /\ wrapped = FALSE /\ line = [i \in Cell |-> Untouched]
  BY DEF Init, ClockInit
<1>2. 0 \in Word
  BY WordsAre
<1>3. \A i \in Cell : line[i] = Untouched
  BY <1>1
<1>4. line = [i \in Cell |-> line[i]]
  BY <1>1, <1>3
<1>5. Shown = 0
  <2>1. 0 % EVERY = 0
    BY ClockConstants
  <2>2. Shown = 0 - 0
    BY <1>1, <2>1, Zenon DEF Shown
  <2> QED  BY <2>2
<1>6. ~(Shown > 0)
  BY <1>5
<1> QED  BY <1>1, <1>2, <1>3, <1>4, <1>6, Zenon DEF CInv, ClockTypes, OnDisplay

LEMMA AlwaysCInv == Spec => []CInv
<1>1. CInv /\ [Next]_vars => CInv'
  <2> SUFFICES ASSUME CInv, [Next]_vars PROVE CInv'
    OBVIOUS
  <2>1. CASE irq_timer
    BY <2>1, TickInv DEF irq_timer
  <2>2. CASE irq_kb
    BY <2>2, EchoInv
  <2>3. CASE KeyMoves \/ UNCHANGED vars
    <3>1. tick' = tick /\ line' = line /\ wrapped' = wrapped
      BY <2>3 DEF KeyMoves, vars, clock
    <3> QED  BY <3>1, Zenon DEF CInv, ClockTypes, OnDisplay, Shown, Reads, Word, Cell, Reach, Hours
  <2> QED  BY <2>1, <2>2, <2>3 DEF Next
<1> QED  BY <1>1, InitCInv, PTL DEF Spec

(* While the counter of ticks has not wrapped, every print of the first    *)
(* hour is the time since the first tick and it stays whole until the next *)
(* print, whatever keys are shown meanwhile (timer.c:11 to 60).            *)
THEOREM TheFirstHourIsRight == Spec => []FirstHourIsRight
<1>1. CInv => FirstHourIsRight
  <2> SUFFICES ASSUME CInv, Visible, Hours(Shown) = 0 PROVE Reads(Uptime(Shown) \o Suffix)
    BY DEF FirstHourIsRight
  <2>1. Reads(Text(Shown))
    BY DEF CInv, OnDisplay, Visible
  <2>2. tick \in Word /\ Shown = Printed(tick)
    BY DEF CInv, ClockTypes, Shown, Printed
  <2>3. PICK t \in Word : t = Shown
    BY <2>2, PrintedIs
  <2>4. Text(t) = Uptime(t) \o Suffix
    BY <2>3, FirstHourText
  <2> QED  BY <2>1, <2>3, <2>4, Zenon
<1> QED  BY <1>1, AlwaysCInv, PTL

(* However long the hours grow, no character of an earlier text is seen    *)
(* after the last one, except in the tenth hour; and none is written past  *)
(* the display before hours have four digits (timer.c, write.c).           *)
THEOREM NoTextIsLeftOver == Spec => []NothingIsLeftOver
<1>1. CInv => NothingIsLeftOver
  <2> SUFFICES ASSUME CInv, Visible
               PROVE  /\ Hours(Shown) # RADIX - 1 =>
                           \A i \in Cell : i - CLOCK_X >= Len(Text(Shown)) => line[i] = Untouched
                      /\ Hours(Shown) < RADIX * RADIX * RADIX =>
                           \A i \in Cell : i >= COL => line[i] = Untouched
    BY DEF NothingIsLeftOver
  <2>1. tick \in Word /\ Shown = Printed(tick)
    BY DEF CInv, ClockTypes, Shown, Printed
  <2>2. PICK t \in Word, h \in Word : t = Shown /\ h = Hours(t)
    BY <2>1, PrintedIs, TextIs
  <2>3. \A i \in Cell : i - CLOCK_X >= Reach(h) => line[i] = Untouched
    BY <2>2, Zenon DEF CInv, OnDisplay, Visible
  <2>4. Widest(h) \in Nat /\ Len(Suffix) \in Nat /\ CLOCK_X \in Nat /\ COL = CLOCK_X + 9 + Len(Suffix)
    BY HoursHave, ClockConstants
  <2>5. ASSUME h # RADIX - 1, NEW i \in Cell, i - CLOCK_X >= Len(Text(t)) PROVE line[i] = Untouched
    <3>1. Len(Text(t)) = Reach(h)
      <4>1. Width(h) = Widest(h)
        BY <2>5, HoursHave
      <4>2. Len(Text(t)) = Width(h) + 6 + Len(Suffix)
        BY <2>2, TextHas
      <4> QED  BY <4>1, <4>2, Zenon DEF Reach
    <3>2. i - CLOCK_X >= Reach(h)
      BY <2>5, <3>1
    <3> QED  BY <2>3, <3>2, Zenon
  <2>6. ASSUME h < RADIX * RADIX * RADIX, NEW i \in Cell, i >= COL PROVE line[i] = Untouched
    <3>1. Widest(h) <= 3
      <4>1. Len(Decimal[h]) <= 3
        BY <2>6, FewDigits
      <4> QED  BY <4>1 DEF Widest
    <3>2. i \in Int
      BY <2>4 DEF Cell
    <3>3. i - CLOCK_X >= Reach(h)
      BY <2>4, <2>6, <3>1, <3>2 DEF Reach
    <3> QED  BY <2>3, <3>3, Zenon
  <2> QED  BY <2>2, <2>5, <2>6, Zenon
<1> QED  BY <1>1, AlwaysCInv, PTL

=============================================================================
