--------------------------- MODULE Numbers_proofs ---------------------------
(***************************************************************************)
(* Theorems about the module Numbers, for every choice of its constants:   *)
(* the bases, the widths of an int and of a long, the size of the buffer,  *)
(* the values that tasks print and the numbers of the clock.               *)
(*                                                                         *)
(* The inductive invariant NInv says, for each step of itoa and puts, what *)
(* stands in the buffer as long as no tick has disturbed the number - the  *)
(* last digits in reverse, the text half turned back, the rest of the text *)
(* to print - and, in any case, where puts finds an end at the latest.     *)
(*                                                                         *)
(* First come the digits of a number and what a tick leaves in the buffer, *)
(* which both are recursive functions, then the invariant, then one lemma  *)
(* per action.                                                             *)
(***************************************************************************)
EXTENDS Numbers, FiniteSetTheorems, SequenceTheorems, WellFoundedInduction, TLAPS

(* A set of natural numbers has a least element: the initial segments are  *)
(* finite sets, and those are well-founded by strict inclusion.            *)
LEMMA Least ==
  ASSUME NEW T \in SUBSET Nat, T # {}
  PROVE  \E n \in T : \A m \in T : n <= m
  <1> DEFINE Initial == {0 .. i : i \in T}
             Sub == StrictSubsetOrdering(Nat)
             Fin == FiniteSubsetsOf(Nat)
  <1>1. Initial \subseteq Fin
    <2> SUFFICES ASSUME NEW i \in T PROVE 0 .. i \in Fin
      OBVIOUS
    <2>1. i \in Nat
      OBVIOUS
    <2>2. IsFiniteSet(0 .. i)
      BY <2>1, FS_Interval
    <2>3. 0 .. i \in SUBSET Nat
      BY <2>1
    <2> QED
      BY <2>2, <2>3, Zenon DEF FiniteSubsetsOf
  <1>2. Initial # {}
    OBVIOUS
  <1>3. IsWellFoundedOn(Sub, Fin)
    BY FS_StrictSubsetOrderingWellFounded
  <1> HIDE DEF Initial, Sub, Fin
  <1>4. \E I \in Initial : \A J \in Initial : ~(<<J, I>> \in Sub)
    BY <1>1, <1>2, <1>3, WFMin, Zenon
  <1>5. PICK I \in Initial : \A J \in Initial : ~(<<J, I>> \in Sub)
    BY <1>4
  <1>6. PICK n \in T : I = 0 .. n
    BY <1>5 DEF Initial
  <1>7. ASSUME NEW m \in T, m < n PROVE FALSE
    <2>1. 0 .. m \in Initial
      BY DEF Initial
    <2>2. m \in Nat /\ n \in Nat
      OBVIOUS
    <2>3. n \in 0 .. n /\ ~(n \in 0 .. m)
      BY <1>7, <2>2
    <2>4. (0 .. m) \subseteq (0 .. n) /\ (0 .. m) # (0 .. n)
      BY <1>7, <2>2, <2>3
    <2>5. 0 .. m \in SUBSET Nat /\ 0 .. n \in SUBSET Nat
      BY <2>2
    <2>6. \A A, B \in SUBSET Nat : A \subseteq B /\ A # B => <<A, B>> \in Sub
      BY DEF Sub, StrictSubsetOrdering
    <2>7. <<0 .. m, 0 .. n>> \in Sub
      BY <2>4, <2>5, <2>6, Zenon
    <2> QED
      BY <1>5, <1>6, <2>1, <2>7, Zenon
  <1> QED
    BY <1>7

(* Induction over the natural numbers, for the set of those that have a    *)
(* property.                                                               *)
LEMMA ByInduction ==
  ASSUME NEW S \in SUBSET Nat, 0 \in S, \A n \in S : n + 1 \in S
  PROVE  S = Nat
<1>1. ASSUME Nat \ S # {} PROVE FALSE
  <2>1. PICK n \in Nat \ S : \A m \in Nat \ S : n <= m
    BY <1>1, Least
  <2>2. n - 1 \in Nat /\ n - 1 \notin Nat \ S
    BY <2>1
  <2> QED  BY <2>1, <2>2
<1>2. \A n \in Nat : n \in S
  BY <1>1
<1> QED  BY <1>2, Zenon

(* A quotient is smaller than what was divided, and a remainder below the  *)
(* divisor.                                                                *)
LEMMA Quotients ==
  ASSUME NEW n \in Nat, n > 1, NEW v \in Nat
  PROVE  /\ v \div n \in Nat /\ v % n \in 0 .. n - 1 /\ v \div n <= v
         /\ v < n => v \div n = 0 /\ v % n = v
         /\ v >= n => v \div n # 0 /\ v \div n < v
<1>1. PICK q \in Int, r \in 0 .. n - 1 : q = v \div n /\ r = v % n /\ v = n * q + r
  <2>1. v \div n \in Int /\ v % n \in 0 .. n - 1 /\ v = n * (v \div n) + (v % n)
    OBVIOUS
  <2> QED  BY <2>1
<1>2. q >= 0
  <2>1. CASE q <= -1
    <3>1. n * q <= -n
      BY <2>1
    <3> QED  BY <1>1, <3>1
  <2> QED  BY <1>1, <2>1
<1>3. CASE q = 0
  BY <1>1, <1>3
<1>4. CASE q >= 1
  <2>1. n * q >= n /\ n * q >= 2 * q
    BY <1>4
  <2> QED  BY <1>1, <1>4, <2>1
<1> QED  BY <1>1, <1>2, <1>3, <1>4

(* Division is monotone.                                                   *)
LEMMA QuotientsGrow ==
  ASSUME NEW n \in Nat, n > 1, NEW v \in Nat, NEW w \in Nat, v <= w
  PROVE  v \div n <= w \div n
<1>1. PICK q \in Int, r \in 0 .. n - 1 : q = v \div n /\ v = n * q + r
  <2>1. v \div n \in Int /\ v % n \in 0 .. n - 1 /\ v = n * (v \div n) + (v % n)
    OBVIOUS
  <2> QED  BY <2>1
<1>2. PICK p \in Int, s \in 0 .. n - 1 : p = w \div n /\ w = n * p + s
  <2>1. w \div n \in Int /\ w % n \in 0 .. n - 1 /\ w = n * (w \div n) + (w % n)
    OBVIOUS
  <2> QED  BY <2>1
<1>3. CASE q - p >= 1
  <2>1. n * (q - p) >= n
    BY <1>3
  <2>2. n * q - n * p = n * (q - p)
    OBVIOUS
  <2> QED  BY <1>1, <1>2, <2>1, <2>2
<1> QED  BY <1>1, <1>2, <1>3

(* The constants as the proofs use them.                                   *)
LEMMA Parameters ==
  /\ DEC \in Nat /\ DEC > 1 /\ HEX \in Nat /\ HEX > 1 /\ DEC # HEX
  /\ WORD \in Nat /\ WORD > 0 /\ INT \in Nat /\ INT > 0 /\ BUFFER \in Nat /\ PAD \in Nat
BY NumbersParameters

(* The digits of the numbers below a limit, as a function.                 *)
IsDigits(of, base, limit) ==
  of = [n \in 0 .. limit |-> IF n < base THEN <<n>> ELSE Append(of[n \div base], n % base)]

(* The recursive function of the digits exists: for 0, and with one number *)
(* more, by induction.                                                     *)
LEMMA DigitsExist ==
  ASSUME NEW base \in Nat, base > 1, NEW limit \in Nat
  PROVE  \E of : IsDigits(of, base, limit)
<1> DEFINE S == {k \in Nat : \E of : IsDigits(of, base, k)}
           Body(of, n) == IF n < base THEN <<n>> ELSE Append(of[n \div base], n % base)
<1>1. 0 \in S
  <2>1. PICK of : of = [n \in 0 .. 0 |-> <<n>>]
    OBVIOUS
  <2>2. \A n \in 0 .. 0 : of[n] = Body(of, n)
    BY <2>1
  <2>3. of = [n \in 0 .. 0 |-> Body(of, n)]
    BY <2>1, <2>2
  <2> QED  BY <2>3 DEF IsDigits
<1>2. ASSUME NEW k \in S PROVE k + 1 \in S
  <2>1. k \in Nat
    OBVIOUS
  <2>2. PICK g : g = [n \in 0 .. k |-> Body(g, n)]
    BY DEF IsDigits
  <2>3. PICK h : h = [n \in 0 .. k + 1 |-> IF n <= k THEN g[n] ELSE Body(g, n)]
    OBVIOUS
  <2>4. \A n \in 0 .. k + 1 : h[n] = IF n <= k THEN g[n] ELSE Body(g, n)
    BY <2>3
  <2>5. \A n \in 0 .. k : g[n] = Body(g, n)
    BY <2>2
  <2>6. ASSUME NEW n \in 0 .. k + 1 PROVE h[n] = Body(g, n)
    <3>1. CASE n <= k
      <4>1. n \in 0 .. k
        BY <2>1, <3>1
      <4>2. h[n] = g[n]
        BY <2>4, <3>1, Zenon
      <4> QED  BY <2>5, <4>1, <4>2, Zenon
    <3>2. CASE ~(n <= k)
      BY <2>4, <3>2, Zenon
    <3> QED  BY <3>1, <3>2
  <2>7. ASSUME NEW n \in 0 .. k + 1 PROVE h[n] = Body(h, n)
    <3>1. CASE n < base
      BY <2>6, <3>1
    <3>2. CASE ~(n < base)
      <4>1. n \in Nat /\ n >= base
        BY <2>1, <3>2
      <4>2. n \div base \in Nat /\ n \div base < n
        BY <4>1, Quotients
      <4>3. n \div base \in 0 .. k + 1 /\ n \div base <= k
        BY <2>1, <4>2
      <4>4. h[n \div base] = g[n \div base]
        BY <2>4, <4>3
      <4> QED  BY <2>6, <3>2, <4>4
    <3> QED  BY <3>1, <3>2
  <2>8. h = [n \in 0 .. k + 1 |-> h[n]]
    BY <2>3
  <2>9. h = [n \in 0 .. k + 1 |-> Body(h, n)]
    BY <2>7, <2>8
  <2>10. IsDigits(h, base, k + 1)
    BY <2>9, Zenon DEF IsDigits
  <2> QED  BY <2>1, <2>10
<1> HIDE DEF S
<1>3. S \in SUBSET Nat
  BY DEF S
<1>4. S = Nat
  BY <1>1, <1>2, <1>3, ByInduction, Zenon
<1> QED  BY <1>4 DEF S

(* The values of a long.                                                   *)
Word == 0 .. WORD - 1

(* The digits of a number are those of its quotient and its remainder.     *)
LEMMA DigitsIs ==
  ASSUME NEW base \in Nat, base > 1, NEW v \in Word
  PROVE  Digits(base, v) = IF v < base THEN <<v>> ELSE Append(Digits(base, v \div base), v % base)
<1> DEFINE P(of) == of = [n \in 0 .. WORD - 1 |-> IF n < base THEN <<n>> ELSE Append(of[n \div base], n % base)]
           g == CHOOSE of : P(of)
<1>1. WORD - 1 \in Nat
  BY Parameters
<1>2. P(g)
  <2>1. \E of : P(of)
    BY <1>1, DigitsExist DEF IsDigits
  <2> QED  BY <2>1, Zenon
<1>3. \A w : Digits(base, w) = g[w]
  BY DEF Digits
<1>4. PICK of : P(of) /\ of = g
  BY <1>2
<1>5. of[v] = IF v < base THEN <<v>> ELSE Append(of[v \div base], v % base)
  BY <1>4 DEF Word
<1>6. Digits(base, v) = of[v] /\ Digits(base, v \div base) = of[v \div base]
  BY <1>3, <1>4, Zenon
<1> QED  BY <1>5, <1>6, Zenon

(* There are digits, and they are digits.                                  *)
LEMMA DigitsType ==
  ASSUME NEW base \in Nat, base > 1
  PROVE  \A v \in Word : Digits(base, v) \in Seq(0 .. base - 1) /\ Len(Digits(base, v)) >= 1
<1> DEFINE Right(v) == Digits(base, v) \in Seq(0 .. base - 1) /\ Len(Digits(base, v)) >= 1
           S == {k \in Nat : \A v \in Word : v <= k => Right(v)}
<1>0. \A v \in Word : v \in Nat /\ \A w \in Nat : w <= v => w \in Word
  BY Parameters DEF Word
<1>1. 0 \in S
  <2>1. ASSUME NEW v \in Word, v <= 0 PROVE Right(v)
    <3>1. v = 0 /\ v < base
      BY <1>0, <2>1
    <3>2. Digits(base, v) = <<0>>
      BY <3>1, DigitsIs
    <3> QED  BY <3>2
  <2> QED  BY <2>1
<1>2. ASSUME NEW k \in S PROVE k + 1 \in S
  <2>1. k \in Nat /\ \A v \in Word : v <= k => Right(v)
    OBVIOUS
  <2>2. ASSUME NEW v \in Word, v <= k + 1 PROVE Right(v)
    <3>1. CASE v < base
      <4>1. Digits(base, v) = <<v>> /\ v \in 0 .. base - 1
        BY <1>0, <3>1, DigitsIs
      <4> QED  BY <4>1
    <3>2. CASE ~(v < base)
      <4>1. v \in Nat /\ v >= base
        BY <1>0, <3>2
      <4>2. PICK q \in Nat, r \in 0 .. base - 1 : q = v \div base /\ r = v % base /\ q < v
        BY <4>1, Quotients
      <4>3. Digits(base, v) = Append(Digits(base, q), r)
        BY <3>2, <4>2, DigitsIs
      <4>4. q \in Word /\ q <= k
        <5>1. q <= v /\ q <= k
          BY <2>1, <2>2, <4>1, <4>2
        <5>2. q \in Word
          BY <1>0, <4>2, <5>1
        <5> QED  BY <5>1, <5>2
      <4>5. Right(q)
        BY <2>1, <4>4
      <4>6. PICK d \in Seq(0 .. base - 1) : d = Digits(base, q) /\ Len(d) >= 1
        BY <4>5
      <4>7. Append(d, r) \in Seq(0 .. base - 1) /\ Len(Append(d, r)) = Len(d) + 1 /\ Len(d) \in Nat
        OBVIOUS
      <4> QED  BY <4>3, <4>6, <4>7
    <3> QED  BY <3>1, <3>2
  <2> HIDE DEF Right
  <2> QED  BY <2>1, <2>2
<1> HIDE DEF S
<1>3. S \in SUBSET Nat
  BY DEF S
<1>4. S = Nat
  BY <1>1, <1>2, <1>3, ByInduction, Zenon
<1>5. ASSUME NEW v \in Word PROVE Right(v)
  <2>1. v \in S
    BY <1>0, <1>4
  <2> QED  BY <1>0, <2>1 DEF S
<1> QED  BY <1>5

(* The digits of a number and the last of them.                            *)
LEMMA DigitsStep ==
  ASSUME NEW base \in Nat, base > 1, NEW v \in Word
  PROVE  /\ v \div base \in Word /\ v % base \in 0 .. base - 1
         /\ Len(Digits(base, v)) \in Nat
         /\ Digits(base, v)[Len(Digits(base, v))] = v % base
         /\ v \div base = 0 => Len(Digits(base, v)) = 1
         /\ v \div base # 0 =>
              /\ Len(Digits(base, v)) = Len(Digits(base, v \div base)) + 1
              /\ \A k \in 1 .. Len(Digits(base, v \div base)) :
                   Digits(base, v)[k] = Digits(base, v \div base)[k]
<1>0. v \in Nat /\ \A w \in Nat : w <= v => w \in Word
  BY Parameters DEF Word
<1>1. PICK q \in Nat, r \in 0 .. base - 1 :
        /\ q = v \div base /\ r = v % base /\ q <= v
        /\ v < base => q = 0 /\ r = v
        /\ v >= base => q # 0
  BY <1>0, Quotients
<1>2. q \in Word
  BY <1>0, <1>1
<1>3. CASE v < base
  <2>1. Digits(base, v) = <<v>>
    BY <1>3, DigitsIs
  <2> QED  BY <1>1, <1>2, <1>3, <2>1
<1>4. CASE ~(v < base)
  <2>1. PICK d \in Seq(0 .. base - 1) : d = Digits(base, q)
    BY <1>2, DigitsType
  <2>2. Digits(base, v) = Append(d, r)
    BY <1>1, <1>4, <2>1, DigitsIs
  <2>3. /\ Len(Append(d, r)) = Len(d) + 1 /\ Len(d) \in Nat /\ Append(d, r)[Len(d) + 1] = r
        /\ \A k \in 1 .. Len(d) : Append(d, r)[k] = d[k]
    OBVIOUS
  <2>4. q # 0
    BY <1>0, <1>1, <1>4
  <2> QED  BY <1>1, <1>2, <2>1, <2>2, <2>3, <2>4
<1> QED  BY <1>3, <1>4

(* A greater number has no fewer digits.                                   *)
LEMMA DigitsGrow ==
  ASSUME NEW base \in Nat, base > 1
  PROVE  \A v, w \in Word : v <= w => Len(Digits(base, v)) <= Len(Digits(base, w))
<1> DEFINE Grows(v) == \A w \in Word : v <= w => Len(Digits(base, v)) <= Len(Digits(base, w))
           S == {k \in Nat : \A v \in Word : v <= k => Grows(v)}
<1>0. \A v \in Word : v \in Nat /\ \A w \in Nat : w <= v => w \in Word
  BY Parameters DEF Word
<1>1. ASSUME NEW v \in Word, v < base PROVE Grows(v)
  <2>1. Len(Digits(base, v)) = 1
    <3>1. Digits(base, v) = <<v>>
      BY <1>1, DigitsIs
    <3> QED  BY <3>1
  <2> QED  BY <2>1, DigitsType
<1>2. 0 \in S
  BY <1>0, <1>1
<1>3. ASSUME NEW k \in S PROVE k + 1 \in S
  <2>1. k \in Nat /\ \A v \in Word : v <= k => Grows(v)
    OBVIOUS
  <2>2. ASSUME NEW v \in Word, v <= k + 1, ~(v < base), NEW w \in Word, v <= w
        PROVE  Len(Digits(base, v)) <= Len(Digits(base, w))
    <3>1. v \in Nat /\ w \in Nat /\ v >= base /\ w >= base
      BY <1>0, <2>2
    <3>2. PICK q \in Nat, p \in Nat : /\ q = v \div base /\ p = w \div base
                                      /\ q # 0 /\ p # 0 /\ q < v /\ q <= p /\ p < w
      BY <3>1, Quotients, QuotientsGrow, <2>2
    <3>3. q \in Word /\ p \in Word /\ q <= k
      <4>1. q <= v /\ p <= w /\ q <= k
        BY <2>1, <2>2, <3>1, <3>2
      <4>2. q \in Word
        BY <1>0, <3>2, <4>1
      <4>3. p \in Word
        BY <1>0, <3>2, <4>1
      <4> QED  BY <4>1, <4>2, <4>3
    <3>4. Len(Digits(base, q)) <= Len(Digits(base, p))
      BY <2>1, <3>2, <3>3
    <3>5. /\ Len(Digits(base, v)) = Len(Digits(base, q)) + 1
          /\ Len(Digits(base, w)) = Len(Digits(base, p)) + 1
      BY <3>2, DigitsStep
    <3>6. Len(Digits(base, q)) \in Nat /\ Len(Digits(base, p)) \in Nat
      BY <3>3, DigitsStep
    <3> QED  BY <3>4, <3>5, <3>6
  <2>3. ASSUME NEW v \in Word, v <= k + 1 PROVE Grows(v)
    BY <1>1, <2>2, <2>3
  <2> HIDE DEF Grows
  <2> QED  BY <2>1, <2>3
<1> HIDE DEF S
<1>4. S \in SUBSET Nat
  BY DEF S
<1>5. S = Nat
  BY <1>2, <1>3, <1>4, ByInduction, Zenon
<1>6. ASSUME NEW v \in Word PROVE Grows(v)
  <2>1. v \in S
    BY <1>0, <1>5
  <2> QED  BY <1>0, <2>1 DEF S
<1> QED  BY <1>6

(* What a task prints, as itoa is called for it.                           *)
Base == IF asked[1] = "d" THEN DEC ELSE HEX
Number == Argument(asked[1], asked[2])
Char == {NUL} \cup (0 .. DEC - 1) \cup (0 .. HEX - 1)

(* An int is no wider than a long, and half of its values are not          *)
(* negative.                                                               *)
LEMMA WordsAre ==
  /\ INT > 1 /\ INT <= WORD /\ WORD > 1
  /\ INT \div 2 \in Nat /\ INT \div 2 <= INT
<1>1. /\ WORD % INT = 0 /\ INT % 2 = 0 /\ INT \in Nat /\ INT > 0 /\ WORD \in Nat /\ WORD > 0
  BY NumbersParameters
<1>2. INT > 1 /\ INT \div 2 \in Nat /\ INT \div 2 <= INT
  BY <1>1
<1>3. PICK q \in Nat : WORD = INT * q
  <2>1. WORD \div INT \in Nat
    BY <1>1, <1>2, Quotients
  <2>2. WORD = INT * (WORD \div INT) + (WORD % INT)
    BY <1>1
  <2> QED  BY <1>1, <2>1, <2>2
<1>4. q >= 1
  BY <1>1, <1>3
<1>5. INT * q >= INT
  BY <1>1, <1>4
<1> QED  BY <1>2, <1>3, <1>5, <1>1

(* The remainder of a negative number.                                     *)
LEMMA Wraps ==
  ASSUME NEW n \in Nat, n > 1, NEW x \in Int, -n <= x, x < 0
  PROVE  x % n = x + n
<1>1. PICK q \in Int, r \in 0 .. n - 1 : r = x % n /\ x = n * q + r
  <2>1. x \div n \in Int /\ x % n \in 0 .. n - 1 /\ x = n * (x \div n) + (x % n)
    OBVIOUS
  <2> QED  BY <2>1
<1>2. CASE q >= 0
  <2>1. n * q >= 0
    BY <1>2
  <2> QED  BY <1>1, <2>1
<1>3. CASE q <= -2
  <2>1. n * q <= n * (-2)
    BY <1>3
  <2> QED  BY <1>1, <2>1
<1>4. CASE q = -1
  BY <1>1, <1>4
<1> QED  BY <1>1, <1>2, <1>3, <1>4

(* itoa gets the value modulo 2^64: the argument of an int is widened with *)
(* its sign (write.c:49).                                                  *)
LEMMA ArgumentIs ==
  ASSUME NEW c \in Conversion, NEW v \in Word
  PROVE  Argument(c, v) \in Word /\ (c # "p" => Signed(v) % WORD = Argument(c, v))
<1>0. v \in Nat /\ WORD \in Nat /\ INT \in Nat
  BY Parameters DEF Word
<1>1. PICK r \in 0 .. INT - 1 : r = v % INT
  BY <1>0, WordsAre, Quotients
<1>2. CASE r < INT \div 2
  <2>1. r \in Word /\ r < WORD /\ r \in Nat /\ WORD > 1
    BY <1>0, WordsAre DEF Word
  <2>2. r % WORD = r
    BY <1>0, <2>1, Quotients
  <2> QED  BY <1>1, <1>2, <2>1, <2>2 DEF Argument, Signed
<1>3. CASE ~(r < INT \div 2)
  <2>1. PICK x \in Int : x = r - INT /\ -WORD <= x /\ x < 0
    BY <1>0, WordsAre
  <2>2. x % WORD = x + WORD
    BY <1>0, <2>1, WordsAre, Wraps
  <2>3. WORD - INT + r \in Word /\ WORD - INT + r = x + WORD
    BY <1>0, <2>1, WordsAre DEF Word
  <2> QED  BY <1>1, <1>3, <2>1, <2>2, <2>3 DEF Argument, Signed
<1> QED  BY <1>2, <1>3

(* A text of digits, filled up with zeros.                                 *)
Filled(e, d, m) ==
  /\ e \in Seq(Char) /\ Len(e) = m + Len(d)
  /\ \A k \in 1 .. m : e[k] = 0
  /\ \A k \in 1 .. Len(d) : e[m + k] = d[k]
  /\ \A k \in 1 .. Len(e) : e[k] # NUL

(* Zeros before the digits make such a text, and so do none.               *)
LEMMA FilledUp ==
  ASSUME NEW base \in {DEC, HEX}, NEW d \in Seq(0 .. base - 1), NEW m \in Nat
  PROVE  /\ Filled([i \in 1 .. m |-> 0] \o d, d, m)
         /\ Filled(d, d, 0)
<1>1. PICK z \in Seq(0 .. base - 1) : z = [i \in 1 .. m |-> 0] /\ Len(z) = m
  <2>1. 0 \in 0 .. base - 1
    BY Parameters
  <2>2. [i \in 1 .. m |-> 0] \in Seq(0 .. base - 1)
    BY <2>1
  <2>3. Len([i \in 1 .. m |-> 0]) = m
    OBVIOUS
  <2> QED  BY <2>2, <2>3
<1>2. /\ z \o d \in Seq(0 .. base - 1) /\ Len(z \o d) = m + Len(d) /\ Len(d) \in Nat
      /\ \A k \in 1 .. m : (z \o d)[k] = z[k]
      /\ \A k \in 1 .. Len(d) : (z \o d)[m + k] = d[k]
  BY <1>1
<1>3. \A k \in 1 .. m : z[k] = 0
  BY <1>1
<1>4. \A e \in Seq(0 .. base - 1) : e \in Seq(Char) /\ \A k \in 1 .. Len(e) : e[k] # NUL
  <2>1. \A c \in 0 .. base - 1 : c # NUL /\ c \in Char
    BY Parameters DEF NUL, Char
  <2> SUFFICES ASSUME NEW e \in Seq(0 .. base - 1)
               PROVE  e \in Seq(Char) /\ \A k \in 1 .. Len(e) : e[k] # NUL
    OBVIOUS
  <2>2. \A k \in 1 .. Len(e) : e[k] \in 0 .. base - 1
    BY ElementOfSeq
  <2>3. e \in [1 .. Len(e) -> Char] /\ Len(e) \in Nat
    BY <2>1, <2>2
  <2>4. e \in Seq(Char)
    BY <2>3
  <2> QED  BY <2>1, <2>2, <2>4
<1>5. Filled(z \o d, d, m)
  BY <1>2, <1>3, <1>4 DEF Filled
<1>6. Filled(d, d, 0)
  BY <1>2, <1>4 DEF Filled
<1> QED  BY <1>1, <1>5, <1>6

(* The number to print fits in the buffer; in hexadecimal it has PAD       *)
(* digits.                                                                 *)
LEMMA ExpectedIs ==
  ASSUME asked \in Conversion \X Word
  PROVE  /\ Number \in Word /\ Base \in {DEC, HEX} /\ Base \in Nat /\ Base > 1
         /\ Len(Expected) \in 1 .. BUFFER - 1
         /\ Base = HEX => Len(Expected) = PAD
         /\ Base = DEC => Len(Expected) = Len(Digits(Base, Number))
         /\ \E m \in Nat : Filled(Expected, Digits(Base, Number), m)
<1>1. PICK c \in Conversion, v \in Word : c = asked[1] /\ v = asked[2]
  OBVIOUS
<1>2. Number \in Word
  BY <1>1, ArgumentIs DEF Number
<1>3. Base \in {DEC, HEX} /\ Base \in Nat /\ Base > 1 /\ DEC # HEX
  BY Parameters DEF Base
<1>4. (IF c = "p" THEN v ELSE Signed(v) % WORD) = Number
  BY <1>1, ArgumentIs DEF Number, Argument
<1>5. PICK d \in Seq(0 .. Base - 1) : d = Digits(Base, Number) /\ Len(d) >= 1
  BY <1>2, <1>3, DigitsType
<1>6. Expected = IF c = "d" THEN d ELSE [i \in 1 .. PAD - Len(d) |-> 0] \o d
  BY <1>1, <1>4, <1>5 DEF Expected, Base
<1>7. CASE c = "d"
  <2>1. Base = DEC
    BY <1>1, <1>7 DEF Base
  <2>2. Len(d) < BUFFER /\ Len(d) \in Nat /\ BUFFER \in Nat
    BY <1>2, <1>5, <2>1, NumbersParameters DEF Word
  <2>3. Filled(Expected, d, 0)
    BY <1>3, <1>6, <1>7, FilledUp
  <2> QED  BY <1>2, <1>3, <1>5, <1>6, <1>7, <2>1, <2>2, <2>3
<1>8. CASE c # "d"
  <2>1. Base = HEX
    BY <1>1, <1>8 DEF Base
  <2>2. WORD - 1 \in Word /\ Number <= WORD - 1
    BY <1>2, Parameters DEF Word
  <2>3. Len(d) <= Len(Digits(HEX, WORD - 1))
    BY <1>2, <1>3, <1>5, <2>1, <2>2, DigitsGrow
  <2>4. Len(Digits(HEX, WORD - 1)) <= PAD /\ PAD < BUFFER
    BY NumbersParameters
  <2>5. Len(Digits(HEX, WORD - 1)) \in Nat
    BY <2>2, Parameters, DigitsStep
  <2>6. PICK m \in Nat : m = PAD - Len(d)
    BY <1>5, <2>3, <2>4, <2>5, Parameters
  <2>7. Filled(Expected, d, m)
    BY <1>3, <1>6, <1>8, <2>6, FilledUp
  <2>8. Len(Expected) = PAD
    BY <2>6, <2>7, Parameters DEF Filled
  <2>9. PAD \in 1 .. BUFFER - 1
    BY <1>5, <2>3, <2>4, <2>5, Parameters
  <2> QED  BY <1>2, <1>3, <1>5, <2>1, <2>7, <2>8, <2>9
<1> QED  BY <1>7, <1>8

-----------------------------------------------------------------------------
(* Ticks.                                                                  *)

(* How long a number of the clock is.                                      *)
Length(times, k) == Len(Digits(DEC, times[k]))

(* The clock's numbers fit in the buffer too.                              *)
LEMMA TimesAre ==
  ASSUME NEW times \in ClockTimes
  PROVE  /\ Len(times) \in Nat /\ Len(times) >= 1 /\ DOMAIN times = 1 .. Len(times)
         /\ \A k \in 1 .. Len(times) : /\ Digits(DEC, times[k]) \in Seq(0 .. DEC - 1)
                                       /\ Length(times, k) \in 1 .. BUFFER - 1
<1>1. times \in Seq(0 .. INT \div 2 - 1) /\ times # <<>>
  BY NumbersParameters
<1>2. Len(times) \in Nat /\ DOMAIN times = 1 .. Len(times) /\ Len(times) >= 1
  BY <1>1
<1>3. ASSUME NEW k \in 1 .. Len(times)
      PROVE  Digits(DEC, times[k]) \in Seq(0 .. DEC - 1) /\ Length(times, k) \in 1 .. BUFFER - 1
  <2>1. times[k] \in 0 .. INT \div 2 - 1
    BY <1>1, ElementOfSeq
  <2>2. times[k] \in Word
    BY <2>1, WordsAre, Parameters DEF Word
  <2>3. PICK d \in Seq(0 .. DEC - 1) : d = Digits(DEC, times[k]) /\ Len(d) >= 1
    BY <2>2, DigitsType, Parameters
  <2>4. Len(d) < BUFFER
    BY <2>2, <2>3, NumbersParameters DEF Word
  <2> QED  BY <2>3, <2>4, Parameters DEF Length
<1> QED  BY <1>2, <1>3

(* The longest number of a tick.                                           *)
LEMMA Longest ==
  ASSUME NEW times \in ClockTimes
  PROVE  /\ \E k \in 1 .. Len(times) : Span(times) = Length(times, k)
         /\ \A k \in 1 .. Len(times) : Length(times, k) <= Span(times)
<1> DEFINE N == Len(times)
           lengths == {Length(times, k) : k \in 1 .. N}
           T == {n \in Nat : \A k \in 1 .. N : Length(times, k) <= n}
<1>1. N \in Nat /\ N >= 1 /\ \A k \in 1 .. N : Length(times, k) \in 1 .. BUFFER - 1
  BY TimesAre
<1>2. BUFFER \in T
  BY <1>1, Parameters
<1>3. PICK n \in T : \A m \in T : n <= m
  BY <1>2, Least
<1>4. \E k \in 1 .. N : Length(times, k) = n
  <2>1. SUFFICES ASSUME \A k \in 1 .. N : Length(times, k) # n PROVE FALSE
    OBVIOUS
  <2>2. Length(times, 1) <= n /\ Length(times, 1) \in 1 .. BUFFER - 1
    BY <1>1, <1>3
  <2>3. n - 1 \in Nat
    BY <2>2
  <2>4. n - 1 \in T
    BY <1>1, <1>3, <2>1, <2>3
  <2> QED  BY <1>3, <2>3, <2>4
<1>5. n \in lengths /\ \A m \in lengths : m <= n
  BY <1>3, <1>4
<1>6. Span(times) = CHOOSE x \in lengths : \A m \in lengths : m <= x
  BY TimesAre DEF Span, Length
<1>7. Span(times) \in lengths /\ \A m \in lengths : m <= Span(times)
  BY <1>5, <1>6
<1> QED  BY <1>7

(* The rounds of a tick.                                                   *)
IsRound(after, n, times) ==
  after[n] = IF n = 0 THEN buffer ELSE Converted(after[n - 1], Digits(DEC, times[n]))

(* The recursive function of a tick exists: for no number, and with one    *)
(* number more, by induction.                                              *)
LEMMA RoundsExist ==
  ASSUME NEW times, NEW N \in Nat
  PROVE  \E after : after = [n \in 0 .. N |-> IF n = 0 THEN buffer ELSE Converted(after[n - 1], Digits(DEC, times[n]))]
<1> DEFINE Body(after, n) == IF n = 0 THEN buffer ELSE Converted(after[n - 1], Digits(DEC, times[n]))
           S == {k \in Nat : \E after : after = [n \in 0 .. k |-> Body(after, n)]}
<1>1. 0 \in S
  <2>1. PICK after : after = [n \in 0 .. 0 |-> buffer]
    OBVIOUS
  <2>2. DOMAIN after = 0 .. 0 /\ after = [n \in 0 .. 0 |-> after[n]]
    BY <2>1
  <2>3. \A n \in 0 .. 0 : after[n] = Body(after, n)
    BY <2>1
  <2>4. after = [n \in 0 .. 0 |-> Body(after, n)]
    BY <2>2, <2>3
  <2> QED  BY <2>4
<1>2. ASSUME NEW k \in S PROVE k + 1 \in S
  <2>1. k \in Nat
    OBVIOUS
  <2>2. PICK g : g = [n \in 0 .. k |-> Body(g, n)]
    OBVIOUS
  <2>3. PICK h : h = [n \in 0 .. k + 1 |-> IF n <= k THEN g[n] ELSE Converted(g[k], Digits(DEC, times[k + 1]))]
    OBVIOUS
  <2>4. \A n \in 0 .. k + 1 : h[n] = IF n <= k THEN g[n] ELSE Converted(g[k], Digits(DEC, times[k + 1]))
    BY <2>3
  <2>5. \A n \in 0 .. k : g[n] = Body(g, n)
    BY <2>2
  <2>6. ASSUME NEW n \in 0 .. k + 1 PROVE h[n] = Body(h, n)
    <3>1. CASE n = 0
      BY <2>1, <2>4, <2>5, <3>1
    <3>2. CASE n \in 1 .. k
      <4>1. n - 1 \in 0 .. k + 1 /\ n - 1 <= k /\ n <= k /\ n \in 0 .. k /\ n # 0
        BY <2>1, <3>2
      <4>2. h[n - 1] = g[n - 1] /\ h[n] = g[n]
        BY <2>4, <4>1
      <4> QED  BY <2>5, <4>1, <4>2
    <3>3. CASE n = k + 1
      <4>1. n - 1 = k /\ k \in 0 .. k + 1 /\ ~(n <= k) /\ n # 0
        BY <2>1, <3>3
      <4>2. h[k] = g[k] /\ h[n] = Converted(g[k], Digits(DEC, times[n]))
        BY <2>1, <2>4, <3>3, <4>1
      <4> QED  BY <4>1, <4>2, Zenon
    <3> QED  BY <2>1, <3>1, <3>2, <3>3
  <2>7. h = [n \in 0 .. k + 1 |-> h[n]]
    BY <2>3
  <2>8. h = [n \in 0 .. k + 1 |-> Body(h, n)]
    BY <2>6, <2>7
  <2> QED  BY <2>1, <2>8
<1> HIDE DEF S
<1>3. S \in SUBSET Nat
  BY DEF S
<1>4. S = Nat
  BY <1>1, <1>2, <1>3, ByInduction, Zenon
<1> QED  BY <1>4 DEF S

(* A tick ends in the last of its rounds.                                  *)
LEMMA Rounds ==
  ASSUME NEW times \in ClockTimes, NEW N \in Nat, N = Len(times)
  PROVE  \E after : /\ \A n \in 0 .. N : IsRound(after, n, times)
                    /\ Overwritten(times) = after[N]
<1> DEFINE P(after) == after = [n \in 0 .. N |-> IF n = 0 THEN buffer ELSE Converted(after[n - 1], Digits(DEC, times[n]))]
           g == CHOOSE after : P(after)
<1>1. P(g)
  BY RoundsExist, Zenon
<1>2. Overwritten(times) = g[N]
  BY DEF Overwritten
<1>3. PICK after : P(after) /\ after = g
  BY <1>1
<1>4. ASSUME NEW n \in 0 .. N PROVE IsRound(after, n, times)
  BY <1>3 DEF IsRound
<1> QED  BY <1>2, <1>3, <1>4

(* One round writes no further than its terminator.                        *)
LEMMA ConvertedIs ==
  ASSUME NEW b \in [Index -> Char], NEW d \in Seq(0 .. DEC - 1), Len(d) < BUFFER
  PROVE  /\ Converted(b, d) \in [Index -> Char]
         /\ \A m \in Index : Len(d) <= m =>
              Converted(b, d)[m] = IF m = Len(d) THEN NUL ELSE b[m]
<1>1. ASSUME NEW i \in Index
      PROVE  (IF i < Len(d) THEN d[i + 1] ELSE IF i = Len(d) THEN NUL ELSE b[i]) \in Char
  <2>1. i \in Nat /\ Len(d) \in Nat
    BY DEF Index
  <2>2. ASSUME i < Len(d) PROVE d[i + 1] \in 0 .. DEC - 1
    <3>1. i + 1 \in 1 .. Len(d)
      BY <2>1, <2>2
    <3> QED  BY <3>1, ElementOfSeq
  <2>3. b[i] \in Char /\ NUL \in Char
    BY DEF Char
  <2> QED  BY <2>2, <2>3 DEF Char
<1>2. \A i \in Index : Converted(b, d)[i] = IF i < Len(d) THEN d[i + 1] ELSE IF i = Len(d) THEN NUL ELSE b[i]
  BY DEF Converted
<1>3. Converted(b, d) \in [Index -> Char]
  BY <1>1 DEF Converted
<1>4. \A m \in Index : m \in Nat /\ Len(d) \in Nat
  BY DEF Index
<1> QED  BY <1>2, <1>3, <1>4

(* What a tick leaves in the buffer: a NUL after its longest number, and   *)
(* everything that follows as it was.                                      *)
LEMMA TickIs ==
  ASSUME buffer \in [Index -> Char], NEW times \in ClockTimes
  PROVE  /\ Overwritten(times) \in [Index -> Char]
         /\ Span(times) \in Index
         /\ Overwritten(times)[Span(times)] = NUL
         /\ \A m \in Index : Span(times) < m => Overwritten(times)[m] = buffer[m]
<1>1. PICK N \in Nat : N = Len(times)
  BY TimesAre
<1>2. PICK after : (\A n \in 0 .. N : IsRound(after, n, times)) /\ Overwritten(times) = after[N]
  BY <1>1, Rounds
<1> DEFINE L(k) == Length(times, k)
           Fine(n) == /\ after[n] \in [Index -> Char]
                      /\ \A m \in Index : (\A k \in 1 .. n : L(k) <= m) =>
                           after[n][m] = IF \E k \in 1 .. n : L(k) = m THEN NUL ELSE buffer[m]
           S == {n \in Nat : n <= N => Fine(n)}
<1>3. \A k \in 1 .. N : L(k) \in 1 .. BUFFER - 1 /\ Digits(DEC, times[k]) \in Seq(0 .. DEC - 1)
  BY <1>1, TimesAre
<1>4. 0 \in S
  <2>1. after[0] = buffer
    BY <1>1, <1>2 DEF IsRound
  <2>2. Fine(0)
    BY <2>1
  <2> QED  BY <2>2
<1>5. ASSUME NEW n \in S PROVE n + 1 \in S
  <2>1. n \in Nat /\ (n <= N => Fine(n))
    OBVIOUS
  <2>2. ASSUME n + 1 <= N PROVE Fine(n + 1)
    <3>1. n \in 0 .. N /\ n + 1 \in 0 .. N /\ n + 1 \in 1 .. N /\ n + 1 # 0 /\ n + 1 - 1 = n /\ n <= N
      BY <2>1, <2>2
    <3>2. PICK b \in [Index -> Char] : b = after[n]
      BY <2>1, <3>1
    <3>3. PICK d \in Seq(0 .. DEC - 1) : d = Digits(DEC, times[n + 1]) /\ Len(d) = L(n + 1) /\ Len(d) < BUFFER
      BY <1>3, <3>1, Parameters DEF Length
    <3>4. after[n + 1] = Converted(b, d)
      <4>1. IsRound(after, n + 1, times)
        BY <1>2, <3>1
      <4> QED  BY <3>1, <3>2, <3>3, <4>1 DEF IsRound
    <3>5. /\ after[n + 1] \in [Index -> Char]
          /\ \A m \in Index : L(n + 1) <= m => after[n + 1][m] = IF m = L(n + 1) THEN NUL ELSE b[m]
      BY <3>3, <3>4, ConvertedIs
    <3>6. ASSUME NEW m \in Index, \A k \in 1 .. n + 1 : L(k) <= m
          PROVE  after[n + 1][m] = IF \E k \in 1 .. n + 1 : L(k) = m THEN NUL ELSE buffer[m]
      <4>1. \A k \in 1 .. n : k \in 1 .. n + 1
        BY <2>1
      <4>2. \A k \in 1 .. n + 1 : k \in 1 .. n \/ k = n + 1
        BY <2>1
      <4>3. b[m] = IF \E k \in 1 .. n : L(k) = m THEN NUL ELSE buffer[m]
        <5>1. \A k \in 1 .. n : L(k) <= m
          BY <3>6, <4>1
        <5> QED  BY <2>1, <3>1, <3>2, <5>1
      <4>4. n + 1 \in 1 .. n + 1
        BY <2>1
      <4>5. after[n + 1][m] = IF m = L(n + 1) THEN NUL ELSE b[m]
        BY <3>5, <3>6, <4>4
      <4>6. CASE \E k \in 1 .. n : L(k) = m
        BY <4>1, <4>3, <4>5, <4>6
      <4>7. CASE ~(\E k \in 1 .. n : L(k) = m)
        BY <4>2, <4>3, <4>4, <4>5, <4>7
      <4> QED  BY <4>6, <4>7
    <3> QED  BY <3>5, <3>6
  <2> HIDE DEF Fine
  <2> QED  BY <2>1, <2>2
<1> HIDE DEF S
<1>6. S \in SUBSET Nat
  BY DEF S
<1>7. S = Nat
  BY <1>4, <1>5, <1>6, ByInduction, Zenon
<1>8. Fine(N)
  BY <1>1, <1>7 DEF S
<1>9. PICK k \in 1 .. N : Span(times) = L(k)
  BY <1>1, Longest
<1>10. \A j \in 1 .. N : L(j) <= Span(times)
  BY <1>1, Longest
<1>11. Span(times) \in Index
  BY <1>3, <1>9, Parameters DEF Index
<1>12. after[N][Span(times)] = NUL
  BY <1>8, <1>9, <1>10, <1>11
<1>13. ASSUME NEW m \in Index, Span(times) < m PROVE after[N][m] = buffer[m]
  <2>1. \A j \in 1 .. N : L(j) <= m /\ L(j) # m
    <3> SUFFICES ASSUME NEW j \in 1 .. N PROVE L(j) <= m /\ L(j) # m
      OBVIOUS
    <3>1. L(j) \in Int /\ Span(times) \in Int /\ m \in Int /\ L(j) <= Span(times)
      BY <1>3, <1>10, <1>11, Parameters DEF Index
    <3> QED  BY <1>13, <3>1
  <2> QED  BY <1>8, <2>1
<1> QED  BY <1>2, <1>8, <1>11, <1>12, <1>13

(* The state of a printf.                                                  *)
Job == [pc : {"idle", "digit", "pad", "terminate", "reverse", "other", "to low", "to ptr",
              "test", "print"},
        base : {DEC, HEX}, value : Word, count : Nat,
        low : Index, ptr : Int, tmp : Char, other : Char]

(* Types.                                                                  *)
Typed ==
  /\ buffer \in [Index -> Char]
  /\ job \in Job
  /\ asked \in Conversion \X Word
  /\ printed \in Seq(Char)
  /\ disturbed \in BOOLEAN

(* The text in buffer cells 0 .. n - 1, reversed.                          *)
Backwards(n) == \A p \in 0 .. n - 1 : buffer[p] = Expected[Len(Expected) - p]

(* The digits that are not yet written are the first of the number.        *)
Converting ==
  LET rest == Digits(Base, job.value)
  IN  /\ job.base = Base /\ job.low = 0 /\ job.count = job.ptr /\ job.ptr >= 0
      /\ Len(rest) + job.ptr = Len(Digits(Base, Number))
      /\ \A k \in 1 .. Len(rest) : rest[k] = Digits(Base, Number)[k]
      /\ disturbed \/ Backwards(job.ptr)

(* All digits are written, and some of the zeros.                          *)
Padding ==
  /\ job.base = Base /\ job.low = 0 /\ job.count = job.ptr
  /\ Len(Digits(Base, Number)) <= job.ptr /\ job.ptr <= Len(Expected)
  /\ disturbed \/ Backwards(job.ptr)

(* Everything is written.                                                  *)
Terminating ==
  /\ job.low = 0 /\ job.ptr = Len(Expected)
  /\ disturbed \/ Backwards(job.ptr)

(* The end of the string, or of one a tick has written over it.            *)
Limit(n) == n <= Len(Expected) \/ \E times \in ClockTimes : n <= Span(times)
EndFrom(n) == \E i \in Index : i >= n /\ buffer[i] = NUL /\ Limit(i)

(* Halfway through the reversal.                                           *)
Turned ==
  /\ \A p \in 0 .. Len(Expected) - 1 :
       buffer[p] = IF p < job.low \/ p > job.ptr THEN Expected[p + 1] ELSE Expected[Len(Expected) - p]
  /\ buffer[Len(Expected)] = NUL

Turning(sum) ==
  /\ job.low + job.ptr = sum
  /\ EndFrom(Len(Expected))
  /\ disturbed \/ Turned

(* The rest of the text is there, and what was printed is its beginning.   *)
Printing ==
  /\ job.ptr = Len(printed)
  /\ disturbed \/ /\ job.ptr <= Len(Expected)
                  /\ \A p \in job.ptr .. Len(Expected) - 1 : buffer[p] = Expected[p + 1]
                  /\ buffer[Len(Expected)] = NUL
                  /\ \A k \in 1 .. job.ptr : printed[k] = Expected[k]

(* What holds at each step of itoa and puts.                               *)
InDigit == Converting /\ printed = <<>>
InPad == Padding /\ printed = <<>>
InTerminate == Terminating /\ printed = <<>>
InTurn == Turning(Len(Expected) - 1) /\ printed = <<>> /\ job.low <= job.ptr + 1
InOther ==
  /\ Turning(Len(Expected) - 1) /\ printed = <<>> /\ job.low < job.ptr
  /\ disturbed \/ job.tmp = Expected[job.ptr + 1]
InToLow ==
  /\ Turning(Len(Expected) - 1) /\ printed = <<>> /\ job.low < job.ptr
  /\ disturbed \/ (job.tmp = Expected[job.ptr + 1] /\ job.other = Expected[job.low + 1])
InToPtr ==
  /\ Turning(Len(Expected)) /\ printed = <<>> /\ job.low <= job.ptr /\ job.low >= 1
  /\ disturbed \/ job.tmp = Expected[job.ptr + 1]
InTest == Printing /\ EndFrom(job.ptr)
InPutchar ==
  /\ Printing /\ EndFrom(job.ptr + 1)
  /\ disturbed \/ (job.ptr < Len(Expected) /\ job.tmp = Expected[job.ptr + 1])
InIdle == job = Idle /\ Limit(Len(printed)) /\ (disturbed \/ printed = Expected)

(* Each step has its part.                                                 *)
Phase ==
  /\ At("idle") => InIdle
  /\ At("digit") => InDigit
  /\ At("pad") => InPad
  /\ At("terminate") => InTerminate
  /\ At("reverse") => InTurn
  /\ At("other") => InOther
  /\ At("to low") => InToLow
  /\ At("to ptr") => InToPtr
  /\ At("test") => InTest
  /\ At("print") => InPutchar

(* The inductive invariant.                                                *)
NInv == Typed /\ Phase

-----------------------------------------------------------------------------
(* A step of the task in a printf does not change what is to be printed.   *)
LEMMA Same ==
  ASSUME asked' = asked
  PROVE  /\ Expected' = Expected /\ Number' = Number /\ Base' = Base
         /\ \A n : Limit(n)' <=> Limit(n)
<1>1. Expected' = Expected
  BY Zenon DEF Expected
<1>2. Number' = Number /\ Base' = Base
  BY Zenon DEF Number, Base
<1>3. \A n : Limit(n)' <=> Limit(n)
  BY <1>1, Zenon DEF Limit
<1> QED  BY <1>1, <1>2, <1>3

(* The text that is to be printed.                                         *)
IsText(E, T) ==
  /\ E = Expected /\ T = Len(E) /\ E \in Seq(Char)
  /\ T \in 1 .. BUFFER - 1
  /\ \A k \in 1 .. T : E[k] \in Char /\ E[k] # NUL

(* There is such a text.                                                   *)
LEMMA TextIs ==
  ASSUME Typed
  PROVE  \E E, T : IsText(E, T)
<1>1. /\ Len(Expected) \in 1 .. BUFFER - 1
      /\ \E m \in Nat : Filled(Expected, Digits(Base, Number), m)
  BY ExpectedIs DEF Typed
<1>2. PICK E \in Seq(Char) : E = Expected /\ \A k \in 1 .. Len(E) : E[k] # NUL
  BY <1>1 DEF Filled
<1>3. \A k \in 1 .. Len(E) : E[k] \in Char
  BY ElementOfSeq
<1> QED  BY <1>1, <1>2, <1>3 DEF IsText

(* What comes before an end within the limit is within the limit.          *)
LEMMA LimitIs ==
  ASSUME Typed, NEW i \in Int, NEW n \in Int, n <= i, Limit(i)
  PROVE  Limit(n)
<1>1. PICK E, T : IsText(E, T)
  BY TextIs
<1>2. CASE i <= Len(Expected)
  BY <1>1, <1>2, Parameters DEF IsText, Limit
<1>3. CASE \E times \in ClockTimes : i <= Span(times)
  <2>1. PICK times \in ClockTimes : i <= Span(times)
    BY <1>3
  <2>2. Span(times) \in Int
    BY TickIs, Parameters DEF Typed, Index
  <2>3. n <= Span(times)
    BY <2>1, <2>2
  <2> QED  BY <2>3 DEF Limit
<1> QED  BY <1>2, <1>3 DEF Limit

(* An end is still there when the buffer is as it was from there on.       *)
LEMMA EndStays ==
  ASSUME NEW n, EndFrom(n), asked' = asked,
         \A i \in Index : i >= n => buffer'[i] = buffer[i]
  PROVE  EndFrom(n)'
<1>1. PICK i \in Index : i >= n /\ buffer[i] = NUL /\ Limit(i)
  BY DEF EndFrom
<1>2. Index' = Index /\ NUL' = NUL
  OBVIOUS
<1>3. i >= n /\ buffer'[i] = NUL /\ Limit(i)'
  BY <1>1, Same
<1> QED  BY <1>3 DEF EndFrom

(* The invariant holds at first: the printf that was never called is done  *)
(* with the 0 of a fresh buffer.                                           *)
LEMMA InitNInv == Init => NInv
<1> SUFFICES ASSUME Init PROVE NInv
  OBVIOUS
<1>1. asked = <<"d", 0>> /\ printed = <<0>> /\ disturbed = FALSE /\ job = Idle
  BY DEF Init
<1>2. 0 \in Word /\ 0 \in Char /\ NUL \in Char /\ "d" \in Conversion
  BY Parameters DEF Word, Char, Conversion
<1>3. asked \in Conversion \X Word
  BY <1>1, <1>2
<1>4. 0 \in Index
  BY <1>3, ExpectedIs, Parameters DEF Index
<1>5. Idle \in Job
  BY <1>2, <1>4, Parameters DEF Idle, Job
<1>6. printed \in Seq(Char)
  BY <1>1, <1>2
<1>7. Typed
  BY <1>1, <1>2, <1>3, <1>5, <1>6 DEF Init, Typed
<1>8. printed = Expected
  <2>1. Number = 0
    <3>1. 0 \in Nat /\ 0 < INT /\ INT > 1 /\ INT \div 2 > 0
      BY WordsAre, NumbersParameters
    <3>2. 0 % INT = 0
      BY <3>1, Quotients, Parameters
    <3> QED  BY <1>1, <3>1, <3>2 DEF Number, Argument
  <2>2. Signed(0) % WORD = 0
    BY <1>1, <1>2, <2>1, ArgumentIs DEF Number
  <2>3. Digits(DEC, 0) = <<0>>
    BY <1>2, DigitsIs, Parameters
  <2> QED  BY <1>1, <2>2, <2>3 DEF Expected
<1>9. Limit(Len(printed))
  <2>1. PICK E, T : IsText(E, T)
    BY <1>7, TextIs
  <2> QED  BY <1>8, <2>1 DEF Limit, IsText
<1>10. InIdle
  BY <1>1, <1>8, <1>9 DEF InIdle
<1>11. job.pc = "idle"
  BY <1>1 DEF Idle
<1> QED  BY <1>7, <1>10, <1>11 DEF NInv, Phase, At

(* What the steps of the task make of the state of its printf.             *)
Pcs == {"digit", "pad", "terminate", "reverse", "other", "to low", "to ptr", "test", "print"}

(* Digit keeps the type of a printf.                                       *)
LEMMA JobIs ==
  ASSUME NEW j \in Job, NEW ptr \in Int, NEW count \in Nat, NEW value \in Word, NEW pc \in Pcs
  PROVE  [j EXCEPT !.ptr = ptr, !.value = value, !.count = count, !.pc = pc] \in Job
BY DEF Job, Pcs

(* The steps that move ptr keep the type of a printf.                      *)
LEMMA JobAt ==
  ASSUME NEW j \in Job, NEW ptr \in Int, NEW pc \in Pcs
  PROVE  [j EXCEPT !.ptr = ptr, !.pc = pc] \in Job
BY DEF Job, Pcs

(* The step that moves low keeps it.                                       *)
LEMMA JobLow ==
  ASSUME NEW j \in Job, NEW low \in Index, NEW pc \in Pcs
  PROVE  [j EXCEPT !.low = low, !.pc = pc] \in Job
BY DEF Job, Pcs

(* The steps that read a character keep it.                                *)
LEMMA JobReads ==
  ASSUME NEW j \in Job, NEW char \in Char, NEW pc \in Pcs
  PROVE  /\ [j EXCEPT !.tmp = char, !.pc = pc] \in Job
         /\ [j EXCEPT !.other = char, !.pc = pc] \in Job
<1>1. [j EXCEPT !.tmp = char, !.pc = pc] \in Job
  BY DEF Job, Pcs
<1>2. [j EXCEPT !.other = char, !.pc = pc] \in Job
  BY DEF Job, Pcs
<1> QED  BY <1>1, <1>2

(* The step that fills up with a zero keeps it.                            *)
LEMMA JobFills ==
  ASSUME NEW j \in Job, NEW ptr \in Int, NEW count \in Nat
  PROVE  [j EXCEPT !.ptr = ptr, !.count = count] \in Job
BY DEF Job

(* A task that is not in a printf has this type as well.                   *)
LEMMA IdleIs ==
  ASSUME asked \in Conversion \X Word
  PROVE  Idle \in Job
<1>1. 0 \in Word /\ 0 \in Char /\ NUL \in Char
  BY Parameters DEF Word, Char
<1>2. 0 \in Index
  BY ExpectedIs, Parameters DEF Index
<1> QED  BY <1>1, <1>2, Parameters DEF Idle, Job

(* printf keeps the invariant: nothing is written, all digits are to come. *)
LEMMA printfKeeps ==
  ASSUME NInv, NEW c \in Conversion, NEW v \in Values, printf(c, v)
  PROVE  NInv'
<1>1. v \in Word /\ Typed
  BY NumbersParameters DEF Word, NInv
<1>2. /\ asked' = <<c, v>> /\ printed' = <<>> /\ disturbed' = FALSE /\ buffer' = buffer
      /\ job' = [Idle EXCEPT !.pc = "digit", !.value = Argument(c, v),
                             !.base = IF c = "d" THEN DEC ELSE HEX]
  BY DEF printf
<1>3. asked' \in Conversion \X Word
  BY <1>1, <1>2
<1>4. Argument(c, v) \in Word
  BY <1>1, ArgumentIs
<1>5. Base' = (IF c = "d" THEN DEC ELSE HEX) /\ Number' = Argument(c, v)
  <2>1. asked'[1] = c /\ asked'[2] = v
    BY <1>2
  <2> QED  BY <2>1, Zenon DEF Base, Number
<1>6. /\ job'.pc = "digit" /\ job'.value = Argument(c, v) /\ job'.base = Base'
      /\ job'.count = 0 /\ job'.low = 0 /\ job'.ptr = 0
  BY <1>2, <1>5 DEF Idle
<1>7. job' \in Job
  <2>1. Idle \in Job
    BY <1>1, IdleIs DEF Typed
  <2>2. PICK j \in Job : j = Idle
    BY <2>1
  <2>3. PICK b \in {DEC, HEX} : b = IF c = "d" THEN DEC ELSE HEX
    OBVIOUS
  <2>4. job' = [j EXCEPT !.pc = "digit", !.value = Argument(c, v), !.base = b]
    BY <1>2, <2>2, <2>3
  <2>5. Argument(c, v) \in Word
    BY <1>1, ArgumentIs
  <2> QED  BY <2>4, <2>5 DEF Job
<1>8. Typed'
  <2>1. <<>> \in Seq(Char) /\ FALSE \in BOOLEAN
    OBVIOUS
  <2> QED  BY <1>1, <1>2, <1>3, <1>7, <2>1 DEF Typed
<1>9. Digits(Base', Number') \in Seq(0 .. Base' - 1)
  BY <1>4, <1>5, DigitsType, Parameters
<1>10. Len(Digits(Base', Number')) \in Nat
  BY <1>9
<1>11. Backwards(0)'
  BY DEF Backwards
<1>12. Converting'
  BY <1>5, <1>6, <1>10, <1>11 DEF Converting
<1>13. InDigit'
  BY <1>2, <1>12 DEF InDigit
<1> QED  BY <1>6, <1>8, <1>13 DEF NInv, Phase, At

(* The types of what the task works with.                                  *)
LEMMA Typical ==
  ASSUME Typed
  PROVE  /\ job.value \in Word /\ job.count \in Nat /\ job.low \in Index /\ job.low \in Nat
         /\ job.ptr \in Int /\ job.tmp \in Char /\ job.other \in Char
         /\ \A i \in Index : buffer[i] \in Char
<1>1. job \in Job /\ buffer \in [Index -> Char]
  BY DEF Typed
<1>2. /\ job.value \in Word /\ job.count \in Nat /\ job.low \in Index
      /\ job.ptr \in Int /\ job.tmp \in Char /\ job.other \in Char
  BY <1>1 DEF Job
<1> QED  BY <1>1, <1>2 DEF Index

(* Digit keeps the invariant: it writes the last digit of those that are   *)
(* left, behind those that are written (write.c:164 to 173).               *)
LEMMA DigitKeeps ==
  ASSUME NInv, Digit
  PROVE  NInv'
<1>1. Typed /\ At("digit") /\ Converting /\ printed = <<>>
  BY DEF NInv, Phase, Digit, Put, InDigit
<1>2. PICK E, T : IsText(E, T)
  BY <1>1, TextIs
<1>3. Expected' = Expected /\ Number' = Number /\ Base' = Base
  BY Same DEF Digit, Put
<1>4. /\ Number \in Word /\ Base \in {DEC, HEX} /\ Base \in Nat /\ Base > 1
      /\ \E m \in Nat : Filled(Expected, Digits(Base, Number), m)
  BY <1>1, ExpectedIs DEF Typed
<1>5. PICK n \in Nat : n = Base /\ n > 1
  BY <1>4
<1>6. PICK v \in Word : v = job.value
  BY <1>1, Typical
<1>7. PICK q \in Word, r \in 0 .. n - 1 : q = v \div n /\ r = v % n
  BY <1>5, DigitsStep
<1>8. PICK D, d, e : D = Digits(n, Number) /\ d = Digits(n, v) /\ e = Digits(n, q)
  OBVIOUS
<1>9. /\ Len(d) \in Nat /\ Len(d) >= 1 /\ d[Len(d)] = r /\ Len(e) \in Nat
      /\ q = 0 => Len(d) = 1
      /\ q # 0 => Len(d) = Len(e) + 1 /\ \A k \in 1 .. Len(e) : d[k] = e[k]
  <2>1. Len(d) >= 1
    BY <1>5, <1>8, DigitsType
  <2>2. Len(e) \in Nat
    BY <1>5, <1>8, DigitsStep
  <2>3. /\ Len(d) \in Nat /\ d[Len(d)] = r
        /\ q = 0 => Len(d) = 1
        /\ q # 0 => Len(d) = Len(e) + 1 /\ \A k \in 1 .. Len(e) : d[k] = e[k]
    BY <1>5, <1>7, <1>8, DigitsStep
  <2> QED  BY <2>1, <2>2, <2>3
<1>10. PICK p \in Nat : p = job.ptr
  BY <1>1, Typical DEF Converting
<1>11. /\ job.base = n /\ job.low = 0 /\ job.count = p
       /\ Len(d) + p = Len(D) /\ \A k \in 1 .. Len(d) : d[k] = D[k]
       /\ disturbed \/ Backwards(p)
  BY <1>1, <1>5, <1>6, <1>8, <1>10 DEF Converting
<1>12. Len(D) \in Nat /\ Len(D) >= 1
  <2>1. Len(D) >= 1
    BY <1>4, <1>5, <1>8, DigitsType
  <2>2. Len(D) \in Nat
    BY <1>4, <1>5, <1>8, DigitsStep
  <2> QED  BY <2>1, <2>2
<1>13. PICK m \in Nat : /\ T = m + Len(D) /\ \A k \in 1 .. Len(D) : E[m + k] = D[k]
  BY <1>2, <1>4, <1>5, <1>8 DEF Filled, IsText
<1>14. T \in 1 .. BUFFER - 1 /\ BUFFER \in Nat
  BY <1>2, Parameters DEF IsText
<1>15. p \in Index /\ p < T /\ p + 1 <= T
  BY <1>9, <1>11, <1>12, <1>13, <1>14 DEF Index
<1>16. E[T - p] = r
  <2>1. T - p = m + Len(d) /\ Len(d) \in 1 .. Len(D) /\ Len(d) \in 1 .. Len(d)
    <3>1. Len(d) \in Nat /\ Len(d) >= 1 /\ Len(d) + p = Len(D) /\ Len(D) \in Nat /\ T = m + Len(D)
      BY <1>9, <1>11, <1>12, <1>13
    <3> QED  BY <3>1
  <2>2. E[m + Len(d)] = D[Len(d)] /\ D[Len(d)] = r
    BY <1>9, <1>11, <1>13, <2>1
  <2> QED  BY <2>1, <2>2
<1>17. /\ buffer' = [buffer EXCEPT ![p] = r]
       /\ job' = [job EXCEPT !.ptr = p + 1, !.value = q, !.count = p + 1,
                             !.pc = IF q = 0 THEN "pad" ELSE "digit"]
       /\ UNCHANGED <<asked, printed, disturbed>>
  BY <1>1, <1>6, <1>7, <1>10, <1>11 DEF Digit, Put
<1>18. r \in Char
  BY <1>4, <1>5 DEF Char
<1>19. Typed'
  <2>1. buffer' \in [Index -> Char]
    BY <1>1, <1>17, <1>18 DEF Typed
  <2>2. job' \in Job
    <3>1. PICK j \in Job : j = job
      BY <1>1 DEF Typed
    <3>2. PICK pc \in Pcs : pc = IF q = 0 THEN "pad" ELSE "digit"
      BY DEF Pcs
    <3>3. job' = [j EXCEPT !.ptr = p + 1, !.value = q, !.count = p + 1, !.pc = pc]
      BY <1>17, <3>1, <3>2, Zenon
    <3>4. PICK n1 \in Nat : n1 = p + 1 /\ n1 \in Int
      OBVIOUS
    <3>5. [j EXCEPT !.ptr = n1, !.value = q, !.count = n1, !.pc = pc] \in Job
      BY <3>4, JobIs, Zenon
    <3> QED  BY <3>3, <3>4, <3>5, Zenon
  <2> QED  BY <1>1, <1>17, <2>1, <2>2 DEF Typed
<1>20. disturbed' \/ Backwards(p + 1)'
  <2>1. CASE disturbed
    BY <1>17, <2>1
  <2>2. CASE ~disturbed
    <3>1. \A i \in 0 .. p - 1 : buffer[i] = E[T - i]
      BY <1>2, <1>11, <2>2 DEF Backwards, IsText
    <3>2. ASSUME NEW i \in 0 .. p PROVE buffer'[i] = E[T - i]
      <4>1. i \in Index
        BY <1>14, <1>15 DEF Index
      <4>2. CASE i = p
        BY <1>1, <1>16, <1>17, <4>1, <4>2 DEF Typed
      <4>3. CASE i # p
        <5>1. buffer'[i] = buffer[i]
          BY <1>1, <1>15, <1>17, <4>1, <4>3 DEF Typed
        <5> QED  BY <3>1, <4>3, <5>1
      <4> QED  BY <4>2, <4>3
    <3>3. 0 .. p + 1 - 1 = 0 .. p
      OBVIOUS
    <3>4. E = Expected' /\ T = Len(Expected')
      BY <1>2, <1>3 DEF IsText
    <3> QED  BY <3>2, <3>3, <3>4 DEF Backwards
  <2> QED  BY <2>1, <2>2
<1>21. /\ job'.ptr = p + 1 /\ job'.count = p + 1 /\ job'.value = q /\ job'.base = n /\ job'.low = 0
       /\ job'.pc = IF q = 0 THEN "pad" ELSE "digit"
  BY <1>1, <1>11, <1>17 DEF Typed, Job
<1>22. printed' = <<>>
  BY <1>1, <1>17
<1>23. CASE q = 0
  <2>1. Len(D) <= p + 1
    <3>1. Len(d) = 1 /\ Len(d) + p = Len(D)
      BY <1>9, <1>11, <1>23
    <3> QED  BY <3>1
  <2>2. Padding'
    <3>1. Base' = n /\ Digits(Base', Number') = D /\ Len(Expected') = T
      BY <1>2, <1>3, <1>5, <1>8 DEF IsText
    <3> QED  BY <1>15, <1>20, <1>21, <2>1, <3>1 DEF Padding
  <2>3. InPad'
    BY <1>22, <2>2 DEF InPad
  <2>4. job'.pc = "pad"
    BY <1>21, <1>23
  <2> QED  BY <1>19, <2>3, <2>4 DEF NInv, Phase, At
<1>24. CASE q # 0
  <2>1. Len(e) + (p + 1) = Len(D)
    BY <1>9, <1>11, <1>12, <1>24
  <2>2. \A k \in 1 .. Len(e) : e[k] = D[k]
    <3>1. \A k \in 1 .. Len(e) : k \in 1 .. Len(d)
      BY <1>9, <1>24
    <3> QED  BY <1>9, <1>11, <1>24, <3>1
  <2>3. Converting'
    <3>1. Base' = n /\ Digits(Base', Number') = D
      BY <1>3, <1>5, <1>8
    <3>2. Digits(Base', job'.value) = e
      BY <1>8, <1>21, <3>1
    <3>3. p + 1 >= 0
      OBVIOUS
    <3> QED  BY <1>20, <1>21, <2>1, <2>2, <3>1, <3>2, <3>3 DEF Converting
  <2>4. InDigit'
    BY <1>22, <2>3 DEF InDigit
  <2>5. job'.pc = "digit"
    BY <1>21, <1>24
  <2> QED  BY <1>19, <2>4, <2>5 DEF NInv, Phase, At
<1> QED  BY <1>23, <1>24

(* The text does not change in a step of the task.                         *)
LEMMA TextStays ==
  ASSUME Typed, asked' = asked
  PROVE  \E E, T : IsText(E, T) /\ E = Expected' /\ T = Len(Expected')
BY TextIs, Same DEF IsText

(* A character put into the buffer.                                        *)
LEMMA PutIs ==
  ASSUME Typed, NEW at \in Index, NEW char \in Char, buffer' = [buffer EXCEPT ![at] = char],
         UNCHANGED <<asked, printed, disturbed>>, job' \in Job
  PROVE  /\ Typed'
         /\ \A i \in Index : buffer'[i] = IF i = at THEN char ELSE buffer[i]
<1>1. buffer \in [Index -> Char]
  BY DEF Typed
<1>2. \A i \in Index : buffer'[i] = IF i = at THEN char ELSE buffer[i]
  BY <1>1
<1>3. buffer' \in [Index -> Char]
  BY <1>1
<1> QED  BY <1>2, <1>3 DEF Typed

(* Pad keeps the invariant: the zeros it writes are the first characters   *)
(* of the text (write.c:174 and 175).                                      *)
LEMMA PadKeeps ==
  ASSUME NInv, Pad
  PROVE  NInv'
<1>1. Typed /\ At("pad") /\ Padding /\ printed = <<>> /\ asked' = asked
  BY DEF NInv, Phase, Pad, Put, Get, InPad
<1>2. PICK E, T : IsText(E, T) /\ E = Expected' /\ T = Len(Expected')
  BY <1>1, TextStays
<1>3. Number' = Number /\ Base' = Base
  BY <1>1, Same
<1>4. /\ Number \in Word /\ Base \in {DEC, HEX} /\ Base \in Nat /\ Base > 1
      /\ Base = HEX => Len(Expected) = PAD
      /\ Base = DEC => Len(Expected) = Len(Digits(Base, Number))
      /\ \E m \in Nat : Filled(Expected, Digits(Base, Number), m)
  BY <1>1, ExpectedIs DEF Typed
<1>5. PICK n, D : n \in Nat /\ n = Base /\ n > 1 /\ D = Digits(n, Number)
  BY <1>4
<1>6. Len(D) \in Nat
  BY <1>4, <1>5, DigitsStep
<1>7. PICK m \in Nat : T = m + Len(D) /\ \A k \in 1 .. m : E[k] = 0
  BY <1>2, <1>4, <1>5 DEF Filled, IsText
<1>8. PICK j \in Job : j = job
  BY <1>1 DEF Typed
<1>9. PICK p \in Nat : p = job.ptr
  BY <1>1, Typical DEF Padding
<1>10. /\ job.base = n /\ job.low = 0 /\ job.count = p /\ job.pc = "pad"
       /\ Len(D) <= p /\ p <= T /\ (disturbed \/ Backwards(p))
  BY <1>1, <1>2, <1>5, <1>9 DEF Padding, IsText, At
<1>11. T \in 1 .. BUFFER - 1 /\ BUFFER \in Nat /\ PAD \in Nat
  BY <1>2, Parameters DEF IsText
<1>12. CASE p < PAD /\ n = HEX
  <2>1. T = PAD
    BY <1>2, <1>4, <1>5, <1>12 DEF IsText
  <2>2. p \in Index /\ p + 1 <= T /\ T - p \in 1 .. m
    BY <1>6, <1>7, <1>10, <1>11, <1>12, <2>1 DEF Index
  <2>3. /\ buffer' = [buffer EXCEPT ![p] = 0]
        /\ job' = [j EXCEPT !.ptr = p + 1, !.count = p + 1]
        /\ UNCHANGED <<asked, printed, disturbed>>
    BY <1>8, <1>9, <1>10, <1>12 DEF Pad, Put
  <2>4. job' \in Job
    <3>1. PICK n1 \in Nat : n1 = p + 1 /\ n1 \in Int
      OBVIOUS
    <3> QED  BY <2>3, <3>1, JobFills, Zenon
  <2>5. 0 \in Char
    BY Parameters DEF Char
  <2>6. Typed' /\ \A i \in Index : buffer'[i] = IF i = p THEN 0 ELSE buffer[i]
    BY <1>1, <2>2, <2>3, <2>4, <2>5, PutIs
  <2>7. disturbed' \/ Backwards(p + 1)'
    <3>1. CASE disturbed
      BY <2>3, <3>1
    <3>2. CASE ~disturbed
      <4>1. \A i \in 0 .. p - 1 : buffer[i] = E[T - i]
        BY <1>2, <1>10, <3>2 DEF Backwards, IsText
      <4>2. ASSUME NEW i \in 0 .. p PROVE buffer'[i] = E[T - i]
        <5>1. i \in Index
          BY <1>11, <2>2 DEF Index
        <5>2. CASE i = p
          BY <1>7, <2>2, <2>6, <5>1, <5>2
        <5>3. CASE i # p
          BY <2>6, <4>1, <5>1, <5>3
        <5> QED  BY <5>2, <5>3
      <4>3. 0 .. p + 1 - 1 = 0 .. p
        OBVIOUS
      <4> QED  BY <1>2, <4>2, <4>3 DEF Backwards
    <3> QED  BY <3>1, <3>2
  <2>8. /\ job'.ptr = p + 1 /\ job'.count = p + 1 /\ job'.base = n /\ job'.low = 0 /\ job'.pc = "pad"
    BY <1>8, <1>10, <2>3 DEF Job
  <2>9. Padding'
    <3>1. Base' = n /\ Digits(Base', Number') = D
      BY <1>3, <1>5
    <3>2. Len(D) <= p + 1
      BY <1>6, <1>10
    <3> QED  BY <1>2, <2>2, <2>7, <2>8, <3>1, <3>2 DEF Padding
  <2>10. InPad'
    BY <1>1, <2>3, <2>9 DEF InPad
  <2> QED  BY <2>6, <2>8, <2>10 DEF NInv, Phase, At
<1>13. CASE ~(p < PAD /\ n = HEX)
  <2>1. p = T
    <3>1. CASE n = HEX
      <4>1. T = PAD
        BY <1>2, <1>4, <1>5, <3>1 DEF IsText
      <4> QED  BY <1>10, <1>11, <1>13, <3>1, <4>1
    <3>2. CASE n # HEX
      <4>1. T = Len(D)
        BY <1>2, <1>4, <1>5, <3>2 DEF IsText
      <4> QED  BY <1>6, <1>10, <1>11, <4>1
    <3> QED  BY <3>1, <3>2
  <2>2. /\ job' = [j EXCEPT !.pc = "terminate"] /\ buffer' = buffer
        /\ UNCHANGED <<asked, printed, disturbed>>
    BY <1>8, <1>10, <1>13 DEF Pad, Get
  <2>3. job' \in Job
    BY <2>2 DEF Job
  <2>4. Typed'
    BY <1>1, <2>2, <2>3 DEF Typed
  <2>5. job'.ptr = p /\ job'.low = 0 /\ job'.pc = "terminate"
    BY <1>8, <1>9, <1>10, <2>2 DEF Job
  <2>6. disturbed' \/ Backwards(p)'
    BY <1>2, <1>10, <2>2 DEF Backwards, IsText
  <2>7. Terminating'
    BY <1>2, <2>1, <2>5, <2>6 DEF Terminating
  <2>8. InTerminate'
    BY <1>1, <2>2, <2>7 DEF InTerminate
  <2> QED  BY <2>4, <2>5, <2>8 DEF NInv, Phase, At
<1> QED  BY <1>12, <1>13

(* Terminate keeps the invariant: the text stands reversed before the      *)
(* terminator (write.c:178).                                               *)
LEMMA TerminateKeeps ==
  ASSUME NInv, Terminate
  PROVE  NInv'
<1>1. Typed /\ At("terminate") /\ Terminating /\ printed = <<>> /\ asked' = asked
  BY DEF NInv, Phase, Terminate, Put, InTerminate
<1>2. PICK E, T : IsText(E, T) /\ E = Expected' /\ T = Len(Expected')
  BY <1>1, TextStays
<1>3. PICK j \in Job : j = job
  BY <1>1 DEF Typed
<1>4. T \in 1 .. BUFFER - 1 /\ BUFFER \in Nat /\ T \in Index
  BY <1>2, Parameters DEF IsText, Index
<1>5. job.low = 0 /\ job.ptr = T /\ (disturbed \/ Backwards(T))
  BY <1>1, <1>2 DEF Terminating, IsText
<1>6. /\ buffer' = [buffer EXCEPT ![T] = NUL]
      /\ job' = [j EXCEPT !.ptr = T - 1, !.pc = "reverse"]
      /\ UNCHANGED <<asked, printed, disturbed>>
  BY <1>3, <1>5 DEF Terminate, Put
<1>7. job' \in Job
  <2>1. PICK p \in Int : p = T - 1
    BY <1>4
  <2>2. "reverse" \in Pcs
    BY DEF Pcs
  <2> QED  BY <1>6, <2>1, <2>2, JobAt, Zenon
<1>8. Typed' /\ \A i \in Index : buffer'[i] = IF i = T THEN NUL ELSE buffer[i]
  BY <1>1, <1>4, <1>6, <1>7, PutIs DEF Char
<1>9. job'.low = 0 /\ job'.ptr = T - 1 /\ job'.pc = "reverse"
  BY <1>3, <1>5, <1>6 DEF Job
<1>10. EndFrom(T)'
  <2>1. Limit(T)'
    BY <1>2, <1>4 DEF Limit
  <2>2. buffer'[T] = NUL /\ T >= T
    BY <1>4, <1>8
  <2> QED  BY <1>4, <2>1, <2>2 DEF EndFrom
<1>11. disturbed' \/ Turned'
  <2>1. CASE disturbed
    BY <1>6, <2>1
  <2>2. CASE ~disturbed
    <3>1. \A i \in 0 .. T - 1 : buffer[i] = E[T - i]
      BY <1>2, <1>5, <2>2 DEF Backwards, IsText
    <3>2. ASSUME NEW i \in 0 .. T - 1
          PROVE  buffer'[i] = IF i < job'.low \/ i > job'.ptr THEN E[i + 1] ELSE E[T - i]
      <4>1. i \in Index /\ i # T /\ ~(i < 0 \/ i > T - 1)
        BY <1>4 DEF Index
      <4>2. buffer'[i] = E[T - i]
        BY <1>8, <3>1, <4>1
      <4> QED  BY <1>9, <4>1, <4>2
    <3>3. buffer'[T] = NUL
      BY <1>4, <1>8
    <3> QED  BY <1>2, <3>2, <3>3 DEF Turned
  <2> QED  BY <2>1, <2>2
<1>12. Turning(Len(Expected) - 1)'
  <2>1. Turning(T - 1)'
    <3>1. 0 + (T - 1) = T - 1
      BY <1>4
    <3> QED  BY <1>2, <1>9, <1>10, <1>11, <3>1 DEF Turning
  <2> QED  BY <1>2, <2>1 DEF Turning
<1>13. InTurn'
  <2>1. 0 <= T - 1 + 1
    BY <1>4
  <2> QED  BY <1>1, <1>6, <1>9, <1>12, <2>1 DEF InTurn
<1> QED  BY <1>8, <1>9, <1>13 DEF NInv, Phase, At

(* A step of the reversal that only reads.                                 *)
LEMMA TurningStays ==
  ASSUME NEW s, Turning(s), UNCHANGED <<buffer, asked, disturbed>>,
         job'.low = job.low, job'.ptr = job.ptr
  PROVE  Turning(s)'
<1>1. Expected' = Expected
  BY Same
<1>2. EndFrom(Len(Expected))'
  <2>1. EndFrom(Len(Expected))
    BY DEF Turning
  <2>2. PICK n : n = Len(Expected)
    OBVIOUS
  <2>3. EndFrom(n)'
    BY <2>1, <2>2, EndStays
  <2> QED  BY <1>1, <2>2, <2>3, Zenon
<1>3. disturbed' \/ Turned'
  <2>1. disturbed \/ Turned
    BY DEF Turning
  <2>2. Turned => Turned'
    BY <1>1, Zenon DEF Turned
  <2> QED  BY <2>1, <2>2
<1>4. job'.low + job'.ptr = s
  BY DEF Turning
<1> QED  BY <1>2, <1>3, <1>4 DEF Turning

(* What the reversal knows of the buffer.                                  *)
HalfTurned(E, T, low, ptr) ==
  /\ \A p \in 0 .. T - 1 : buffer[p] = IF p < low \/ p > ptr THEN E[p + 1] ELSE E[T - p]
  /\ buffer[T] = NUL

(* A state of the reversal, in terms of the text.                          *)
LEMMA TurningIs ==
  ASSUME NEW s \in Int, Typed, Turning(s), NEW E, NEW T, IsText(E, T)
  PROVE  \E low \in Nat, ptr \in Int :
           /\ low = job.low /\ ptr = job.ptr /\ low \in Index /\ low + ptr = s
           /\ EndFrom(T) /\ (disturbed \/ HalfTurned(E, T, low, ptr))
<1>1. job.low \in Nat /\ job.low \in Index /\ job.ptr \in Int
  BY Typical
<1>2. E = Expected /\ T = Len(Expected)
  BY DEF IsText
<1>3. disturbed \/ HalfTurned(E, T, job.low, job.ptr)
  BY <1>2, Zenon DEF Turning, Turned, HalfTurned
<1>4. job.low + job.ptr = s /\ EndFrom(T)
  BY <1>2 DEF Turning
<1> QED  BY <1>1, <1>3, <1>4

(* Turn keeps the invariant: where low and ptr meet or pass each other,    *)
(* the text is turned (write.c:181).                                       *)
LEMMA TurnKeeps ==
  ASSUME NInv, Turn
  PROVE  NInv'
<1>1. /\ Typed /\ At("reverse") /\ Turning(Len(Expected) - 1) /\ printed = <<>>
      /\ job.low <= job.ptr + 1 /\ UNCHANGED <<buffer, asked, printed, disturbed>>
  BY DEF NInv, Phase, Turn, Get, InTurn
<1>2. PICK E, T : IsText(E, T) /\ E = Expected' /\ T = Len(Expected')
  BY <1>1, TextStays
<1>3. T \in 1 .. BUFFER - 1 /\ BUFFER \in Nat /\ T \in Index
  BY <1>2, Parameters DEF IsText, Index
<1>4. T = Len(Expected) /\ E = Expected /\ T - 1 \in Int
  BY <1>2, <1>3 DEF IsText
<1>5. PICK low \in Nat, ptr \in Int :
        /\ low = job.low /\ ptr = job.ptr /\ low \in Index /\ low + ptr = T - 1
        /\ EndFrom(T) /\ (disturbed \/ HalfTurned(E, T, low, ptr))
  BY <1>1, <1>2, <1>4, TurningIs
<1>6. low <= ptr + 1
  BY <1>1, <1>5
<1>7. PICK j \in Job : j = job
  BY <1>1 DEF Typed
<1>8. CASE low < ptr
  <2>1. PICK char \in Char : char = buffer[low]
    BY <1>1, <1>5, Typical
  <2>2. job' = [j EXCEPT !.tmp = char, !.pc = "other"]
    BY <1>5, <1>7, <1>8, <2>1 DEF Turn, Get
  <2>3. job' \in Job
    <3>1. "other" \in Pcs
      BY DEF Pcs
    <3> QED  BY <2>2, <3>1, JobReads, Zenon
  <2>4. /\ job'.low = low /\ job'.ptr = ptr /\ job'.tmp = char /\ job'.pc = "other"
    BY <1>5, <1>7, <2>2 DEF Job
  <2>5. Typed'
    BY <1>1, <2>3 DEF Typed
  <2>6. Turning(T - 1)'
    BY <1>1, <1>4, <1>5, <2>4, TurningStays
  <2>7. Turning(Len(Expected) - 1)'
    BY <1>2, <2>6, Zenon DEF Turning
  <2>8. disturbed' \/ job'.tmp = Expected'[job'.ptr + 1]
    <3>1. CASE disturbed
      BY <1>1, <3>1
    <3>2. CASE ~disturbed
      <4>1. low \in 0 .. T - 1 /\ ~(low < low \/ low > ptr) /\ T - low = ptr + 1
        BY <1>3, <1>5, <1>8
      <4>2. char = E[ptr + 1]
        BY <1>5, <2>1, <3>2, <4>1 DEF HalfTurned
      <4> QED  BY <1>2, <2>4, <4>2
    <3> QED  BY <3>1, <3>2
  <2>9. InOther'
    BY <1>1, <1>8, <2>4, <2>7, <2>8 DEF InOther
  <2> QED  BY <2>4, <2>5, <2>9 DEF NInv, Phase, At
<1>9. CASE ~(low < ptr)
  <2>1. job' = [j EXCEPT !.ptr = 0, !.pc = "test"]
    BY <1>5, <1>7, <1>9 DEF Turn, Get
  <2>2. job' \in Job
    <3>1. "test" \in Pcs /\ 0 \in Int
      BY DEF Pcs
    <3> QED  BY <2>1, <3>1, JobAt, Zenon
  <2>3. job'.ptr = 0 /\ job'.pc = "test"
    BY <1>7, <2>1 DEF Job
  <2>4. Typed'
    BY <1>1, <2>2 DEF Typed
  <2>5. EndFrom(0)'
    <3>1. EndFrom(T)'
      BY <1>1, <1>5, EndStays
    <3>2. PICK i \in Index : i >= T /\ buffer'[i] = NUL /\ Limit(i)'
      BY <3>1 DEF EndFrom
    <3>3. i >= 0
      BY DEF Index
    <3> QED  BY <3>2, <3>3 DEF EndFrom
  <2>6. disturbed' \/ /\ 0 <= T
                      /\ \A p \in 0 .. T - 1 : buffer'[p] = E[p + 1]
                      /\ buffer'[T] = NUL
                      /\ \A k \in 1 .. 0 : printed'[k] = E[k]
    <3>1. CASE disturbed
      BY <1>1, <3>1
    <3>2. CASE ~disturbed
      <4>1. HalfTurned(E, T, low, ptr)
        BY <1>5, <3>2
      <4>2. ASSUME NEW p \in 0 .. T - 1 PROVE buffer[p] = E[p + 1]
        <5>1. CASE p < low \/ p > ptr
          BY <4>1, <5>1 DEF HalfTurned
        <5>2. CASE ~(p < low \/ p > ptr)
          <6>1. T - p = p + 1
            BY <1>3, <1>5, <1>9, <5>2
          <6> QED  BY <4>1, <5>2, <6>1 DEF HalfTurned
        <5> QED  BY <5>1, <5>2
      <4>3. buffer[T] = NUL
        BY <4>1 DEF HalfTurned
      <4> QED  BY <1>1, <1>3, <4>2, <4>3
    <3> QED  BY <3>1, <3>2
  <2>7. Printing'
    <3>1. Len(printed') = 0
      BY <1>1
    <3> QED  BY <1>2, <2>3, <2>6, <3>1 DEF Printing
  <2>8. InTest'
    BY <2>3, <2>5, <2>7 DEF InTest
  <2> QED  BY <2>3, <2>4, <2>8 DEF NInv, Phase, At
<1> QED  BY <1>8, <1>9

(* Other keeps the invariant.                                              *)
LEMMA OtherKeeps ==
  ASSUME NInv, Other
  PROVE  NInv'
<1>1. /\ Typed /\ At("other") /\ Turning(Len(Expected) - 1) /\ printed = <<>> /\ job.low < job.ptr
      /\ disturbed \/ job.tmp = Expected[job.ptr + 1]
      /\ UNCHANGED <<buffer, asked, printed, disturbed>>
  BY DEF NInv, Phase, Other, Get, InOther
<1>2. PICK E, T : IsText(E, T) /\ E = Expected' /\ T = Len(Expected')
  BY <1>1, TextStays
<1>3. T \in 1 .. BUFFER - 1 /\ BUFFER \in Nat /\ T \in Index
  BY <1>2, Parameters DEF IsText, Index
<1>4. T = Len(Expected) /\ E = Expected /\ T - 1 \in Int
  BY <1>2, <1>3 DEF IsText
<1>5. PICK low \in Nat, ptr \in Int :
        /\ low = job.low /\ ptr = job.ptr /\ low \in Index /\ low + ptr = T - 1
        /\ EndFrom(T) /\ (disturbed \/ HalfTurned(E, T, low, ptr))
  BY <1>1, <1>2, <1>4, TurningIs
<1>6. PICK j \in Job : j = job
  BY <1>1 DEF Typed
<1>7. low < ptr /\ ptr \in Index /\ ptr \in 0 .. T - 1
  BY <1>1, <1>3, <1>5 DEF Index
<1>8. PICK char \in Char : char = buffer[ptr]
  BY <1>1, <1>7, Typical
<1>9. job' = [j EXCEPT !.other = char, !.pc = "to low"]
  BY <1>5, <1>6, <1>8 DEF Other, Get
<1>10. job' \in Job
  <2>1. "to low" \in Pcs
    BY DEF Pcs
  <2> QED  BY <1>9, <2>1, JobReads, Zenon
<1>11. /\ job'.low = low /\ job'.ptr = ptr /\ job'.tmp = job.tmp /\ job'.other = char
       /\ job'.pc = "to low"
  BY <1>5, <1>6, <1>9 DEF Job
<1>12. Typed'
  BY <1>1, <1>10 DEF Typed
<1>13. Turning(Len(Expected) - 1)'
  <2>1. Turning(T - 1)'
    BY <1>1, <1>4, <1>5, <1>11, TurningStays
  <2> QED  BY <1>2, <2>1, Zenon DEF Turning
<1>14. disturbed' \/ (job'.tmp = Expected'[job'.ptr + 1] /\ job'.other = Expected'[job'.low + 1])
  <2>1. CASE disturbed
    BY <1>1, <2>1
  <2>2. CASE ~disturbed
    <3>1. ~(ptr < low \/ ptr > ptr) /\ T - ptr = low + 1
      BY <1>3, <1>5, <1>7
    <3>2. char = E[low + 1]
      BY <1>5, <1>7, <1>8, <2>2, <3>1 DEF HalfTurned
    <3>3. job.tmp = E[ptr + 1]
      BY <1>1, <1>4, <1>5, <2>2
    <3> QED  BY <1>2, <1>11, <3>2, <3>3
  <2> QED  BY <2>1, <2>2
<1>15. InToLow'
  BY <1>1, <1>7, <1>11, <1>13, <1>14 DEF InToLow
<1> QED  BY <1>11, <1>12, <1>15 DEF NInv, Phase, At

(* ToLow keeps the invariant: one character more at the front is right,    *)
(* and the terminator is further on (write.c:184).                         *)
LEMMA ToLowKeeps ==
  ASSUME NInv, ToLow
  PROVE  NInv'
<1>1. /\ Typed /\ At("to low") /\ Turning(Len(Expected) - 1) /\ printed = <<>> /\ job.low < job.ptr
      /\ disturbed \/ (job.tmp = Expected[job.ptr + 1] /\ job.other = Expected[job.low + 1])
      /\ UNCHANGED <<asked, printed, disturbed>>
  BY DEF NInv, Phase, ToLow, Put, InToLow
<1>2. PICK E, T : IsText(E, T) /\ E = Expected' /\ T = Len(Expected')
  BY <1>1, TextStays
<1>3. T \in 1 .. BUFFER - 1 /\ BUFFER \in Nat /\ T \in Index
  BY <1>2, Parameters DEF IsText, Index
<1>4. T = Len(Expected) /\ E = Expected /\ T - 1 \in Int
  BY <1>2, <1>3 DEF IsText
<1>5. PICK low \in Nat, ptr \in Int :
        /\ low = job.low /\ ptr = job.ptr /\ low \in Index /\ low + ptr = T - 1
        /\ EndFrom(T) /\ (disturbed \/ HalfTurned(E, T, low, ptr))
  BY <1>1, <1>2, <1>4, TurningIs
<1>6. PICK j \in Job : j = job
  BY <1>1 DEF Typed
<1>7. low < ptr /\ low < T /\ low + 1 <= T /\ low + 1 \in Index
  <2>1. low < ptr
    BY <1>1, <1>5
  <2>2. low + ptr = T - 1
    BY <1>5
  <2> QED  BY <1>3, <2>1, <2>2 DEF Index
<1>8. PICK char \in Char, tmp \in Char : char = job.other /\ tmp = job.tmp
  BY <1>1, Typical
<1>9. buffer' = [buffer EXCEPT ![low] = char] /\ job' = [j EXCEPT !.low = low + 1, !.pc = "to ptr"]
  BY <1>5, <1>6, <1>8 DEF ToLow, Put
<1>10. job' \in Job
  <2>1. "to ptr" \in Pcs
    BY DEF Pcs
  <2> QED  BY <1>7, <1>9, <2>1, JobLow, Zenon
<1>11. /\ job'.low = low + 1 /\ job'.ptr = ptr /\ job'.tmp = tmp /\ job'.pc = "to ptr"
  BY <1>5, <1>6, <1>8, <1>9 DEF Job
<1>12. Typed' /\ \A i \in Index : buffer'[i] = IF i = low THEN char ELSE buffer[i]
  BY <1>1, <1>5, <1>8, <1>9, <1>10, PutIs
<1>13. EndFrom(T)'
  <2>1. \A i \in Index : i >= T => buffer'[i] = buffer[i]
    <3> SUFFICES ASSUME NEW i \in Index, i >= T PROVE buffer'[i] = buffer[i]
      OBVIOUS
    <3>1. i # low
      BY <1>3, <1>7 DEF Index
    <3> QED  BY <1>12, <3>1
  <2> QED  BY <1>1, <1>5, <2>1, EndStays
<1>14. disturbed' \/ Turned'
  <2>1. CASE disturbed
    BY <1>1, <2>1
  <2>2. CASE ~disturbed
    <3>1. ASSUME NEW p \in 0 .. T - 1
          PROVE  buffer'[p] = IF p < low + 1 \/ p > ptr THEN E[p + 1] ELSE E[T - p]
      <4>1. p \in Index /\ p \in Nat
        BY <1>3 DEF Index
      <4>2. CASE p = low
        <5>1. char = E[low + 1]
          BY <1>1, <1>4, <1>5, <1>8, <2>2
        <5>2. buffer'[p] = char /\ p < low + 1
          BY <1>12, <4>1, <4>2
        <5> QED  BY <4>2, <5>1, <5>2
      <4>3. CASE p # low
        <5>1. buffer'[p] = buffer[p]
          BY <1>12, <4>1, <4>3
        <5>2. buffer[p] = IF p < low \/ p > ptr THEN E[p + 1] ELSE E[T - p]
          BY <1>5, <2>2 DEF HalfTurned
        <5>3. p < low + 1 <=> p < low
          BY <4>1, <4>3
        <5> QED  BY <5>1, <5>2, <5>3
      <4> QED  BY <4>2, <4>3
    <3>2. buffer'[T] = NUL
      <4>1. buffer[T] = NUL /\ T # low
        BY <1>3, <1>5, <1>7, <2>2 DEF HalfTurned
      <4> QED  BY <1>3, <1>12, <4>1
    <3> QED  BY <1>2, <1>11, <3>1, <3>2 DEF Turned
  <2> QED  BY <2>1, <2>2
<1>15. Turning(Len(Expected))'
  <2>1. low + 1 + ptr = T
    BY <1>3, <1>5
  <2> QED  BY <1>2, <1>11, <1>13, <1>14, <2>1 DEF Turning
<1>16. disturbed' \/ job'.tmp = Expected'[job'.ptr + 1]
  BY <1>1, <1>2, <1>4, <1>5, <1>8, <1>11
<1>17. InToPtr'
  <2>1. low + 1 <= ptr /\ low + 1 >= 1
    BY <1>5, <1>7
  <2> QED  BY <1>1, <1>11, <1>15, <1>16, <2>1 DEF InToPtr
<1> QED  BY <1>11, <1>12, <1>17 DEF NInv, Phase, At

(* ToPtr keeps the invariant: one character more at the end is right       *)
(* (write.c:185).                                                          *)
LEMMA ToPtrKeeps ==
  ASSUME NInv, ToPtr
  PROVE  NInv'
<1>1. /\ Typed /\ At("to ptr") /\ Turning(Len(Expected)) /\ printed = <<>> /\ job.low <= job.ptr
      /\ job.low >= 1 /\ (disturbed \/ job.tmp = Expected[job.ptr + 1])
      /\ UNCHANGED <<asked, printed, disturbed>>
  BY DEF NInv, Phase, ToPtr, Put, InToPtr
<1>2. PICK E, T : IsText(E, T) /\ E = Expected' /\ T = Len(Expected')
  BY <1>1, TextStays
<1>3. T \in 1 .. BUFFER - 1 /\ BUFFER \in Nat /\ T \in Index
  BY <1>2, Parameters DEF IsText, Index
<1>4. T = Len(Expected) /\ E = Expected /\ T \in Int
  BY <1>2, <1>3 DEF IsText
<1>5. PICK low \in Nat, ptr \in Int :
        /\ low = job.low /\ ptr = job.ptr /\ low \in Index /\ low + ptr = T
        /\ EndFrom(T) /\ (disturbed \/ HalfTurned(E, T, low, ptr))
  BY <1>1, <1>2, <1>4, TurningIs
<1>6. PICK j \in Job : j = job
  BY <1>1 DEF Typed
<1>7. low <= ptr /\ ptr \in Index /\ ptr < T
  <2>1. low <= ptr /\ low >= 1
    BY <1>1, <1>5
  <2>2. low + ptr = T
    BY <1>5
  <2> QED  BY <1>3, <2>1, <2>2 DEF Index
<1>8. PICK char \in Char : char = job.tmp
  BY <1>1, Typical
<1>9. buffer' = [buffer EXCEPT ![ptr] = char] /\ job' = [j EXCEPT !.ptr = ptr - 1, !.pc = "reverse"]
  BY <1>5, <1>6, <1>8 DEF ToPtr, Put
<1>10. job' \in Job
  <2>1. "reverse" \in Pcs /\ ptr - 1 \in Int
    BY DEF Pcs
  <2> QED  BY <1>9, <2>1, JobAt, Zenon
<1>11. /\ job'.low = low /\ job'.ptr = ptr - 1 /\ job'.pc = "reverse"
  BY <1>5, <1>6, <1>9 DEF Job
<1>12. Typed' /\ \A i \in Index : buffer'[i] = IF i = ptr THEN char ELSE buffer[i]
  BY <1>1, <1>7, <1>8, <1>9, <1>10, PutIs
<1>13. EndFrom(T)'
  <2>1. \A i \in Index : i >= T => buffer'[i] = buffer[i]
    <3> SUFFICES ASSUME NEW i \in Index, i >= T PROVE buffer'[i] = buffer[i]
      OBVIOUS
    <3>1. i # ptr
      BY <1>3, <1>7 DEF Index
    <3> QED  BY <1>12, <3>1
  <2> QED  BY <1>1, <1>5, <2>1, EndStays
<1>14. disturbed' \/ Turned'
  <2>1. CASE disturbed
    BY <1>1, <2>1
  <2>2. CASE ~disturbed
    <3>1. ASSUME NEW p \in 0 .. T - 1
          PROVE  buffer'[p] = IF p < low \/ p > ptr - 1 THEN E[p + 1] ELSE E[T - p]
      <4>1. p \in Index /\ p \in Nat
        BY <1>3 DEF Index
      <4>2. CASE p = ptr
        <5>1. char = E[ptr + 1]
          BY <1>1, <1>4, <1>5, <1>8, <2>2
        <5>2. buffer'[p] = char /\ p > ptr - 1
          BY <1>12, <4>1, <4>2
        <5> QED  BY <4>2, <5>1, <5>2
      <4>3. CASE p # ptr
        <5>1. buffer'[p] = buffer[p]
          BY <1>12, <4>1, <4>3
        <5>2. buffer[p] = IF p < low \/ p > ptr THEN E[p + 1] ELSE E[T - p]
          BY <1>5, <2>2 DEF HalfTurned
        <5>3. p > ptr - 1 <=> p > ptr
          BY <4>1, <4>3
        <5> QED  BY <5>1, <5>2, <5>3
      <4> QED  BY <4>2, <4>3
    <3>2. buffer'[T] = NUL
      <4>1. buffer[T] = NUL /\ T # ptr
        BY <1>3, <1>5, <1>7, <2>2 DEF HalfTurned
      <4> QED  BY <1>3, <1>12, <4>1
    <3> QED  BY <1>2, <1>11, <3>1, <3>2 DEF Turned
  <2> QED  BY <2>1, <2>2
<1>15. Turning(Len(Expected) - 1)'
  <2>1. low + (ptr - 1) = T - 1
    BY <1>3, <1>5
  <2> QED  BY <1>2, <1>11, <1>13, <1>14, <2>1 DEF Turning
<1>16. InTurn'
  <2>1. low <= ptr - 1 + 1
    BY <1>5, <1>7
  <2> QED  BY <1>1, <1>11, <1>15, <2>1 DEF InTurn
<1> QED  BY <1>11, <1>12, <1>16 DEF NInv, Phase, At

-----------------------------------------------------------------------------
(* What puts knows of the buffer and of what it has printed.               *)
Halfway(E, T, ptr, b, text) ==
  /\ ptr <= T
  /\ \A p \in ptr .. T - 1 : b[p] = E[p + 1]
  /\ b[T] = NUL
  /\ \A k \in 1 .. ptr : text[k] = E[k]

(* A state of puts, in these terms.                                        *)
LEMMA PrintingIs ==
  ASSUME Typed, NEW E, NEW T, E = Expected, T = Len(Expected)
  PROVE  Printing <=> job.ptr = Len(printed) /\ (disturbed \/ Halfway(E, T, job.ptr, buffer, printed))
BY Zenon DEF Printing, Halfway

(* Test keeps the invariant: without a tick puts meets the terminator      *)
(* where the text ends, and in any case no later than at the end that is   *)
(* left (write.c:130).                                                     *)
LEMMA TestKeeps ==
  ASSUME NInv, Test
  PROVE  NInv'
<1>1. /\ Typed /\ At("test") /\ Printing /\ EndFrom(job.ptr)
      /\ UNCHANGED <<buffer, asked, printed, disturbed>>
  BY DEF NInv, Phase, Test, Get, InTest
<1>2. PICK E, T : IsText(E, T) /\ E = Expected' /\ T = Len(Expected')
  BY <1>1, TextStays
<1>3. T \in 1 .. BUFFER - 1 /\ BUFFER \in Nat /\ T \in Index
  BY <1>2, Parameters DEF IsText, Index
<1>4. PICK ptr \in Nat : /\ ptr = job.ptr /\ ptr = Len(printed)
                         /\ disturbed \/ Halfway(E, T, ptr, buffer, printed)
  <2>1. printed \in Seq(Char) /\ job.ptr = Len(printed)
    BY <1>1 DEF Typed, Printing
  <2>2. Len(printed) \in Nat
    BY <2>1
  <2>3. disturbed \/ Halfway(E, T, job.ptr, buffer, printed)
    BY <1>1, <1>2, PrintingIs DEF IsText
  <2> QED  BY <2>1, <2>2, <2>3
<1>5. PICK i \in Index : i >= ptr /\ buffer[i] = NUL /\ Limit(i)
  BY <1>1, <1>4 DEF EndFrom
<1>6. ptr \in Index /\ i \in Nat
  BY <1>4, <1>5, <1>3 DEF Index
<1>7. PICK j \in Job : j = job
  BY <1>1 DEF Typed
<1>8. CASE buffer[ptr] = NUL
  <2>1. job' = Idle
    BY <1>4, <1>8 DEF Test, Get
  <2>2. job' \in Job /\ job'.pc = "idle"
    <3>1. Idle \in Job
      BY <1>1, IdleIs DEF Typed
    <3>2. Idle.pc = "idle"
      BY DEF Idle
    <3> QED  BY <2>1, <3>1, <3>2
  <2>3. Typed'
    BY <1>1, <2>2 DEF Typed
  <2>4. Limit(Len(printed))'
    <3>1. Limit(ptr)
      BY <1>1, <1>5, <1>6, LimitIs
    <3>2. Limit(ptr)'
      BY <1>1, <3>1, Same
    <3> QED  BY <1>1, <1>4, <3>2, Zenon DEF Limit
  <2>5. disturbed' \/ printed' = Expected'
    <3>1. CASE disturbed
      BY <1>1, <3>1
    <3>2. CASE ~disturbed
      <4>1. Halfway(E, T, ptr, buffer, printed)
        BY <1>4, <3>2
      <4>2. ptr = T
        <5>1. ASSUME ptr < T PROVE FALSE
          <6>1. ptr \in ptr .. T - 1 /\ ptr + 1 \in 1 .. T
            BY <1>3, <5>1
          <6>2. buffer[ptr] = E[ptr + 1] /\ E[ptr + 1] # NUL
            BY <1>2, <4>1, <6>1 DEF Halfway, IsText
          <6> QED  BY <1>8, <6>2
        <5>2. ptr <= T
          BY <4>1 DEF Halfway
        <5> QED  BY <1>3, <5>1, <5>2
      <4>3. PICK text \in Seq(Char) : text = printed
        BY <1>1 DEF Typed
      <4>4. E \in Seq(Char) /\ Len(E) = Len(text) /\ \A k \in 1 .. Len(text) : text[k] = E[k]
        BY <1>2, <1>4, <4>1, <4>2, <4>3 DEF Halfway, IsText
      <4>5. text = E
        BY <4>4, SeqEqual
      <4> QED  BY <1>1, <1>2, <4>3, <4>5
    <3> QED  BY <3>1, <3>2
  <2>6. InIdle'
    <3>1. Idle' = Idle
      BY Zenon DEF Idle
    <3> QED  BY <2>1, <2>4, <2>5, <3>1 DEF InIdle
  <2> QED  BY <2>2, <2>3, <2>6 DEF NInv, Phase, At
<1>9. CASE buffer[ptr] # NUL
  <2>1. PICK char \in Char : char = buffer[ptr]
    BY <1>1, <1>6, Typical
  <2>2. job' = [j EXCEPT !.tmp = char, !.pc = "print"]
    BY <1>4, <1>7, <1>9, <2>1 DEF Test, Get
  <2>3. job' \in Job
    <3>1. "print" \in Pcs
      BY DEF Pcs
    <3> QED  BY <2>2, <3>1, JobReads, Zenon
  <2>4. job'.ptr = ptr /\ job'.tmp = char /\ job'.pc = "print"
    BY <1>4, <1>7, <2>2 DEF Job
  <2>5. Typed'
    BY <1>1, <2>3 DEF Typed
  <2>6. EndFrom(ptr + 1)'
    <3>1. i # ptr
      BY <1>5, <1>9
    <3>2. i >= ptr + 1
      BY <1>5, <1>6, <3>1
    <3>3. Limit(i)' /\ buffer'[i] = NUL
      BY <1>1, <1>5, Same
    <3> QED  BY <3>2, <3>3 DEF EndFrom
  <2>7. Printing'
    <3>1. Len(printed') = ptr /\ (disturbed' \/ Halfway(E, T, ptr, buffer', printed'))
      BY <1>1, <1>4
    <3> QED  BY <1>2, <2>4, <3>1, Zenon DEF Printing, Halfway
  <2>8. disturbed' \/ (ptr < T /\ char = E[ptr + 1])
    <3>1. CASE disturbed
      BY <1>1, <3>1
    <3>2. CASE ~disturbed
      <4>1. Halfway(E, T, ptr, buffer, printed)
        BY <1>4, <3>2
      <4>2. ptr < T
        BY <1>3, <1>9, <4>1 DEF Halfway
      <4>3. ptr \in ptr .. T - 1
        BY <1>3, <4>2
      <4> QED  BY <2>1, <4>1, <4>2, <4>3 DEF Halfway
    <3> QED  BY <3>1, <3>2
  <2>9. InPutchar'
    BY <1>2, <2>4, <2>6, <2>7, <2>8 DEF InPutchar
  <2> QED  BY <2>4, <2>5, <2>9 DEF NInv, Phase, At
<1> QED  BY <1>8, <1>9

(* Putchar keeps the invariant, whether or not the compiler reads the      *)
(* character again (write.c:132 and 133).                                  *)
LEMMA PutcharKeeps ==
  ASSUME NInv, Putchar
  PROVE  NInv'
<1>1. /\ Typed /\ At("print") /\ Printing /\ EndFrom(job.ptr + 1)
      /\ disturbed \/ (job.ptr < Len(Expected) /\ job.tmp = Expected[job.ptr + 1])
      /\ UNCHANGED <<buffer, asked, disturbed>>
  BY DEF NInv, Phase, Putchar, InPutchar
<1>2. PICK E, T : IsText(E, T) /\ E = Expected' /\ T = Len(Expected')
  BY <1>1, TextStays
<1>3. T \in 1 .. BUFFER - 1 /\ BUFFER \in Nat /\ T \in Index
  BY <1>2, Parameters DEF IsText, Index
<1>4. PICK ptr \in Nat : /\ ptr = job.ptr /\ ptr = Len(printed)
                         /\ disturbed \/ Halfway(E, T, ptr, buffer, printed)
  <2>1. printed \in Seq(Char) /\ job.ptr = Len(printed)
    BY <1>1 DEF Typed, Printing
  <2>2. Len(printed) \in Nat
    BY <2>1
  <2>3. disturbed \/ Halfway(E, T, job.ptr, buffer, printed)
    BY <1>1, <1>2, PrintingIs DEF IsText
  <2> QED  BY <2>1, <2>2, <2>3
<1>5. PICK i \in Index : i >= ptr + 1 /\ buffer[i] = NUL /\ Limit(i)
  BY <1>1, <1>4 DEF EndFrom
<1>6. ptr \in Index /\ i \in Nat
  BY <1>4, <1>5, <1>3 DEF Index
<1>7. PICK j \in Job : j = job
  BY <1>1 DEF Typed
<1>8. PICK char \in Char : /\ char \in {job.tmp, buffer[ptr]} /\ printed' = Append(printed, char)
  <2>1. job.tmp \in Char /\ buffer[ptr] \in Char
    BY <1>1, <1>6, Typical
  <2> QED  BY <1>4, <2>1 DEF Putchar
<1>9. job' = [j EXCEPT !.ptr = ptr + 1, !.pc = "test"]
  BY <1>4, <1>7 DEF Putchar
<1>10. job' \in Job
  <2>1. "test" \in Pcs /\ ptr + 1 \in Int
    BY DEF Pcs
  <2> QED  BY <1>9, <2>1, JobAt, Zenon
<1>11. job'.ptr = ptr + 1 /\ job'.pc = "test"
  BY <1>7, <1>9 DEF Job
<1>12. PICK text \in Seq(Char) : text = printed /\ Len(text) = ptr
  BY <1>1, <1>4 DEF Typed
<1>13. /\ Append(text, char) \in Seq(Char) /\ Len(Append(text, char)) = ptr + 1
       /\ \A k \in 1 .. ptr : Append(text, char)[k] = text[k]
       /\ Append(text, char)[ptr + 1] = char
  BY <1>12
<1>14. Typed'
  BY <1>1, <1>8, <1>10, <1>12, <1>13 DEF Typed
<1>15. EndFrom(ptr + 1)'
  BY <1>1, <1>4, EndStays
<1>16. disturbed' \/ Halfway(E, T, ptr + 1, buffer', printed')
  <2>1. CASE disturbed
    BY <1>1, <2>1
  <2>2. CASE ~disturbed
    <3>1. Halfway(E, T, ptr, buffer, text)
      BY <1>4, <1>12, <2>2
    <3>2. ptr < T /\ job.tmp = E[ptr + 1]
      BY <1>1, <1>2, <1>4, <2>2 DEF IsText
    <3>3. buffer[ptr] = E[ptr + 1]
      <4>1. ptr \in ptr .. T - 1
        BY <1>3, <3>2
      <4> QED  BY <3>1, <4>1 DEF Halfway
    <3>4. char = E[ptr + 1]
      BY <1>8, <3>2, <3>3
    <3>5. \A k \in 1 .. ptr + 1 : Append(text, char)[k] = E[k]
      <4> SUFFICES ASSUME NEW k \in 1 .. ptr + 1 PROVE Append(text, char)[k] = E[k]
        OBVIOUS
      <4>1. CASE k \in 1 .. ptr
        <5>1. Append(text, char)[k] = text[k]
          BY <1>13, <4>1
        <5>2. text[k] = E[k]
          BY <3>1, <4>1 DEF Halfway
        <5> QED  BY <5>1, <5>2
      <4>2. CASE k = ptr + 1
        BY <1>13, <3>4, <4>2
      <4>3. k \in 1 .. ptr \/ k = ptr + 1
        OBVIOUS
      <4> QED  BY <4>1, <4>2, <4>3, Zenon
    <3>6. ptr + 1 <= T /\ \A p \in ptr + 1 .. T - 1 : p \in ptr .. T - 1
      BY <1>3, <3>2
    <3>7. Halfway(E, T, ptr + 1, buffer, Append(text, char))
      BY <3>1, <3>5, <3>6 DEF Halfway
    <3> QED  BY <1>1, <1>8, <1>12, <3>7, Zenon
  <2> QED  BY <2>1, <2>2
<1>17. Printing'
  <2>1. Len(printed') = ptr + 1
    BY <1>8, <1>12, <1>13
  <2> QED  BY <1>2, <1>11, <1>16, <2>1, Zenon DEF Printing, Halfway
<1>18. InTest'
  BY <1>11, <1>15, <1>17 DEF InTest
<1> QED  BY <1>11, <1>14, <1>18 DEF NInv, Phase, At

-----------------------------------------------------------------------------
(* A tick leaves an end of the string.                                     *)
LEMMA EndAfterTick ==
  ASSUME Typed, NEW times \in ClockTimes, buffer' = Overwritten(times), asked' = asked,
         NEW n \in Int, EndFrom(n)
  PROVE  EndFrom(n)'
<1>1. PICK i \in Index : i >= n /\ buffer[i] = NUL /\ Limit(i)
  BY DEF EndFrom
<1>2. /\ Span(times) \in Index /\ Overwritten(times)[Span(times)] = NUL
      /\ \A m \in Index : Span(times) < m => Overwritten(times)[m] = buffer[m]
  BY TickIs DEF Typed
<1>3. PICK s \in Index : s = Span(times)
  BY <1>2
<1>4. CASE s < i
  <2>1. buffer'[i] = NUL /\ Limit(i)'
    BY <1>1, <1>2, <1>3, <1>4, Same
  <2> QED  BY <1>1, <2>1 DEF EndFrom
<1>5. CASE ~(s < i)
  <2>1. s \in Int /\ i \in Int /\ s >= n /\ s <= s
    BY <1>1, <1>5 DEF Index
  <2>2. Limit(s)
    BY <1>3, <2>1 DEF Limit
  <2>3. Limit(s)' /\ buffer'[s] = NUL
    BY <1>2, <1>3, <2>2, Same
  <2> QED  BY <2>1, <2>3 DEF EndFrom
<1> QED  BY <1>4, <1>5

(* A tick keeps the invariant: it is harmless before the first digit and   *)
(* after puts has passed what it overwrites, and otherwise disturbs the    *)
(* number, but leaves an end (write.c:284 to 331).                         *)
LEMMA TickKeeps ==
  ASSUME NInv, NEW times \in ClockTimes, irq_timer(times)
  PROVE  NInv'
<1>1. /\ Typed /\ Phase /\ UNCHANGED <<job, asked, printed>>
      /\ buffer' = Overwritten(times) /\ disturbed' = (disturbed \/ ~Harmless(times))
  BY DEF NInv, irq_timer
<1>2. PICK E, T : IsText(E, T) /\ E = Expected' /\ T = Len(Expected')
  BY <1>1, TextStays
<1>3. T \in 1 .. BUFFER - 1 /\ BUFFER \in Nat /\ T \in Index
  BY <1>2, Parameters DEF IsText, Index
<1>4. E = Expected /\ T = Len(Expected)
  BY <1>2 DEF IsText
<1>5. Expected' = Expected /\ Number' = Number /\ Base' = Base /\ \A n : Limit(n) => Limit(n)'
  BY <1>1, Same
<1>6. Typed'
  <2>1. buffer' \in [Index -> Char]
    BY <1>1, TickIs DEF Typed
  <2>2. disturbed' \in BOOLEAN
    BY <1>1 DEF Typed
  <2> QED  BY <1>1, <2>1, <2>2 DEF Typed
<1>7. At("idle") => InIdle'
  <2> SUFFICES ASSUME At("idle") PROVE InIdle'
    OBVIOUS
  <2>1. InIdle
    BY <1>1 DEF Phase
  <2>2. disturbed' \/ printed' = Expected'
    BY <1>1, <1>5, <2>1, Zenon DEF InIdle
  <2>3. Limit(Len(printed))'
    <3>1. PICK n : n = Len(printed)
      OBVIOUS
    <3>2. Limit(n)'
      BY <1>5, <2>1, <3>1, Zenon DEF InIdle
    <3>3. Len(printed') = n
      BY <1>1, <3>1
    <3> QED  BY <3>2, <3>3, Zenon DEF Limit
  <2>4. job' = Idle'
    BY <1>1, <2>1, Zenon DEF InIdle, Idle
  <2> QED  BY <1>1, <2>2, <2>3, <2>4, Zenon DEF InIdle, Limit
<1>8. At("digit") => InDigit'
  <2> SUFFICES ASSUME At("digit") PROVE InDigit'
    OBVIOUS
  <2>1. Converting /\ printed = <<>>
    BY <1>1 DEF Phase, InDigit
  <2>2. disturbed' \/ Backwards(job.ptr)'
    <3>1. CASE job.ptr = 0
      BY <1>1, <3>1 DEF Backwards
    <3>2. CASE job.ptr # 0
      <4>1. ~Harmless(times)
        BY <3>2 DEF Harmless, At
      <4> QED  BY <1>1, <4>1
    <3> QED  BY <3>1, <3>2
  <2>3. Converting'
    BY <1>1, <1>5, <2>1, <2>2, Zenon DEF Converting, Backwards
  <2> QED  BY <1>1, <2>1, <2>3, Zenon DEF InDigit
<1>9. ASSUME At("pad") \/ At("terminate") \/ At("reverse") \/ At("other") \/ At("to low") \/ At("to ptr")
      PROVE  disturbed'
  <2>1. ~Harmless(times)
    BY <1>9 DEF Harmless, At
  <2> QED  BY <1>1, <2>1
<1>10. At("pad") => InPad'
  <2> SUFFICES ASSUME At("pad") PROVE InPad'
    OBVIOUS
  <2>1. Padding /\ printed = <<>> /\ disturbed'
    BY <1>1, <1>9 DEF Phase, InPad
  <2> QED  BY <1>1, <1>5, <2>1, Zenon DEF InPad, Padding
<1>11. At("terminate") => InTerminate'
  <2> SUFFICES ASSUME At("terminate") PROVE InTerminate'
    OBVIOUS
  <2>1. Terminating /\ printed = <<>> /\ disturbed'
    BY <1>1, <1>9 DEF Phase, InTerminate
  <2> QED  BY <1>1, <1>5, <2>1, Zenon DEF InTerminate, Terminating
<1>12. ASSUME disturbed', EndFrom(T), NEW s, job.low + job.ptr = s
       PROVE  Turning(s)'
  <2>1. EndFrom(T)'
    BY <1>1, <1>3, <1>12, EndAfterTick
  <2>2. EndFrom(Len(Expected))'
    BY <1>2, <2>1, Zenon DEF EndFrom, Limit
  <2>3. job'.low + job'.ptr = s
    BY <1>1, <1>12
  <2> QED  BY <1>12, <2>2, <2>3 DEF Turning
<1>13. At("reverse") => InTurn'
  <2> SUFFICES ASSUME At("reverse") PROVE InTurn'
    OBVIOUS
  <2>1. InTurn /\ disturbed'
    BY <1>1, <1>9 DEF Phase
  <2>2. Turning(T - 1)'
    BY <1>4, <1>12, <2>1 DEF InTurn, Turning
  <2>3. Turning(Len(Expected) - 1)'
    BY <1>2, <2>2, Zenon DEF Turning
  <2> QED  BY <1>1, <2>1, <2>3, Zenon DEF InTurn
<1>14. At("other") => InOther'
  <2> SUFFICES ASSUME At("other") PROVE InOther'
    OBVIOUS
  <2>1. InOther /\ disturbed'
    BY <1>1, <1>9 DEF Phase
  <2>2. Turning(T - 1)'
    BY <1>4, <1>12, <2>1 DEF InOther, Turning
  <2>3. Turning(Len(Expected) - 1)'
    BY <1>2, <2>2, Zenon DEF Turning
  <2> QED  BY <1>1, <2>1, <2>3, Zenon DEF InOther
<1>15. At("to low") => InToLow'
  <2> SUFFICES ASSUME At("to low") PROVE InToLow'
    OBVIOUS
  <2>1. InToLow /\ disturbed'
    BY <1>1, <1>9 DEF Phase
  <2>2. Turning(T - 1)'
    BY <1>4, <1>12, <2>1 DEF InToLow, Turning
  <2>3. Turning(Len(Expected) - 1)'
    BY <1>2, <2>2, Zenon DEF Turning
  <2> QED  BY <1>1, <2>1, <2>3, Zenon DEF InToLow
<1>16. At("to ptr") => InToPtr'
  <2> SUFFICES ASSUME At("to ptr") PROVE InToPtr'
    OBVIOUS
  <2>1. InToPtr /\ disturbed'
    BY <1>1, <1>9 DEF Phase
  <2>2. Turning(T)'
    BY <1>4, <1>12, <2>1 DEF InToPtr, Turning
  <2>3. Turning(Len(Expected))'
    BY <1>2, <2>2, Zenon DEF Turning
  <2> QED  BY <1>1, <2>1, <2>3, Zenon DEF InToPtr
<1>17. ASSUME At("test") \/ At("print"), Printing
       PROVE  Printing' /\ job.ptr \in Nat
  <2>1. PICK ptr \in Nat : /\ ptr = job.ptr /\ ptr = Len(printed)
                           /\ disturbed \/ Halfway(E, T, ptr, buffer, printed)
    <3>1. printed \in Seq(Char) /\ job.ptr = Len(printed)
      BY <1>1, <1>17 DEF Typed, Printing
    <3>2. Len(printed) \in Nat
      BY <3>1
    <3>3. disturbed \/ Halfway(E, T, job.ptr, buffer, printed)
      BY <1>1, <1>4, <1>17, PrintingIs
    <3> QED  BY <3>1, <3>2, <3>3
  <2>2. PICK s \in Index : /\ s = Span(times)
                           /\ \A m \in Index : s < m => buffer'[m] = buffer[m]
    BY <1>1, TickIs DEF Typed
  <2>3. disturbed' \/ Halfway(E, T, ptr, buffer', printed')
    <3>1. CASE disturbed \/ ~Harmless(times)
      BY <1>1, <3>1
    <3>2. CASE ~disturbed /\ Harmless(times)
      <4>1. s < ptr
        BY <1>17, <2>1, <2>2, <3>2 DEF Harmless, At
      <4>2. Halfway(E, T, ptr, buffer, printed)
        BY <2>1, <3>2
      <4>3. ptr <= T /\ s < T
        BY <1>3, <2>2, <4>1, <4>2 DEF Halfway, Index
      <4>4. buffer'[T] = NUL
        BY <1>3, <2>2, <4>2, <4>3 DEF Halfway
      <4>5. ASSUME NEW p \in ptr .. T - 1 PROVE buffer'[p] = E[p + 1]
        <5>1. p \in Index /\ s < p
          BY <1>3, <2>2, <4>1 DEF Index
        <5> QED  BY <2>2, <4>2, <5>1 DEF Halfway
      <4> QED  BY <1>1, <4>2, <4>3, <4>4, <4>5 DEF Halfway
    <3> QED  BY <3>1, <3>2
  <2>4. Printing'
    BY <1>1, <1>2, <2>1, <2>3, Zenon DEF Printing, Halfway
  <2> QED  BY <2>1, <2>4
<1>18. At("test") => InTest'
  <2> SUFFICES ASSUME At("test") PROVE InTest'
    OBVIOUS
  <2>1. Printing /\ EndFrom(job.ptr)
    BY <1>1 DEF Phase, InTest
  <2>2. PICK n \in Int : n = job.ptr
    BY <1>17, <2>1
  <2>3. EndFrom(n)'
    BY <1>1, <2>1, <2>2, EndAfterTick
  <2>4. Printing'
    BY <1>17, <2>1
  <2> QED  BY <1>1, <2>2, <2>3, <2>4, Zenon DEF InTest, EndFrom
<1>19. At("print") => InPutchar'
  <2> SUFFICES ASSUME At("print") PROVE InPutchar'
    OBVIOUS
  <2>1. InPutchar
    BY <1>1 DEF Phase
  <2>2. PICK n \in Int : n = job.ptr + 1
    BY <1>17, <2>1 DEF InPutchar
  <2>3. EndFrom(n)'
    BY <1>1, <2>1, <2>2, EndAfterTick DEF InPutchar
  <2>4. Printing'
    BY <1>17, <2>1 DEF InPutchar
  <2>5. EndFrom(job.ptr + 1)'
    BY <1>1, <2>2, <2>3, Zenon DEF EndFrom
  <2>6. disturbed' \/ (job'.ptr < Len(Expected') /\ job'.tmp = Expected'[job'.ptr + 1])
    BY <1>1, <1>5, <2>1, Zenon DEF InPutchar
  <2> QED  BY <2>4, <2>5, <2>6, Zenon DEF InPutchar
<1>20. \A pc : At(pc)' => At(pc)
  BY <1>1, Zenon DEF At
<1>21. Phase'
  BY <1>7, <1>8, <1>10, <1>11, <1>13, <1>14, <1>15, <1>16, <1>18, <1>19, <1>20, Zenon DEF Phase
<1> QED  BY <1>6, <1>21 DEF NInv

(* Every step keeps the invariant.                                         *)
LEMMA NextKeepsNInv == NInv /\ [Next]_vars => NInv'
<1> SUFFICES ASSUME NInv, [Next]_vars PROVE NInv'
  OBVIOUS
<1>1. ASSUME NEW c \in Conversion, NEW v \in Values, printf(c, v) PROVE NInv'
  BY <1>1, printfKeeps
<1>2. CASE Digit
  BY <1>2, DigitKeeps
<1>3. CASE Pad
  BY <1>3, PadKeeps
<1>4. CASE Terminate
  BY <1>4, TerminateKeeps
<1>5. CASE Turn
  BY <1>5, TurnKeeps
<1>6. CASE Other
  BY <1>6, OtherKeeps
<1>7. CASE ToLow
  BY <1>7, ToLowKeeps
<1>8. CASE ToPtr
  BY <1>8, ToPtrKeeps
<1>9. CASE Test
  BY <1>9, TestKeeps
<1>10. CASE Putchar
  BY <1>10, PutcharKeeps
<1>11. ASSUME NEW times \in ClockTimes, irq_timer(times) PROVE NInv'
  BY <1>11, TickKeeps
<1>12. CASE UNCHANGED vars
  <2>1. UNCHANGED <<buffer, job, asked, printed, disturbed>>
    BY <1>12 DEF vars
  <2>2. Expected' = Expected /\ Number' = Number /\ Base' = Base
    BY <2>1, Same
  <2>3. Typed'
    BY <2>1 DEF NInv, Typed
  <2>4. Printing => Printing'
    BY <2>1, <2>2, Zenon DEF Printing
  <2>5. (InIdle => InIdle') /\ (InDigit => InDigit') /\ (InPad => InPad') /\ (InTerminate => InTerminate')
    <3>1. InIdle => InIdle'
      BY <2>1, <2>2, Zenon DEF InIdle, Idle, Limit
    <3>2. InDigit => InDigit'
      BY <2>1, <2>2, Zenon DEF InDigit, Converting, Backwards
    <3>3. InPad => InPad'
      BY <2>1, <2>2, Zenon DEF InPad, Padding, Backwards
    <3>4. InTerminate => InTerminate'
      BY <2>1, <2>2, Zenon DEF InTerminate, Terminating, Backwards
    <3> QED  BY <3>1, <3>2, <3>3, <3>4
  <2>6. (InTurn => InTurn') /\ (InOther => InOther') /\ (InToLow => InToLow') /\ (InToPtr => InToPtr')
    <3>1. InTurn => InTurn'
      BY <2>1, <2>2, Zenon DEF InTurn, Turning, Turned, EndFrom, Limit
    <3>2. InOther => InOther'
      BY <2>1, <2>2, Zenon DEF InOther, Turning, Turned, EndFrom, Limit
    <3>3. InToLow => InToLow'
      BY <2>1, <2>2, Zenon DEF InToLow, Turning, Turned, EndFrom, Limit
    <3>4. InToPtr => InToPtr'
      BY <2>1, <2>2, Zenon DEF InToPtr, Turning, Turned, EndFrom, Limit
    <3> QED  BY <3>1, <3>2, <3>3, <3>4
  <2>7. (InTest => InTest') /\ (InPutchar => InPutchar')
    <3>1. InTest => InTest'
      BY <2>1, <2>2, <2>4, Zenon DEF InTest, EndFrom, Limit
    <3>2. InPutchar => InPutchar'
      BY <2>1, <2>2, <2>4, Zenon DEF InPutchar, EndFrom, Limit
    <3> QED  BY <3>1, <3>2
  <2>8. \A pc : At(pc)' => At(pc)
    BY <2>1, Zenon DEF At
  <2>9. Phase'
    BY <2>5, <2>6, <2>7, <2>8, Zenon DEF NInv, Phase
  <2> QED  BY <2>3, <2>9 DEF NInv
<1> QED
  BY <1>1, <1>2, <1>3, <1>4, <1>5, <1>6, <1>7, <1>8, <1>9, <1>10, <1>11, <1>12 DEF Next, Task

(* The invariant holds throughout: what itoa has written, reversed or half *)
(* turned back, and what puts has printed is a part of the number unless a *)
(* tick has disturbed it, and there is an end to find in the buffer from   *)
(* the terminator's step on.                                               *)
THEOREM AlwaysNInv == Spec => []NInv
<1>1. Init => NInv
  BY InitNInv
<1>2. NInv /\ [Next]_vars => NInv'
  BY NextKeepsNInv
<1> QED  BY <1>1, <1>2, PTL DEF Spec

(* With the invariant, ptr and low stay in the buffer.                     *)
LEMMA NInvTypes == NInv => TypeOK
<1> SUFFICES ASSUME NInv PROVE TypeOK
  OBVIOUS
<1>1. Typed /\ Phase
  BY DEF NInv
<1>2. PICK E, T : IsText(E, T)
  BY <1>1, TextIs
<1>3. T \in 1 .. BUFFER - 1 /\ BUFFER \in Nat /\ E = Expected /\ T = Len(Expected)
  BY <1>2, Parameters DEF IsText
<1>4. /\ job.value \in Word /\ job.low \in Nat /\ job.low \in Index /\ job.ptr \in Int
  BY <1>1, Typical
<1>5. job.pc \in Pcs \cup {"idle"}
  BY <1>1 DEF Typed, Job, Pcs
<1>6. PICK ptr \in Int, low \in Nat : ptr = job.ptr /\ low = job.low
  BY <1>4
<1>7. ptr \in Index
  <2>1. ASSUME NEW s \in Int, Turning(s) PROVE low + ptr = s
    BY <1>6, <2>1 DEF Turning
  <2>2. CASE At("idle")
    <3>1. job.ptr = 0
      <4>1. job = Idle
        BY <1>1, <2>2 DEF Phase, InIdle
      <4>2. Idle.ptr = 0
        BY DEF Idle
      <4> QED  BY <4>1, <4>2
    <3> QED  BY <1>3, <1>6, <3>1 DEF Index
  <2>3. CASE At("digit")
    <3>1. Converting
      BY <1>1, <2>3 DEF Phase, InDigit
    <3>2. /\ Number \in Word /\ Base \in Nat /\ Base > 1
          /\ \E m \in Nat : Filled(Expected, Digits(Base, Number), m)
      BY <1>1, ExpectedIs DEF Typed
    <3>3. PICK m, D, d : /\ D = Digits(Base, Number) /\ d = Digits(Base, job.value)
                         /\ m \in Nat /\ T = m + Len(D)
      BY <1>3, <3>2 DEF Filled
    <3>4. Len(D) \in Nat /\ Len(d) \in Nat
      BY <1>4, <3>2, <3>3, DigitsStep
    <3>5. Len(d) >= 1
      BY <1>4, <3>2, <3>3, DigitsType
    <3>6. ptr >= 0 /\ Len(d) + ptr = Len(D)
      BY <1>6, <3>1, <3>3 DEF Converting
    <3> QED  BY <1>3, <3>3, <3>4, <3>5, <3>6 DEF Index
  <2>4. CASE At("pad")
    <3>1. Padding
      BY <1>1, <2>4 DEF Phase, InPad
    <3>2. Len(Digits(Base, Number)) \in Nat
      BY <1>1, ExpectedIs, DigitsStep DEF Typed
    <3>3. ptr >= 0 /\ ptr <= T
      BY <1>3, <1>6, <3>1, <3>2 DEF Padding
    <3> QED  BY <1>3, <3>3 DEF Index
  <2>5. CASE At("terminate")
    <3>1. ptr = T
      BY <1>1, <1>3, <1>6, <2>5 DEF Phase, InTerminate, Terminating
    <3> QED  BY <1>3, <3>1 DEF Index
  <2>6. CASE At("reverse")
    <3>1. Turning(T - 1) /\ low <= ptr + 1
      BY <1>1, <1>3, <1>6, <2>6 DEF Phase, InTurn
    <3>2. low + ptr = T - 1
      BY <1>3, <2>1, <3>1
    <3> QED  BY <1>3, <3>1, <3>2 DEF Index
  <2>7. CASE At("other") \/ At("to low")
    <3>1. Turning(T - 1) /\ low < ptr
      BY <1>1, <1>3, <1>6, <2>7 DEF Phase, InOther, InToLow
    <3>2. low + ptr = T - 1
      BY <1>3, <2>1, <3>1
    <3> QED  BY <1>3, <3>1, <3>2 DEF Index
  <2>8. CASE At("to ptr")
    <3>1. Turning(T) /\ low <= ptr
      BY <1>1, <1>3, <1>6, <2>8 DEF Phase, InToPtr
    <3>2. low + ptr = T
      BY <1>3, <2>1, <3>1
    <3> QED  BY <1>3, <3>1, <3>2 DEF Index
  <2>9. CASE At("test") \/ At("print")
    <3>1. Printing /\ (EndFrom(ptr) \/ EndFrom(ptr + 1))
      BY <1>1, <1>6, <2>9 DEF Phase, InTest, InPutchar
    <3>2. ptr >= 0
      <4>1. ptr = Len(printed) /\ printed \in Seq(Char)
        BY <1>1, <1>6, <3>1 DEF Printing, Typed
      <4> QED  BY <4>1
    <3>3. PICK i \in Index : i >= ptr \/ i >= ptr + 1
      BY <3>1 DEF EndFrom
    <3> QED  BY <1>3, <3>2, <3>3 DEF Index
  <2> QED  BY <1>5, <2>2, <2>3, <2>4, <2>5, <2>6, <2>7, <2>8, <2>9 DEF Pcs, At
<1>8. job.ptr \in -1 .. BUFFER - 1
  BY <1>3, <1>6, <1>7 DEF Index
<1> QED  BY <1>1, <1>4, <1>6, <1>7, <1>8 DEF TypeOK, Typed, Char, Word

(* The variables keep their types: for every size of words, bases and      *)
(* buffer in which the numbers fit, itoa and puts access no character      *)
(* outside of the buffer, whatever ticks write there meanwhile             *)
(* (write.c:128 to 188).                                                   *)
THEOREM TypesHold == Spec => []TypeOK
<1>1. NInv => TypeOK
  BY NInvTypes
<1> QED  BY <1>1, AlwaysNInv, PTL

(* A number comes out right, digit by digit, unless a tick has come        *)
(* between its first digit in the buffer and the moment puts is past what  *)
(* the clock overwrites (write.c:26 to 71, 128 to 188 and 284 to 331).     *)
THEOREM NumbersComeOutRight == Spec => []RightUnlessOverwritten
<1>1. NInv => RightUnlessOverwritten
  BY DEF NInv, Phase, InIdle, RightUnlessOverwritten
<1> QED  BY <1>1, AlwaysNInv, PTL

(* Within the limit is not too long.                                       *)
LEMMA LimitSays ==
  ASSUME Limit(Len(printed))
  PROVE  NeverLonger
BY DEF Limit, NeverLonger

(* A disturbed number is no longer than the right one or the longest of    *)
(* the clock's numbers: puts, which looks for a NUL only, always finds one *)
(* (write.c:128 to 136).                                                   *)
THEOREM PutsFindsAnEnd == Spec => []NeverLonger
<1>1. NInv => NeverLonger
  <2> SUFFICES ASSUME NInv PROVE Limit(Len(printed))
    BY LimitSays
  <2>1. Typed /\ Phase
    BY DEF NInv
  <2>2. PICK E, T : IsText(E, T)
    BY <2>1, TextIs
  <2>3. T \in 1 .. BUFFER - 1 /\ BUFFER \in Nat /\ T = Len(Expected)
    BY <2>2, Parameters DEF IsText
  <2>4. CASE At("idle")
    BY <2>1, <2>4 DEF Phase, InIdle
  <2>5. CASE printed = <<>>
    <3>1. Len(printed) = 0
      BY <2>5
    <3> QED  BY <2>3, <3>1 DEF Limit
  <2>6. CASE At("test") \/ At("print")
    <3>1. PICK n \in Nat : n = Len(printed) /\ n = job.ptr
      <4>1. printed \in Seq(Char) /\ job.ptr = Len(printed)
        BY <2>1, <2>6 DEF Phase, InTest, InPutchar, Printing, Typed
      <4> QED  BY <4>1
    <3>2. EndFrom(n) \/ EndFrom(n + 1)
      BY <2>1, <2>6, <3>1 DEF Phase, InTest, InPutchar
    <3>3. PICK i \in Index : (i >= n \/ i >= n + 1) /\ Limit(i)
      BY <3>2 DEF EndFrom
    <3>4. i \in Int /\ n <= i
      BY <3>1, <3>3 DEF Index
    <3> QED  BY <2>1, <3>1, <3>3, <3>4, LimitIs
  <2>7. job.pc \in Pcs \cup {"idle"}
    BY <2>1 DEF Typed, Job, Pcs
  <2>8. At("idle") \/ At("test") \/ At("print") \/ printed = <<>>
    BY <2>1, <2>7 DEF Phase, Pcs, At, InDigit, InPad, InTerminate, InTurn, InOther, InToLow, InToPtr
  <2> QED  BY <2>4, <2>5, <2>6, <2>8
<1> QED  BY <1>1, AlwaysNInv, PTL

-----------------------------------------------------------------------------
(* A printf comes to its end.                                              *)

(* Which part of the conversion a printf is in, and how far that may be    *)
(* from its end: what is left of the number, the zeros that are left, the  *)
(* way between the two pointers, the rest of the buffer.                   *)
Stage(j) ==
  CASE j.pc = "digit" -> 5
    [] j.pc = "pad" -> 4
    [] j.pc = "terminate" -> 3
    [] j.pc \in {"reverse", "other", "to low", "to ptr"} -> 2
    [] j.pc \in {"test", "print"} -> 1
    [] OTHER -> 0

Left(j) ==
  CASE j.pc = "digit" -> j.value
    [] j.pc = "pad" -> IF j.count < PAD THEN PAD - j.count ELSE 0
    [] j.pc = "reverse" -> 2 * (j.ptr - j.low) + 2
    [] j.pc = "other" -> 2 * (j.ptr - j.low) + 1
    [] j.pc = "to low" -> 2 * (j.ptr - j.low)
    [] j.pc = "to ptr" -> 2 * (j.ptr - j.low) + 1
    [] j.pc = "test" -> 2 * (BUFFER - j.ptr) + 1
    [] j.pc = "print" -> 2 * (BUFFER - j.ptr)
    [] OTHER -> 0

Nearer == Stage(job') < Stage(job) \/ (Stage(job') = Stage(job) /\ Left(job') < Left(job))

(* Both, case by case.                                                     *)
LEMMA AtDigit == \A j : j.pc = "digit" => Stage(j) = 5 /\ Left(j) = j.value
<1>1. \A j : j.pc = "digit" => Stage(j) = 5
  BY DEF Stage
<1>2. \A j : j.pc = "digit" => Left(j) = j.value
  BY DEF Left
<1> QED  BY <1>1, <1>2

LEMMA AtPad == \A j : j.pc = "pad" => Stage(j) = 4 /\ Left(j) = IF j.count < PAD THEN PAD - j.count ELSE 0
<1>1. \A j : j.pc = "pad" => Stage(j) = 4
  BY DEF Stage
<1>2. \A j : j.pc = "pad" => Left(j) = IF j.count < PAD THEN PAD - j.count ELSE 0
  BY DEF Left
<1> QED  BY <1>1, <1>2

LEMMA AtTerminate == \A j : j.pc = "terminate" => Stage(j) = 3 /\ Left(j) = 0
<1>1. \A j : j.pc = "terminate" => Stage(j) = 3
  BY DEF Stage
<1>2. \A j : j.pc = "terminate" => Left(j) = 0
  BY DEF Left
<1> QED  BY <1>1, <1>2

LEMMA AtReverse == \A j : j.pc = "reverse" => Stage(j) = 2 /\ Left(j) = 2 * (j.ptr - j.low) + 2
<1>1. \A j : j.pc = "reverse" => Stage(j) = 2
  BY DEF Stage
<1>2. \A j : j.pc = "reverse" => Left(j) = 2 * (j.ptr - j.low) + 2
  BY DEF Left
<1> QED  BY <1>1, <1>2

LEMMA AtOther == \A j : j.pc = "other" => Stage(j) = 2 /\ Left(j) = 2 * (j.ptr - j.low) + 1
<1>1. \A j : j.pc = "other" => Stage(j) = 2
  BY DEF Stage
<1>2. \A j : j.pc = "other" => Left(j) = 2 * (j.ptr - j.low) + 1
  BY DEF Left
<1> QED  BY <1>1, <1>2

LEMMA AtToLow == \A j : j.pc = "to low" => Stage(j) = 2 /\ Left(j) = 2 * (j.ptr - j.low)
<1>1. \A j : j.pc = "to low" => Stage(j) = 2
  BY DEF Stage
<1>2. \A j : j.pc = "to low" => Left(j) = 2 * (j.ptr - j.low)
  BY DEF Left
<1> QED  BY <1>1, <1>2

LEMMA AtToPtr == \A j : j.pc = "to ptr" => Stage(j) = 2 /\ Left(j) = 2 * (j.ptr - j.low) + 1
<1>1. \A j : j.pc = "to ptr" => Stage(j) = 2
  BY DEF Stage
<1>2. \A j : j.pc = "to ptr" => Left(j) = 2 * (j.ptr - j.low) + 1
  BY DEF Left
<1> QED  BY <1>1, <1>2

LEMMA AtTest == \A j : j.pc = "test" => Stage(j) = 1 /\ Left(j) = 2 * (BUFFER - j.ptr) + 1
<1>1. \A j : j.pc = "test" => Stage(j) = 1
  BY DEF Stage
<1>2. \A j : j.pc = "test" => Left(j) = 2 * (BUFFER - j.ptr) + 1
  BY DEF Left
<1> QED  BY <1>1, <1>2

LEMMA AtPrint == \A j : j.pc = "print" => Stage(j) = 1 /\ Left(j) = 2 * (BUFFER - j.ptr)
<1>1. \A j : j.pc = "print" => Stage(j) = 1
  BY DEF Stage
<1>2. \A j : j.pc = "print" => Left(j) = 2 * (BUFFER - j.ptr)
  BY DEF Left
<1> QED  BY <1>1, <1>2

LEMMA AtIdle == \A j : j.pc = "idle" => Stage(j) = 0 /\ Left(j) = 0
<1>1. \A j : j.pc = "idle" => Stage(j) = 0
  BY DEF Stage
<1>2. \A j : j.pc = "idle" => Left(j) = 0
  BY DEF Left
<1> QED  BY <1>1, <1>2

LEMMA JobFields ==
  ASSUME NEW j \in Job
  PROVE  /\ j.ptr \in Int /\ j.low \in Int /\ j.value \in Nat /\ j.count \in Nat
         /\ j.base \in Nat /\ j.base > 1 /\ BUFFER \in Nat /\ PAD \in Nat
         /\ j.pc \in Pcs \cup {"idle"}
<1>1. /\ j.ptr \in Int /\ j.low \in Index /\ j.value \in Word /\ j.count \in Nat
      /\ j.base \in {DEC, HEX} /\ j.pc \in Pcs \cup {"idle"}
  BY DEF Job, Pcs
<1> QED  BY <1>1, Parameters DEF Index, Word

LEMMA JobInBuffer ==
  ASSUME NInv
  PROVE  /\ job \in Job /\ job.ptr \in -1 .. BUFFER - 1 /\ BUFFER \in Nat /\ PAD \in Nat
         /\ At("test") \/ At("print") => job.ptr \in Index
         /\ At("reverse") => job.low <= job.ptr + 1
         /\ At("other") \/ At("to low") => job.low < job.ptr
         /\ At("to ptr") => job.low <= job.ptr
<1>1. Typed /\ Phase /\ TypeOK
  BY NInvTypes DEF NInv
<1>2. At("test") \/ At("print") => ~At("reverse")
  BY DEF At
<1>3. BUFFER \in Nat /\ PAD \in Nat
  BY Parameters, NumbersParameters
<1> QED  BY <1>1, <1>2, <1>3 DEF Typed, TypeOK, Phase, InTurn, InOther, InToLow, InToPtr

LEMMA MeasureIsNat ==
  ASSUME NInv
  PROVE  Stage(job) \in Nat /\ Left(job) \in Nat
<1>1. PICK j \in Job : j = job
  BY JobInBuffer
<1>2. PICK ptr \in Int, low \in Int, count \in Nat, end \in Nat :
        ptr = j.ptr /\ low = j.low /\ count = j.count /\ end = BUFFER
  BY JobFields
<1>3. j.value \in Nat /\ PAD \in Nat /\ j.pc \in Pcs \cup {"idle"}
  BY JobFields
<1>4. CASE j.pc \in {"digit", "terminate", "idle"}
  BY <1>1, <1>3, <1>4, AtDigit, AtTerminate, AtIdle
<1>5. CASE j.pc = "pad"
  <2>1. Stage(j) = 4 /\ Left(j) = IF count < PAD THEN PAD - count ELSE 0
    BY <1>2, <1>5, AtPad
  <2> QED  BY <1>1, <1>3, <2>1
<1>6. CASE j.pc = "reverse"
  <2>1. Stage(j) = 2 /\ Left(j) = 2 * (ptr - low) + 2
    BY <1>2, <1>6, AtReverse
  <2>2. low <= ptr + 1
    BY <1>1, <1>2, <1>6, JobInBuffer DEF At
  <2> QED  BY <1>1, <2>1, <2>2
<1>7. CASE j.pc \in {"other", "to low", "to ptr"}
  <2>1. low < ptr \/ low <= ptr
    BY <1>1, <1>2, <1>7, JobInBuffer DEF At
  <2>2. Stage(j) = 2 /\ Left(j) \in {2 * (ptr - low), 2 * (ptr - low) + 1}
    BY <1>2, <1>7, AtOther, AtToLow, AtToPtr
  <2> QED  BY <1>1, <2>1, <2>2
<1>8. CASE j.pc \in {"test", "print"}
  <2>1. j.ptr \in Index
    BY <1>1, <1>8, JobInBuffer, Zenon DEF At
  <2>2. ptr < end
    BY <1>2, <2>1 DEF Index
  <2>3. Stage(j) = 1 /\ Left(j) \in {2 * (end - ptr), 2 * (end - ptr) + 1}
    BY <1>2, <1>8, AtTest, AtPrint
  <2> QED  BY <1>1, <2>2, <2>3
<1> QED  BY <1>3, <1>4, <1>5, <1>6, <1>7, <1>8 DEF Pcs

(* A later stage, or less in the same one.                                 *)
LEMMA NearerIf ==
  ASSUME NEW m \in Int, NEW n \in Int,
         Stage(job') = m, Stage(job) = n, m < n \/ (m = n /\ Left(job') < Left(job))
  PROVE  Nearer
BY DEF Nearer

(* The two pointers come nearer to each other, in four steps.              *)
LEMMA TurningComesNearer ==
  ASSUME NInv, Turn \/ Other \/ ToLow \/ ToPtr
  PROVE  Nearer
<1>1. PICK j \in Job : j = job
  BY JobInBuffer
<1>2. PICK ptr \in Int, low \in Int : ptr = j.ptr /\ low = j.low
  BY JobFields
<1>3. CASE Turn
  <2>1. j.pc = "reverse"
    BY <1>1, <1>3 DEF Turn, Get, At
  <2>2. Stage(j) = 2 /\ Left(j) = 2 * (ptr - low) + 2
    BY <1>2, <2>1, AtReverse
  <2>3. CASE j.low < j.ptr
    <3>1. job' = [j EXCEPT !.tmp = buffer[j.low], !.pc = "other"]
      BY <1>1, <1>3, <2>3, Zenon DEF Turn, Get
    <3>2. job'.pc = "other" /\ job'.low = low /\ job'.ptr = ptr
      BY <1>2, <3>1 DEF Job
    <3>3. Stage(job') = 2 /\ Left(job') = 2 * (ptr - low) + 1
      BY <3>2, AtOther
    <3> QED  BY <1>1, <2>2, <3>3, NearerIf
  <2>4. CASE ~(j.low < j.ptr)
    <3>1. job' = [j EXCEPT !.ptr = 0, !.pc = "test"]
      BY <1>1, <1>3, <2>4, Zenon DEF Turn, Get
    <3>2. job'.pc = "test"
      BY <3>1 DEF Job
    <3>3. Stage(job') = 1
      BY <3>2, AtTest
    <3> QED  BY <1>1, <2>2, <3>3, NearerIf
  <2> QED  BY <2>3, <2>4
<1>4. CASE Other
  <2>1. j.pc = "other" /\ job' = [j EXCEPT !.other = buffer[j.ptr], !.pc = "to low"]
    BY <1>1, <1>4, Zenon DEF Other, Get, At
  <2>2. job'.pc = "to low" /\ job'.low = low /\ job'.ptr = ptr
    BY <1>2, <2>1 DEF Job
  <2>3. Stage(j) = 2 /\ Left(j) = 2 * (ptr - low) + 1
    BY <1>2, <2>1, AtOther
  <2>4. Stage(job') = 2 /\ Left(job') = 2 * (ptr - low)
    BY <2>2, AtToLow
  <2> QED  BY <1>1, <2>3, <2>4, NearerIf
<1>5. CASE ToLow
  <2>1. j.pc = "to low" /\ job' = [j EXCEPT !.low = j.low + 1, !.pc = "to ptr"]
    BY <1>1, <1>5, Zenon DEF ToLow, Put, At
  <2>2. job'.pc = "to ptr" /\ job'.low = low + 1 /\ job'.ptr = ptr
    BY <1>2, <2>1 DEF Job
  <2>3. Stage(j) = 2 /\ Left(j) = 2 * (ptr - low)
    BY <1>2, <2>1, AtToLow
  <2>4. Stage(job') = 2 /\ Left(job') = 2 * (ptr - (low + 1)) + 1
    BY <2>2, AtToPtr
  <2> QED  BY <1>1, <2>3, <2>4, NearerIf
<1>6. CASE ToPtr
  <2>1. j.pc = "to ptr" /\ job' = [j EXCEPT !.ptr = j.ptr - 1, !.pc = "reverse"]
    BY <1>1, <1>6, Zenon DEF ToPtr, Put, At
  <2>2. job'.pc = "reverse" /\ job'.low = low /\ job'.ptr = ptr - 1
    BY <1>2, <2>1 DEF Job
  <2>3. Stage(j) = 2 /\ Left(j) = 2 * (ptr - low) + 1
    BY <1>2, <2>1, AtToPtr
  <2>4. Stage(job') = 2 /\ Left(job') = 2 * ((ptr - 1) - low) + 2
    BY <2>2, AtReverse
  <2> QED  BY <1>1, <2>3, <2>4, NearerIf
<1> QED  BY <1>3, <1>4, <1>5, <1>6

(* puts comes nearer to the end of the buffer.                             *)
LEMMA PrintingComesNearer ==
  ASSUME NInv, Test \/ Putchar
  PROVE  Nearer
<1>1. PICK j \in Job : j = job
  BY JobInBuffer
<1>2. PICK ptr \in Int, end \in Nat : ptr = j.ptr /\ end = BUFFER
  BY JobFields
<1>3. CASE Test
  <2>1. j.pc = "test"
    BY <1>1, <1>3 DEF Test, Get, At
  <2>2. Stage(j) = 1 /\ Left(j) = 2 * (end - ptr) + 1
    BY <1>2, <2>1, AtTest
  <2>3. CASE buffer[j.ptr] = NUL
    <3>1. job'.pc = "idle"
      BY <1>1, <1>3, <2>3 DEF Test, Get, Idle
    <3>2. Stage(job') = 0
      BY <3>1, AtIdle
    <3> QED  BY <1>1, <2>2, <3>2, NearerIf
  <2>4. CASE buffer[j.ptr] # NUL
    <3>1. job' = [j EXCEPT !.tmp = buffer[j.ptr], !.pc = "print"]
      BY <1>1, <1>3, <2>4, Zenon DEF Test, Get
    <3>2. job'.pc = "print" /\ job'.ptr = ptr
      BY <1>2, <3>1 DEF Job
    <3>3. Stage(job') = 1 /\ Left(job') = 2 * (end - ptr)
      BY <1>2, <3>2, AtPrint
    <3> QED  BY <1>1, <2>2, <3>3, NearerIf
  <2> QED  BY <2>3, <2>4
<1>4. CASE Putchar
  <2>1. j.pc = "print" /\ job' = [j EXCEPT !.ptr = j.ptr + 1, !.pc = "test"]
    BY <1>1, <1>4, Zenon DEF Putchar, At
  <2>2. job'.pc = "test" /\ job'.ptr = ptr + 1
    BY <1>2, <2>1 DEF Job
  <2>3. Stage(j) = 1 /\ Left(j) = 2 * (end - ptr)
    BY <1>2, <2>1, AtPrint
  <2>4. Stage(job') = 1 /\ Left(job') = 2 * (end - (ptr + 1)) + 1
    BY <1>2, <2>2, AtTest
  <2> QED  BY <1>1, <2>3, <2>4, NearerIf
<1> QED  BY <1>3, <1>4

(* itoa comes nearer to the last digit and to the last zero.               *)
LEMMA WritingComesNearer ==
  ASSUME NInv, Digit \/ Pad \/ Terminate
  PROVE  Nearer
<1>1. PICK j \in Job : j = job
  BY JobInBuffer
<1>2. CASE Digit
  <2>1. j.pc = "digit"
    BY <1>1, <1>2 DEF Digit, Put, At
  <2>2. PICK n \in Nat, v \in Nat : n = j.base /\ v = j.value /\ n > 1
    BY JobFields
  <2>3. PICK rest \in Nat : rest = v \div n /\ (rest # 0 => rest < v)
    BY <2>2, Quotients
  <2>4. job' = [j EXCEPT !.ptr = j.ptr + 1, !.value = rest, !.count = j.count + 1,
                         !.pc = IF rest = 0 THEN "pad" ELSE "digit"]
    BY <1>1, <1>2, <2>2, <2>3, Zenon DEF Digit, Put
  <2>5. job'.pc = (IF rest = 0 THEN "pad" ELSE "digit") /\ job'.value = rest
    BY <2>4 DEF Job
  <2>6. Stage(j) = 5 /\ Left(j) = v
    BY <2>1, <2>2, AtDigit
  <2>7. CASE rest = 0
    <3>1. Stage(job') = 4
      BY <2>5, <2>7, AtPad
    <3> QED  BY <1>1, <2>6, <3>1, NearerIf
  <2>8. CASE rest # 0
    <3>1. Stage(job') = 5 /\ Left(job') = rest
      BY <2>5, <2>8, AtDigit
    <3> QED  BY <1>1, <2>3, <2>6, <2>8, <3>1, NearerIf
  <2> QED  BY <2>7, <2>8
<1>3. CASE Pad
  <2>1. j.pc = "pad"
    BY <1>1, <1>3 DEF Pad, Put, Get, At
  <2>2. PICK count \in Nat, pad \in Nat : count = j.count /\ pad = PAD
    BY JobFields
  <2>3. Stage(j) = 4 /\ Left(j) = IF count < pad THEN pad - count ELSE 0
    BY <2>1, <2>2, AtPad
  <2>4. CASE j.count < PAD /\ j.base = HEX
    <3>1. job' = [j EXCEPT !.ptr = j.ptr + 1, !.count = j.count + 1]
      BY <1>1, <1>3, <2>4, Zenon DEF Pad, Put
    <3>2. job'.pc = "pad" /\ job'.count = count + 1
      BY <2>1, <2>2, <3>1 DEF Job
    <3>3. Stage(job') = 4 /\ Left(job') = IF count + 1 < pad THEN pad - (count + 1) ELSE 0
      BY <2>2, <3>2, AtPad
    <3> QED  BY <1>1, <2>2, <2>3, <2>4, <3>3, NearerIf
  <2>5. CASE ~(j.count < PAD /\ j.base = HEX)
    <3>1. job' = [j EXCEPT !.pc = "terminate"]
      BY <1>1, <1>3, <2>5, Zenon DEF Pad, Get
    <3>2. job'.pc = "terminate"
      BY <3>1 DEF Job
    <3>3. Stage(job') = 3
      BY <3>2, AtTerminate
    <3> QED  BY <1>1, <2>3, <3>3, NearerIf
  <2> QED  BY <2>4, <2>5
<1>4. CASE Terminate
  <2>1. j.pc = "terminate" /\ job' = [j EXCEPT !.ptr = j.ptr - 1, !.pc = "reverse"]
    BY <1>1, <1>4, Zenon DEF Terminate, Put, At
  <2>2. job'.pc = "reverse"
    BY <2>1 DEF Job
  <2>3. Stage(j) = 3 /\ Stage(job') = 2
    BY <2>1, <2>2, AtTerminate, AtReverse
  <2> QED  BY <1>1, <2>3, NearerIf
<1> QED  BY <1>2, <1>3, <1>4

LEMMA TaskComesNearer ==
  ASSUME NInv, ~At("idle"), Task
  PROVE  Nearer
<1>1. ~\E c \in Conversion, v \in Values : printf(c, v)
  BY DEF printf
<1> QED  BY <1>1, WritingComesNearer, TurningComesNearer, PrintingComesNearer, Zenon DEF Task

(* Each step of a printf of a number takes it nearer to its end, by a      *)
(* measure that has an end itself and that no tick changes: neither itoa   *)
(* nor puts can go on for ever, whatever ticks write in the buffer, as     *)
(* they go by their pointers and the buffer ends (write.c:128 to 188).     *)
THEOREM PrintfComesToItsEnd ==
  Spec => /\ [](Stage(job) \in Nat /\ Left(job) \in Nat)
          /\ [][~At("idle") /\ Task => Nearer]_vars
<1>1. NInv => Stage(job) \in Nat /\ Left(job) \in Nat
  BY MeasureIsNat
<1>2. NInv => [~At("idle") /\ Task => Nearer]_vars
  BY TaskComesNearer
<1> QED  BY <1>1, <1>2, AlwaysNInv, PTL DEF Spec

=============================================================================
