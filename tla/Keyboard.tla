------------------------------ MODULE Keyboard ------------------------------
(***************************************************************************)
(* The keyboard: kbc_irq of sys/kbc.c with its shift state, and the table  *)
(* of sys/kbc_scancodes.c.  A key sends its scan code when it is pressed   *)
(* and again while it is held, and the code with bit 7 set when it is      *)
(* released; codes wait in the keyboard until the handler reads them.      *)
(*                                                                         *)
(* A character is a number, as in the code; letters are ASCII because the  *)
(* code computes with them.                                                *)
(***************************************************************************)
EXTENDS Integers, SequencesExt

CONSTANTS
  Keys,   \* scan codes of the keys that are hit
  QUEUE   \* bound: codes that wait

VARIABLES
  held,   \* keys that are down
  wire,   \* codes sent and not read yet
  shift,  \* the bits of the variable shift that are set
  echo    \* the character kbc_irq has shown last

keyboard == <<held, wire, shift, echo>>

Byte == 0 .. 255
BREAK == 128
NOTHING == 0

(* The members of enum kbsc that the code names.                           *)
KBCSC == [k1 |-> 2, k9 |-> 10, k0 |-> 11, BACKSPACE |-> 14,
          Q |-> 16, P |-> 25, OPEN_CURL |-> 26, CLOSE_CURL |-> 27, RETURN |-> 28,
          A |-> 30, L |-> 38, COLON |-> 39, AT |-> 40, TILDA |-> 41,
          LEFTSHIFT |-> 42, BACKSLASH |-> 43, Z |-> 44, M |-> 50,
          LT |-> 51, FORWARDSLASH |-> 53, RIGHTSHIFT |-> 54, SPACE |-> 57]

ASSUME KeyboardParameters ==
  /\ Keys \subseteq 1 .. BREAK - 1
  /\ QUEUE \in Nat \ {0}

-----------------------------------------------------------------------------
Letters(first, last, plain) ==
  [first |-> first, last |-> last, plain |-> plain,
   shifted |-> [i \in DOMAIN plain |-> plain[i] - 32]]

(* A fault to seed: the test of shift is forgotten.                        *)
SymbolsPlain(first, last, plain, shifted) ==
  [first |-> first, last |-> last, plain |-> plain, shifted |-> plain]

Symbols(first, last, plain, shifted) ==
  [first |-> first, last |-> last, plain |-> plain, shifted |-> shifted]

(* The rows of the keyboard, in the order of their scan codes.             *)
Rows ==
  { Letters(KBCSC.Q, KBCSC.P, <<113, 119, 101, 114, 116, 121, 117, 105, 111, 112>>),
    Letters(KBCSC.A, KBCSC.L, <<97, 115, 100, 102, 103, 104, 106, 107, 108>>),
    Letters(KBCSC.Z, KBCSC.M, <<122, 120, 99, 118, 98, 110, 109>>),
    Symbols(KBCSC.k1, KBCSC.k9, [i \in 1 .. 9 |-> 48 + i],
            <<33, 64, 35, 36, 37, 94, 38, 42, 40>>),
    Symbols(KBCSC.k0, KBCSC.BACKSPACE, <<48, 45, 61, NOTHING>>, <<41, 95, 43, NOTHING>>),
    Symbols(KBCSC.COLON, KBCSC.TILDA, <<59, 39, 39>>, <<58, 34, 126>>),
    Symbols(KBCSC.OPEN_CURL, KBCSC.CLOSE_CURL, <<91, 93>>, <<123, 125>>),
    Symbols(KBCSC.LT, KBCSC.FORWARDSLASH, <<44, 46, 47>>, <<60, 62, 47>>),
    Symbols(KBCSC.BACKSLASH, KBCSC.BACKSLASH, <<92>>, <<124>>),
    Symbols(KBCSC.SPACE, KBCSC.SPACE, <<32>>, <<32>>),
    Symbols(KBCSC.RETURN, KBCSC.RETURN, <<10>>, <<10>>) }

kbcsc_tochar(b, shifted) ==
  LET rows == {r \in Rows : r.first <= b /\ b <= r.last}
      row  == CHOOSE r \in rows : TRUE
  IN  IF rows = {} THEN NOTHING
      ELSE (IF shifted THEN row.shifted ELSE row.plain)[b - row.first + 1]

-----------------------------------------------------------------------------
KeyboardInit ==
  /\ held = {}
  /\ wire = <<>>
  /\ shift = {}
  /\ echo = NOTHING

Send(code) ==
  /\ Len(wire) < QUEUE
  /\ wire' = Append(wire, code)
  /\ UNCHANGED <<shift, echo>>

Press(k) == k \notin held /\ held' = held \cup {k} /\ Send(k)
Repeat(k) == k \in held /\ held' = held /\ Send(k)
Release(k) == k \in held /\ held' = held \ {k} /\ Send(k + BREAK)

(* A fault to seed: a release of the right key clears both bits.           *)
AdjustedBoth(s, b) ==
  CASE b = KBCSC.LEFTSHIFT          -> s \cup {1}
    [] b = KBCSC.RIGHTSHIFT         -> s \cup {2}
    [] b = KBCSC.LEFTSHIFT + BREAK  -> s \ {1}
    [] b = KBCSC.RIGHTSHIFT + BREAK -> {}
    [] OTHER                        -> s

Adjusted(s, b) ==
  CASE b = KBCSC.LEFTSHIFT          -> s \cup {1}
    [] b = KBCSC.RIGHTSHIFT         -> s \cup {2}
    [] b = KBCSC.LEFTSHIFT + BREAK  -> s \ {1}
    [] b = KBCSC.RIGHTSHIFT + BREAK -> s \ {2}
    [] OTHER                        -> s

kbc_irq ==
  /\ wire # <<>>
  /\ LET b == Head(wire)
         c == kbcsc_tochar(b, Adjusted(shift, b) # {})
     IN  /\ shift' = Adjusted(shift, b)
         /\ echo' = IF c # NOTHING THEN c ELSE echo
  /\ wire' = Tail(wire)
  /\ UNCHANGED held

KeyboardNext ==
  \/ \E k \in Keys : Press(k) \/ Repeat(k) \/ Release(k)
  \/ kbc_irq

-----------------------------------------------------------------------------
(* Properties.                                                             *)

(* When every code has been read the shift state is that of the keys, in   *)
(* whatever order the two shift keys went down, repeated and went up.      *)
ShiftFollowsKeys ==
  wire = <<>> => /\ 1 \in shift <=> KBCSC.LEFTSHIFT \in held
                 /\ 2 \in shift <=> KBCSC.RIGHTSHIFT \in held

Apart(shifted, twins) ==
  \A b, c \in Byte :
    (kbcsc_tochar(b, shifted) # NOTHING /\ kbcsc_tochar(b, shifted) = kbcsc_tochar(c, shifted))
      => b < BREAK /\ (b = c \/ {b, c} = twins)

ApartPlain   == Apart(FALSE, {KBCSC.AT, KBCSC.TILDA})
ApartShifted == Apart(TRUE, {})

(* What is shown tells which key was hit, except that the keys of the      *)
(* apostrophe and of the tilde look alike without shift; and a release is  *)
(* never shown as a key.                                                   *)
EchoTellsTheKey == IF shift = {} THEN ApartPlain ELSE ApartShifted

=============================================================================
