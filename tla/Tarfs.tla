------------------------------- MODULE Tarfs --------------------------------
(***************************************************************************)
(* readTarfile of sys/tarfs.c: the search for a file in the archive that   *)
(* is linked into the kernel.  The archive is a sequence of blocks.  Every *)
(* block may be taken for a header, those of a file's contents as well,    *)
(* whose bytes then count as a name and a size.                            *)
(*                                                                         *)
(* A size is a string of digits, as numbers: what the code makes of a      *)
(* character is its distance from '0', which is negative for some.         *)
(***************************************************************************)
EXTENDS Integers, SequencesExt

CONSTANTS
  BLOCK,     \* bytes in a block, 512
  WANTED,    \* the name that is looked for
  Archives,  \* the archives that may be linked in
  DIGITS     \* bound: the largest number that the digits of a size spell

VARIABLES
  archive,
  header,   \* the block that is read as a header, counted from 1
  found     \* what readTarfile returns

tarfs == <<archive, header, found>>

NULL == 0
Searching == -1
Contents == -1  \* the size in bytes of what is no header

-----------------------------------------------------------------------------
(* Sizes: atoi and octal_decimal of sys/write.c, pow of sys/math.c.        *)
atoi(digits) == FoldLeft(LAMBDA k, d : 10 * k + d, 0, digits)

pow[y \in 0 .. DIGITS] ==
  IF y = 0 THEN 1
  ELSE IF y % 2 = 0 THEN pow[y \div 2] * pow[y \div 2]
  ELSE 8 * pow[y \div 2] * pow[y \div 2]

(* What the digits of n are worth, the last of them being digit i.         *)
Worth[n \in 0 .. DIGITS, i \in 0 .. DIGITS] ==
  IF n = 0 THEN 0 ELSE (n % 10) * pow[i] + Worth[n \div 10, i + 1]

(* % and / of C take the sign out.                                         *)
octal_decimal(n) == IF n < 0 THEN -Worth[-n, 0] ELSE Worth[n, 0]

SizeOf(block) == octal_decimal(atoi(block.size))

(* Faults to seed: the last block is not counted, and a file that fills    *)
(* its last block has another one.                                         *)
SkippedShort(bytes) == IF bytes > 0 THEN bytes \div (BLOCK + 1) ELSE 0

SkippedRound(bytes) == IF bytes > 0 THEN bytes \div BLOCK + 1 ELSE 0

(* The blocks of contents that the walk steps over.                        *)
Skipped(bytes) == IF bytes > 0 THEN bytes \div (BLOCK + 1) + 1 ELSE 0

(* The blocks of contents that there are.                                  *)
Occupied(bytes) == (bytes + BLOCK - 1) \div BLOCK

IsHeader(a, i) == i \in 1 .. Len(a) /\ a[i].bytes # Contents

(* After a header come the blocks of its file, then the next header or the *)
(* end.  tar closes an archive with blocks of zeros, which read as headers *)
(* of files without a name and without contents.                           *)
WellFormed(a) ==
  /\ IsHeader(a, 1)
  /\ \A i \in 1 .. Len(a) :
       IF a[i].bytes = Contents THEN a[i].name # WANTED
       ELSE /\ a[i].bytes \in Nat
            /\ SizeOf(a[i]) = a[i].bytes
            /\ \A j \in i + 1 .. i + Occupied(a[i].bytes) : ~IsHeader(a, j)
            /\ LET next == i + Occupied(a[i].bytes) + 1
               IN  next <= Len(a) => IsHeader(a, next)

ASSUME TarfsParameters ==
  /\ BLOCK \in Nat \ {0}
  /\ \A a \in Archives : a \in Seq([name : STRING, size : Seq(Int), bytes : Int])

ASSUME TarfsArchives == \A a \in Archives : WellFormed(a)

(* octal_decimal returns an int, whatever characters it is given.          *)
ASSUME TarfsSizes == \A a \in Archives : \A i \in DOMAIN a : SizeOf(a[i]) \in Int

-----------------------------------------------------------------------------
TarfsInit ==
  /\ archive \in Archives
  /\ header = 1
  /\ found = Searching

Match ==
  /\ found = Searching
  /\ archive[header].name = WANTED
  /\ found' = header
  /\ UNCHANGED <<archive, header>>

(* A fault to seed: the header itself is not stepped over.                 *)
AdvanceStuck ==
  /\ found = Searching
  /\ archive[header].name # WANTED
  /\ header' = header + Skipped(SizeOf(archive[header]))
  /\ found' = IF header' <= Len(archive) THEN Searching ELSE NULL
  /\ UNCHANGED archive

Advance ==
  /\ found = Searching
  /\ archive[header].name # WANTED
  /\ header' = header + 1 + Skipped(SizeOf(archive[header]))
  /\ found' = IF header' <= Len(archive) THEN Searching ELSE NULL
  /\ UNCHANGED archive

readTarfile == Match \/ Advance

TarfsSpec == TarfsInit /\ [][readTarfile]_tarfs

-----------------------------------------------------------------------------
(* Properties.                                                             *)

(* From a header the walk never steps over another one: its count of       *)
(* blocks, size / 513 + 1, may be too low and is never too high.           *)
SkipsNoHeader ==
  [][IsHeader(archive, header) =>
       \A i \in header + 1 .. header' - 1 : ~IsHeader(archive, i)]_tarfs

(* The first header with the name that is looked for, and the files before *)
(* it.                                                                     *)
Holds(a, i) == IsHeader(a, i) /\ a[i].name = WANTED
IsFirst(a, i) == Holds(a, i) /\ \A j \in 1 .. i - 1 : ~Holds(a, j)
Short(a, i) == \A j \in 1 .. i - 1 : IsHeader(a, j) => a[j].bytes <= 2 * BLOCK

(* A file is found, and the first of its name, if the files before it have *)
(* at most two blocks.  (A file of 2 * 512 + 1 bytes is counted as two     *)
(* blocks and has three.)                                                  *)
ShortArchivesAreSearched ==
  \A i \in 1 .. Len(archive) :
    IsFirst(archive, i) /\ Short(archive, i) => found \in {Searching, i}

=============================================================================
