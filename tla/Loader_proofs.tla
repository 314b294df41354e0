---------------------------- MODULE Loader_proofs ---------------------------
(***************************************************************************)
(* Proofs about Tarfs and Loader.  For every well-formed archive, every    *)
(* name and every size of a block the walk of readTarfile steps over no    *)
(* header, and finds the first file of the name if no file before it has   *)
(* more than two blocks.  For every program that LoaderPrograms admits the *)
(* task that load_elf builds is whole, and CopyCodeData gets through only  *)
(* what kmalloc_virtual has mapped.                                        *)
(*                                                                         *)
(* The invariant LInv says what the step the loader has reached means for  *)
(* the task (TaskInv) and for the pages of the program (MapInv), on top of *)
(* the invariant of Vm.                                                    *)
(***************************************************************************)
EXTENDS Loader, Vm_proofs

-----------------------------------------------------------------------------
(* Arithmetic.                                                             *)

(* Division, as the two bounds that determine it.                          *)
LEMMA Division ==
  ASSUME NEW n \in Nat, NEW d \in Nat \ {0}
  PROVE  /\ n \div d \in Nat
         /\ d * (n \div d) <= n
         /\ n < d * (n \div d) + d
  OBVIOUS

(* Multiplication is monotone.                                             *)
LEMMA Monotone ==
  ASSUME NEW d \in Nat, NEW m \in Nat, NEW n \in Nat, m <= n
  PROVE  d * m <= d * n
  <1>1. PICK k \in Nat : n = m + k
    BY SMT
  <1>2. d * n = d * m + d * k /\ d * k \in Nat /\ d * m \in Nat
    BY <1>1, SMT
  <1> QED
    BY <1>2, SMT

(* size / 513 + 1 is never more than the number of blocks: with as many of *)
(* 513 bytes as blocks of 512 or more, nothing is left of the file.        *)
LEMMA SkippedIsNotHigh ==
  ASSUME NEW b \in Nat
  PROVE  Skipped(b) \in Nat /\ Occupied(b) \in Nat /\ Skipped(b) <= Occupied(b)
  <1> DEFINE q == b \div (BLOCK + 1)
             o == (b + BLOCK - 1) \div BLOCK
  <1>0. BLOCK \in Nat \ {0} /\ BLOCK + 1 \in Nat \ {0} /\ b + BLOCK - 1 \in Nat
    BY TarfsParameters
  <1>1. q \in Nat /\ (BLOCK + 1) * q <= b /\ b < (BLOCK + 1) * q + (BLOCK + 1)
    BY <1>0, Division
  <1>2. o \in Nat /\ BLOCK * o <= b + BLOCK - 1 /\ b + BLOCK - 1 < BLOCK * o + BLOCK
    BY <1>0, Division
  <1>3. ASSUME b > 0, o <= q PROVE FALSE
    <2>1. BLOCK * o <= BLOCK * q /\ BLOCK * o \in Nat /\ BLOCK * q \in Nat
      BY <1>0, <1>1, <1>2, <1>3, Monotone
    <2>2. (BLOCK + 1) * q = BLOCK * q + q
      BY <1>0, <1>1
    <2> HIDE DEF q, o
    <2>3. q = 0
      BY <1>0, <1>1, <1>2, <2>1, <2>2
    <2> QED
      BY <1>0, <1>2, <1>3, <2>1, <2>3
  <1>4. b > 0 => q + 1 <= o
    <2> HIDE DEF q, o
    <2> QED
      BY <1>1, <1>2, <1>3
  <1> QED
    BY <1>1, <1>2, <1>4 DEF Skipped, Occupied

(* For up to two blocks it is exact.                                       *)
LEMMA SkippedIsExact ==
  ASSUME NEW b \in Nat, b <= 2 * BLOCK
  PROVE  Skipped(b) = Occupied(b)
  <1>0. BLOCK \in Nat \ {0}
    BY TarfsParameters
  <1>1. CASE b = 0
    <2>1. (BLOCK - 1) \div BLOCK = 0
      BY <1>0
    <2> QED
      BY <1>0, <1>1, <2>1 DEF Skipped, Occupied
  <1>2. CASE b > 0 /\ b <= BLOCK
    <2>1. b \div (BLOCK + 1) = 0 /\ (b + BLOCK - 1) \div BLOCK = 1
      BY <1>0, <1>2
    <2> QED
      BY <1>2, <2>1 DEF Skipped, Occupied
  <1>3. CASE b > BLOCK
    <2>1. b \div (BLOCK + 1) = 1 /\ (b + BLOCK - 1) \div BLOCK = 2
      BY <1>0, <1>3
    <2> QED
      BY <1>0, <1>3, <2>1 DEF Skipped, Occupied
  <1> QED
    BY <1>0, <1>1, <1>2, <1>3

-----------------------------------------------------------------------------
(* Archives.                                                               *)

(* What tar writes after a header: its file's blocks, then a header.       *)
LEMMA AfterAHeader ==
  ASSUME NEW a \in Archives, NEW i, IsHeader(a, i)
  PROVE  /\ i \in 1 .. Len(a)
         /\ a[i].bytes \in Nat
         /\ SizeOf(a[i]) = a[i].bytes
         /\ \A j \in i + 1 .. i + Occupied(a[i].bytes) : ~IsHeader(a, j)
         /\ i + Occupied(a[i].bytes) + 1 <= Len(a)
              => IsHeader(a, i + Occupied(a[i].bytes) + 1)
  <1>1. WellFormed(a)
    BY TarfsArchives
  <1>2. i \in 1 .. Len(a) /\ a[i].bytes # Contents
    BY DEF IsHeader
  <1> QED
    BY <1>1, <1>2 DEF WellFormed

LEMMA LenIsNat == \A a \in Archives : Len(a) \in Nat
  BY TarfsParameters

(* The archive is not written to.                                          *)
LEMMA ArchiveStays == TarfsSpec => [](archive \in Archives)
  <1>1. TarfsInit => archive \in Archives
    BY DEF TarfsInit
  <1>2. archive \in Archives /\ [readTarfile]_tarfs => (archive \in Archives)'
    BY DEF readTarfile, Match, Advance, tarfs
  <1> QED
    BY <1>1, <1>2, PTL DEF TarfsSpec

(* A step of the search from a header steps over no header.                *)
LEMMA StepSkipsNoHeader ==
  ASSUME archive \in Archives, [readTarfile]_tarfs, IsHeader(archive, header)
  PROVE  \A i \in header + 1 .. header' - 1 : ~IsHeader(archive, i)
  <1>0. header \in 1 .. Len(archive) /\ Len(archive) \in Nat
    BY AfterAHeader, LenIsNat
  <1>1. CASE Match \/ UNCHANGED tarfs
    <2>1. header' = header
      BY <1>1 DEF Match, tarfs
    <2> QED
      BY <1>0, <2>1
  <1>2. CASE Advance
    <2> DEFINE b == archive[header].bytes
    <2>1. b \in Nat /\ header' = header + 1 + Skipped(b)
      BY <1>2, AfterAHeader DEF Advance
    <2>2. Skipped(b) \in Nat /\ Occupied(b) \in Nat /\ Skipped(b) <= Occupied(b)
      BY <2>1, SkippedIsNotHigh
    <2>3. \A j \in header + 1 .. header + Occupied(b) : ~IsHeader(archive, j)
      BY AfterAHeader
    <2> HIDE DEF b
    <2> QED
      BY <1>0, <2>1, <2>2, <2>3
  <1> QED
    BY <1>1, <1>2 DEF readTarfile

(* The walk of readTarfile steps over no header, whatever the sizes of the *)
(* files are: a count of blocks that is wrong is too low.                  *)
THEOREM WalkSkipsNoHeader == TarfsSpec => SkipsNoHeader
  <1>1. archive \in Archives /\ [readTarfile]_tarfs
          => [IsHeader(archive, header) =>
                \A i \in header + 1 .. header' - 1 : ~IsHeader(archive, i)]_tarfs
    BY StepSkipsNoHeader
  <1> QED
    BY <1>1, ArchiveStays, PTL DEF TarfsSpec, SkipsNoHeader

-----------------------------------------------------------------------------
(* The search.  While it has not found the first file of the name, and the *)
(* files before that are short, it stands on a header not behind the       *)
(* file's.                                                                 *)
StillBefore(i) ==
  found = Searching /\ header <= i /\ IsHeader(archive, header)

SearchInv ==
  /\ archive \in Archives
  /\ \A i \in 1 .. Len(archive) :
       IsFirst(archive, i) /\ Short(archive, i) => found = i \/ StillBefore(i)

LEMMA SearchInvInit == TarfsInit => SearchInv
  <1> SUFFICES ASSUME TarfsInit PROVE SearchInv
    OBVIOUS
  <1>1. archive \in Archives /\ header = 1 /\ found = Searching
    BY DEF TarfsInit
  <1>2. IsHeader(archive, 1)
    BY <1>1, TarfsArchives DEF WellFormed
  <1> QED
    BY <1>1, <1>2, LenIsNat DEF SearchInv, StillBefore

(* The file at which a search on its way stops is the one it is for.       *)
LEMMA MatchIsFirst ==
  ASSUME NEW i \in 1 .. Len(archive), archive \in Archives,
         IsFirst(archive, i), StillBefore(i), archive[header].name = WANTED
  PROVE  header = i
  <1>1. header \in 1 .. Len(archive) /\ Len(archive) \in Nat
    BY AfterAHeader, LenIsNat DEF StillBefore
  <1>2. Holds(archive, header)
    BY DEF Holds, StillBefore
  <1> QED
    BY <1>1, <1>2 DEF IsFirst, StillBefore

LEMMA AdvanceStaysBefore ==
  ASSUME NEW i \in 1 .. Len(archive), archive \in Archives,
         IsFirst(archive, i), Short(archive, i), StillBefore(i), Advance
  PROVE  StillBefore(i)'
  <1> DEFINE b == archive[header].bytes
             next == header + Occupied(b) + 1
  <1>1. header \in 1 .. Len(archive) /\ Len(archive) \in Nat /\ b \in Nat
    BY AfterAHeader, LenIsNat DEF StillBefore
  <1>2. header < i
    <2>1. IsHeader(archive, i) /\ archive[i].name = WANTED
      BY DEF IsFirst, Holds
    <2>2. header # i
      BY <2>1 DEF Advance
    <2> QED
      BY <1>1, <2>2 DEF StillBefore
  <1>3. b <= 2 * BLOCK
    <2>1. header \in 1 .. i - 1 /\ IsHeader(archive, header)
      BY <1>1, <1>2 DEF StillBefore
    <2> QED
      BY <2>1 DEF Short
  <1>4. header' = next /\ Occupied(b) \in Nat
    <2>1. header' = header + 1 + Skipped(b)
      BY AfterAHeader DEF Advance, StillBefore
    <2>2. Skipped(b) = Occupied(b) /\ Occupied(b) \in Nat
      BY <1>1, <1>3, SkippedIsExact, SkippedIsNotHigh
    <2> HIDE DEF b
    <2> QED
      BY <1>1, <2>1, <2>2
  <1>5. next <= i
    <2>1. IsHeader(archive, i)
      BY DEF IsFirst, Holds
    <2>2. i \notin header + 1 .. header + Occupied(b)
      BY <2>1, AfterAHeader DEF StillBefore
    <2> HIDE DEF b
    <2> QED
      BY <1>1, <1>2, <1>4, <2>2
  <1>6. IsHeader(archive, next)
    <2>1. next <= Len(archive)
      <3> HIDE DEF b
      <3> QED
        BY <1>1, <1>4, <1>5
    <2> QED
      BY <2>1, AfterAHeader DEF StillBefore
  <1>7. archive' = archive /\ found' = Searching
    <2>1. header' <= Len(archive)
      BY <1>4, <1>6 DEF IsHeader
    <2> QED
      BY <2>1 DEF Advance
  <1> HIDE DEF next
  <1> QED
    BY <1>4, <1>5, <1>6, <1>7 DEF StillBefore, IsHeader

LEMMA SearchInvStep == SearchInv /\ [readTarfile]_tarfs => SearchInv'
  <1> SUFFICES ASSUME SearchInv, [readTarfile]_tarfs PROVE SearchInv'
    OBVIOUS
  <1>1. archive \in Archives /\ archive' = archive
    BY DEF SearchInv, readTarfile, Match, Advance, tarfs
  <1>2. ASSUME NEW i \in 1 .. Len(archive), IsFirst(archive, i), Short(archive, i)
        PROVE  found' = i \/ StillBefore(i)'
    <2>1. found = i \/ StillBefore(i)
      BY <1>2 DEF SearchInv
    <2>2. CASE UNCHANGED tarfs
      BY <2>1, <2>2 DEF tarfs, StillBefore
    <2>3. i # Searching
      BY DEF Searching
    <2>4. CASE Match
      BY <1>1, <1>2, <2>1, <2>3, <2>4, MatchIsFirst DEF Match
    <2>5. CASE Advance
      BY <1>1, <1>2, <2>1, <2>3, <2>5, AdvanceStaysBefore DEF Advance
    <2> QED
      BY <2>2, <2>4, <2>5 DEF readTarfile
  <1> QED
    BY <1>1, <1>2 DEF SearchInv

(* A file is found, and it is the first of its name, if no file before it  *)
(* has more than two blocks.                                               *)
THEOREM ShortFilesAreSearched == TarfsSpec => []ShortArchivesAreSearched
  <1>1. SearchInv => ShortArchivesAreSearched
    BY DEF SearchInv, ShortArchivesAreSearched, StillBefore
  <1> QED
    BY <1>1, SearchInvInit, SearchInvStep, PTL DEF TarfsSpec

-----------------------------------------------------------------------------
(* The invariant of the loader.                                            *)

(* The first page of an area's structure, and the bounds of the area.      *)
AreaType == [vma : Nat, start : Int, end : Int, flags : SUBSET {"R", "W", "X"}]

IsTask(t) ==
  t = [base |-> t.base, mm |-> t.mm, areas |-> t.areas, code |-> t.code, data |-> t.data]

(* S are the regions of k structures that kmalloc has returned.            *)
Held(regs, S, k) ==
  /\ IsFiniteSet(S) /\ Cardinality(S) = k
  /\ \A s \in S : s \in regs /\ s.base \in Nat /\ s.size \in Nat \ {0}

(* Every area has an address, and no address is in two.                    *)
Beside(a, b) == a.end <= b.start \/ b.end <= a.start

Spaced(areas) ==
  /\ \A i \in DOMAIN areas : areas[i].start < areas[i].end
  /\ \A i, j \in DOMAIN areas : i # j => Beside(areas[i], areas[j])

(* The segments before header n, and the area of one of them.              *)
LoadsBefore(p, n) == {i \in Loads(p) : i < n}

Bounds(a, h) == a.start = h.vaddr /\ a.end = h.vaddr + h.memsz

(* The first m areas are those of the segments before header n.            *)
Lists(p, areas, m, n) ==
  /\ m = Cardinality(LoadsBefore(p, n))
  /\ \A i \in 1 .. m : \E j \in LoadsBefore(p, n) : Bounds(areas[i], p.phdrs[j])

(* load_elf found no file the second time.                                 *)
NullFault == pl = "fault" /\ found = NULL

(* The list of areas is complete.                                          *)
Finished == pl \in {"loaded", "copy", "done", "fault"} /\ ~NullFault

TaskInv ==
  /\ program \in Programs /\ IsTask(tsk) /\ phdr \in Nat \ {0}
  /\ pl = "mm" => tsk.areas = <<>> /\ phdr = 1 /\ Held(regions, {TaskStruct(tsk)}, 1)
  /\ pl = "headers" \/ Finished =>
       /\ tsk.areas \in Seq(AreaType) /\ Spaced(tsk.areas)
       /\ Held(regions, Structures(tsk), Len(tsk.areas) + 2)
  /\ pl = "headers" => Lists(program, tsk.areas, Len(tsk.areas), phdr)
  /\ Finished => Lists(program, tsk.areas, Len(tsk.areas) - 1, Len(program.phdrs) + 1)

(* The pages of the program that are mapped.                               *)
Strided(area) ==
  {area.start \div PAGE_SIZE + 8 * i : i \in 0 .. (area.end - area.start) \div PAGE_SIZE}

UserMapped == IF pl \in {"copy", "done", "fault"} THEN Strided(First) ELSE {}

MapInv ==
  /\ pl \in {"tables", "search", "mm", "headers", "loaded", "copy", "done", "fault"}
  /\ pl # "tables" => cr3 # Unmapped
  /\ cr3 # Unmapped /\ ~vm.failed /\ ~NullFault =>
       \A v \in UserPage : FrameOf(v) # Unmapped <=> v \in UserMapped
  /\ pl = "done" => \A v \in Touched(First) : FrameOf(v) # Unmapped
  /\ pl = "fault" /\ ~NullFault => \E v \in Touched(First) : FrameOf(v) = Unmapped

-----------------------------------------------------------------------------
(* Programs and lists of areas.                                            *)

(* A segment of a program has an address of its own, below the kernel.     *)
LEMMA SegmentIs ==
  ASSUME NEW p \in Programs, NEW i \in Loads(p)
  PROVE  /\ p.phdrs[i].vaddr \in Nat /\ p.phdrs[i].memsz \in Nat \ {0}
         /\ p.phdrs[i].flags \in SUBSET {"R", "W", "X"}
         /\ p.phdrs[i].vaddr + p.phdrs[i].memsz <= VIRT_OFFSET * PAGE_SIZE
         /\ i \in 1 .. Len(p.phdrs)
<1>1. p.phdrs \in Seq(Header)
  BY LoaderParameters
<1>2. i \in 1 .. Len(p.phdrs)
  BY <1>1 DEF Loads
<1>3. p.phdrs[i] \in Header
  BY <1>1, <1>2
<1>4. /\ p.phdrs[i].vaddr \in Nat /\ p.phdrs[i].memsz \in Nat
      /\ p.phdrs[i].flags \in SUBSET {"R", "W", "X"}
  BY <1>3 DEF Header
<1>5. p.phdrs[i].memsz > 0 /\ p.phdrs[i].vaddr + p.phdrs[i].memsz <= VIRT_OFFSET * PAGE_SIZE
  BY LoaderPrograms
<1> QED  BY <1>2, <1>4, <1>5

(* The segments before a header, and the next one.                         *)
LEMMA LoadsBeforeIs ==
  ASSUME NEW p \in Programs
  PROVE  /\ Len(p.phdrs) \in Nat
         /\ \A n : IsFiniteSet(LoadsBefore(p, n)) /\ LoadsBefore(p, n) \subseteq Loads(p)
         /\ LoadsBefore(p, 1) = {}
         /\ LoadsBefore(p, Len(p.phdrs) + 1) = Loads(p)
         /\ \A n \in Nat : LoadsBefore(p, n + 1) =
              LoadsBefore(p, n) \cup (IF n \in Loads(p) THEN {n} ELSE {})
<1>1. p.phdrs \in Seq(Header)
  BY LoaderParameters
<1>2. PICK l \in Nat : l = Len(p.phdrs) /\ Loads(p) \subseteq 1 .. l
  BY <1>1 DEF Loads
<1>3. ASSUME NEW n PROVE IsFiniteSet(LoadsBefore(p, n)) /\ LoadsBefore(p, n) \subseteq Loads(p)
  <2>1. LoadsBefore(p, n) \subseteq Loads(p)
    BY DEF LoadsBefore
  <2>2. IsFiniteSet(1 .. l)
    BY FS_Interval
  <2>3. LoadsBefore(p, n) \subseteq 1 .. l
    BY <1>2, <2>1
  <2>4. IsFiniteSet(LoadsBefore(p, n))
    BY <2>2, <2>3, FS_Subset
  <2> QED  BY <2>1, <2>4
<1>4. LoadsBefore(p, 1) = {} /\ LoadsBefore(p, l + 1) = Loads(p)
  BY <1>2 DEF LoadsBefore
<1>5. ASSUME NEW n \in Nat
      PROVE  LoadsBefore(p, n + 1) = LoadsBefore(p, n) \cup (IF n \in Loads(p) THEN {n} ELSE {})
  BY <1>2 DEF LoadsBefore
<1> QED  BY <1>2, <1>3, <1>4, <1>5

(* The list after one more area.                                           *)
LEMMA AppendedIs ==
  ASSUME NEW areas \in Seq(AreaType), NEW a \in AreaType
  PROVE  LET longer == Appended(areas, a)
         IN  /\ longer \in Seq(AreaType)
             /\ Len(areas) \in Nat /\ Len(longer) = Len(areas) + 1
             /\ DOMAIN areas = 1 .. Len(areas) /\ DOMAIN longer = 1 .. Len(areas) + 1
             /\ \A i \in 1 .. Len(areas) : longer[i] = areas[i]
             /\ longer[Len(areas) + 1] = a
BY DEF Appended

(* An area that is beside all others keeps the list spaced.                *)
LEMMA AppendedSpaced ==
  ASSUME NEW areas \in Seq(AreaType), Spaced(areas), NEW a \in AreaType, a.start < a.end,
         \A i \in 1 .. Len(areas) : Beside(areas[i], a)
  PROVE  Spaced(Appended(areas, a))
<1>1. PICK longer : longer = Appended(areas, a)
  OBVIOUS
<1>2. PICK n \in Nat : /\ n = Len(areas) /\ DOMAIN areas = 1 .. n /\ DOMAIN longer = 1 .. n + 1
                       /\ (\A i \in 1 .. n : longer[i] = areas[i]) /\ longer[n + 1] = a
  BY <1>1, AppendedIs
<1>3. ASSUME NEW i \in 1 .. n + 1 PROVE longer[i].start < longer[i].end
  <2>1. CASE i \in 1 .. n
    BY <1>2, <2>1 DEF Spaced
  <2>2. CASE i = n + 1
    BY <1>2, <2>2
  <2> QED  BY <1>2, <2>1, <2>2
<1>4. ASSUME NEW i \in 1 .. n + 1, NEW j \in 1 .. n + 1, i # j
      PROVE  Beside(longer[i], longer[j])
  <2>1. CASE i \in 1 .. n /\ j \in 1 .. n
    BY <1>2, <1>4, <2>1 DEF Spaced
  <2>2. CASE i \in 1 .. n /\ j = n + 1
    BY <1>2, <2>2
  <2>3. CASE i = n + 1 /\ j \in 1 .. n
    BY <1>2, <2>3, Zenon DEF Beside
  <2> QED  BY <1>2, <1>4, <2>1, <2>2, <2>3
<1> QED  BY <1>1, <1>2, <1>3, <1>4 DEF Spaced

(* In a list that is spaced find_vma finds every area at its first byte.   *)
LEMMA SpacedFinds ==
  ASSUME NEW areas \in Seq(AreaType), Spaced(areas), NEW i \in DOMAIN areas
  PROVE  find_vma(areas, areas[i].start) = i
<1> DEFINE addr == areas[i].start
           hits == {k \in DOMAIN areas : areas[k].end > addr /\ areas[k].start <= addr}
<1>0. \A k \in DOMAIN areas : areas[k] \in AreaType
  OBVIOUS
<1>1. \A k \in DOMAIN areas : areas[k].start \in Int /\ areas[k].end \in Int
  BY <1>0 DEF AreaType
<1>2. DOMAIN areas \subseteq Nat
  OBVIOUS
<1>3. i \in hits
  BY <1>1 DEF Spaced
<1>4. ASSUME NEW k \in hits, k # i PROVE FALSE
  <2>1. Beside(areas[k], areas[i]) /\ areas[i].start < areas[i].end
    BY <1>4 DEF Spaced
  <2> QED  BY <1>1, <2>1 DEF Beside
<1>5. hits = {i}
  BY <1>3, <1>4
<1>6. find_vma(areas, addr) = IF hits = {} THEN NULL ELSE CHOOSE k \in hits : \A j \in hits : k <= j
  BY DEF find_vma
<1>7. find_vma(areas, addr) = CHOOSE k \in {i} : \A j \in {i} : k <= j
  BY <1>5, <1>6
<1>8. i <= i
  BY <1>2
<1> QED  BY <1>7, <1>8

-----------------------------------------------------------------------------
(* What an allocation does for the loader.                                 *)

(* A structure lies above the image, and below what comes next.            *)
LEMMA StructureIsHeld ==
  ASSUME VInv, NEW s \in regions, s.base \in Nat, s.size \in Nat \ {0}
  PROVE  VIRT_OFFSET + physfree <= s.base /\ s.base < Here
<1>1. s.base \in PagesOf(s)
  <2>1. PICK n \in Nat : n = s.size - 1
    OBVIOUS
  <2>2. n \div PAGE_SIZE \in Nat
    BY <2>1, Split, Parameters
  <2>3. 0 \in 0 .. (s.size - 1) \div PAGE_SIZE /\ s.base + 0 = s.base
    BY <2>1, <2>2
  <2> QED  BY <2>3 DEF PagesOf
<1>2. PICK f \in physfree .. kernelfree - 1 : s.base = VIRT_OFFSET + f
  BY <1>1 DEF VInv, RegionPages
<1>3. VIRT_OFFSET \in Nat /\ physfree \in Nat /\ kernelfree \in Nat
  BY Parameters DEF VInv, Typed
<1> QED  BY <1>2, <1>3 DEF Here

(* The pages of programs are ordinary, and below the kernel's.             *)
LEMMA UserPagesAre ==
  \A v \in UserPage : v \in Ordinary /\ v \in Nat /\ v < VIRT_OFFSET
BY PageOfIndices DEF UserPage, Ordinary

(* One more structure, of any size.                                        *)
LEMMA HeldMore ==
  ASSUME VInv, NEW S, NEW k \in Nat, Held(regions, S, k), NEW size \in Nat \ {0},
         regions' = regions \cup {[base |-> Here, size |-> size]}
  PROVE  Held(regions', S \cup {[base |-> Here, size |-> size]}, k + 1)
<1>1. Here \in Nat
  BY Parameters DEF VInv, Typed, Here
<1>0. PICK q : q = [base |-> Here, size |-> size]
  OBVIOUS
<1>2. q = [base |-> Here, size |-> size] /\ q.base = Here /\ q.size = size
  BY <1>0
<1>3. q \notin S
  <2> SUFFICES ASSUME q \in S PROVE FALSE
    OBVIOUS
  <2>1. q \in regions /\ q.base \in Nat /\ q.size \in Nat \ {0}
    BY DEF Held
  <2>2. q.base < Here
    BY <2>1, StructureIsHeld
  <2> QED  BY <1>1, <1>2, <2>2
<1>4. IsFiniteSet(S) /\ Cardinality(S) = k
  BY DEF Held
<1>5. IsFiniteSet(S \cup {q}) /\ Cardinality(S \cup {q}) = k + 1
  BY <1>3, <1>4, FS_AddElement
<1>6. \A s \in S \cup {q} : s \in regions' /\ s.base \in Nat /\ s.size \in Nat \ {0}
  BY <1>1, <1>2 DEF Held
<1>7. Held(regions', S \cup {q}, k + 1)
  BY <1>5, <1>6 DEF Held
<1> QED  BY <1>2, <1>7, Zenon

(* The mapping of the pages of a program.                                  *)
SameForUsers == \A v \in UserPage : FrameOf(v)' = FrameOf(v)

(* kmalloc of a structure, of any number of pages.                         *)
LEMMA StructureAllocated ==
  ASSUME VInv, NEW size \in Nat \ {0}, kmalloc(size)
  PROVE  /\ VInv'
         /\ cr3' = cr3 /\ cr3 # Unmapped /\ Here \in Nat
         /\ regions' = regions \cup {[base |-> Here, size |-> size]}
         /\ ~vm'.failed => ~vm.failed /\ SameForUsers
<1>1. PICK n \in Nat \ {0} : n = Count(size)
  BY CountIs
<1>2. /\ Up /\ kernelfree + n <= KERNEL_LIMIT /\ vm' = AllBacked(KernelPages(n))
      /\ cr3' = cr3 /\ kernelfree' = kernelfree + n
      /\ regions' = regions \cup {NewRegion(size)}
  BY <1>1 DEF kmalloc, Bumped, NewRegion
<1>3. \A i \in 0 .. (size - 1) \div PAGE_SIZE : i <= n - 1
  BY <1>1, CountIs
<1>4. /\ n = Len(KernelPages(n))
      /\ \A i \in 1 .. n : KernelPages(n)[i] = VIRT_OFFSET + kernelfree + i - 1
      /\ \A i \in 1 .. n : KernelPages(n)[i] \in Ordinary
  BY <1>2, KernelPagesAre DEF VInv
<1>5. Typed'
  BY <1>2, <1>4, AllocationTyped DEF VInv
<1>6. VInv'
  BY <1>2, <1>3, <1>5, RegionAdded
<1>7. /\ vm.failed => vm'.failed
      /\ vm'.failed \/ Moved(vm, vm', cr3, Through(KernelPages(n), n))
  BY <1>2, <1>4, Allocates
<1>8. VIRT_OFFSET \in Nat /\ kernelfree \in Nat /\ Here \in Nat
  BY Parameters DEF VInv, Typed, Here
<1>9. ASSUME ~vm'.failed PROVE SameForUsers
  <2>1. \A w \in Ordinary : w \notin Through(KernelPages(n), n) =>
          Translate(vm'.mem, cr3, w) = Translate(vm.mem, cr3, w)
    BY <1>7, <1>9 DEF Moved
  <2>2. ASSUME NEW v \in UserPage PROVE FrameOf(v)' = FrameOf(v)
    <3>1. v \in Ordinary /\ v \in Nat /\ v < VIRT_OFFSET
      BY UserPagesAre
    <3>2. v \notin Through(KernelPages(n), n)
      BY <1>4, <1>8, <3>1 DEF Through
    <3> QED  BY <1>2, <2>1, <3>1, <3>2 DEF FrameOf
  <2> QED  BY <2>2 DEF SameForUsers
<1> QED  BY <1>2, <1>6, <1>7, <1>8, <1>9 DEF Up, NewRegion, Here

(* kmalloc_virtual for an area that has segment's bounds.                  *)
LEMMA SegmentAllocated ==
  ASSUME VInv, program \in Programs, NEW j \in Loads(program), NEW a,
         Bounds(a, program.phdrs[j]),
         kmalloc_virtual(a.end - a.start, a.start \div PAGE_SIZE)
  PROVE  /\ VInv' /\ cr3' = cr3 /\ regions' = regions
         /\ ~vm'.failed =>
              /\ ~vm.failed
              /\ \A v \in UserPage :
                   FrameOf(v)' # Unmapped <=> FrameOf(v) # Unmapped \/ v \in Strided(a)
         /\ Strided(a) \subseteq UserPage
         /\ Beyond => /\ Beyond'
                      /\ ~vm'.failed => \A v \in Page \ Strided(a) : FrameOf(v) \in {Unmapped, FrameOf(v)'}
<1>1. PICK size \in Nat, first \in Nat :
        /\ size = program.phdrs[j].memsz /\ size = a.end - a.start
        /\ first = a.start \div PAGE_SIZE /\ first = program.phdrs[j].vaddr \div PAGE_SIZE
  <2>1. program.phdrs[j].vaddr \in Nat /\ program.phdrs[j].memsz \in Nat
    BY SegmentIs
  <2>2. program.phdrs[j].vaddr \div PAGE_SIZE \in Nat
    BY <2>1, Split, Parameters
  <2> QED  BY <2>1, <2>2 DEF Bounds
<1>2. PICK n : n = Count(size)
  OBVIOUS
<1>3. /\ Up /\ vm' = AllBacked(StridedPages(first, n)) /\ kernelfree + n <= KERNEL_LIMIT
      /\ cr3' = cr3 /\ kernelfree' = kernelfree + n /\ regions' = regions
  BY <1>1, <1>2 DEF kmalloc_virtual, Bumped
<1>4. \A k \in 0 .. size \div PAGE_SIZE : first + 8 * k \in UserPage
  BY <1>1, LoaderPrograms
<1>5. /\ n \in Nat \ {0} /\ n = Len(StridedPages(first, n))
      /\ \A i \in 1 .. n : /\ StridedPages(first, n)[i] \in Ordinary
                           /\ StridedPages(first, n)[i] < VIRT_OFFSET
  BY <1>2, <1>4, StridedPagesAre, UserPagesAre
<1>6. VInv'
  <2>1. Typed'
    BY <1>3, <1>5, AllocationTyped DEF VInv
  <2> QED  BY <1>3, <1>5, <2>1, VirtualAdded
<1>7. /\ vm.failed => vm'.failed
      /\ vm'.failed \/ Moved(vm, vm', cr3, Through(StridedPages(first, n), n))
  BY <1>3, <1>5, Allocates
<1>8. Through(StridedPages(first, n), n) = Strided(a)
  <2>1. PICK q \in Nat : q = size \div PAGE_SIZE
    BY Split, Parameters
  <2>2. n = q + 1
    BY <1>2, <2>1 DEF Count
  <2>3. Strided(a) = {first + 8 * i : i \in 0 .. q}
    BY <1>1, <2>1, Zenon DEF Strided
  <2>4. \A i \in 1 .. n : StridedPages(first, n)[i] = first + 8 * (i - 1)
    BY DEF StridedPages
  <2>5. \A i \in 1 .. n : i - 1 \in 0 .. q
    BY <2>2
  <2>6. \A i \in 0 .. q : i + 1 \in 1 .. n /\ (i + 1) - 1 = i
    BY <2>2
  <2>7. Through(StridedPages(first, n), n) \subseteq Strided(a)
    BY <2>3, <2>4, <2>5 DEF Through
  <2>8. Strided(a) \subseteq Through(StridedPages(first, n), n)
    <3> SUFFICES ASSUME NEW i \in 0 .. q PROVE first + 8 * i \in Through(StridedPages(first, n), n)
      BY <2>3
    <3>1. StridedPages(first, n)[i + 1] = first + 8 * ((i + 1) - 1)
      BY <2>4, <2>6
    <3>2. StridedPages(first, n)[i + 1] = first + 8 * i
      BY <2>6, <3>1
    <3> QED  BY <2>6, <3>2 DEF Through
  <2> QED  BY <2>7, <2>8
<1>9. ASSUME ~vm'.failed, NEW v \in UserPage
      PROVE  FrameOf(v)' # Unmapped <=> FrameOf(v) # Unmapped \/ v \in Strided(a)
  <2>1. Moved(vm, vm', cr3, Strided(a)) /\ v \in Ordinary
    BY <1>7, <1>8, <1>9, UserPagesAre
  <2>2. /\ v \in Strided(a) => FrameOf(v)' \in vm.free
        /\ v \notin Strided(a) => FrameOf(v)' = FrameOf(v)
    BY <1>3, <2>1 DEF Moved, FrameOf
  <2>3. Unmapped \notin vm.free
    BY VmParameters, Parameters DEF VInv, Typed, State
  <2> QED  BY <2>2, <2>3
<1>10. Strided(a) \subseteq UserPage
  BY <1>1, <1>4, Zenon DEF Strided
<1>11. ASSUME Beyond
       PROVE  /\ Beyond'
              /\ ~vm'.failed => \A v \in Page \ Strided(a) : FrameOf(v) \in {Unmapped, FrameOf(v)'}
  <2>1. kernelfree \in Nat /\ VIRT_OFFSET \in Nat /\ \A w \in Ordinary : w \in Nat
    BY Parameters, PageOfIndices DEF VInv, Typed, Ordinary
  <2>2. \A i \in 1 .. n : /\ StridedPages(first, n)[i] \in Ordinary
                          /\ StridedPages(first, n)[i] < VIRT_OFFSET + kernelfree + n
    BY <1>5, <2>1
  <2>3. /\ Beyond'
        /\ ~vm'.failed =>
             /\ ~vm.failed
             /\ \A v \in Page \ Through(StridedPages(first, n), n) : FrameOf(v) \in {Unmapped, FrameOf(v)'}
    BY <1>3, <1>5, <1>11, <2>2, BeyondAllocates
  <2> QED  BY <1>8, <2>3
<1> QED  BY <1>3, <1>6, <1>7, <1>9, <1>10, <1>11

(* No page of a program is mapped when cr3 is loaded.                      *)
LEMMA NoUserAtBoot ==
  ASSUME NEW v \in UserPage
  PROVE  AtBoot(v) = Unmapped
<1>1. v \in Nat /\ v < VIRT_OFFSET
  BY UserPagesAre
<1>2. ~(v - VIRT_OFFSET \in (physbase .. physfree) \cup {Video})
  BY <1>1, Parameters
<1> QED  BY <1>2 DEF AtBoot

-----------------------------------------------------------------------------
(* The invariant of the task.                                              *)

(* The fields of a task_struct that is given an mm_struct.                 *)
LEMMA MmFields ==
  ASSUME NEW t, IsTask(t), NEW x, NEW u, u = [t EXCEPT !.mm = x]
  PROVE  IsTask(u) /\ u.mm = x /\ u.base = t.base /\ u.areas = t.areas
BY DEF IsTask

(* The structures of a task with one more area.                            *)
LEMMA StructuresMore ==
  ASSUME NEW t, NEW u, t.areas \in Seq(AreaType), NEW a \in AreaType,
         u.base = t.base, u.mm = t.mm, u.areas = Appended(t.areas, a)
  PROVE  Structures(u) = Structures(t) \cup {VmaStruct(a)}
<1>0. PICK areas \in Seq(AreaType) : areas = t.areas
  OBVIOUS
<1>1. PICK n \in Nat :
        /\ n = Len(t.areas) /\ DOMAIN t.areas = 1 .. n /\ DOMAIN u.areas = 1 .. n + 1
        /\ (\A i \in 1 .. n : u.areas[i] = t.areas[i]) /\ u.areas[n + 1] = a
  <2>1. /\ Len(areas) \in Nat /\ DOMAIN areas = 1 .. Len(areas)
        /\ DOMAIN Appended(areas, a) = 1 .. Len(areas) + 1
        /\ \A i \in 1 .. Len(areas) : Appended(areas, a)[i] = areas[i]
        /\ Appended(areas, a)[Len(areas) + 1] = a
    BY AppendedIs
  <2>2. u.areas = Appended(areas, a)
    BY <1>0
  <2> QED  BY <1>0, <2>1, <2>2
<1>2. 1 .. n + 1 = (1 .. n) \cup {n + 1}
  OBVIOUS
<1>3. {VmaStruct(u.areas[i]) : i \in DOMAIN u.areas}
        = {VmaStruct(t.areas[i]) : i \in DOMAIN t.areas} \cup {VmaStruct(a)}
  BY <1>1, <1>2
<1>4. TaskStruct(u) = TaskStruct(t) /\ MmStruct(u) = MmStruct(t)
  BY DEF TaskStruct, MmStruct
<1> QED  BY <1>3, <1>4, Zenon DEF Structures

(* One more area on the list of a task keeps what holds of lists.          *)
LEMMA AreaAdded ==
  ASSUME VInv, VInv', tsk.areas \in Seq(AreaType), IsTask(tsk), Spaced(tsk.areas),
         Held(regions, Structures(tsk), Len(tsk.areas) + 2),
         regions' = regions \cup {[base |-> Here, size |-> VMA_STRUCT]},
         NEW a \in AreaType, a.vma = Here, a.start < a.end,
         \A i \in 1 .. Len(tsk.areas) : Beside(tsk.areas[i], a),
         tsk'.base = tsk.base, tsk'.mm = tsk.mm, tsk'.areas = Appended(tsk.areas, a)
  PROVE  /\ tsk'.areas \in Seq(AreaType) /\ Spaced(tsk'.areas)
         /\ Len(tsk'.areas) = Len(tsk.areas) + 1
         /\ Held(regions', Structures(tsk'), Len(tsk'.areas) + 2)
<1>1. /\ tsk'.areas \in Seq(AreaType) /\ Len(tsk.areas) \in Nat
      /\ Len(tsk'.areas) = Len(tsk.areas) + 1
  BY AppendedIs
<1>2. Spaced(tsk'.areas)
  BY AppendedSpaced
<1> DEFINE q == [base |-> Here, size |-> VMA_STRUCT]
<1>3. Structures(tsk') = Structures(tsk) \cup {q}
  <2>1. PICK t : t = tsk
    OBVIOUS
  <2>2. PICK u : u = tsk'
    OBVIOUS
  <2>3. Structures(u) = Structures(t) \cup {VmaStruct(a)}
    BY <2>1, <2>2, StructuresMore
  <2>4. Structures(u) = Structures(tsk')
    BY <2>2, Zenon
  <2>5. VmaStruct(a) = q
    BY DEF VmaStruct
  <2> QED  BY <2>1, <2>3, <2>4, <2>5, Zenon
<1>4. Held(regions', Structures(tsk) \cup {q}, (Len(tsk.areas) + 2) + 1)
  <2>1. PICK S, k : S = Structures(tsk) /\ k = Len(tsk.areas) + 2
    OBVIOUS
  <2>2. k \in Nat /\ Held(regions, S, k)
    BY <1>1, <2>1
  <2>3. Held(regions', S \cup {q}, k + 1)
    BY <2>2, LoaderParameters, HeldMore
  <2> QED  BY <2>1, <2>3
<1> QED  BY <1>1, <1>2, <1>3, <1>4

(* populate_vma appends the next segment.                                  *)
LEMMA ListsMore ==
  ASSUME NEW p \in Programs, NEW areas \in Seq(AreaType), NEW n \in Nat,
         Lists(p, areas, Len(areas), n), n \in Loads(p),
         NEW a \in AreaType, Bounds(a, p.phdrs[n])
  PROVE  /\ Lists(p, Appended(areas, a), Len(areas) + 1, n + 1)
         /\ a.start < a.end
         /\ \A i \in 1 .. Len(areas) : Beside(areas[i], a)
<1>1. PICK longer : longer = Appended(areas, a)
  OBVIOUS
<1>2. PICK m \in Nat : /\ m = Len(areas)
                       /\ (\A i \in 1 .. m : longer[i] = areas[i]) /\ longer[m + 1] = a
  BY <1>1, AppendedIs
<1>3. /\ m = Cardinality(LoadsBefore(p, n))
      /\ \A i \in 1 .. m : \E j \in LoadsBefore(p, n) : Bounds(areas[i], p.phdrs[j])
  BY <1>2 DEF Lists
<1>4. LoadsBefore(p, n + 1) = LoadsBefore(p, n) \cup {n} /\ n \notin LoadsBefore(p, n)
      /\ LoadsBefore(p, n) \subseteq Loads(p) /\ IsFiniteSet(LoadsBefore(p, n))
  <2>1. n \notin LoadsBefore(p, n)
    BY DEF LoadsBefore
  <2> QED  BY <2>1, LoadsBeforeIs
<1>5. Cardinality(LoadsBefore(p, n + 1)) = m + 1
  <2>1. PICK S : S = LoadsBefore(p, n) /\ IsFiniteSet(S) /\ n \notin S
    BY <1>4
  <2>2. Cardinality(S \cup {n}) = Cardinality(S) + 1
    BY <2>1, FS_AddElement
  <2> QED  BY <1>3, <1>4, <2>1, <2>2
<1>6. ASSUME NEW i \in 1 .. m + 1
      PROVE  \E j \in LoadsBefore(p, n + 1) : Bounds(longer[i], p.phdrs[j])
  <2>1. CASE i \in 1 .. m
    BY <1>2, <1>3, <1>4, <2>1
  <2>2. CASE i = m + 1
    BY <1>2, <1>4, <2>2
  <2> QED  BY <2>1, <2>2
<1>7. Lists(p, longer, m + 1, n + 1)
  BY <1>5, <1>6 DEF Lists
<1>8. a.start < a.end
  BY SegmentIs DEF Bounds
<1>9. ASSUME NEW i \in 1 .. m PROVE Beside(areas[i], a)
  <2>1. PICK j \in LoadsBefore(p, n) : Bounds(areas[i], p.phdrs[j])
    BY <1>3
  <2>2. j \in Loads(p) /\ j # n
    BY <1>4
  <2>3. \/ p.phdrs[n].vaddr + p.phdrs[n].memsz <= p.phdrs[j].vaddr
        \/ p.phdrs[j].vaddr + p.phdrs[j].memsz <= p.phdrs[n].vaddr
    BY <2>2, LoaderPrograms
  <2> QED  BY <2>1, <2>3 DEF Bounds, Beside
<1> QED  BY <1>1, <1>2, <1>7, <1>8, <1>9

(* The stack lies above every segment.                                     *)
LEMMA StackBeside ==
  ASSUME VInv, NEW p \in Programs, NEW areas \in Seq(AreaType), NEW m, NEW n,
         Lists(p, areas, m, n), NEW q \in regions, q.base \in Nat, q.size \in Nat \ {0},
         NEW a, a.start = q.base * PAGE_SIZE + SAVED_RSP - PAGE_SIZE
  PROVE  \A i \in 1 .. m : Beside(areas[i], a)
<1> SUFFICES ASSUME NEW i \in 1 .. m PROVE Beside(areas[i], a)
  OBVIOUS
<1>1. PICK j \in Loads(p) : Bounds(areas[i], p.phdrs[j])
  BY LoadsBeforeIs DEF Lists
<1>2. p.phdrs[j].vaddr + p.phdrs[j].memsz <= VIRT_OFFSET * PAGE_SIZE
  BY SegmentIs
<1>0. PICK b \in Nat : b = q.base
  OBVIOUS
<1>3. VIRT_OFFSET + physfree <= b /\ physfree >= 1
  BY <1>0, StructureIsHeld, VmParameters
<1>4. PICK v \in Nat, d \in Nat, e \in Nat :
        d = PAGE_SIZE /\ v = VIRT_OFFSET /\ e = b - v - 1
  BY <1>3, Parameters
<1>5. b * d = v * d + d + e * d /\ e * d \in Nat /\ v * d \in Nat
  BY <1>4
<1>6. a.start = b * d + SAVED_RSP - d /\ areas[i].end <= v * d
  BY <1>0, <1>1, <1>2, <1>4 DEF Bounds
<1>7. areas[i].end \in Nat
  BY <1>1, SegmentIs DEF Bounds
<1>8. SAVED_RSP \in Nat
  BY LoaderParameters
<1>9. areas[i].end <= a.start
  <2>1. PICK x \in Nat, y \in Nat, z \in Nat : x = v * d /\ y = e * d /\ z = b * d
    BY <1>5
  <2>2. z = x + d + y
    BY <1>5, <2>1
  <2>3. a.start = z + SAVED_RSP - d /\ areas[i].end <= x
    BY <1>6, <2>1, Zenon
  <2>4. PICK c \in Nat : c = SAVED_RSP
    BY <1>8
  <2>5. z + c - d = x + y + c /\ x <= z + c - d
    BY <2>2
  <2> QED  BY <1>7, <2>3, <2>4, <2>5
<1> QED  BY <1>9 DEF Beside

(* A list of the segments is one of those before the next header, if that  *)
(* has nothing to load.                                                    *)
LEMMA ListsSkips ==
  ASSUME NEW p \in Programs, NEW areas, NEW m, NEW n \in Nat, Lists(p, areas, m, n), n \notin Loads(p)
  PROVE  Lists(p, areas, m, n + 1)
<1>1. LoadsBefore(p, n + 1) = LoadsBefore(p, n) \cup (IF n \in Loads(p) THEN {n} ELSE {})
  BY LoadsBeforeIs
<1>2. LoadsBefore(p, n + 1) = LoadsBefore(p, n)
  BY <1>1
<1> QED  BY <1>2 DEF Lists

(* What is mapped is mapped for a segment.                                 *)
LEMMA FirstIs ==
  ASSUME TaskInv, Finished
  PROVE  \E j \in Loads(program) : Bounds(First, program.phdrs[j])
<1>1. program \in Programs /\ Lists(program, tsk.areas, Len(tsk.areas) - 1, Len(program.phdrs) + 1)
  BY DEF TaskInv
<1>2. PICK m : m = Cardinality(Loads(program)) /\ m = Len(tsk.areas) - 1
  BY <1>1, LoadsBeforeIs DEF Lists
<1>3. IsFiniteSet(Loads(program)) /\ Loads(program) # {}
  BY <1>1, LoadsBeforeIs, LoaderPrograms
<1>4. m \in Nat /\ m # 0
  BY <1>2, <1>3, FS_CardinalityType, FS_EmptySet
<1>5. 1 \in 1 .. Len(tsk.areas) - 1
  <2>1. 1 \in 1 .. m
    BY <1>4
  <2> QED  BY <1>2, <2>1, Zenon
<1>6. PICK j \in LoadsBefore(program, Len(program.phdrs) + 1) : Bounds(tsk.areas[1], program.phdrs[j])
  BY <1>1, <1>5 DEF Lists
<1>7. j \in Loads(program)
  BY <1>1, LoadsBeforeIs
<1> QED  BY <1>6, <1>7 DEF First

-----------------------------------------------------------------------------
(* The invariant is kept.                                                  *)

LInv == VInv /\ TaskInv /\ MapInv

Early == {"tables", "search", "mm", "headers", "loaded"}

(* A step that leaves the task alone, and does not start on its list.      *)
LEMMA TaskSame ==
  ASSUME TaskInv, UNCHANGED <<program, tsk, regions>>, phdr' \in Nat \ {0},
         pl' = "mm" => pl = "mm" /\ phdr' = phdr,
         pl' = "headers" => pl = "headers" /\ Lists(program, tsk.areas, Len(tsk.areas), phdr'),
         Finished' => Finished
  PROVE  TaskInv'
<1>1. program' = program /\ tsk' = tsk /\ regions' = regions
  OBVIOUS
<1>2. program' \in Programs /\ IsTask(tsk') /\ phdr' \in Nat \ {0}
  BY <1>1 DEF TaskInv
<1>3. pl' = "mm" => tsk'.areas = <<>> /\ phdr' = 1 /\ Held(regions', {TaskStruct(tsk')}, 1)
  BY <1>1 DEF TaskInv
<1>4. pl' = "headers" \/ Finished' =>
        /\ tsk'.areas \in Seq(AreaType) /\ Spaced(tsk'.areas)
        /\ Held(regions', Structures(tsk'), Len(tsk'.areas) + 2)
  BY <1>1 DEF TaskInv
<1>5. pl' = "headers" => Lists(program', tsk'.areas, Len(tsk'.areas), phdr')
  BY <1>1
<1>6. Finished' => Lists(program', tsk'.areas, Len(tsk'.areas) - 1, Len(program'.phdrs) + 1)
  BY <1>1 DEF TaskInv
<1> QED  BY <1>2, <1>3, <1>4, <1>5, <1>6 DEF TaskInv

(* A step that maps nothing for the program, before anything is.           *)
LEMMA MapSame ==
  ASSUME MapInv, pl \in Early, pl' \in Early \ {"tables"}, cr3' = cr3, cr3 # Unmapped,
         ~vm'.failed => ~vm.failed /\ SameForUsers
  PROVE  MapInv'
<1>1. UserMapped = {} /\ UserMapped' = {} /\ ~NullFault /\ ~NullFault'
  BY DEF Early, UserMapped, NullFault
<1>2. ASSUME ~vm'.failed, NEW v \in UserPage PROVE FrameOf(v)' # Unmapped <=> v \in {}
  <2>1. FrameOf(v) # Unmapped <=> v \in {}
    BY <1>1, <1>2 DEF MapInv
  <2>2. FrameOf(v)' = FrameOf(v)
    BY <1>2 DEF SameForUsers
  <2> QED  BY <2>1, <2>2
<1> QED  BY <1>1, <1>2 DEF MapInv, Early

(* setup_page_tables maps nothing for a program.                           *)
LEMMA SetUpLInv ==
  ASSUME ClearRam, LInv, SetupPageTables
  PROVE  LInv'
<1>1. /\ setup_page_tables /\ pl = "tables" /\ pl' = "search"
      /\ UNCHANGED <<program, tsk, regions>> /\ phdr' = phdr
  BY DEF SetupPageTables, Goto, setup_page_tables
<1>2. VInv' /\ cr3' # Unmapped /\ (~vm'.failed => Booted(vm', cr3'))
  BY <1>1, SetUpVInv DEF LInv
<1>3. TaskInv'
  <2>1. phdr' \in Nat \ {0} /\ ~Finished'
    BY <1>1 DEF LInv, TaskInv, Finished
  <2> QED  BY <1>1, <2>1, TaskSame DEF LInv
<1>4. ASSUME ~vm'.failed, NEW v \in UserPage PROVE FrameOf(v)' # Unmapped <=> v \in {}
  <2>1. Translate(vm'.mem, cr3', v) = AtBoot(v)
    BY <1>2, <1>4, UserPagesAre DEF Booted
  <2>2. FrameOf(v)' = Unmapped
    BY <2>1, NoUserAtBoot DEF FrameOf
  <2> QED  BY <2>2
<1>5. UserMapped' = {}
  BY <1>1 DEF UserMapped
<1>6. MapInv'
  BY <1>1, <1>2, <1>4, <1>5 DEF MapInv
<1> QED  BY <1>2, <1>3, <1>6 DEF LInv

(* load_elf allocates the task_struct.                                     *)
LEMMA TaskLInv ==
  ASSUME LInv, AllocateTask
  PROVE  LInv'
<1>1. /\ kmalloc(TASK_STRUCT) /\ pl = "search" /\ pl' = "mm" /\ program' = program
      /\ tsk' = [NoTask EXCEPT !.base = Here] /\ phdr' = 1
  BY DEF AllocateTask, Goto
<1>2. /\ VInv' /\ cr3' = cr3 /\ cr3 # Unmapped
      /\ regions' = regions \cup {[base |-> Here, size |-> TASK_STRUCT]}
      /\ ~vm'.failed => ~vm.failed /\ SameForUsers
  BY <1>1, LoaderParameters, StructureAllocated DEF LInv
<1>3. IsTask(tsk') /\ tsk'.areas = <<>> /\ tsk'.base = Here
  BY <1>1 DEF NoTask, IsTask
<1>4. Held(regions', {TaskStruct(tsk')}, 1)
  <2>1. Held(regions, {}, 0)
    BY FS_EmptySet DEF Held
  <2>2. Held(regions', {} \cup {[base |-> Here, size |-> TASK_STRUCT]}, 0 + 1)
    BY <1>2, <2>1, LoaderParameters, HeldMore DEF LInv
  <2>3. TaskStruct(tsk') = [base |-> Here, size |-> TASK_STRUCT]
    BY <1>3 DEF TaskStruct
  <2> QED  BY <2>2, <2>3
<1>5. TaskInv'
  <2>1. ~Finished' /\ program' \in Programs
    BY <1>1 DEF Finished, LInv, TaskInv
  <2> QED  BY <1>1, <1>3, <1>4, <2>1 DEF TaskInv
<1>6. MapInv'
  BY <1>1, <1>2, MapSame DEF LInv, Early
<1> QED  BY <1>2, <1>5, <1>6 DEF LInv

(* load_elf allocates the mm_struct.                                       *)
LEMMA MmLInv ==
  ASSUME LInv, AllocateMm
  PROVE  LInv'
<1>1. /\ kmalloc(MM_STRUCT) /\ pl = "mm" /\ pl' = "headers" /\ program' = program
      /\ tsk' = [tsk EXCEPT !.mm = Here] /\ phdr' = phdr
  BY DEF AllocateMm, Goto
<1>2. /\ VInv' /\ cr3' = cr3 /\ cr3 # Unmapped
      /\ regions' = regions \cup {[base |-> Here, size |-> MM_STRUCT]}
      /\ ~vm'.failed => ~vm.failed /\ SameForUsers
  BY <1>1, LoaderParameters, StructureAllocated DEF LInv
<1>3. /\ program \in Programs /\ IsTask(tsk) /\ phdr = 1
      /\ tsk.areas = <<>> /\ Held(regions, {TaskStruct(tsk)}, 1)
  BY <1>1 DEF LInv, TaskInv
<1>4. IsTask(tsk') /\ tsk'.mm = Here /\ tsk'.base = tsk.base /\ tsk'.areas = <<>>
  <2>1. PICK t, u : t = tsk /\ u = tsk'
    OBVIOUS
  <2>2. IsTask(u) /\ u.mm = Here /\ u.base = t.base /\ u.areas = t.areas
    BY <1>1, <1>3, <2>1, MmFields
  <2> QED  BY <1>3, <2>1, <2>2
<1> DEFINE q == [base |-> Here, size |-> MM_STRUCT]
<1>5. Structures(tsk') = {TaskStruct(tsk)} \cup {q}
  <2>1. TaskStruct(tsk') = TaskStruct(tsk) /\ MmStruct(tsk') = q
    BY <1>4 DEF TaskStruct, MmStruct
  <2>2. {VmaStruct(tsk'.areas[i]) : i \in DOMAIN tsk'.areas} = {}
    BY <1>4
  <2> QED  BY <2>1, <2>2, Zenon DEF Structures
<1>6. Held(regions', {TaskStruct(tsk)} \cup {q}, 1 + 1)
  BY <1>2, <1>3, LoaderParameters, HeldMore DEF LInv
<1>7. Len(tsk'.areas) = 0 /\ tsk'.areas \in Seq(AreaType) /\ DOMAIN tsk'.areas = {}
  BY <1>4
<1>8. Spaced(tsk'.areas)
  BY <1>7, Zenon DEF Spaced
<1>9. Lists(program', tsk'.areas, 0, phdr')
  <2>1. Cardinality(LoadsBefore(program, 1)) = 0
    BY <1>3, LoadsBeforeIs, FS_EmptySet
  <2> QED  BY <1>1, <1>3, <2>1 DEF Lists
<1>10. TaskInv'
  <2>1. ~Finished' /\ pl' # "mm"
    BY <1>1 DEF Finished
  <2>2. Len(tsk'.areas) + 2 = 1 + 1
    BY <1>7
  <2>3. Held(regions', Structures(tsk'), Len(tsk'.areas) + 2)
    BY <1>5, <1>6, <2>2, Zenon
  <2> QED  BY <1>1, <1>3, <1>4, <1>7, <1>8, <1>9, <2>1, <2>3 DEF TaskInv
<1>11. MapInv'
  BY <1>1, <1>2, MapSame DEF LInv, Early
<1> QED  BY <1>2, <1>10, <1>11 DEF LInv

(* populateTask appends the area of a segment.                             *)
LEMMA SegmentLInv ==
  ASSUME LInv, populateTask
  PROVE  LInv'
<1>1. PICK h, a :
        /\ h = program.phdrs[phdr] /\ a = Area(h.vaddr, h.vaddr + h.memsz, h.flags)
        /\ phdr <= Len(program.phdrs) /\ h.type = "PT_LOAD"
        /\ pl = "headers" /\ pl' = "headers" /\ program' = program
        /\ kmalloc(VMA_STRUCT) /\ phdr' = phdr + 1
        /\ \E z, w : tsk' = [tsk EXCEPT !.areas = Appended(tsk.areas, a), !.code = z, !.data = w]
  <2>1. PICK h : h = program.phdrs[phdr]
    OBVIOUS
  <2>2. PICK b : b = <<h.vaddr, h.vaddr + h.memsz>>
    OBVIOUS
  <2>3. b[1] = h.vaddr /\ b[2] = h.vaddr + h.memsz
    BY <2>2
  <2>4. tsk' = [tsk EXCEPT
                  !.areas = Appended(@, Area(b[1], b[2], h.flags)),
                  !.code = IF h.flags = {"R", "X"} THEN b ELSE @,
                  !.data = IF h.flags = {"R", "W", "X"} THEN b ELSE @]
    BY <2>1, <2>2, Zenon DEF populateTask
  <2>5. PICK z, w : /\ z = (IF h.flags = {"R", "X"} THEN b ELSE tsk.code)
                    /\ w = (IF h.flags = {"R", "W", "X"} THEN b ELSE tsk.data)
    OBVIOUS
  <2>6. tsk' = [tsk EXCEPT !.areas = Appended(tsk.areas, Area(b[1], b[2], h.flags)), !.code = z, !.data = w]
    BY <2>4, <2>5
  <2>7. tsk' = [tsk EXCEPT !.areas = Appended(tsk.areas, Area(h.vaddr, h.vaddr + h.memsz, h.flags)),
                           !.code = z, !.data = w]
    BY <2>3, <2>6, Zenon
  <2>8. /\ phdr <= Len(program.phdrs) /\ h.type = "PT_LOAD"
        /\ pl = "headers" /\ pl' = "headers" /\ program' = program
        /\ kmalloc(VMA_STRUCT) /\ phdr' = phdr + 1
    BY <2>1, Zenon DEF populateTask, Goto
  <2> QED  BY <2>1, <2>7, <2>8
<1>2. /\ VInv' /\ cr3' = cr3 /\ cr3 # Unmapped /\ Here \in Nat
      /\ regions' = regions \cup {[base |-> Here, size |-> VMA_STRUCT]}
      /\ ~vm'.failed => ~vm.failed /\ SameForUsers
  BY <1>1, LoaderParameters, StructureAllocated DEF LInv
<1>3. /\ program \in Programs /\ IsTask(tsk) /\ phdr \in Nat \ {0}
      /\ tsk.areas \in Seq(AreaType) /\ Spaced(tsk.areas)
      /\ Held(regions, Structures(tsk), Len(tsk.areas) + 2)
      /\ Lists(program, tsk.areas, Len(tsk.areas), phdr)
  BY <1>1 DEF LInv, TaskInv
<1>4. phdr \in Loads(program)
  <2>1. program.phdrs \in Seq(Header)
    BY <1>3, LoaderParameters
  <2>2. phdr \in DOMAIN program.phdrs
    BY <1>1, <1>3, <2>1
  <2> QED  BY <1>1, <2>2 DEF Loads
<1>5. a \in AreaType /\ a.vma = Here /\ Bounds(a, h)
  <2>1. h.vaddr \in Nat /\ h.memsz \in Nat /\ h.flags \in SUBSET {"R", "W", "X"}
    BY <1>1, <1>3, <1>4, SegmentIs
  <2> QED  BY <1>1, <1>2, <2>1 DEF Area, AreaType, Bounds
<1>6. /\ Lists(program, Appended(tsk.areas, a), Len(tsk.areas) + 1, phdr + 1)
      /\ a.start < a.end
      /\ \A i \in 1 .. Len(tsk.areas) : Beside(tsk.areas[i], a)
  <2>1. PICK p \in Programs, n \in Nat, areas \in Seq(AreaType) :
          p = program /\ n = phdr /\ areas = tsk.areas
    BY <1>3
  <2>2. Lists(p, areas, Len(areas), n) /\ n \in Loads(p) /\ Bounds(a, p.phdrs[n])
    BY <1>1, <1>3, <1>4, <1>5, <2>1
  <2>3. /\ Lists(p, Appended(areas, a), Len(areas) + 1, n + 1)
        /\ a.start < a.end
        /\ \A i \in 1 .. Len(areas) : Beside(areas[i], a)
    BY <1>5, <2>2, ListsMore
  <2> QED  BY <2>1, <2>3
<1>7. /\ IsTask(tsk') /\ tsk'.mm = tsk.mm /\ tsk'.base = tsk.base
      /\ tsk'.areas = Appended(tsk.areas, a)
  <2>1. PICK t, u : t = tsk /\ u = tsk'
    OBVIOUS
  <2>2. PICK y, z, w : u = [t EXCEPT !.areas = y, !.code = z, !.data = w] /\ y = Appended(t.areas, a)
    BY <1>1, <2>1
  <2>3. IsTask(u) /\ u.mm = t.mm /\ u.base = t.base /\ u.areas = y
    <3>1. IsTask(t)
      BY <1>3, <2>1
    <3> QED  BY <2>2, <3>1 DEF IsTask
  <2> QED  BY <2>1, <2>2, <2>3
<1>8. /\ tsk'.areas \in Seq(AreaType) /\ Spaced(tsk'.areas)
      /\ Len(tsk'.areas) = Len(tsk.areas) + 1
      /\ Held(regions', Structures(tsk'), Len(tsk'.areas) + 2)
  BY <1>2, <1>3, <1>5, <1>6, <1>7, AreaAdded DEF LInv
<1>9. TaskInv'
  <2>1. ~Finished' /\ pl' # "mm" /\ program' = program /\ phdr' \in Nat \ {0}
    BY <1>1, <1>3 DEF Finished
  <2>2. Lists(program', tsk'.areas, Len(tsk'.areas), phdr')
    BY <1>1, <1>6, <1>7, <1>8
  <2> QED  BY <1>3, <1>7, <1>8, <2>1, <2>2 DEF TaskInv
<1>10. MapInv'
  BY <1>1, <1>2, MapSame DEF LInv, Early
<1> QED  BY <1>2, <1>9, <1>10 DEF LInv

(* populateTask appends the area of the stack.                             *)
LEMMA StackLInv ==
  ASSUME LInv, AllocateStack
  PROVE  LInv'
<1>1. PICK rsp, a :
        /\ rsp = tsk.base * PAGE_SIZE + SAVED_RSP
        /\ a = Area(rsp - PAGE_SIZE, rsp, {"R", "W"})
        /\ phdr > Len(program.phdrs)
        /\ pl = "headers" /\ pl' = "loaded" /\ program' = program
        /\ kmalloc(VMA_STRUCT) /\ phdr' = phdr
        /\ tsk' = [tsk EXCEPT !.areas = Appended(tsk.areas, a)]
  BY DEF AllocateStack, Goto
<1>2. /\ VInv' /\ cr3' = cr3 /\ cr3 # Unmapped /\ Here \in Nat
      /\ regions' = regions \cup {[base |-> Here, size |-> VMA_STRUCT]}
      /\ ~vm'.failed => ~vm.failed /\ SameForUsers
  BY <1>1, LoaderParameters, StructureAllocated DEF LInv
<1>3. /\ program \in Programs /\ IsTask(tsk) /\ phdr \in Nat \ {0}
      /\ tsk.areas \in Seq(AreaType) /\ Spaced(tsk.areas)
      /\ Held(regions, Structures(tsk), Len(tsk.areas) + 2)
      /\ Lists(program, tsk.areas, Len(tsk.areas), phdr)
  BY <1>1 DEF LInv, TaskInv
<1>4. PICK q \in regions : q.base = tsk.base /\ q.base \in Nat /\ q.size \in Nat \ {0}
  <2>1. TaskStruct(tsk) \in Structures(tsk)
    BY DEF Structures
  <2>2. TaskStruct(tsk).base = tsk.base
    BY DEF TaskStruct
  <2> QED  BY <1>3, <2>1, <2>2 DEF Held
<1>5. PICK b \in Nat, d \in Nat \ {0}, c \in Nat :
        b = tsk.base /\ d = PAGE_SIZE /\ c = SAVED_RSP
  BY <1>4, LoaderParameters, Parameters
<1>6. rsp \in Nat /\ rsp = b * d + c
  <2>1. b * d \in Nat
    BY <1>5
  <2>2. rsp = b * d + c
    BY <1>1, <1>5
  <2> QED  BY <1>5, <2>1, <2>2
<1>7. a \in AreaType /\ a.vma = Here /\ a.start = rsp - PAGE_SIZE /\ a.start < a.end
  <2>1. rsp - PAGE_SIZE \in Int /\ rsp - PAGE_SIZE < rsp
    BY <1>5, <1>6
  <2> QED  BY <1>1, <1>2, <1>6, <2>1 DEF Area, AreaType
<1>8. \A i \in 1 .. Len(tsk.areas) : Beside(tsk.areas[i], a)
  <2>1. a.start = q.base * PAGE_SIZE + SAVED_RSP - PAGE_SIZE
    <3>1. PICK x \in Nat : x = b * d
      BY <1>5
    <3>2. a.start = x + c - d
      BY <1>5, <1>6, <1>7, <3>1
    <3> QED  BY <1>4, <1>5, <3>1, <3>2
  <2>2. PICK areas : areas = tsk.areas
    OBVIOUS
  <2>3. PICK m, n : m = Len(areas) /\ n = phdr
    OBVIOUS
  <2>4. areas \in Seq(AreaType) /\ Lists(program, areas, m, n) /\ VInv
    BY <1>3, <2>2, <2>3 DEF LInv
  <2>5. \A i \in 1 .. m : Beside(areas[i], a)
    BY <1>3, <1>4, <2>1, <2>4, StackBeside
  <2> QED  BY <2>2, <2>3, <2>5
<1>9. IsTask(tsk') /\ tsk'.mm = tsk.mm /\ tsk'.base = tsk.base /\ tsk'.areas = Appended(tsk.areas, a)
  BY <1>1, <1>3 DEF IsTask
<1>10. /\ tsk'.areas \in Seq(AreaType) /\ Spaced(tsk'.areas)
       /\ Len(tsk'.areas) = Len(tsk.areas) + 1 /\ Len(tsk.areas) \in Nat
       /\ Held(regions', Structures(tsk'), Len(tsk'.areas) + 2)
       /\ \A i \in 1 .. Len(tsk.areas) : tsk'.areas[i] = tsk.areas[i]
  <2>1. /\ tsk'.areas \in Seq(AreaType) /\ Spaced(tsk'.areas)
        /\ Len(tsk'.areas) = Len(tsk.areas) + 1
        /\ Held(regions', Structures(tsk'), Len(tsk'.areas) + 2)
    BY <1>2, <1>3, <1>7, <1>8, <1>9, AreaAdded DEF LInv
  <2>2. Len(tsk.areas) \in Nat /\ \A i \in 1 .. Len(tsk.areas) : Appended(tsk.areas, a)[i] = tsk.areas[i]
    BY <1>3, <1>7, AppendedIs
  <2> QED  BY <1>9, <2>1, <2>2
<1>11. Lists(program, tsk'.areas, Len(tsk'.areas) - 1, Len(program.phdrs) + 1)
  <2>1. LoadsBefore(program, phdr) = LoadsBefore(program, Len(program.phdrs) + 1)
    <3>1. Loads(program) \subseteq 1 .. Len(program.phdrs) /\ Len(program.phdrs) \in Nat
      BY <1>3, SegmentIs, LoadsBeforeIs
    <3>2. LoadsBefore(program, phdr) = Loads(program)
      BY <1>1, <1>3, <3>1 DEF LoadsBefore
    <3> QED  BY <1>3, <3>2, LoadsBeforeIs
  <2>2. PICK m \in Nat : m = Len(tsk.areas) /\ Len(tsk'.areas) - 1 = m
    BY <1>10
  <2>3. \A i \in 1 .. m : \E j \in LoadsBefore(program, phdr) : Bounds(tsk'.areas[i], program.phdrs[j])
    BY <1>3, <1>10, <2>2 DEF Lists
  <2> QED  BY <1>3, <2>1, <2>2, <2>3 DEF Lists
<1>12. TaskInv'
  <2>1. /\ pl' # "mm" /\ pl' # "headers" /\ program' = program /\ phdr' \in Nat \ {0}
    BY <1>1, <1>3
  <2> QED  BY <1>3, <1>9, <1>10, <1>11, <2>1 DEF TaskInv
<1>13. MapInv'
  BY <1>1, <1>2, MapSame DEF LInv, Early
<1> QED  BY <1>2, <1>12, <1>13 DEF LInv

(* start() drops what the first load has built.                            *)
LEMMA SecondLInv ==
  ASSUME LInv, SecondLoad
  PROVE  LInv'
<1>1. /\ kmalloc(TASK_STRUCT) /\ pl \in {"loaded", "search"} /\ pl' = "search"
      /\ UNCHANGED <<program, phdr, tsk>>
  BY DEF SecondLoad
<1>2. /\ VInv' /\ cr3' = cr3 /\ cr3 # Unmapped
      /\ ~vm'.failed => ~vm.failed /\ SameForUsers
  BY <1>1, LoaderParameters, StructureAllocated DEF LInv
<1>3. TaskInv'
  <2>1. ~Finished' /\ program' \in Programs /\ IsTask(tsk') /\ phdr' \in Nat \ {0}
    BY <1>1 DEF Finished, LInv, TaskInv
  <2> QED  BY <1>1, <2>1 DEF TaskInv
<1>4. MapInv'
  BY <1>1, <1>2, MapSame DEF LInv, Early
<1> QED  BY <1>2, <1>3, <1>4 DEF LInv

(* CopyCodeData has the first segment mapped.                              *)
LEMMA AreaLInv ==
  ASSUME LInv, AllocateArea
  PROVE  LInv'
<1>1. /\ kmalloc_virtual(First.end - First.start, First.start \div PAGE_SIZE)
      /\ pl = "loaded" /\ pl' = "copy" /\ UNCHANGED <<program, phdr, tsk>>
  BY DEF AllocateArea, Goto
<1>2. Finished /\ TaskInv /\ program \in Programs
  BY <1>1 DEF LInv, TaskInv, Finished, NullFault
<1>3. PICK j \in Loads(program) : Bounds(First, program.phdrs[j])
  BY <1>2, FirstIs
<1>4. PICK a : a = First
  OBVIOUS
<1>5. /\ VInv' /\ cr3' = cr3 /\ regions' = regions
      /\ ~vm'.failed =>
           /\ ~vm.failed
           /\ \A v \in UserPage :
                FrameOf(v)' # Unmapped <=> FrameOf(v) # Unmapped \/ v \in Strided(a)
  BY <1>1, <1>2, <1>3, <1>4, SegmentAllocated DEF LInv
<1>6. TaskInv'
  <2>1. phdr' \in Nat \ {0}
    BY <1>1, <1>2 DEF TaskInv
  <2> QED  BY <1>1, <1>2, <1>5, <2>1, TaskSame
<1>7. cr3 # Unmapped
  BY <1>1 DEF LInv, MapInv
<1>8. UserMapped = {} /\ UserMapped' = Strided(a) /\ ~NullFault
  <2>1. First' = First
    BY <1>1 DEF First
  <2> QED  BY <1>1, <1>4, <2>1 DEF UserMapped, NullFault, Strided
<1>9. ASSUME ~vm'.failed, NEW v \in UserPage PROVE FrameOf(v)' # Unmapped <=> v \in UserMapped'
  <2>1. ~vm.failed /\ (FrameOf(v)' # Unmapped <=> FrameOf(v) # Unmapped \/ v \in Strided(a))
    BY <1>5, <1>9
  <2>2. FrameOf(v) # Unmapped <=> v \in {}
    BY <1>7, <1>8, <2>1 DEF LInv, MapInv
  <2> QED  BY <1>8, <2>1, <2>2
<1>10. MapInv'
  BY <1>1, <1>5, <1>7, <1>9 DEF MapInv
<1> QED  BY <1>5, <1>6, <1>10 DEF LInv

(* A step that changes no memory keeps what holds of memory.               *)
LEMMA VmSame ==
  ASSUME ClearRam, LInv, UNCHANGED vars
  PROVE  VInv' /\ cr3' = cr3 /\ vm' = vm /\ regions' = regions /\ \A v : FrameOf(v)' = FrameOf(v)
<1>1. VInv'
  BY NextVInv DEF LInv
<1> QED  BY <1>1 DEF vars, FrameOf

(* A search, a header without anything to load, and a missing file.        *)
LEMMA QuietLInv ==
  ASSUME ClearRam, LInv, Search \/ SkipHeader \/ NoFile
  PROVE  LInv'
<1>1. VInv' /\ cr3' = cr3 /\ vm' = vm /\ regions' = regions /\ \A v : FrameOf(v)' = FrameOf(v)
  BY VmSame DEF Search, SkipHeader, NoFile
<1>2. program' = program /\ tsk' = tsk /\ phdr' \in Nat \ {0}
  BY DEF Search, SkipHeader, NoFile, Goto, LInv, TaskInv
<1>3. TaskInv'
  <2>1. CASE Search
    <3>1. pl' = "search" /\ ~Finished'
      BY <2>1 DEF Search, Goto, Finished
    <3> QED  BY <1>1, <1>2, <3>1, TaskSame DEF LInv
  <2>2. CASE NoFile
    <3>1. pl' = "fault" /\ ~Finished'
      BY <2>2 DEF NoFile, Goto, Finished, NullFault, tarfs
    <3> QED  BY <1>1, <1>2, <3>1, TaskSame DEF LInv
  <2>3. CASE SkipHeader
    <3>1. /\ pl = "headers" /\ pl' = "headers" /\ ~Finished' /\ phdr' = phdr + 1
          /\ program.phdrs[phdr].type # "PT_LOAD"
      BY <2>3 DEF SkipHeader, Goto, Finished
    <3>2. Lists(program, tsk.areas, Len(tsk.areas), phdr') /\ program \in Programs
      <4>1. /\ program \in Programs /\ phdr \in Nat
            /\ Lists(program, tsk.areas, Len(tsk.areas), phdr)
        BY <3>1 DEF LInv, TaskInv
      <4>2. phdr \notin Loads(program)
        BY <3>1 DEF Loads
      <4>3. PICK areas, m : areas = tsk.areas /\ m = Len(tsk.areas)
        OBVIOUS
      <4>4. Lists(program, areas, m, phdr + 1)
        BY <4>1, <4>2, <4>3, ListsSkips
      <4> QED  BY <3>1, <4>1, <4>3, <4>4
    <3> QED  BY <1>1, <1>2, <3>1, <3>2, TaskSame DEF LInv
  <2> QED  BY <2>1, <2>2, <2>3
<1>4. MapInv'
  <2>1. SameForUsers
    BY <1>1 DEF SameForUsers
  <2>2. CASE Search \/ SkipHeader
    <3>1. pl \in {"search", "headers"} /\ pl' = pl
      BY <2>2 DEF Search, SkipHeader, Goto
    <3>2. cr3 # Unmapped
      BY <3>1 DEF LInv, MapInv
    <3> QED  BY <1>1, <2>1, <3>1, <3>2, MapSame DEF LInv, Early
  <2>3. CASE NoFile
    <3>1. pl = "search" /\ pl' = "fault" /\ NullFault'
      BY <2>3 DEF NoFile, Goto, NullFault, tarfs
    <3>2. cr3' # Unmapped
      BY <1>1, <3>1 DEF LInv, MapInv
    <3> QED  BY <3>1, <3>2 DEF MapInv
  <2> QED  BY <2>2, <2>3
<1> QED  BY <1>1, <1>3, <1>4 DEF LInv

(* The copying loop.                                                       *)
LEMMA CopyLInv ==
  ASSUME ClearRam, LInv, CopyCodeData
  PROVE  LInv'
<1>1. /\ pl = "copy" /\ pl' \in {"done", "fault"}
      /\ pl' = "done" <=> \A v \in Touched(First) : FrameOf(v) # Unmapped
      /\ UNCHANGED <<vars, program, found, phdr, tsk>>
  BY DEF CopyCodeData, Goto, FrameOf, tarfs
<1>2. VInv' /\ cr3' = cr3 /\ vm' = vm /\ regions' = regions /\ \A v : FrameOf(v)' = FrameOf(v)
  BY <1>1, VmSame
<1>3. TaskInv'
  <2>1. phdr' \in Nat \ {0} /\ Finished
    BY <1>1 DEF LInv, TaskInv, Finished, NullFault
  <2> QED  BY <1>1, <1>2, <2>1, TaskSame DEF LInv
<1>4. /\ UserMapped' = UserMapped /\ Touched(First)' = Touched(First)
      /\ ~NullFault /\ cr3 # Unmapped
  <2>1. First' = First
    BY <1>1 DEF First
  <2>2. Touched(First)' = Touched(First)
    BY <1>1, <2>1 DEF Touched
  <2>3. UserMapped' = UserMapped
    BY <1>1, <2>1 DEF UserMapped, Strided
  <2> QED  BY <1>1, <2>2, <2>3 DEF NullFault, LInv, MapInv
<1>5. MapInv'
  <2>1. ~vm'.failed => \A v \in UserPage : FrameOf(v)' # Unmapped <=> v \in UserMapped'
    BY <1>2, <1>4 DEF LInv, MapInv
  <2>2. pl' = "done" => \A v \in Touched(First)' : FrameOf(v)' # Unmapped
    BY <1>1, <1>2, <1>4
  <2>3. pl' = "fault" => \E v \in Touched(First)' : FrameOf(v)' = Unmapped
    BY <1>1, <1>2, <1>4
  <2> QED  BY <1>1, <1>2, <1>4, <2>1, <2>2, <2>3 DEF MapInv
<1> QED  BY <1>2, <1>3, <1>5 DEF LInv

(* Nothing changes any more.                                               *)
LEMMA StutterLInv ==
  ASSUME ClearRam, LInv, UNCHANGED allVars
  PROVE  LInv'
<1>1. UNCHANGED <<vars, program, pl, phdr, tsk, found>>
  BY DEF allVars, loader, tarfs
<1>2. VInv' /\ cr3' = cr3 /\ vm' = vm /\ regions' = regions /\ \A v : FrameOf(v)' = FrameOf(v)
  BY <1>1, VmSame
<1>3. NullFault' = NullFault /\ Finished' = Finished
  BY <1>1 DEF NullFault, Finished
<1>4. TaskInv'
  <2>1. phdr' \in Nat \ {0}
    BY <1>1 DEF LInv, TaskInv
  <2>2. pl' = "headers" => pl = "headers" /\ Lists(program, tsk.areas, Len(tsk.areas), phdr')
    BY <1>1 DEF LInv, TaskInv
  <2> QED  BY <1>1, <1>2, <1>3, <2>1, <2>2, TaskSame DEF LInv
<1>5. UserMapped' = UserMapped /\ Touched(First)' = Touched(First)
  <2>1. First' = First
    BY <1>1 DEF First
  <2> QED  BY <1>1, <2>1 DEF UserMapped, Strided, Touched
<1>6. MapInv'
  <2>1. MapInv
    BY DEF LInv
  <2>2. cr3' # Unmapped /\ ~vm'.failed /\ ~NullFault' =>
          \A v \in UserPage : FrameOf(v)' # Unmapped <=> v \in UserMapped'
    BY <1>2, <1>3, <1>5, <2>1 DEF MapInv
  <2>3. pl' = "done" => \A v \in Touched(First)' : FrameOf(v)' # Unmapped
    BY <1>1, <1>2, <1>5, <2>1 DEF MapInv
  <2>4. pl' = "fault" /\ ~NullFault' => \E v \in Touched(First)' : FrameOf(v)' = Unmapped
    BY <1>1, <1>2, <1>3, <1>5, <2>1 DEF MapInv
  <2> QED  BY <1>1, <1>2, <2>1, <2>2, <2>3, <2>4 DEF MapInv
<1> QED  BY <1>2, <1>4, <1>6 DEF LInv

(* Every step of the loader keeps the invariant.                           *)
LEMMA NextLInv ==
  ASSUME ClearRam, LInv, [LoaderNext]_allVars
  PROVE  LInv'
<1>1. CASE SetupPageTables
  BY <1>1, SetUpLInv
<1>2. CASE Search \/ SkipHeader \/ NoFile
  BY <1>2, QuietLInv
<1>3. CASE AllocateTask
  BY <1>3, TaskLInv
<1>4. CASE AllocateMm
  BY <1>4, MmLInv
<1>5. CASE populateTask
  BY <1>5, SegmentLInv
<1>6. CASE AllocateStack
  BY <1>6, StackLInv
<1>7. CASE SecondLoad
  BY <1>7, SecondLInv
<1>8. CASE AllocateArea
  BY <1>8, AreaLInv
<1>9. CASE CopyCodeData
  BY <1>9, CopyLInv
<1>10. CASE Loaded \/ UNCHANGED allVars
  BY <1>10, StutterLInv DEF Loaded
<1> QED
  BY <1>1, <1>2, <1>3, <1>4, <1>5, <1>6, <1>7, <1>8, <1>9, <1>10 DEF LoaderNext

LEMMA InitLInv == LoaderInit => LInv
<1> SUFFICES ASSUME LoaderInit PROVE LInv
  OBVIOUS
<1>1. VInv /\ cr3 = Unmapped
  BY InitVInv DEF LoaderInit, Init
<1>2. program \in Programs /\ IsTask(tsk) /\ phdr = 1 /\ pl = "tables"
  BY DEF LoaderInit, NoTask, IsTask
<1>3. ~Finished
  BY <1>2 DEF Finished
<1>4. TaskInv /\ MapInv
  BY <1>1, <1>2, <1>3 DEF TaskInv, MapInv
<1> QED  BY <1>1, <1>4 DEF LInv

(* The invariant holds whatever is loaded.                                 *)
LEMMA LInvHolds ==
  ASSUME ClearRam
  PROVE  LoaderSpec => []LInv
<1>1. LInv /\ [LoaderNext]_allVars => LInv'
  BY NextLInv
<1> QED  BY <1>1, InitLInv, PTL DEF LoaderSpec

-----------------------------------------------------------------------------
(* What the processor has cached.                                          *)

(* kmalloc of a structure maps pages that were not mapped.                 *)
LEMMA StructureKeeps ==
  ASSUME VInv, Beyond, NEW size \in Nat \ {0}, kmalloc(size)
  PROVE  Beyond' /\ (~vm'.failed => KeepsTranslations)
<1>1. PICK n \in Nat \ {0} : n = Count(size)
  BY CountIs
<1>2. /\ Up /\ kernelfree + n <= KERNEL_LIMIT /\ vm' = AllBacked(KernelPages(n))
      /\ cr3' = cr3 /\ kernelfree' = kernelfree + n
  BY <1>1 DEF kmalloc, Bumped
<1> QED  BY <1>2, KernelKeeps

(* And so does kmalloc_virtual, called once.                               *)
LEMMA AreaKeeps ==
  ASSUME LInv, Beyond, AllocateArea
  PROVE  Beyond' /\ (~vm'.failed => KeepsTranslations)
<1>1. kmalloc_virtual(First.end - First.start, First.start \div PAGE_SIZE) /\ pl = "loaded"
  BY DEF AllocateArea, Goto
<1>2. Finished /\ TaskInv /\ program \in Programs
  BY <1>1 DEF LInv, TaskInv, Finished, NullFault
<1>3. PICK j \in Loads(program) : Bounds(First, program.phdrs[j])
  BY <1>2, FirstIs
<1>4. PICK a : a = First
  OBVIOUS
<1>5. /\ ~vm'.failed => ~vm.failed
      /\ Strided(a) \subseteq UserPage
      /\ Beyond'
      /\ ~vm'.failed => \A v \in Page \ Strided(a) : FrameOf(v) \in {Unmapped, FrameOf(v)'}
  BY <1>1, <1>2, <1>3, <1>4, SegmentAllocated DEF LInv
<1>6. ASSUME ~vm.failed, NEW v \in Strided(a) PROVE FrameOf(v) = Unmapped
  <2>1. cr3 # Unmapped /\ ~NullFault /\ UserMapped = {}
    BY <1>1 DEF LInv, MapInv, NullFault, UserMapped
  <2> QED  BY <1>1, <1>5, <1>6, <2>1 DEF LInv, MapInv
<1> QED  BY <1>5, <1>6 DEF KeepsTranslations

(* Every step of the loader keeps what is cached right.                    *)
LEMMA NextKeeps ==
  ASSUME ClearRam, LInv, Beyond, [LoaderNext]_allVars
  PROVE  Beyond' /\ (cr3 # Unmapped /\ ~vm'.failed => KeepsTranslations)
<1>1. CASE SetupPageTables
  BY <1>1, BeyondSetUp DEF SetupPageTables, setup_page_tables, LInv
<1>2. CASE AllocateTask \/ AllocateMm \/ populateTask \/ AllocateStack \/ SecondLoad
  <2>1. PICK size \in {TASK_STRUCT, MM_STRUCT, VMA_STRUCT} : kmalloc(size)
    BY <1>2 DEF AllocateTask, AllocateMm, populateTask, AllocateStack, SecondLoad
  <2> QED  BY <2>1, LoaderParameters, StructureKeeps DEF LInv
<1>3. CASE AllocateArea
  BY <1>3, AreaKeeps
<1>4. CASE Search \/ SkipHeader \/ NoFile \/ CopyCodeData \/ Loaded \/ UNCHANGED allVars
  <2>1. UNCHANGED vars
    BY <1>4 DEF Search, SkipHeader, NoFile, CopyCodeData, Loaded, allVars
  <2>2. vm' = vm /\ cr3' = cr3 /\ kernelfree' = kernelfree /\ regions' = regions
    BY <2>1 DEF vars
  <2>3. \A v : FrameOf(v)' = FrameOf(v)
    BY <2>2 DEF FrameOf
  <2> QED  BY <2>2, <2>3 DEF Beyond, KeepsTranslations
<1> QED  BY <1>1, <1>2, <1>3, <1>4 DEF LoaderNext

-----------------------------------------------------------------------------
(* What the properties of Loader say follows from the invariant.           *)

LEMMA TaskFollows == LInv => TaskIsWhole
<1> SUFFICES ASSUME LInv, pl \in {"loaded", "copy", "done"} PROVE TaskIsWhole
  BY DEF TaskIsWhole
<1>1. Finished /\ TaskInv /\ VInv
  BY DEF LInv, Finished, NullFault
<1>2. /\ program \in Programs /\ tsk.areas \in Seq(AreaType) /\ Spaced(tsk.areas)
      /\ Held(regions, Structures(tsk), Len(tsk.areas) + 2)
      /\ Lists(program, tsk.areas, Len(tsk.areas) - 1, Len(program.phdrs) + 1)
  BY <1>1 DEF TaskInv
<1>3. Len(tsk.areas) = Cardinality(Loads(program)) + 1
  <2>1. Len(tsk.areas) - 1 = Cardinality(Loads(program)) /\ Len(tsk.areas) \in Nat
    BY <1>2, LoadsBeforeIs DEF Lists
  <2> QED  BY <2>1
<1>4. \A i \in DOMAIN tsk.areas : find_vma(tsk.areas, tsk.areas[i].start) = i
  BY <1>2, SpacedFinds
<1>5. Cardinality(Structures(tsk)) = Len(tsk.areas) + 2 /\ Structures(tsk) \subseteq regions
  BY <1>2 DEF Held
<1>6. RegionsArePrivate
  BY <1>1, RegionsFollow
<1> QED  BY <1>3, <1>4, <1>5, <1>6, Zenon DEF TaskIsWhole

LEMMA CopyFollows == LInv => OnlyOnePageLoads
<1> SUFFICES ASSUME LInv, ~vm.failed,
                    pl = "done" \/ (pl = "fault" /\ found # NULL)
             PROVE  OnlyOnePageLoads
  BY DEF OnlyOnePageLoads
<1>1. Finished /\ ~NullFault /\ TaskInv /\ MapInv /\ program \in Programs
  BY DEF LInv, Finished, NullFault, TaskInv
<1>2. PICK j \in Loads(program) : Bounds(First, program.phdrs[j])
  BY <1>1, FirstIs
<1> DEFINE size == First.end - First.start
           first == First.start \div PAGE_SIZE
           needed == PagesAt(First.start, size) \cup PagesAt(program.entry, size)
<1>3. program.phdrs[j].vaddr = First.start /\ program.phdrs[j].memsz = size /\ size \in Nat
  BY <1>1, <1>2, SegmentIs DEF Bounds
<1>4. needed \subseteq UserPage
  BY <1>1, <1>3, LoaderPrograms
<1>5. Touched(First) = needed
  BY DEF Touched
<1>6. cr3 # Unmapped /\ UserMapped = Strided(First)
  BY <1>1 DEF MapInv, UserMapped
<1>7. \A v \in UserPage : FrameOf(v) # Unmapped <=> v \in Strided(First)
  BY <1>1, <1>6 DEF MapInv
<1>8. pl = "done" => needed \subseteq Strided(First)
  BY <1>1, <1>4, <1>5, <1>7 DEF MapInv
<1>9. pl = "fault" => needed # {first}
  <2> SUFFICES ASSUME pl = "fault", needed = {first} PROVE FALSE
    OBVIOUS
  <2>1. PICK v \in needed : FrameOf(v) = Unmapped
    BY <1>1, <1>5 DEF MapInv
  <2>2. v = first /\ v \notin Strided(First)
    BY <1>4, <1>7, <2>1
  <2>3. first \in Strided(First)
    <3>1. size \div PAGE_SIZE \in Nat /\ first \in Nat
      BY <1>1, <1>2, <1>3, SegmentIs, Split, Parameters
    <3>2. 0 \in 0 .. size \div PAGE_SIZE /\ first + 8 * 0 = first
      BY <3>1
    <3> QED  BY <3>2 DEF Strided
  <2> QED  BY <2>2, <2>3
<1>10. Strided(First) = {first + 8 * i : i \in 0 .. size \div PAGE_SIZE}
  BY DEF Strided
<1> QED  BY <1>8, <1>9, <1>10, Zenon DEF OnlyOnePageLoads

(* Whatever program is loaded, with any number of segments, and any size   *)
(* of pages and structures, of less than a page or of several, a loaded    *)
(* task has an area for each segment and one for the stack, find_vma tells *)
(* them apart, and its structures are regions of their own (tarfs.c:35 to  *)
(* 134, mm.c:15 to 48, sched.h:21 to 60).                                  *)
THEOREM TasksAreWhole ==
  ASSUME ClearRam
  PROVE  LoaderSpec => []TaskIsWhole
BY LInvHolds, TaskFollows, PTL

(* Until memory runs out CopyCodeData gets through a segment only if every *)
(* page it reads or writes is one of those, eight apart, that              *)
(* kmalloc_virtual has mapped (tarfs.c:139 to 166, pmap.c:176 to 203).     *)
THEOREM OnlyOnePageIsLoaded ==
  ASSUME ClearRam
  PROVE  LoaderSpec => []OnlyOnePageLoads
BY LInvHolds, CopyFollows, PTL

(* No translation that the processor may have cached is ever out of date,  *)
(* although mmap invalidates none: whatever is loaded, and until memory    *)
(* runs out, each page is mapped once.  The page behind the bitmap is the  *)
(* exception (pagetab.c:49 and 193).                                       *)
THEOREM NothingIsStale ==
  ASSUME ClearRam
  PROVE  LoaderSpec => NothingGoesStale
<1>1. LoaderInit => Beyond
  BY BeyondInit DEF LoaderInit
<1>2. LInv /\ Beyond /\ [LoaderNext]_allVars
        => /\ Beyond'
           /\ [(cr3 # Unmapped /\ ~vm'.failed) =>
                 \A v \in Page : \/ FrameOf(v) \in {Unmapped, FrameOf(v)'}
                                 \/ v = VIRT_OFFSET + physfree /\ regions = {}]_allVars
  BY NextKeeps DEF KeepsTranslations, Behind
<1> QED  BY <1>1, <1>2, LInvHolds, PTL DEF LoaderSpec, NothingGoesStale

(* A step of the loader is one of a search, or starts the next search.     *)
LEMMA StepSearches ==
  ASSUME [LoaderNext]_allVars
  PROVE  \/ [readTarfile]_tarfs
         \/ header' = 1 /\ found' = Searching /\ archive' = archive
BY DEF LoaderNext, allVars, SetupPageTables, Search, AllocateTask, AllocateMm, populateTask,
       SkipHeader, AllocateStack, SecondLoad, NoFile, AllocateArea, CopyCodeData, Loaded

(* A new search is on its way to every first file.                         *)
LEMMA LoaderSearchInv ==
  ASSUME SearchInv, [LoaderNext]_allVars
  PROVE  SearchInv'
<1>1. CASE [readTarfile]_tarfs
  BY <1>1, SearchInvStep
<1>2. CASE header' = 1 /\ found' = Searching /\ archive' = archive
  <2>1. archive \in Archives
    BY DEF SearchInv
  <2>2. IsHeader(archive, 1)
    BY <2>1, TarfsArchives DEF WellFormed
  <2>3. \A i \in 1 .. Len(archive) : StillBefore(i)'
    BY <1>2, <2>1, <2>2, LenIsNat DEF StillBefore
  <2> QED  BY <1>2, <2>1, <2>3 DEF SearchInv
<1> QED  BY <1>1, <1>2, StepSearches

(* Both searches of the loader find the file, and the first of its name,   *)
(* if no file before it has more than two blocks (tarfs.c:12 to 33).       *)
THEOREM LoaderFindsShortFiles == LoaderSpec => []ShortArchivesAreSearched
<1>1. LoaderInit => SearchInv
  BY SearchInvInit DEF LoaderInit
<1>2. SearchInv => ShortArchivesAreSearched
  BY DEF SearchInv, ShortArchivesAreSearched, StillBefore
<1> QED  BY <1>1, <1>2, LoaderSearchInv, PTL DEF LoaderSpec

(* And neither steps over a header: a count of blocks that is wrong is too *)
(* low (tarfs.c:12 to 33).                                                 *)
THEOREM LoaderSkipsNoHeader == LoaderSpec => SkipsNoHeader
<1>1. LoaderInit => SearchInv
  BY SearchInvInit DEF LoaderInit
<1>2. SearchInv /\ [LoaderNext]_allVars
        => [IsHeader(archive, header) =>
              \A i \in header + 1 .. header' - 1 : ~IsHeader(archive, i)]_tarfs
  <2> SUFFICES ASSUME SearchInv, [LoaderNext]_allVars, IsHeader(archive, header)
               PROVE  \A i \in header + 1 .. header' - 1 : ~IsHeader(archive, i)
    OBVIOUS
  <2>1. archive \in Archives
    BY DEF SearchInv
  <2>2. header \in Nat
    <3>1. header \in 1 .. Len(archive) /\ Len(archive) \in Nat
      BY <2>1, LenIsNat DEF IsHeader
    <3> QED  BY <3>1
  <2>3. CASE [readTarfile]_tarfs
    BY <2>1, <2>3, StepSkipsNoHeader
  <2>4. CASE header' = 1
    BY <2>2, <2>4
  <2> QED  BY <2>3, <2>4, StepSearches
<1> QED  BY <1>1, <1>2, LoaderSearchInv, PTL DEF LoaderSpec, SkipsNoHeader

-----------------------------------------------------------------------------
(* The search comes nearer to the end of the archive.                      *)

(* A search under way stands on a block, which may be one of contents.     *)
OnABlock ==
  /\ archive \in Archives /\ header \in Nat \ {0}
  /\ found = Searching => header <= Len(archive) /\ pl \in {"tables", "search"}

LEMMA BlockSkips ==
  ASSUME NEW a \in Archives, NEW i \in 1 .. Len(a)
  PROVE  Skipped(SizeOf(a[i])) \in Nat
<1>1. PICK b \in Int : b = SizeOf(a[i])
  <2>1. PICK S : a \in Seq(S)
    BY TarfsParameters, Zenon
  <2>2. i \in DOMAIN a
    BY <2>1
  <2>3. SizeOf(a[i]) \in Int
    BY <2>2, TarfsSizes, Zenon
  <2> QED  BY <2>3, Zenon
<1>2. BLOCK + 1 \in Nat \ {0}
  BY TarfsParameters
<1>3. CASE b > 0
  <2>1. b \div (BLOCK + 1) \in Nat
    BY <1>2, <1>3, Division
  <2> QED  BY <1>1, <1>3, <2>1 DEF Skipped
<1> QED  BY <1>1, <1>3 DEF Skipped

LEMMA SearchStepGoesOn ==
  ASSUME OnABlock, readTarfile
  PROVE  /\ archive' = archive /\ header' \in Nat \ {0}
         /\ found' = Searching => header' \in header + 1 .. Len(archive)
<1>1. archive \in Archives /\ header \in 1 .. Len(archive) /\ Len(archive) \in Nat
  BY LenIsNat DEF OnABlock, readTarfile, Match, Advance
<1>2. CASE Match
  BY <1>1, <1>2 DEF Match, Searching
<1>3. CASE Advance
  <2>1. PICK k \in Nat : k = Skipped(SizeOf(archive[header]))
    BY <1>1, BlockSkips
  <2>2. /\ header' = header + 1 + k /\ archive' = archive
        /\ found' = IF header' <= Len(archive) THEN Searching ELSE NULL
    BY <1>3, <2>1, Zenon DEF Advance
  <2> QED  BY <1>1, <2>2 DEF Searching, NULL
<1> QED  BY <1>2, <1>3 DEF readTarfile

LEMMA LoaderGoesOn ==
  ASSUME OnABlock, [LoaderNext]_allVars
  PROVE  /\ OnABlock'
         /\ [found = Searching =>
               found' # Searching \/ header' \in header + 1 .. Len(archive)]_tarfs
<1>1. CASE Search
  <2>1. readTarfile /\ pl' = "search"
    BY <1>1 DEF Search, Goto
  <2> QED  BY <2>1, SearchStepGoesOn DEF OnABlock
<1>2. CASE SecondLoad
  <2>1. /\ archive' = archive /\ header' = 1 /\ pl' = "search"
        /\ pl = "loaded" \/ (pl = "search" /\ found = NULL)
    BY <1>2 DEF SecondLoad
  <2>2. IsHeader(archive, 1) /\ found # Searching
    BY <2>1, TarfsArchives DEF OnABlock, WellFormed, NULL, Searching
  <2> QED  BY <2>1, <2>2, LenIsNat DEF OnABlock, IsHeader
<1>3. CASE \/ SetupPageTables \/ UNCHANGED allVars \/ Loaded
  BY <1>3 DEF SetupPageTables, Goto, allVars, Loaded, tarfs, loader, OnABlock
<1>4. CASE \/ AllocateTask \/ AllocateMm \/ populateTask \/ SkipHeader \/ AllocateStack
           \/ NoFile \/ AllocateArea \/ CopyCodeData
  <2>1. UNCHANGED tarfs
    BY <1>4 DEF AllocateTask, AllocateMm, populateTask, SkipHeader, AllocateStack,
                NoFile, AllocateArea, CopyCodeData
  <2>2. found # Searching
    BY <1>4 DEF AllocateTask, AllocateMm, populateTask, SkipHeader, AllocateStack,
                NoFile, AllocateArea, CopyCodeData, Goto, OnABlock, NULL, Searching
  <2> QED  BY <2>1, <2>2 DEF OnABlock, tarfs
<1> QED  BY <1>1, <1>2, <1>3, <1>4 DEF LoaderNext

(* Whatever the blocks say that it takes for headers, each step of a       *)
(* search finds the file, gives up, or goes on further behind in the       *)
(* archive and not past its end: it takes no more steps than the archive   *)
(* has blocks (tarfs.c:17 to 32).                                          *)
THEOREM SearchGoesOn ==
  LoaderSpec =>
    [][found = Searching => found' # Searching \/ header' \in header + 1 .. Len(archive)]_tarfs
<1>1. LoaderInit => OnABlock
  BY TarfsArchives, LenIsNat DEF LoaderInit, TarfsInit, OnABlock, WellFormed, IsHeader
<1> QED  BY <1>1, LoaderGoesOn, PTL DEF LoaderSpec

=============================================================================
