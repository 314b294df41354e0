--------------------------- MODULE PhysMem_proofs ---------------------------
(***************************************************************************)
(* Proofs about PhysMem for every memory map, kernel and size of bitmap.   *)
(***************************************************************************)
EXTENDS PhysMem, WellFoundedInduction, TLAPS

-----------------------------------------------------------------------------
(* Arithmetic and searches.                                                *)

(* Multiplication by a page size is monotone.                              *)
LEMMA TimesMonotone ==
  ASSUME NEW a \in Int, NEW b \in Int, NEW d \in Nat, a <= b
  PROVE  a * d <= b * d
OBVIOUS

(* What \div and % mean for page numbers.                                  *)
LEMMA Division ==
  ASSUME NEW a \in Nat, NEW d \in Nat \ {0}
  PROVE  /\ a \div d \in Nat
         /\ a % d \in 0 .. d - 1
         /\ a = (a \div d) * d + (a % d)
OBVIOUS

(* The pages set_kernel_in_freelist sweeps for an aligned region are       *)
(* exactly the pages that lie inside the region.                           *)
LEMMA SweptIsInside ==
  ASSUME NEW base \in Nat, NEW length \in Nat, NEW p \in Nat,
         PAGE_SIZE \in Nat \ {0}, base % PAGE_SIZE = 0
  PROVE  p \in Swept(base, base + length)
           <=> base <= p * PAGE_SIZE /\ (p + 1) * PAGE_SIZE <= base + length
<1> DEFINE first == base \div PAGE_SIZE
           last  == (base + length) \div PAGE_SIZE
<1>1. first \in Nat /\ base = first * PAGE_SIZE
  <2>1. /\ base \div PAGE_SIZE \in Nat
        /\ base = (base \div PAGE_SIZE) * PAGE_SIZE + (base % PAGE_SIZE)
    BY Division, Zenon
  <2>2. QED
    BY <2>1
<1>2. /\ last \in Nat
      /\ base + length >= last * PAGE_SIZE
      /\ base + length < last * PAGE_SIZE + PAGE_SIZE
  <2>1. base + length \in Nat
    OBVIOUS
  <2>2. /\ (base + length) \div PAGE_SIZE \in Nat
        /\ (base + length) % PAGE_SIZE \in 0 .. PAGE_SIZE - 1
        /\ base + length
             = ((base + length) \div PAGE_SIZE) * PAGE_SIZE + ((base + length) % PAGE_SIZE)
    BY <2>1, Division, Zenon
  <2>3. last * PAGE_SIZE \in Nat
    BY <2>2
  <2>4. QED
    BY <2>1, <2>2, <2>3
<1>3. first <= p <=> base <= p * PAGE_SIZE
  <2>1. ASSUME first <= p PROVE base <= p * PAGE_SIZE
    BY <1>1, <2>1, TimesMonotone
  <2>2. ASSUME ~(first <= p) PROVE ~(base <= p * PAGE_SIZE)
    <3>1. p + 1 <= first
      BY <1>1, <2>2
    <3>2. (p + 1) * PAGE_SIZE <= first * PAGE_SIZE
      BY <1>1, <3>1, TimesMonotone
    <3>3. (p + 1) * PAGE_SIZE = p * PAGE_SIZE + PAGE_SIZE
      OBVIOUS
    <3>4. p * PAGE_SIZE \in Nat
      OBVIOUS
    <3>5. QED
      BY <1>1, <3>2, <3>3, <3>4
  <2>3. QED
    BY <2>1, <2>2
<1>4. p + 1 <= last <=> (p + 1) * PAGE_SIZE <= base + length
  <2>1. ASSUME p + 1 <= last PROVE (p + 1) * PAGE_SIZE <= base + length
    <3>1. (p + 1) * PAGE_SIZE <= last * PAGE_SIZE
      BY <1>2, <2>1, TimesMonotone
    <3>2. (p + 1) * PAGE_SIZE \in Nat /\ last * PAGE_SIZE \in Nat
      BY <1>2
    <3>3. QED
      BY <1>2, <3>1, <3>2
  <2>2. ASSUME ~(p + 1 <= last) PROVE ~((p + 1) * PAGE_SIZE <= base + length)
    <3>1. last + 1 <= p + 1
      BY <1>2, <2>2
    <3>2. (last + 1) * PAGE_SIZE <= (p + 1) * PAGE_SIZE
      BY <1>2, <3>1, TimesMonotone
    <3>3. (last + 1) * PAGE_SIZE = last * PAGE_SIZE + PAGE_SIZE
      BY <1>2
    <3>4. (p + 1) * PAGE_SIZE \in Nat /\ last * PAGE_SIZE \in Nat
      BY <1>2
    <3>5. QED
      BY <1>2, <3>2, <3>3, <3>4
  <2>3. QED
    BY <2>1, <2>2
<1>5. QED
  BY <1>1, <1>2, <1>3, <1>4 DEF Swept

(* A page is_memory_reserved does not reserve shares no byte with the      *)
(* kernel or the bitmap.                                                   *)
LEMMA UnreservedIsOutside ==
  ASSUME NEW p \in Nat, ~is_memory_reserved(p)
  PROVE  ~KernelPage(p)
<1> USE PhysMemParameters DEF PhysMemAssumption
<1> DEFINE k == physbase \div PAGE_SIZE
<1>1. k \in Nat /\ physbase = k * PAGE_SIZE
  <2>1. /\ physbase \div PAGE_SIZE \in Nat
        /\ physbase = (physbase \div PAGE_SIZE) * PAGE_SIZE + (physbase % PAGE_SIZE)
    BY Division, Zenon
  <2>2. QED
    BY <2>1
<1>2. p * PAGE_SIZE \in Nat /\ BitmapEnd \in Nat
  BY DEF BitmapEnd
<1>3. CASE p * PAGE_SIZE > BitmapEnd
  BY <1>2, <1>3 DEF KernelPage
<1>4. CASE p * PAGE_SIZE < physbase
  <2>1. p + 1 <= k
    <3>1. SUFFICES ASSUME k <= p PROVE FALSE
      BY <1>1
    <3>2. k * PAGE_SIZE <= p * PAGE_SIZE
      BY <1>1, <3>1, TimesMonotone
    <3>3. QED
      BY <1>1, <1>2, <1>4, <3>2
  <2>2. (p + 1) * PAGE_SIZE <= physbase
    BY <1>1, <2>1, TimesMonotone
  <2>3. (p + 1) * PAGE_SIZE \in Nat
    OBVIOUS
  <2>4. QED
    BY <2>2, <2>3 DEF KernelPage
<1>5. QED
  BY <1>2, <1>3, <1>4 DEF is_memory_reserved

(* Every nonempty set of naturals has a least element, which is its Min.   *)
LEMMA MinIsLeast ==
  ASSUME NEW S \in SUBSET Nat, S # {}
  PROVE  Min(S) \in S /\ \A n \in S : Min(S) <= n
<1> DEFINE Less == {ss \in Nat \X Nat : ss[1] < ss[2]}
<1>1. IsWellFoundedOn(Less, Nat)
  BY NatLessThanWellFounded, Zenon DEF OpToRel
<1> HIDE DEF Less
<1>2. \E m \in S : \A n \in S : ~(<<n, m>> \in Less)
  BY <1>1, WFMin
<1>3. PICK m \in S : \A n \in S : <<n, m>> \notin Less
  BY <1>2
<1>4. ASSUME NEW n \in S PROVE m <= n
  <2>1. m \in Nat /\ n \in Nat
    OBVIOUS
  <2>2. ASSUME n < m PROVE <<n, m>> \in Less
    <3> DEFINE pair == <<n, m>>
    <3>1. pair \in Nat \X Nat /\ pair[1] < pair[2]
      BY <2>1, <2>2
    <3>2. pair \in Less
      BY <3>1, Zenon DEF Less
    <3>3. QED
      BY <3>2
  <2>3. QED
    BY <1>3, <2>1, <2>2
<1>5. \E x \in S : \A n \in S : x <= n
  BY <1>4
<1>6. QED
  BY <1>5 DEF Min

(* A search that finds a page finds one of its candidates.                 *)
LEMMA FirstFitIsCandidate ==
  ASSUME NEW u, NEW first, Candidates(u, first) # {}
  PROVE  FirstFit(u, first) \in Candidates(u, first)
<1> DEFINE C == Candidates(u, first)
<1>1. C \in SUBSET Nat
  BY PhysMemParameters DEF Candidates, Pages, PhysMemAssumption
<1>2. QED
  BY <1>1, MinIsLeast DEF FirstFit

(* A candidate is an unused page, if BYTE bits make a byte.                *)
LEMMA CandidateIsUnused ==
  ASSUME NEW u, NEW first, NEW p \in Candidates(u, first)
  PROVE  p \in Pages /\ p \notin u
<1>1. p \in Pages /\ LooksFree(u, p)
  BY DEF Candidates
<1>2. p \in Nat /\ BYTE \in Nat \ {0}
  BY <1>1, PhysMemParameters DEF Pages, PhysMemAssumption
<1>3. p \in p .. (p \div BYTE) * BYTE + BYTE - 1
  <2>1. /\ p \div BYTE \in Nat
        /\ p % BYTE \in 0 .. BYTE - 1
        /\ p = (p \div BYTE) * BYTE + (p % BYTE)
    BY <1>2, Division
  <2>2. (p \div BYTE) * BYTE \in Nat
    BY <1>2, <2>1
  <2>3. QED
    BY <1>2, <2>1, <2>2
<1>4. QED
  BY <1>1, <1>3 DEF LooksFree

-----------------------------------------------------------------------------
(* The inductive invariant.                                                *)

(* A page that is not marked used lies inside an entry start() has         *)
(* handled, and belongs to nobody.                                         *)
UnusedIsRam ==
  \A p \in Pages \ used :
    ~is_memory_reserved(p) /\ \E i \in 1 .. next - 1 : Inside(i, p)

(* A page that is marked used and not held was never made available.       *)
UsedIsTaken ==
  \A p \in used \ (held \cup {NULL}) :
    is_memory_reserved(p) \/ \A i \in 1 .. next - 1 : ~Inside(i, p)

HeldIsUnreserved ==
  /\ held \subseteq used \ {NULL}
  /\ \A p \in held : RamPage(p) /\ ~is_memory_reserved(p)

IInv ==
  /\ TypeOK
  /\ UnusedIsRam
  /\ UsedIsTaken
  /\ HeldIsUnreserved
  /\ ~Booted => held = {}

(* What the assumption on the memory maps says of the entries of smap.     *)
LEMMA EntryOfMap ==
  ASSUME smap \in MemoryMaps
  PROVE  /\ Len(smap) \in Nat
         /\ \A i \in 1 .. Len(smap) :
              /\ smap[i] \in MapEntry
              /\ smap[i].type = 1 => smap[i].base % PAGE_SIZE = 0
BY PhysMemMaps DEF MemoryMapAssumption

(* Pages are natural numbers.                                              *)
LEMMA PagesAreNaturals == Pages \subseteq Nat
BY DEF Pages

(* The invariant holds at first: every page is marked used.                *)
LEMMA InitIInv == Init => IInv
<1> SUFFICES ASSUME Init PROVE IInv
  OBVIOUS
<1>1. Len(smap) \in Nat
  BY EntryOfMap DEF Init
<1>2. TypeOK
  <2>1. next \in 1 .. Len(smap) + 1
    BY <1>1 DEF Init
  <2>2. held \in SUBSET Pages /\ used \in SUBSET Pages
    BY DEF Init
  <2>3. QED
    BY <2>1, <2>2 DEF Init, TypeOK
<1>3. UnusedIsRam /\ UsedIsTaken /\ HeldIsUnreserved
  BY DEF Init, UnusedIsRam, UsedIsTaken, HeldIsUnreserved
<1>4. QED
  BY <1>2, <1>3 DEF IInv, Init

(* Handling an entry of the map makes exactly its pages available.         *)
LEMMA SmapEntryIInv == IInv /\ SmapEntry => IInv'
<1> SUFFICES ASSUME IInv, SmapEntry PROVE IInv'
  OBVIOUS
<1> USE DEF IInv, SmapEntry
<1> DEFINE e == smap[next]
           S == Swept(e.base, e.base + e.length)
<1>1. /\ next \in 1 .. Len(smap)
      /\ Len(smap) \in Nat
      /\ smap' = smap /\ next' = next + 1 /\ held = {} /\ held' = {}
  BY EntryOfMap DEF TypeOK, Booted
<1>2. /\ e.type \in Nat /\ e.base \in Nat /\ e.length \in Nat
      /\ e.type = 1 => e.base % PAGE_SIZE = 0
  BY <1>1, EntryOfMap DEF TypeOK, MapEntry
<1>3. PAGE_SIZE \in Nat \ {0}
  BY PhysMemParameters DEF PhysMemAssumption
<1>4. ASSUME NEW p \in Pages
      PROVE  Inside(next, p) <=> e.type = 1 /\ e.length # 0 /\ p \in S
  <2>1. p \in Nat
    BY PagesAreNaturals
  <2>2. e.type = 1 =>
          (p \in S <=> e.base <= p * PAGE_SIZE /\ (p + 1) * PAGE_SIZE <= e.base + e.length)
    BY <1>2, <1>3, <2>1, SweptIsInside
  <2>3. e.type = 1 /\ e.length = 0 => p \notin S
    <3> SUFFICES ASSUME e.type = 1, e.length = 0, p \in S PROVE FALSE
      OBVIOUS
    <3>1. e.base <= p * PAGE_SIZE /\ (p + 1) * PAGE_SIZE <= e.base
      BY <1>2, <2>2
    <3>2. (p + 1) * PAGE_SIZE = p * PAGE_SIZE + PAGE_SIZE
      BY <1>3, <2>1
    <3>3. p * PAGE_SIZE \in Nat
      BY <1>3, <2>1
    <3>4. QED
      BY <1>2, <1>3, <3>1, <3>2, <3>3
  <2>4. QED
    BY <2>2, <2>3 DEF Inside
<1>5. ASSUME NEW p \in Pages
      PROVE  p \in used' <=> IF Inside(next, p) THEN is_memory_reserved(p) ELSE p \in used
  BY <1>4 DEF set_kernel_in_freelist
<1>6. used' \subseteq Pages
  <2>1. \A p \in S : is_memory_reserved(p) /\ e.type = 1 /\ e.length # 0 => p \in Pages
    <3> SUFFICES ASSUME NEW p \in S, e.type = 1 PROVE p \in Pages
      OBVIOUS
    <3>1. p \in Nat
      BY <1>2, <1>3, Division DEF Swept
    <3>2. (p + 1) * PAGE_SIZE <= e.base + e.length
      BY <1>2, <1>3, <3>1, SweptIsInside
    <3>3. e.base + e.length <= MAX_PAGES * BYTE * PAGE_SIZE
      BY <1>1, PhysMemMaps DEF MemoryMapAssumption, TypeOK
    <3>4. MAX_PAGES * BYTE \in Nat
      BY PhysMemParameters DEF PhysMemAssumption
    <3>5. p < MAX_PAGES * BYTE
      <4>1. SUFFICES ASSUME MAX_PAGES * BYTE + 1 <= p + 1 PROVE FALSE
        BY <3>1, <3>4
      <4>2. (MAX_PAGES * BYTE + 1) * PAGE_SIZE <= (p + 1) * PAGE_SIZE
        BY <1>3, <3>1, <3>4, <4>1, TimesMonotone
      <4>3. (MAX_PAGES * BYTE + 1) * PAGE_SIZE = MAX_PAGES * BYTE * PAGE_SIZE + PAGE_SIZE
        BY <1>3, <3>4
      <4>4. MAX_PAGES * BYTE * PAGE_SIZE \in Nat /\ (p + 1) * PAGE_SIZE \in Nat
        BY <1>3, <3>1, <3>4
      <4>5. QED
        BY <1>2, <1>3, <3>2, <3>3, <4>2, <4>3, <4>4
    <3>6. QED
      BY <3>1, <3>4, <3>5 DEF Pages
  <2>2. QED
    BY <2>1 DEF TypeOK, set_kernel_in_freelist
<1>7. \A i, p : Inside(i, p)' <=> Inside(i, p)
  BY <1>1 DEF Inside
<1>8. \A p : is_memory_reserved(p)' <=> is_memory_reserved(p)
  BY DEF is_memory_reserved
<1>9. TypeOK'
  BY <1>1, <1>6 DEF TypeOK
<1>10. UnusedIsRam'
  <2>1. SUFFICES ASSUME NEW p \in Pages, p \notin used'
                 PROVE  ~is_memory_reserved(p) /\ \E i \in 1 .. next : Inside(i, p)
    BY <1>1, <1>7, <1>8 DEF UnusedIsRam, TypeOK
  <2>2. CASE Inside(next, p)
    BY <1>1, <1>5, <2>1, <2>2
  <2>3. CASE ~Inside(next, p)
    BY <1>1, <1>5, <2>1, <2>3 DEF UnusedIsRam
  <2>4. QED
    BY <2>2, <2>3
<1>11. UsedIsTaken'
  <2>1. SUFFICES ASSUME NEW p \in used', p # NULL
                 PROVE  is_memory_reserved(p) \/ \A i \in 1 .. next : ~Inside(i, p)
    BY <1>1, <1>7, <1>8 DEF UsedIsTaken, TypeOK
  <2>2. CASE Inside(next, p)
    BY <1>5, <1>6, <2>1, <2>2
  <2>3. CASE ~Inside(next, p)
    BY <1>1, <1>5, <1>6, <2>1, <2>3 DEF UsedIsTaken
  <2>4. QED
    BY <2>2, <2>3
<1>12. HeldIsUnreserved'
  BY <1>1 DEF HeldIsUnreserved
<1>13. QED
  BY <1>1, <1>9, <1>10, <1>11, <1>12

(* Nothing outside the map loop changes the map, and it only runs once the *)
(* map is read: the invariant is then about pages moving between free and  *)
(* held.                                                                   *)
LEMMA MapIsFixed ==
  ASSUME UNCHANGED <<smap, next>>
  PROVE  /\ \A i, p : Inside(i, p)' <=> Inside(i, p)
         /\ \A p : RamPage(p)' <=> RamPage(p)
         /\ \A p : is_memory_reserved(p)' <=> is_memory_reserved(p)
         /\ Booted' <=> Booted
BY DEF Inside, RamPage, is_memory_reserved, Booted

(* An unused page may be given to a caller.                                *)
LEMMA UnusedIsGrantable ==
  ASSUME IInv, NEW p \in Pages \ used
  PROVE  RamPage(p) /\ ~is_memory_reserved(p)
BY EntryOfMap DEF IInv, UnusedIsRam, RamPage, TypeOK

(* A page leaves the unused ones for its holder; page 0 leaves them for    *)
(* nobody.                                                                 *)
LEMMA GrantIInv ==
  ASSUME IInv, Booted, UNCHANGED <<smap, next>>,
         NEW p \in Pages \ used,
         used' = used \cup {p}, held' = held \cup ({p} \ {NULL}),
         ret' \in Pages \cup {None, Fault}, overrun' \in BOOLEAN
  PROVE  IInv'
<1> USE DEF IInv
<1>1. TypeOK'
  BY DEF TypeOK
<1>2. UnusedIsRam'
  BY MapIsFixed DEF UnusedIsRam
<1>3. UsedIsTaken'
  BY MapIsFixed DEF UsedIsTaken
<1>4. HeldIsUnreserved'
  BY MapIsFixed, UnusedIsGrantable DEF HeldIsUnreserved
<1>5. QED
  BY <1>1, <1>2, <1>3, <1>4, MapIsFixed

(* A search grants an unused page or leaves the bitmap alone.              *)
LEMMA SearchIInv ==
  ASSUME NEW first, IInv, Search(first)
  PROVE  IInv'
<1> USE DEF Search, Running
<1>1. CASE Found(first)
  <2> DEFINE p == FirstFit(used, first)
  <2>1. p \in Pages \ used
    BY <1>1, FirstFitIsCandidate, CandidateIsUnused DEF Found
  <2>2. /\ used' = used \cup {p}
        /\ held' = held \cup ({p} \ {NULL})
        /\ ret' = p
        /\ overrun' = overrun
    BY <1>1 DEF Found
  <2>3. overrun' \in BOOLEAN
    BY <2>2 DEF IInv, TypeOK
  <2> HIDE DEF p
  <2>4. QED
    BY <2>1, <2>2, <2>3, GrantIInv
<1>2. CASE NotFound(first) \/ RunsOff(first)
  <2>1. /\ used' = used /\ held' = held
        /\ ret' \in {NULL, Fault} /\ overrun' \in {overrun, TRUE}
    BY <1>2 DEF NotFound, RunsOff
  <2>2. NULL \in Pages
    BY PhysMemParameters DEF NULL, Pages, PhysMemAssumption
  <2>3. TypeOK'
    BY <2>1, <2>2 DEF IInv, TypeOK
  <2>4. UnusedIsRam' /\ UsedIsTaken' /\ HeldIsUnreserved'
    BY <2>1, MapIsFixed DEF IInv, UnusedIsRam, UsedIsTaken, HeldIsUnreserved
  <2>5. QED
    BY <2>1, <2>3, <2>4, MapIsFixed DEF IInv
<1>3. QED
  BY <1>1, <1>2

(* A page that is returned is available memory.                            *)
LEMMA SetPageFreeIInv ==
  ASSUME NEW p \in Pages, IInv, set_page_free(p)
  PROVE  IInv'
<1> USE DEF IInv, set_page_free, Running
<1>1. p \in held /\ p # 0 /\ p \in used
  BY DEF HeldIsUnreserved, NULL
<1>2. used' = used \ {p} /\ held' = held \ {p} /\ ret' = None /\ overrun' = overrun
  BY <1>1
<1>3. TypeOK'
  BY <1>2 DEF TypeOK
<1>4. \E i \in 1 .. next - 1 : Inside(i, p)
  <2>1. PICK i \in 1 .. Len(smap) : Inside(i, p)
    BY <1>1 DEF HeldIsUnreserved, RamPage
  <2>2. i \in 1 .. next - 1
    BY EntryOfMap DEF Booted, TypeOK
  <2>3. QED
    BY <2>1, <2>2
<1>5. UnusedIsRam'
  BY <1>1, <1>2, <1>4, MapIsFixed DEF UnusedIsRam, HeldIsUnreserved
<1>6. UsedIsTaken'
  BY <1>2, MapIsFixed DEF UsedIsTaken
<1>7. HeldIsUnreserved'
  BY <1>2, MapIsFixed DEF HeldIsUnreserved
<1>8. QED
  BY <1>3, <1>5, <1>6, <1>7, MapIsFixed

(* A page that is claimed by number was unused; page 0 cannot be claimed.  *)
LEMMA SetPageUsedIInv ==
  ASSUME NEW p \in Pages, IInv, set_page_used(p)
  PROVE  IInv'
<1> USE DEF set_page_used, Running
<1>1. CASE p = 0
  <2>1. used' = used /\ held' = held /\ ret' = None /\ overrun' = overrun
    BY <1>1
  <2>2. TypeOK'
    BY <2>1 DEF IInv, TypeOK
  <2>3. UnusedIsRam' /\ UsedIsTaken' /\ HeldIsUnreserved'
    BY <2>1, MapIsFixed DEF IInv, UnusedIsRam, UsedIsTaken, HeldIsUnreserved
  <2>4. QED
    BY <2>1, <2>2, <2>3, MapIsFixed DEF IInv
<1>2. CASE p # 0
  <2>1. /\ used' = used \cup {p} /\ held' = held \cup ({p} \ {NULL})
        /\ ret' \in Pages \cup {None, Fault}
    BY <1>2 DEF NULL
  <2>2. overrun' \in BOOLEAN
    BY DEF IInv, TypeOK
  <2>3. QED
    BY <2>1, <2>2, GrantIInv
<1>3. QED
  BY <1>1, <1>2

(* Every step keeps the invariant.                                         *)
LEMMA NextIInv == IInv /\ [Next]_vars => IInv'
<1> SUFFICES ASSUME IInv, [Next]_vars PROVE IInv'
  OBVIOUS
<1>1. CASE SmapEntry
  BY <1>1, SmapEntryIInv
<1>2. CASE kmalloc_mem \/ malloc_mem
  BY <1>2, SearchIInv DEF kmalloc_mem, malloc_mem
<1>3. ASSUME NEW p \in Pages, set_page_free(p) \/ set_page_used(p) PROVE IInv'
  BY <1>3, SetPageFreeIInv, SetPageUsedIInv
<1>4. CASE UNCHANGED vars
  <2>1. /\ UNCHANGED <<smap, next>>
        /\ used' = used /\ held' = held /\ ret' = ret /\ overrun' = overrun
    BY <1>4 DEF vars
  <2>2. TypeOK'
    BY <2>1 DEF IInv, TypeOK
  <2>3. UnusedIsRam' /\ UsedIsTaken' /\ HeldIsUnreserved'
    BY <2>1, MapIsFixed DEF IInv, UnusedIsRam, UsedIsTaken, HeldIsUnreserved
  <2>4. QED
    BY <2>1, <2>2, <2>3, MapIsFixed DEF IInv
<1>5. QED
  BY <1>1, <1>2, <1>3, <1>4 DEF Next, KernelNext

-----------------------------------------------------------------------------
(* The theorems.                                                           *)

(* The invariant holds in every state the bitmap's operations lead to.     *)
THEOREM Invariance == Spec => []IInv
BY InitIInv, NextIInv, PTL DEF Spec

(* The variables of the allocator keep their types.                        *)
THEOREM TypeCorrect == Spec => []TypeOK
<1>1. IInv => TypeOK
  BY DEF IInv
<1>2. QED
  BY <1>1, Invariance, PTL

(* A page in a caller's hands is available memory outside the kernel.      *)
THEOREM HeldPagesAreUsable == Spec => []HeldIsUsableRam
<1>1. IInv => HeldIsUsableRam
  BY UnreservedIsOutside, PagesAreNaturals
     DEF IInv, HeldIsUnreserved, HeldIsUsableRam, TypeOK
<1>2. QED
  BY <1>1, Invariance, PTL

(* No page is lost.                                                        *)
THEOREM PagesDoNotLeak == Spec => []NothingLeaks
<1>1. IInv => NothingLeaks
  <2> SUFFICES ASSUME IInv, Booted, NEW p \in used \ (held \cup {NULL}), RamPage(p)
               PROVE  is_memory_reserved(p)
    BY DEF NothingLeaks
  <2>1. PICK i \in 1 .. Len(smap) : Inside(i, p)
    BY DEF RamPage
  <2>2. i \in 1 .. next - 1
    BY EntryOfMap DEF IInv, TypeOK, Booted
  <2>3. QED
    BY <2>1, <2>2 DEF IInv, UsedIsTaken
<1>2. QED
  BY <1>1, Invariance, PTL

(* A call returns a page only if nobody holds it.                          *)
THEOREM NoPageIsGrantedTwice == Spec => NeverGrantedTwice
<1>1. IInv /\ [Next]_vars => [ret' \notin held]_<<used, held, ret>>
  <2> SUFFICES ASSUME IInv, [Next]_vars, ~UNCHANGED <<used, held, ret>>
               PROVE  ret' \notin held
    OBVIOUS
  <2> USE DEF IInv
  <2>1. CASE SmapEntry
    BY <2>1 DEF SmapEntry
  <2>2. ASSUME NEW first, Search(first) PROVE ret' \notin held
    <3>1. CASE Found(first)
      <4>1. FirstFit(used, first) \notin used
        BY <3>1, FirstFitIsCandidate, CandidateIsUnused DEF Found
      <4>2. QED
        BY <3>1, <4>1 DEF Found, HeldIsUnreserved
    <3>2. CASE NotFound(first) \/ RunsOff(first)
      <4>1. ret' \in {NULL, Fault}
        BY <3>2 DEF NotFound, RunsOff
      <4>2. Fault \notin Pages
        BY PagesAreNaturals DEF Fault
      <4>3. QED
        BY <4>1, <4>2 DEF HeldIsUnreserved, TypeOK
    <3>3. QED
      BY <2>2, <3>1, <3>2 DEF Search
  <2>3. ASSUME NEW q \in Pages, set_page_free(q) \/ set_page_used(q)
        PROVE  ret' \notin held
    <3>1. ret' = None
      BY <2>3 DEF set_page_free, set_page_used
    <3>2. None \notin Pages
      BY PagesAreNaturals DEF None
    <3>3. QED
      BY <3>1, <3>2 DEF TypeOK
  <2>4. CASE UNCHANGED vars
    BY <2>4 DEF vars
  <2>5. QED
    BY <2>1, <2>2, <2>3, <2>4 DEF Next, KernelNext, kmalloc_mem, malloc_mem
<1>2. QED
  BY <1>1, Invariance, PTL DEF Spec, NeverGrantedTwice

(* A page that goes from the unused ones to its holder is a Grant, unless  *)
(* it is page 0.                                                           *)
LEMMA GrantRefines ==
  ASSUME IInv, Booted, UNCHANGED <<smap, next>>,
         NEW p \in Pages \ used,
         used' = used \cup {p}, held' = held \cup ({p} \ {NULL})
  PROVE  [Pool!PoolNext]_Pool!poolvars
<1>1. PoolFree' = PoolFree \ {p}
  BY MapIsFixed DEF PoolFree, Pages, NULL
<1>2. CASE p = NULL
  <2>1. PoolFree' = PoolFree /\ held' = held
    BY <1>1, <1>2 DEF PoolFree
  <2>2. QED
    BY <2>1 DEF Pool!poolvars
<1>3. CASE p # NULL
  <2>1. p \in PoolFree
    BY <1>3, UnusedIsGrantable DEF PoolFree
  <2>2. Pool!Grant(p)
    BY <1>1, <1>3, <2>1 DEF Pool!Grant
  <2>3. QED
    BY <1>3, <2>2 DEF Pool!PoolNext
<1>4. QED
  BY <1>2, <1>3

(* Every step of the bitmap is a step of the pool or leaves it alone.      *)
LEMMA NextRefines ==
  ASSUME IInv, IInv', [Next]_vars
  PROVE  [Pool!PoolNext]_Pool!poolvars
<1>1. CASE SmapEntry
  <2>1. UNCHANGED smap /\ held' = held /\ ~Booted
    BY <1>1 DEF SmapEntry
  <2>2. /\ \A p : RamPage(p)' <=> RamPage(p)
        /\ \A p : is_memory_reserved(p)' <=> is_memory_reserved(p)
    BY <2>1 DEF RamPage, Inside, is_memory_reserved
  <2>3. ASSUME Booted', NEW p \in Pages \ {NULL}, RamPage(p), ~is_memory_reserved(p)
        PROVE  p \notin used'
    <3>1. PICK i \in 1 .. Len(smap) : Inside(i, p)
      BY <2>3 DEF RamPage
    <3>2. i \in 1 .. next' - 1 /\ Inside(i, p)'
      BY <1>1, <2>1, <2>3, <3>1, EntryOfMap
         DEF IInv, TypeOK, Booted, SmapEntry, Inside
    <3>3. held' = {}
      BY <2>1 DEF IInv
    <3>4. QED
      BY <2>2, <2>3, <3>2, <3>3 DEF IInv, UsedIsTaken, NULL
  <2>4. PoolFree' = PoolFree
    BY <2>1, <2>2, <2>3 DEF PoolFree, Pages, NULL
  <2>5. QED
    BY <2>1, <2>4 DEF Pool!poolvars
<1>2. ASSUME NEW first, Search(first) PROVE [Pool!PoolNext]_Pool!poolvars
  <2>1. CASE Found(first)
    <3>1. FirstFit(used, first) \in Pages \ used
      BY <2>1, FirstFitIsCandidate, CandidateIsUnused DEF Found
    <3>2. QED
      BY <1>2, <2>1, <3>1, GrantRefines DEF Search, Running, Found
  <2>2. CASE NotFound(first) \/ RunsOff(first)
    <3>1. used' = used /\ held' = held /\ UNCHANGED <<smap, next>>
      BY <1>2, <2>2 DEF Search, NotFound, RunsOff
    <3>2. PoolFree' = PoolFree
      BY <3>1, MapIsFixed DEF PoolFree, Pages, NULL
    <3>3. QED
      BY <3>1, <3>2 DEF Pool!poolvars
  <2>3. QED
    BY <1>2, <2>1, <2>2 DEF Search
<1>3. ASSUME NEW p \in Pages, set_page_free(p) PROVE [Pool!PoolNext]_Pool!poolvars
  <2>1. /\ p \in held /\ p # NULL /\ p \in Pages
        /\ used' = used \ {p} /\ held' = held \ {p}
        /\ UNCHANGED <<smap, next>>
    BY <1>3 DEF set_page_free, IInv, HeldIsUnreserved, NULL
  <2>2. PoolFree' = PoolFree \cup {p}
    <3>1. RamPage(p) /\ ~is_memory_reserved(p)
      BY <2>1 DEF IInv, HeldIsUnreserved
    <3>2. QED
      BY <1>3, <2>1, <3>1, MapIsFixed
         DEF PoolFree, Pages, NULL, set_page_free, Running
  <2>3. Pool!GiveBack(p)
    BY <2>1, <2>2 DEF Pool!GiveBack
  <2>4. QED
    BY <2>1, <2>3 DEF Pool!PoolNext
<1>4. ASSUME NEW p \in Pages, set_page_used(p) PROVE [Pool!PoolNext]_Pool!poolvars
  <2>1. CASE p = 0
    <3>1. used' = used /\ held' = held /\ UNCHANGED <<smap, next>>
      BY <1>4, <2>1 DEF set_page_used
    <3>2. PoolFree' = PoolFree
      BY <3>1, MapIsFixed DEF PoolFree, Pages, NULL
    <3>3. QED
      BY <3>1, <3>2 DEF Pool!poolvars
  <2>2. CASE p # 0
    BY <1>4, <2>2, GrantRefines DEF set_page_used, Running, NULL
  <2>3. QED
    BY <2>1, <2>2
<1>5. CASE UNCHANGED vars
  <2>1. used' = used /\ held' = held /\ UNCHANGED <<smap, next>>
    BY <1>5 DEF vars
  <2>2. PoolFree' = PoolFree
    BY <2>1, MapIsFixed DEF PoolFree, Pages, NULL
  <2>3. QED
    BY <2>1, <2>2 DEF Pool!poolvars
<1>6. QED
  BY <1>1, <1>2, <1>3, <1>4, <1>5 DEF Next, KernelNext, kmalloc_mem, malloc_mem

(* The bitmap implements the pool, for every memory map.                   *)
THEOREM BitmapImplementsPool == Spec => ImplementsPool
<1>1. Init => Pool!PoolInit
  BY DEF Init, PoolFree, Pool!PoolInit
<1>2. IInv /\ IInv' /\ [Next]_vars => [Pool!PoolNext]_Pool!poolvars
  BY NextRefines
<1>3. QED
  BY <1>1, <1>2, Invariance, PTL DEF Spec, ImplementsPool, Pool!PoolSpec

-----------------------------------------------------------------------------
(* The searches.                                                           *)

(* A multiple of BYTE that is above a page is above all of its byte.       *)
LEMMA ByteEndsBelow ==
  ASSUME NEW p \in Nat, p < MAX_PAGES
  PROVE  (p \div BYTE) * BYTE + BYTE <= MAX_PAGES
<1> USE PhysMemParameters DEF PhysMemAssumption
<1> DEFINE k == MAX_PAGES \div BYTE
           b == p \div BYTE
<1>1. k \in Nat /\ MAX_PAGES = k * BYTE
  <2>1. /\ MAX_PAGES \div BYTE \in Nat
        /\ MAX_PAGES = (MAX_PAGES \div BYTE) * BYTE + (MAX_PAGES % BYTE)
    BY Division, Zenon
  <2>2. QED
    BY <2>1
<1>2. b \in Nat /\ b * BYTE <= p
  <2>1. /\ b \in Nat
        /\ p % BYTE \in 0 .. BYTE - 1
        /\ p = b * BYTE + (p % BYTE)
    BY Division, Zenon
  <2>2. b * BYTE \in Nat
    BY <2>1
  <2>3. QED
    BY <2>1, <2>2
<1> HIDE DEF k, b
<1>3. b + 1 <= k
  <2>1. SUFFICES ASSUME k <= b PROVE FALSE
    BY <1>1, <1>2
  <2>2. k * BYTE <= b * BYTE
    BY <1>1, <1>2, <2>1, TimesMonotone
  <2>3. k * BYTE \in Nat /\ b * BYTE \in Nat
    BY <1>1, <1>2
  <2>4. QED
    BY <1>1, <1>2, <2>2, <2>3
<1>4. (b + 1) * BYTE <= k * BYTE
  BY <1>1, <1>2, <1>3, TimesMonotone
<1>5. (b + 1) * BYTE = b * BYTE + BYTE
  BY <1>2
<1>6. QED
  BY <1>1, <1>4, <1>5 DEF b

(* A page lies in its byte.                                                *)
LEMMA PageInItsByte ==
  ASSUME NEW p \in Nat
  PROVE  /\ p \div BYTE \in 0 .. p
         /\ p \in (p \div BYTE) * BYTE .. (p \div BYTE) * BYTE + BYTE - 1
<1> USE PhysMemParameters DEF PhysMemAssumption
<1> DEFINE b == p \div BYTE
<1>1. /\ b \in Nat
      /\ p % BYTE \in 0 .. BYTE - 1
      /\ p = b * BYTE + (p % BYTE)
  BY Division, Zenon
<1> HIDE DEF b
<1>2. b * BYTE \in Nat
  BY <1>1
<1>3. b * 1 <= b * BYTE
  <2>1. 1 * b <= BYTE * b
    BY <1>1, TimesMonotone
  <2>2. QED
    BY <1>1, <2>1
<1>4. QED
  BY <1>1, <1>2, <1>3 DEF b

(* In order, every page from a free one on is free.                        *)
LEMMA FreeFromThereOn ==
  ASSUME IInv, Booted, ContiguousRam, HandedOutInOrder,
         NEW p \in FIRST_PAGE .. MAX_PAGES - 1, p \notin used,
         NEW q \in p .. MAX_PAGES - 1
  PROVE  q \notin used
<1> USE PhysMemParameters DEF PhysMemAssumption
<1>1. p \in Nat /\ q \in Nat /\ q # 0 /\ p <= q /\ FIRST_PAGE <= p
  OBVIOUS
<1>2. p \in Pages
  <2>1. MAX_PAGES <= MAX_PAGES * BYTE
    OBVIOUS
  <2>2. QED
    BY <2>1 DEF Pages
<1>3. ~is_memory_reserved(p)
  BY <1>2 DEF IInv, UnusedIsRam
<1>4. ~is_memory_reserved(q)
  <2>1. /\ FIRST_PAGE * PAGE_SIZE <= p * PAGE_SIZE
        /\ p * PAGE_SIZE <= q * PAGE_SIZE
    BY <1>1, TimesMonotone
  <2>2. p * PAGE_SIZE \in Nat /\ q * PAGE_SIZE \in Nat /\ FIRST_PAGE * PAGE_SIZE \in Nat
    BY <1>1
  <2>3. BitmapEnd \in Nat
    BY DEF BitmapEnd
  <2>4. QED
    BY <1>3, <2>1, <2>2, <2>3 DEF is_memory_reserved
<1>5. q \notin held
  BY <1>1 DEF HandedOutInOrder
<1>6. RamPage(q)
  BY <1>1 DEF ContiguousRam
<1>7. QED
  BY <1>1, <1>4, <1>5, <1>6, EntryOfMap
     DEF IInv, UsedIsTaken, TypeOK, Booted, RamPage, NULL

(* In order, every free page of the searched range is a candidate.         *)
LEMMA FreePageIsCandidate ==
  ASSUME IInv, Booted, ContiguousRam, HandedOutInOrder,
         NEW p \in FIRST_PAGE .. MAX_PAGES - 1, p \notin used
  PROVE  p \in Candidates(used, FIRST_PAGE)
<1> USE PhysMemParameters DEF PhysMemAssumption
<1> DEFINE O == OpenBytes(used, FIRST_PAGE)
<1>1. p \in Nat /\ p < MAX_PAGES /\ FIRST_PAGE <= p
  OBVIOUS
<1>2. \A q \in p .. MAX_PAGES - 1 : q \notin used
  BY FreeFromThereOn
<1>3. LooksFree(used, p)
  <2>1. (p \div BYTE) * BYTE + BYTE - 1 <= MAX_PAGES - 1
    <3>1. p \div BYTE \in Nat
      <4> DEFINE b == p \div BYTE
      <4>1. b \in 0 .. p
        BY <1>1, PageInItsByte, Zenon
      <4> HIDE DEF b
      <4>2. b \in Nat
        BY <1>1, <4>1
      <4>3. QED
        BY <4>2 DEF b
    <3>2. (p \div BYTE) * BYTE \in Nat
      BY <3>1
    <3>3. QED
      BY <1>1, <3>2, ByteEndsBelow
  <2>2. (p \div BYTE) * BYTE \in Int
    BY <1>1, PageInItsByte
  <2>3. QED
    BY <1>1, <1>2, <2>1, <2>2 DEF LooksFree
<1>4. \E b \in O : b <= p
  <2>1. CASE FIRST_PAGE * BYTE <= p
    <3> DEFINE b == p \div BYTE
    <3>1. b \in 0 .. p /\ p \in b * BYTE .. b * BYTE + BYTE - 1
      BY <1>1, PageInItsByte
    <3>2. FIRST_PAGE <= b
      <4>1. SUFFICES ASSUME b + 1 <= FIRST_PAGE PROVE FALSE
        BY <3>1
      <4>2. (b + 1) * BYTE <= FIRST_PAGE * BYTE
        BY <3>1, <4>1, TimesMonotone
      <4>3. (b + 1) * BYTE = b * BYTE + BYTE
        BY <3>1
      <4>4. b * BYTE \in Nat /\ FIRST_PAGE * BYTE \in Nat
        BY <3>1
      <4>5. QED
        BY <1>1, <2>1, <3>1, <4>2, <4>3, <4>4
    <3> HIDE DEF b
    <3>3. b \in O
      BY <1>1, <3>1, <3>2 DEF OpenBytes, ByteFull
    <3>4. QED
      BY <3>1, <3>3
  <2>2. CASE p < FIRST_PAGE * BYTE
    <3>1. FIRST_PAGE * BYTE \in p .. MAX_PAGES - 1
      BY <1>1, <2>2
    <3>2. FIRST_PAGE * BYTE \in FIRST_PAGE * BYTE .. FIRST_PAGE * BYTE + BYTE - 1
      BY <3>1
    <3>3. ~ByteFull(used, FIRST_PAGE)
      BY <1>2, <3>1, <3>2 DEF ByteFull
    <3>4. FIRST_PAGE \in O
      BY <1>1, <3>3 DEF OpenBytes
    <3>5. QED
      BY <1>1, <3>4
  <2>3. QED
    BY <1>1, <2>1, <2>2
<1>5. O \in SUBSET Nat
  BY DEF OpenBytes
<1> HIDE DEF O
<1>6. O # {} /\ Min(O) \in Nat /\ Min(O) <= p
  <2>1. PICK b \in O : b <= p
    BY <1>4
  <2>2. Min(O) \in O /\ Min(O) <= b
    BY <1>5, <2>1, MinIsLeast
  <2>3. b \in Nat /\ Min(O) \in Nat
    BY <1>5, <2>1, <2>2
  <2>4. QED
    BY <1>1, <2>1, <2>2, <2>3
<1>7. p \in Pages
  <2>1. MAX_PAGES <= MAX_PAGES * BYTE
    OBVIOUS
  <2>2. QED
    BY <1>1, <2>1 DEF Pages
<1>8. QED
  BY <1>1, <1>3, <1>6, <1>7 DEF Candidates, O

(* In order, the candidates of kmalloc_mem are exactly the free pages of   *)
(* the searched range.                                                     *)
LEMMA CandidatesAreTheSupply ==
  ASSUME IInv, Booted, ContiguousRam, HandedOutInOrder
  PROVE  Candidates(used, FIRST_PAGE) = Supply.free
<1> USE PhysMemParameters DEF PhysMemAssumption
<1> DEFINE O == OpenBytes(used, FIRST_PAGE)
<1>1. Supply.free = (FIRST_PAGE .. MAX_PAGES - 1) \ used
  BY DEF Supply
<1>2. ASSUME NEW p \in Candidates(used, FIRST_PAGE)
      PROVE  p \in FIRST_PAGE .. MAX_PAGES - 1 /\ p \notin used
  <2>1. O \in SUBSET Nat /\ O # {} /\ \A b \in O : b >= FIRST_PAGE
    BY <1>2 DEF OpenBytes, Candidates
  <2>2. Min(O) \in O
    BY <2>1, MinIsLeast
  <2>3. p \in Min(O) .. MAX_PAGES - 1
    BY <1>2 DEF Candidates
  <2>4. Min(O) \in Nat /\ Min(O) >= FIRST_PAGE
    BY <2>1, <2>2
  <2> HIDE DEF O
  <2>5. p \in FIRST_PAGE .. MAX_PAGES - 1
    BY <2>3, <2>4
  <2>6. QED
    BY <1>2, <2>5, CandidateIsUnused
<1>3. ASSUME NEW p \in FIRST_PAGE .. MAX_PAGES - 1, p \notin used
      PROVE  p \in Candidates(used, FIRST_PAGE)
  BY <1>3, FreePageIsCandidate
<1>4. QED
  BY <1>1, <1>2, <1>3

(* The page a supply hands out is its least.                               *)
LEMMA FreshIsLeast ==
  ASSUME Supply.free # {}
  PROVE  /\ Fresh(Supply) \in Supply.free
         /\ \A p \in Supply.free : Fresh(Supply) <= p
         /\ Fresh(Supply) = Min(Supply.free)
<1> DEFINE S == Supply.free
<1>1. S \in SUBSET Nat
  BY PhysMemParameters DEF Supply, PhysMemAssumption
<1>2. Min(S) \in S /\ \A p \in S : Min(S) <= p
  BY <1>1, MinIsLeast
<1>3. /\ Fresh(Supply) \in S
      /\ \A p \in S : Fresh(Supply) <= p
  BY <1>2 DEF Fresh
<1>4. Fresh(Supply) <= Min(S) /\ Min(S) <= Fresh(Supply)
  BY <1>2, <1>3
<1>5. Fresh(Supply) \in Nat /\ Min(S) \in Nat
  BY <1>1, <1>2, <1>3
<1>6. Fresh(Supply) = Min(S)
  <2> DEFINE f == Fresh(Supply)
             m == Min(S)
  <2>1. f \in Nat /\ m \in Nat /\ f <= m /\ m <= f
    BY <1>4, <1>5
  <2> HIDE DEF f, m
  <2>2. f = m
    BY <2>1
  <2> QED
    BY <2>2 DEF f, m
<1>7. QED
  BY <1>3, <1>6

(* What the searches of the kernel promise, in one step.                   *)
LEMMA SearchSupplies ==
  ASSUME IInv, kmalloc_mem, ContiguousRam, HandedOutInOrder
  PROVE  /\ \/ ret' = Fresh(Supply) /\ Supply'.free = Taken(Supply).free
            \/ ret' = Fault /\ Supply.free = {} /\ UNCHANGED used
         /\ HandedOutInOrder'
<1> USE PhysMemParameters DEF PhysMemAssumption
<1>1. Booted /\ Search(FIRST_PAGE)
  BY DEF kmalloc_mem, Search, Running
<1>2. Candidates(used, FIRST_PAGE) = Supply.free
  BY <1>1, CandidatesAreTheSupply
<1>3. /\ Supply.free = (FIRST_PAGE .. MAX_PAGES - 1) \ used
      /\ Supply'.free = (FIRST_PAGE .. MAX_PAGES - 1) \ used'
      /\ Taken(Supply).free = Supply.free \ {Fresh(Supply)}
  BY DEF Supply, Taken
<1>4. CASE Supply.free # {}
  <2>1. Found(FIRST_PAGE)
    BY <1>1, <1>2, <1>4 DEF Search, NotFound, RunsOff, Candidates
  <2> DEFINE f == Fresh(Supply)
  <2>2. f \in Supply.free /\ (\A p \in Supply.free : f <= p) /\ f = FirstFit(used, FIRST_PAGE)
    BY <1>2, <1>4, FreshIsLeast DEF FirstFit
  <2>3. used' = used \cup {f} /\ ret' = f /\ held' = held \cup ({f} \ {NULL})
    BY <2>1, <2>2 DEF Found
  <2> HIDE DEF f
  <2>4. HandedOutInOrder'
    <3> SUFFICES ASSUME NEW p \in held'
                 PROVE  /\ p \in FIRST_PAGE .. MAX_PAGES - 1
                        /\ \A q \in FIRST_PAGE .. p : q \in used'
      BY DEF HandedOutInOrder
    <3>1. CASE p \in held
      BY <2>3, <3>1 DEF HandedOutInOrder
    <3>2. CASE p = f
      <4>1. f \in FIRST_PAGE .. MAX_PAGES - 1
        BY <1>3, <2>2
      <4>2. ASSUME NEW q \in FIRST_PAGE .. f, q \notin used PROVE q = f
        <5>1. q \in FIRST_PAGE .. MAX_PAGES - 1
          BY <4>1
        <5>2. f <= q
          BY <1>3, <2>2, <4>2, <5>1
        <5> QED
          BY <4>1, <5>2
      <4> QED
        BY <2>3, <3>2, <4>1, <4>2
    <3> QED
      BY <2>3, <3>1, <3>2
  <2>5. Supply'.free = Taken(Supply).free
    BY <1>3, <2>3 DEF f
  <2> QED
    BY <2>3, <2>4, <2>5 DEF f
<1>5. CASE Supply.free = {}
  <2>1. /\ used' = used /\ held' = held /\ ret' \in {NULL, Fault}
    BY <1>1, <1>2, <1>5 DEF Search, Found, NotFound, RunsOff
  <2>2. Fresh(Supply) = NULL
    BY <1>5 DEF Fresh, NULL
  <2>3. HandedOutInOrder'
    BY <2>1 DEF HandedOutInOrder
  <2> QED
    BY <1>3, <1>5, <2>1, <2>2, <2>3
<1> QED
  BY <1>4, <1>5

(* Without holes in the searched memory, and with pages given out in       *)
(* order, kmalloc_mem returns the lowest free page, and NULL only if there *)
(* is none; order is kept (pmap.c:117 to 132).                             *)
THEOREM KernelIsSupplied == Spec => SuppliesTheLowest
<1>1. IInv /\ [Next]_vars =>
        [(kmalloc_mem /\ ContiguousRam /\ HandedOutInOrder) =>
           /\ \/ ret' = Fresh(Supply) /\ Supply'.free = Taken(Supply).free
              \/ ret' = Fault /\ Supply.free = {} /\ UNCHANGED used
           /\ HandedOutInOrder']_vars
  BY SearchSupplies
<1>2. QED
  BY <1>1, Invariance, PTL DEF Spec, SuppliesTheLowest

(* With available memory above page MAX_PAGES, one search of kmalloc_mem.  *)
LEMMA SearchStays ==
  ASSUME IInv, kmalloc_mem, HighRam, HandedOutInOrder
  PROVE  ~RunsOff(FIRST_PAGE) /\ UNCHANGED overrun
<1> USE PhysMemParameters DEF PhysMemAssumption
<1>1. Booted /\ Search(FIRST_PAGE)
  BY DEF kmalloc_mem, Search, Running
<1>2. PICK p \in Pages : /\ p >= MAX_PAGES
                         /\ p >= FIRST_PAGE * BYTE
                         /\ RamPage(p)
                         /\ ~is_memory_reserved(p)
  BY DEF HighRam
<1>3. p \in Nat
  BY PagesAreNaturals
<1>4. p \notin held
  BY <1>2, <1>3 DEF HandedOutInOrder
<1>5. p \notin used
  <2>1. p # NULL
    BY <1>2, <1>3 DEF NULL
  <2>2. QED
    BY <1>1, <1>2, <1>4, <2>1, EntryOfMap
       DEF IInv, UsedIsTaken, TypeOK, Booted, RamPage
<1> DEFINE b == p \div BYTE
<1>6. b \in 0 .. p /\ p \in b * BYTE .. b * BYTE + BYTE - 1
  BY <1>3, PageInItsByte
<1>7. b \in FIRST_PAGE .. MAX_PAGES - 1
  <2>1. FIRST_PAGE <= b
    <3>1. SUFFICES ASSUME b + 1 <= FIRST_PAGE PROVE FALSE
      BY <1>6
    <3>2. (b + 1) * BYTE <= FIRST_PAGE * BYTE
      BY <1>6, <3>1, TimesMonotone
    <3>3. (b + 1) * BYTE = b * BYTE + BYTE
      BY <1>6
    <3>4. b * BYTE \in Nat /\ FIRST_PAGE * BYTE \in Nat
      BY <1>6
    <3>5. QED
      BY <1>2, <1>3, <1>6, <3>2, <3>3, <3>4
  <2>2. b < MAX_PAGES
    <3>1. SUFFICES ASSUME MAX_PAGES <= b PROVE FALSE
      BY <1>6
    <3>2. MAX_PAGES * BYTE <= b * BYTE
      BY <1>6, <3>1, TimesMonotone
    <3>3. b * BYTE \in Nat /\ MAX_PAGES * BYTE \in Nat
      BY <1>6
    <3>4. p <= MAX_PAGES * BYTE - 1
      BY DEF Pages
    <3>5. QED
      BY <1>3, <1>6, <3>2, <3>3, <3>4
  <2>3. QED
    BY <1>6, <2>1, <2>2
<1> HIDE DEF b
<1>8. b \in OpenBytes(used, FIRST_PAGE)
  BY <1>5, <1>6, <1>7 DEF OpenBytes, ByteFull
<1>9. QED
  BY <1>1, <1>8 DEF Search, Found, NotFound, RunsOff

(* With available memory above page MAX_PAGES a search of kmalloc_mem      *)
(* stays inside the bitmap.                                                *)
THEOREM SearchStaysInBitmap == Spec => ScanStaysInBitmap
<1>1. IInv /\ [Next]_vars
        => [(kmalloc_mem /\ HighRam /\ HandedOutInOrder) => UNCHANGED overrun]_vars
  BY SearchStays
<1>2. QED
  BY <1>1, Invariance, PTL DEF Spec, ScanStaysInBitmap

-----------------------------------------------------------------------------
(* The kernel as it is: it reads the map and allocates.                    *)

KernelInv ==
  /\ IInv
  /\ ContiguousRam => HandedOutInOrder
  /\ ContiguousRam /\ HighRam => ~overrun /\ ret # Fault

(* The memory the conditions speak of does not change.                     *)
LEMMA MapStays ==
  ASSUME KernelNext
  PROVE  smap' = smap /\ (ContiguousRam' <=> ContiguousRam) /\ (HighRam' <=> HighRam)
BY DEF KernelNext, SmapEntry, kmalloc_mem, Search, ContiguousRam, HighRam, RamPage, Inside,
       is_memory_reserved, BitmapEnd

LEMMA KernelNextInv == KernelInv /\ [KernelNext]_vars => KernelInv'
<1> SUFFICES ASSUME KernelInv, [KernelNext]_vars PROVE KernelInv'
  OBVIOUS
<1>1. CASE SmapEntry
  <2>1. IInv' /\ held' = {} /\ overrun' = overrun /\ ret' = ret
    BY <1>1, SmapEntryIInv DEF KernelInv, IInv, SmapEntry
  <2>2. (ContiguousRam' <=> ContiguousRam) /\ (HighRam' <=> HighRam)
    BY <1>1, MapStays DEF KernelNext
  <2>3. HandedOutInOrder'
    BY <2>1 DEF HandedOutInOrder
  <2> QED
    BY <2>1, <2>2, <2>3 DEF KernelInv
<1>2. CASE kmalloc_mem
  <2>1. IInv'
    BY <1>2, SearchIInv DEF KernelInv, kmalloc_mem
  <2>2. (ContiguousRam' <=> ContiguousRam) /\ (HighRam' <=> HighRam)
    BY <1>2, MapStays DEF KernelNext
  <2>3. ContiguousRam => HandedOutInOrder'
    BY <1>2, SearchSupplies DEF KernelInv
  <2>4. ASSUME ContiguousRam, HighRam PROVE ~overrun' /\ ret' # Fault
    <3>1. ~RunsOff(FIRST_PAGE) /\ overrun' = overrun /\ ~overrun
      BY <1>2, <2>4, SearchStays DEF KernelInv
    <3>2. Found(FIRST_PAGE) \/ NotFound(FIRST_PAGE)
      BY <1>2, <3>1 DEF kmalloc_mem, Search
    <3>3. CASE Found(FIRST_PAGE)
      <4>1. ret' \in Candidates(used, FIRST_PAGE)
        BY <3>3, FirstFitIsCandidate DEF Found
      <4> QED
        BY <3>1, <4>1, CandidateIsUnused, PagesAreNaturals DEF Fault
    <3> QED
      BY <3>1, <3>2, <3>3 DEF NotFound, NULL, Fault
  <2> QED
    BY <2>1, <2>2, <2>3, <2>4 DEF KernelInv
<1>3. CASE UNCHANGED vars
  <2>1. (ContiguousRam' <=> ContiguousRam) /\ (HighRam' <=> HighRam) /\ (HandedOutInOrder' <=> HandedOutInOrder)
    BY <1>3 DEF vars, ContiguousRam, HighRam, RamPage, Inside, is_memory_reserved, BitmapEnd,
                HandedOutInOrder
  <2>2. IInv'
    BY <1>3, NextIInv DEF KernelInv
  <2> QED
    BY <1>3, <2>1, <2>2 DEF KernelInv, vars
<1> QED
  BY <1>1, <1>2, <1>3 DEF KernelNext

LEMMA KernelInvHolds == KernelSpec => []KernelInv
<1>1. Init => KernelInv
  BY InitIInv DEF Init, KernelInv, HandedOutInOrder, None, Fault
<1>2. QED
  BY <1>1, KernelNextInv, PTL DEF KernelSpec

(* The kernel returns no page: on a machine whose memory has no hole in    *)
(* the searched range pages are always given out in order, which the       *)
(* properties of single searches ask for (pmap.c:117 to 204).              *)
THEOREM KernelHandsOutInOrder == KernelSpec => [](ContiguousRam => HandedOutInOrder)
<1>1. KernelInv => (ContiguousRam => HandedOutInOrder)
  BY DEF KernelInv
<1>2. QED
  BY <1>1, KernelInvHolds, PTL

(* If there is available memory above that range as well, as on a machine  *)
(* of 64 megabytes, the kernel never reads past free_pages_list, however   *)
(* much it allocates (pmap.c:120).                                         *)
THEOREM KernelStaysInBitmap ==
  KernelSpec => [](ContiguousRam /\ HighRam => ~overrun /\ ret # Fault)
<1>1. KernelInv => (ContiguousRam /\ HighRam => ~overrun /\ ret # Fault)
  BY DEF KernelInv
<1>2. QED
  BY <1>1, KernelInvHolds, PTL

(* On such a machine the bitmap is the supply that Vm allocates from:      *)
(* every kmalloc_mem is a Fresh and Taken.                                 *)
THEOREM BitmapIsTheSupply ==
  KernelSpec => [][(kmalloc_mem /\ ContiguousRam /\ HighRam)
                     => ret' = Fresh(Supply) /\ Supply'.free = Taken(Supply).free]_vars
<1>1. KernelInv /\ KernelInv' /\ [KernelNext]_vars
        => [(kmalloc_mem /\ ContiguousRam /\ HighRam)
              => ret' = Fresh(Supply) /\ Supply'.free = Taken(Supply).free]_vars
  <2> SUFFICES ASSUME KernelInv, KernelInv', kmalloc_mem, ContiguousRam, HighRam
               PROVE  ret' = Fresh(Supply) /\ Supply'.free = Taken(Supply).free
    OBVIOUS
  <2>1. ContiguousRam' /\ HighRam'
    BY MapStays DEF KernelNext
  <2>2. ret' # Fault
    BY <2>1 DEF KernelInv
  <2>3. QED
    BY <2>2, SearchSupplies DEF KernelInv
<1>2. QED
  BY <1>1, KernelInvHolds, PTL DEF KernelSpec

(* And what it can hand out satisfies what Vm assumes of its RAM           *)
(* (VmParameters): available memory above every frame of the kernel's      *)
(* image and of the bitmap (pmap.c:75 to 103).                             *)
THEOREM SupplyIsApart ==
  Spec => [](Booted => \A p \in Supply.free : RamPage(p) /\ BitmapEnd \div PAGE_SIZE < p)
<1>1. ASSUME IInv, NEW p \in Supply.free
      PROVE  RamPage(p) /\ BitmapEnd \div PAGE_SIZE < p
  <2> USE PhysMemParameters DEF PhysMemAssumption
  <2>1. p \in FIRST_PAGE .. MAX_PAGES - 1 /\ p \notin used
    BY DEF Supply
  <2>2. p \in Pages
    <3>1. MAX_PAGES <= MAX_PAGES * BYTE
      OBVIOUS
    <3> QED
      BY <2>1, <3>1 DEF Pages
  <2>3. RamPage(p) /\ ~is_memory_reserved(p)
    BY <1>1, <2>1, <2>2, UnusedIsGrantable
  <2>4. FIRST_PAGE * PAGE_SIZE <= p * PAGE_SIZE
    BY <2>1, TimesMonotone
  <2> DEFINE E == BitmapEnd
             e == E \div PAGE_SIZE
  <2>5. E \in Nat
    BY DEF BitmapEnd
  <2>6. p * PAGE_SIZE > E
    <3>1. p \in Nat /\ p * PAGE_SIZE \in Nat /\ FIRST_PAGE * PAGE_SIZE \in Nat
      BY <2>1
    <3> QED
      BY <2>3, <2>4, <2>5, <3>1 DEF is_memory_reserved
  <2> HIDE DEF E
  <2>7. e \in Nat /\ e * PAGE_SIZE <= E
    <3>1. e \in Nat /\ E % PAGE_SIZE \in Nat /\ E = e * PAGE_SIZE + (E % PAGE_SIZE)
      BY <2>5, PhysMemParameters, Division DEF PhysMemAssumption
    <3>2. e * PAGE_SIZE \in Nat
      BY <3>1, PhysMemParameters DEF PhysMemAssumption
    <3> HIDE DEF e
    <3> QED
      BY <2>5, <3>1, <3>2
  <2> HIDE DEF e
  <2>8. e < p
    <3> SUFFICES ASSUME p <= e PROVE FALSE
      BY <2>1, <2>7
    <3>1. p * PAGE_SIZE <= e * PAGE_SIZE
      BY <2>1, <2>7, TimesMonotone
    <3>2. p * PAGE_SIZE \in Nat /\ e * PAGE_SIZE \in Nat
      BY <2>1, <2>7
    <3> QED
      BY <2>5, <2>6, <2>7, <3>1, <3>2
  <2> QED
    BY <2>3, <2>8 DEF e, E
<1>2. IInv => (Booted => \A p \in Supply.free : RamPage(p) /\ BitmapEnd \div PAGE_SIZE < p)
  BY <1>1
<1>3. QED
  BY <1>2, Invariance, PTL

=============================================================================
