----------------------------- MODULE Vm_proofs -----------------------------
(***************************************************************************)
(* Proofs about Vm: for tables of any size, every image that fits into one *)
(* page table and any sequence of allocations, the page tables built       *)
(* through the recursive entry are a tree, no call touches an unmapped     *)
(* page, what kmalloc returns is private, and all of it implements         *)
(* AddressSpace, until memory runs out and if memory is clear at boot.     *)
(*                                                                         *)
(* The tables are described by a level for every frame (Tree, Good).  The  *)
(* proof that mmap keeps the tables a tree follows the walks through the   *)
(* recursive window (Windows) level by level, the invariant (VInv) carries *)
(* it through every call, and the properties are read off the levels.      *)
(*                                                                         *)
(* In memory that is not clear the tables have a shadow (Shadowed): the    *)
(* tables of a memory that is clear, which differ only where nothing is    *)
(* read.  It lasts while mmap needs no table that getPT has not cleared    *)
(* (UncleanInv).                                                           *)
(***************************************************************************)
EXTENDS Vm, FiniteSetTheorems, WellFoundedInduction, TLAPS

-----------------------------------------------------------------------------
(* Numbers: induction, and the arithmetic of indices.                      *)

(* A set of natural numbers has a least element: the initial segments are  *)
(* finite sets, and those are well-founded by strict inclusion.            *)
LEMMA Least ==
  ASSUME NEW T \in SUBSET Nat, T # {}
  PROVE  \E n \in T : \A m \in T : n <= m
  <1> DEFINE Initial == {0 .. i : i \in T}
             Sub == StrictSubsetOrdering(Nat)
             Fin == FiniteSubsetsOf(Nat)
  <1>1. Initial \subseteq Fin
    <2> SUFFICES ASSUME NEW i \in T PROVE 0 .. i \in Fin
      OBVIOUS
    <2>1. i \in Nat
      OBVIOUS
    <2>2. IsFiniteSet(0 .. i)
      BY <2>1, FS_Interval
    <2>3. 0 .. i \in SUBSET Nat
      BY <2>1
    <2> QED
      BY <2>2, <2>3, Zenon DEF FiniteSubsetsOf
  <1>2. Initial # {}
    OBVIOUS
  <1>3. IsWellFoundedOn(Sub, Fin)
    BY FS_StrictSubsetOrderingWellFounded
  <1> HIDE DEF Initial, Sub, Fin
  <1>4. \E I \in Initial : \A J \in Initial : ~(<<J, I>> \in Sub)
    BY <1>1, <1>2, <1>3, WFMin, Zenon
  <1>5. PICK I \in Initial : \A J \in Initial : ~(<<J, I>> \in Sub)
    BY <1>4
  <1>6. PICK n \in T : I = 0 .. n
    BY <1>5 DEF Initial
  <1>7. ASSUME NEW m \in T, m < n PROVE FALSE
    <2>1. 0 .. m \in Initial
      BY DEF Initial
    <2>2. m \in Nat /\ n \in Nat
      OBVIOUS
    <2>3. n \in 0 .. n /\ ~(n \in 0 .. m)
      BY <1>7, <2>2
    <2>4. (0 .. m) \subseteq (0 .. n) /\ (0 .. m) # (0 .. n)
      BY <1>7, <2>2, <2>3
    <2>5. 0 .. m \in SUBSET Nat /\ 0 .. n \in SUBSET Nat
      BY <2>2
    <2>6. \A A, B \in SUBSET Nat : A \subseteq B /\ A # B => <<A, B>> \in Sub
      BY DEF Sub, StrictSubsetOrdering
    <2>7. <<0 .. m, 0 .. n>> \in Sub
      BY <2>4, <2>5, <2>6, Zenon
    <2> QED
      BY <1>5, <1>6, <2>1, <2>7, Zenon
  <1> QED
    BY <1>7

(* Induction over the natural numbers, for the set of those that have a    *)
(* property.                                                               *)
LEMMA ByInduction ==
  ASSUME NEW S \in SUBSET Nat, 0 \in S, \A n \in S : n + 1 \in S
  PROVE  S = Nat
<1>1. ASSUME Nat \ S # {} PROVE FALSE
  <2>1. PICK n \in Nat \ S : \A m \in Nat \ S : n <= m
    BY <1>1, Least
  <2>2. n - 1 \in Nat /\ n - 1 \notin Nat \ S
    BY <2>1
  <2> QED  BY <2>1, <2>2
<1>2. \A n \in Nat : n \in S
  BY <1>1
<1> QED  BY <1>2, Zenon

(* A quotient and a remainder are told apart.                              *)
LEMMA Divide ==
  ASSUME NEW n \in Nat \ {0}, NEW x \in Nat, NEW d \in 0 .. n - 1
  PROVE  /\ x * n + d \in Nat
         /\ (x * n + d) \div n = x
         /\ (x * n + d) % n = d
<1> DEFINE y == x * n
<1>1. y \in Nat
  OBVIOUS
<1>2. PICK q \in Int, r \in Int : /\ q = (y + d) \div n /\ r = (y + d) % n
                                  /\ r \in 0 .. n - 1 /\ y + d = n * q + r
  <2>1. (y + d) \div n \in Int /\ (y + d) % n \in 0 .. n - 1
    BY <1>1
  <2>2. y + d = n * ((y + d) \div n) + ((y + d) % n)
    BY <1>1
  <2> QED  BY <2>1, <2>2
<1>3. n * (x - q) = r - d
  BY <1>2
<1>4. x = q
  <2>1. CASE x - q >= 1
    <3>1. n * (x - q) >= n
      BY <2>1
    <3> QED  BY <3>1, <1>2, <1>3
  <2>2. CASE x - q <= -1
    <3>1. n * (x - q) <= -n
      BY <2>2
    <3> QED  BY <3>1, <1>2, <1>3
  <2> QED  BY <2>1, <2>2, <1>2
<1> QED  BY <1>1, <1>2, <1>3, <1>4

(* A number is made of its quotient and its remainder.                     *)
LEMMA Split ==
  ASSUME NEW n \in Nat \ {0}, NEW v \in Nat
  PROVE  /\ v \div n \in Nat /\ v % n \in 0 .. n - 1
         /\ v = (v \div n) * n + (v % n)
OBVIOUS

(* Dividing twice is dividing by the product.                              *)
LEMMA Twice ==
  ASSUME NEW n \in Nat \ {0}, NEW m \in Nat \ {0}, NEW v \in Nat
  PROVE  (v \div n) \div m = v \div (n * m)
<1> DEFINE a == v % n  x == v \div n  b == x % m  y == x \div m
<1>1. /\ x \in Nat /\ a \in 0 .. n - 1 /\ v = x * n + a
      /\ y \in Nat /\ b \in 0 .. m - 1 /\ x = y * m + b
  BY Split
<1> HIDE DEF a, x, b, y
<1> DEFINE p == n * m  d == b * n + a
<1>2. p \in Nat \ {0} /\ d \in 0 .. p - 1
  <2>1. b * n <= (m - 1) * n
    BY <1>1
  <2>2. (m - 1) * n = p - n
    BY <1>1
  <2>3. d \in Nat
    BY <1>1
  <2> QED  BY <1>1, <2>1, <2>2, <2>3
<1>3. v = y * p + d
  BY <1>1
<1> HIDE DEF p, d
<1>4. v \div p = y
  BY <1>1, <1>2, <1>3, Divide
<1> QED  BY <1>4 DEF x, y, p

(* What the indices are.                                                   *)
LEMMA Entries == ENTRIES \in Nat \ {0} /\ RECURSIVE_SLOT \in Slot /\ 0 \in Slot
BY VmParameters DEF Slot

(* There is a number of a given quotient and remainder.                    *)
LEMMA Composed ==
  ASSUME NEW n \in Nat \ {0}, NEW x \in Nat, NEW d \in 0 .. n - 1
  PROVE  \E v \in Nat : v = x * n + d /\ v \div n = x /\ v % n = d
BY Divide

(* A number below y tables has a quotient below y.                         *)
LEMMA Smaller ==
  ASSUME NEW n \in Nat \ {0}, NEW x \in Nat, NEW y \in Nat, NEW v \in Nat,
         v < y * n
  PROVE  v \div n < y
<1>1. PICK q \in Nat, r \in 0 .. n - 1 : q = v \div n /\ v = q * n + r
  BY Split
<1>2. SUFFICES ASSUME q >= y PROVE FALSE
  BY <1>1
<1>3. (q - y) * n >= 0
  BY <1>2
<1>4. (q - y) * n = q * n - y * n
  BY <1>1
<1> QED  BY <1>1, <1>3, <1>4

(* The indices of the upper levels, one division at a time.                *)
LEMMA Thrice ==
  ASSUME NEW v \in Nat
  PROVE  /\ PDPIndex(v) = ((v \div ENTRIES) \div ENTRIES) % ENTRIES
         /\ PML4Index(v) = (((v \div ENTRIES) \div ENTRIES) \div ENTRIES) % ENTRIES
<1> PICK n \in Nat \ {0} : n = ENTRIES
  BY Entries
<1> PICK m \in Nat \ {0} : m = n * n
  <2>1. n * n \in Nat \ {0}
    OBVIOUS
  <2> QED  BY <2>1
<1>1. (v \div n) \div n = v \div m
  BY Twice
<1>2. (v \div m) \div n = v \div (m * n)
  BY Twice
<1> QED  BY <1>1, <1>2 DEF PDPIndex, PML4Index

(* The indices of the page with given indices are those.                   *)
LEMMA IndicesOfPage ==
  ASSUME NEW a \in Slot, NEW b \in Slot, NEW c \in Slot, NEW d \in Slot
  PROVE  LET v == PageOf(a, b, c, d)
         IN  /\ v \in Nat
             /\ PML4Index(v) = a /\ PDPIndex(v) = b /\ PDIndex(v) = c /\ PTIndex(v) = d
<1>n. PICK n \in Nat \ {0} : n = ENTRIES
  BY Entries
<1>0. /\ a \in 0 .. n - 1 /\ b \in 0 .. n - 1 /\ c \in 0 .. n - 1 /\ d \in 0 .. n - 1
      /\ a \in Nat /\ a % n = a
  BY <1>n DEF Slot
<1>x. PICK x \in Nat : x = a * n + b /\ x \div n = a /\ x % n = b
  BY <1>0, Composed
<1>y. PICK y \in Nat : y = x * n + c /\ y \div n = x /\ y % n = c
  BY <1>0, Composed
<1>v. PICK v \in Nat : v = y * n + d /\ v \div n = y /\ v % n = d
  BY <1>0, Composed
<1>1. v = PageOf(a, b, c, d)
  BY <1>n, <1>x, <1>y, <1>v, Zenon DEF PageOf
<1>2. PTIndex(v) = d /\ PDIndex(v) = c
  BY <1>n, <1>y, <1>v, Zenon DEF PTIndex, PDIndex
<1>4. PDPIndex(v) = b /\ PML4Index(v) = a
  <2>1. PDPIndex(v) = ((v \div n) \div n) % n /\ PML4Index(v) = (((v \div n) \div n) \div n) % n
    BY <1>n, Thrice
  <2> QED  BY <2>1, <1>0, <1>x, <1>y, <1>v, Zenon
<1> QED  BY <1>1, <1>2, <1>4

(* A page is told by its indices.                                          *)
LEMMA PageOfIndices ==
  ASSUME NEW v \in Page
  PROVE  /\ v \in Nat
         /\ PML4Index(v) \in Slot /\ PDPIndex(v) \in Slot /\ PDIndex(v) \in Slot /\ PTIndex(v) \in Slot
         /\ v = PageOf(PML4Index(v), PDPIndex(v), PDIndex(v), PTIndex(v))
<1>n. PICK n \in Nat \ {0} : n = ENTRIES
  BY Entries
<1>2p. PICK n2 \in Nat : n2 = n * n
  OBVIOUS
<1>3p. PICK n3 \in Nat : n3 = n2 * n
  OBVIOUS
<1>4p. PICK n4 \in Nat : n4 = n3 * n
  OBVIOUS
<1>1. v \in Nat /\ v < n4
  BY <1>n, <1>2p, <1>3p, <1>4p DEF Page
<1>x. PICK x \in Nat, d \in 0 .. n - 1 : v = x * n + d /\ x = v \div n /\ d = v % n
  BY <1>1, Split
<1>y. PICK y \in Nat, c \in 0 .. n - 1 : x = y * n + c /\ y = x \div n /\ c = x % n
  BY Split
<1>a. PICK a \in Nat, b \in 0 .. n - 1 : y = a * n + b /\ a = y \div n /\ b = y % n
  BY Split
<1>2. x < n3
  BY <1>1, <1>4p, <1>x, Smaller
<1>3. y < n2
  BY <1>2, <1>3p, <1>y, Smaller
<1>4. a < n
  BY <1>3, <1>2p, <1>a, Smaller
<1>5. a % n = a /\ Slot = 0 .. n - 1 /\ a \in 0 .. n - 1
  BY <1>4, <1>n DEF Slot
<1>6. PTIndex(v) = d /\ PDIndex(v) = c
  BY <1>n, <1>x, <1>y, Zenon DEF PTIndex, PDIndex
<1>7. PDPIndex(v) = b /\ PML4Index(v) = a
  <2>1. PDPIndex(v) = ((v \div n) \div n) % n /\ PML4Index(v) = (((v \div n) \div n) \div n) % n
    BY <1>1, <1>n, Thrice
  <2> QED  BY <2>1, <1>5, <1>x, <1>y, <1>a, Zenon
<1>8. v = PageOf(a, b, c, d)
  BY <1>n, <1>x, <1>y, <1>a, Zenon DEF PageOf
<1> QED  BY <1>1, <1>5, <1>6, <1>7, <1>8, Zenon

-----------------------------------------------------------------------------
(* Tables and walks.                                                       *)

State == [mem : [Frames -> Table], free : SUBSET RAM, failed : BOOLEAN, fault : BOOLEAN]

(* What stands in an entry, or Unmapped.                                   *)
LEMMA BelowIs ==
  ASSUME NEW mem \in [Frames -> Table], NEW t \in Frames, NEW i \in Slot
  PROVE  /\ mem[t][i].frame \in Frames /\ mem[t][i].present \in BOOLEAN
         /\ Below(mem, t, i) = IF mem[t][i].present THEN mem[t][i].frame ELSE Unmapped
         /\ Below(mem, t, i) \in Frames \cup {Unmapped}
         /\ Below(mem, Unmapped, i) = Unmapped
<1>1. mem[t] \in Table
  OBVIOUS
<1>2. mem[t][i] \in Entry
  BY <1>1 DEF Table
<1>3. mem[t][i].frame \in Frames /\ mem[t][i].present \in BOOLEAN
  BY <1>2 DEF Entry
<1>4. t # Unmapped
  BY VmParameters DEF Unmapped
<1> QED  BY <1>3, <1>4, Zenon DEF Below

(* The same when there may be no table.                                    *)
LEMMA BelowType ==
  ASSUME NEW mem \in [Frames -> Table], NEW t \in Frames \cup {Unmapped}, NEW i \in Slot
  PROVE  /\ Below(mem, t, i) \in Frames \cup {Unmapped}
         /\ Below(mem, Unmapped, i) = Unmapped
<1>1. Below(mem, Unmapped, i) = Unmapped
  BY Zenon DEF Below
<1> QED  BY <1>1, BelowIs

Walk(mem, r, a, b, c, d) == Below(mem, Below(mem, Below(mem, Below(mem, r, a), b), c), d)

(* Translating the page of four indices is a walk along them.              *)
LEMMA TranslateIsWalk ==
  ASSUME NEW mem, NEW r, NEW a \in Slot, NEW b \in Slot, NEW c \in Slot, NEW d \in Slot
  PROVE  Translate(mem, r, PageOf(a, b, c, d)) = Walk(mem, r, a, b, c, d)
<1>1. PICK v : v = PageOf(a, b, c, d)
  OBVIOUS
<1>2. PML4Index(v) = a /\ PDPIndex(v) = b /\ PDIndex(v) = c /\ PTIndex(v) = d
  BY <1>1, IndicesOfPage
<1> QED  BY <1>1, <1>2, Zenon DEF Translate, Walk

(* A walk ends at a frame or nowhere.                                      *)
LEMMA WalkType ==
  ASSUME NEW mem \in [Frames -> Table], NEW r \in Frames \cup {Unmapped},
         NEW a \in Slot, NEW b \in Slot, NEW c \in Slot, NEW d \in Slot
  PROVE  Walk(mem, r, a, b, c, d) \in Frames \cup {Unmapped}
<1>1. PICK x \in Frames \cup {Unmapped} : x = Below(mem, r, a)
  BY BelowType
<1>2. PICK y \in Frames \cup {Unmapped} : y = Below(mem, x, b)
  BY BelowType
<1>3. PICK z \in Frames \cup {Unmapped} : z = Below(mem, y, c)
  BY BelowType
<1> QED  BY <1>1, <1>2, <1>3, BelowType DEF Walk

(* Writing one entry of one table.                                         *)
WithEntry(mem, t, i, f) == [mem EXCEPT ![t][i] = Present(f)]

LEMMA WithEntryIs ==
  ASSUME NEW mem \in [Frames -> Table], NEW t \in Frames, NEW i \in Slot, NEW f \in Frames
  PROVE  /\ WithEntry(mem, t, i, f) \in [Frames -> Table]
         /\ \A x \in Frames, j \in Slot :
              WithEntry(mem, t, i, f)[x][j] = IF x = t /\ j = i THEN Present(f) ELSE mem[x][j]
<1>0. PICK new : new = WithEntry(mem, t, i, f)
  OBVIOUS
<1>1. Present(f) \in Entry
  BY DEF Present, Entry
<1>2. mem[t] \in [Slot -> Entry]
  BY DEF Table
<1>3. PICK row : row = [mem[t] EXCEPT ![i] = Present(f)]
  OBVIOUS
<1>4. row \in Table /\ \A k \in Slot : row[k] = IF k = i THEN Present(f) ELSE mem[t][k]
  BY <1>1, <1>2, <1>3 DEF Table
<1>5. new = [mem EXCEPT ![t] = row]
  BY <1>0, <1>3 DEF WithEntry
<1>6. new \in [Frames -> Table] /\ \A y \in Frames : new[y] = IF y = t THEN row ELSE mem[y]
  BY <1>4, <1>5
<1>7. \A y \in Frames, j \in Slot : new[y][j] = IF y = t /\ j = i THEN Present(f) ELSE mem[y][j]
  BY <1>4, <1>6
<1> QED  BY <1>0, <1>6, <1>7, Zenon

(* The entry written and no other changes.                                 *)
LEMMA Written ==
  ASSUME NEW mem \in [Frames -> Table], NEW t \in Frames, NEW i \in Slot, NEW f \in Frames,
         NEW x \in Frames \cup {Unmapped}, NEW j \in Slot
  PROVE  LET new == [mem EXCEPT ![t][i] = Present(f)]
         IN  /\ new \in [Frames -> Table]
             /\ Below(new, x, j) = IF x = t /\ j = i THEN f ELSE Below(mem, x, j)
             /\ x \in Frames => new[x][j] = IF x = t /\ j = i THEN Present(f) ELSE mem[x][j]
<1>0. PICK new : new = WithEntry(mem, t, i, f)
  OBVIOUS
<1>1. /\ new \in [Frames -> Table]
      /\ \A y \in Frames, k \in Slot : new[y][k] = IF y = t /\ k = i THEN Present(f) ELSE mem[y][k]
  BY <1>0, WithEntryIs
<1>2. \A y \in Frames : new[y][j] = IF y = t /\ j = i THEN Present(f) ELSE mem[y][j]
  BY <1>1
<1>3. Below(new, x, j) = IF x = t /\ j = i THEN f ELSE Below(mem, x, j)
  <2>1. CASE x = Unmapped
    <3>1. t # Unmapped
      BY VmParameters DEF Unmapped
    <3> QED  BY <2>1, <3>1, Zenon DEF Below
  <2>2. CASE x \in Frames
    <3>1. x # Unmapped
      BY <2>2, VmParameters DEF Unmapped
    <3>2. Present(f).frame = f /\ Present(f).present = TRUE
      BY DEF Present
    <3> QED  BY <1>2, <2>2, <3>1, <3>2, Zenon DEF Below
  <2> QED  BY <2>1, <2>2
<1> QED  BY <1>0, <1>1, <1>2, <1>3, Zenon DEF WithEntry

(* What kmalloc_mem returns, and the state it leaves.                      *)
LEMMA FreshIs ==
  ASSUME NEW s \in State
  PROVE  /\ Fresh(s) \in Frames
         /\ s.free # {} => Fresh(s) \in s.free
         /\ Taken(s) \in State
         /\ Taken(s).mem = s.mem /\ Taken(s).fault = s.fault
         /\ Taken(s).free = s.free \ {Fresh(s)}
         /\ Taken(s).failed = (s.failed \/ s.free = {})
<1>1. s.free \subseteq RAM /\ s.free \in SUBSET Nat /\ s.free \subseteq Frames
  BY VmParameters DEF State
<1>2. ASSUME s.free # {} PROVE Fresh(s) \in s.free
  <2>1. PICK n \in s.free : \A m \in s.free : n <= m
    BY <1>1, <1>2, Least
  <2> QED  BY <1>2, <2>1, Zenon DEF Fresh
<1>3. ASSUME s.free = {} PROVE Fresh(s) = 0
  BY <1>3, Zenon DEF Fresh
<1>4. Fresh(s) \in Frames
  BY <1>1, <1>2, <1>3, VmParameters
<1>5. Taken(s) = [s EXCEPT !.free = s.free \ {Fresh(s)}, !.failed = s.failed \/ s.free = {}]
  BY DEF Taken
<1>6. PICK b \in BOOLEAN : b = (s.failed \/ s.free = {})
  BY DEF State
<1>7. Taken(s) = [s EXCEPT !.free = s.free \ {Fresh(s)}, !.failed = b]
  BY <1>5, <1>6
<1>8. Taken(s).mem = s.mem /\ Taken(s).fault = s.fault
      /\ Taken(s).free = s.free \ {Fresh(s)} /\ Taken(s).failed = b /\ Taken(s) \in State
  BY <1>1, <1>7 DEF State
<1> QED  BY <1>2, <1>4, <1>6, <1>8, Zenon

(* The state with an entry written.                                        *)
LEMMA Linked ==
  ASSUME NEW s \in State, NEW t \in Frames, NEW i \in Slot, NEW f \in Frames
  PROVE  LET e == [s EXCEPT !.mem[t][i] = Present(f)]
         IN  /\ e \in State
             /\ e.mem = [s.mem EXCEPT ![t][i] = Present(f)]
             /\ e.free = s.free /\ e.failed = s.failed /\ e.fault = s.fault
<1>1. PICK m : m = [s.mem EXCEPT ![t][i] = Present(f)]
  OBVIOUS
<1>2. m \in [Frames -> Table]
  BY <1>1, Written DEF State
<1>3. [s EXCEPT !.mem[t][i] = Present(f)] = [s EXCEPT !.mem = m]
  BY <1>1
<1>4. PICK e : e = [s EXCEPT !.mem = m]
  OBVIOUS
<1>5. e \in State /\ e.mem = m /\ e.free = s.free /\ e.failed = s.failed /\ e.fault = s.fault
  BY <1>2, <1>4 DEF State
<1> QED  BY <1>1, <1>3, <1>4, <1>5

(* One level of mmap keeps the types, and the memory of a failure.         *)
LEMMA EnsureIs ==
  ASSUME NEW s \in State, NEW root, NEW window, NEW i \in Slot,
         NEW t \in Frames \cup {Unmapped}, t = Translate(s.mem, root, window)
  PROVE  LET e == Ensure(s, root, window, i)
         IN  /\ e \in State
             /\ s.failed => e.failed
             /\ t = Unmapped => e.fault
             /\ t # Unmapped /\ s.mem[t][i].frame # 0 => e = s
             /\ t # Unmapped /\ s.mem[t][i].frame = 0 =>
                  /\ e.mem = [s.mem EXCEPT ![t][i] = Present(Fresh(s))]
                  /\ e.free = s.free \ {Fresh(s)}
                  /\ e.failed = (s.failed \/ s.free = {})
                  /\ e.fault = s.fault
<1>1. CASE t = Unmapped
  <2>1. Ensure(s, root, window, i) = [s EXCEPT !.fault = TRUE]
    BY <1>1 DEF Ensure
  <2>2. PICK e : e = [s EXCEPT !.fault = TRUE]
    OBVIOUS
  <2>3. e \in State /\ e.failed = s.failed /\ e.fault = TRUE
    BY <2>2 DEF State
  <2> QED  BY <1>1, <2>1, <2>2, <2>3
<1>2. CASE t # Unmapped /\ s.mem[t][i].frame # 0
  <2>1. Ensure(s, root, window, i) = s
    BY <1>2 DEF Ensure
  <2> QED  BY <1>2, <2>1
<1>3. CASE t # Unmapped /\ s.mem[t][i].frame = 0
  <2>1. Ensure(s, root, window, i) = [Taken(s) EXCEPT !.mem[t][i] = Present(Fresh(s))]
    BY <1>3 DEF Ensure
  <2>2. PICK p \in State : p = Taken(s)
    BY FreshIs
  <2>3. PICK f \in Frames : f = Fresh(s)
    BY FreshIs
  <2>4. PICK e : e = [p EXCEPT !.mem[t][i] = Present(f)]
    OBVIOUS
  <2>5. /\ e \in State /\ e.mem = [p.mem EXCEPT ![t][i] = Present(f)]
        /\ e.free = p.free /\ e.failed = p.failed /\ e.fault = p.fault
    BY <1>3, <2>4, Linked
  <2>6. /\ p.mem = s.mem /\ p.fault = s.fault /\ p.free = s.free \ {f}
        /\ p.failed = (s.failed \/ s.free = {})
    BY <2>2, <2>3, FreshIs
  <2> QED  BY <1>3, <2>1, <2>2, <2>3, <2>4, <2>5, <2>6, Zenon
<1> QED  BY <1>1, <1>2, <1>3

-----------------------------------------------------------------------------
(* Trees of tables.  A level function gives every frame its place: 4 is    *)
(* the PML4, 3 to 1 the tables below, 0 a page, 5 a frame that is not in   *)
(* the tree.                                                               *)

(* An entry is present just if it has an address.                          *)
Tidy(mem, t) == \A i \in Slot : mem[t][i].present <=> mem[t][i].frame # 0

Window(r, t, i) == t = r /\ i = RECURSIVE_SLOT

Levels(mem, free, r, lev) ==
  /\ r \in Frames /\ lev \in [Frames -> 0 .. 5]
  /\ \A t \in Frames : lev[t] = 4 <=> t = r
  /\ \A f \in free : lev[f] = 5

Clean(mem, free, lev) ==
  /\ \A t \in Frames : lev[t] \in 1 .. 4 \/ t \in free => Tidy(mem, t)
  /\ \A f \in free, i \in Slot : Below(mem, f, i) = Unmapped

Descends(mem, r, lev) ==
  \A t \in Frames, i \in Slot :
    lev[t] \in 1 .. 4 /\ Below(mem, t, i) # Unmapped /\ ~Window(r, t, i)
      => lev[Below(mem, t, i)] = lev[t] - 1

Single(mem, r, lev) ==
  \A t, u \in Frames, i, j \in Slot :
    /\ lev[t] \in 1 .. 4 /\ lev[u] \in 1 .. 4
    /\ Below(mem, t, i) # Unmapped /\ Below(mem, t, i) = Below(mem, u, j)
    /\ ~Window(r, t, i) /\ ~Window(r, u, j)
    => t = u /\ i = j

Tree(mem, free, r, lev) ==
  Levels(mem, free, r, lev) /\ Clean(mem, free, lev) /\ Descends(mem, r, lev) /\ Single(mem, r, lev)

(* An entry is given the address f; what frame f holds is left open.       *)
Rewritten(mem, mem2, t, i, f) ==
  \A x \in Frames, j \in Slot :
    x # f => mem2[x][j] = IF x = t /\ j = i THEN Present(f) ELSE mem[x][j]

Relinked(mem, mem2, t, i, f) ==
  \A x \in Frames, j \in Slot :
    x # f => Below(mem2, x, j) = IF x = t /\ j = i THEN f ELSE Below(mem, x, j)

(* What stands below the tables when an entry is given the address f.      *)
LEMMA BelowWritten ==
  ASSUME NEW mem \in [Frames -> Table], NEW mem2 \in [Frames -> Table],
         NEW t \in Frames, NEW i \in Slot, NEW f \in Frames,
         Rewritten(mem, mem2, t, i, f)
  PROVE  Relinked(mem, mem2, t, i, f)
<1> SUFFICES ASSUME NEW x \in Frames, NEW j \in Slot, x # f
             PROVE  Below(mem2, x, j) = IF x = t /\ j = i THEN f ELSE Below(mem, x, j)
  BY DEF Relinked
<1>1. Present(f).frame = f /\ Present(f).present = TRUE
  BY DEF Present
<1>2. mem2[x][j] = IF x = t /\ j = i THEN Present(f) ELSE mem[x][j]
  BY DEF Rewritten
<1>3. /\ Below(mem2, x, j) = IF mem2[x][j].present THEN mem2[x][j].frame ELSE Unmapped
      /\ Below(mem, x, j) = IF mem[x][j].present THEN mem[x][j].frame ELSE Unmapped
  BY BelowIs
<1>4. CASE x = t /\ j = i
  BY <1>1, <1>2, <1>3, <1>4, Zenon
<1>5. CASE ~(x = t /\ j = i)
  <2>1. mem2[x][j] = mem[x][j]
    BY <1>2, <1>5
  <2> QED  BY <1>3, <1>5, <2>1, Zenon
<1> QED  BY <1>4, <1>5

(* A tree stays a tree when an entry is linked to a frame outside of it:   *)
(* an empty table one level down, or a page.                               *)
LEMMA Grown ==
  ASSUME NEW mem \in [Frames -> Table], NEW free \in SUBSET Frames, NEW r, NEW lev,
         Tree(mem, free, r, lev),
         NEW t \in Frames, lev[t] \in 1 .. 4, NEW i \in Slot, ~Window(r, t, i),
         NEW f \in Frames, f # 0, lev[f] = 5,
         NEW free2 \in SUBSET free, f \notin free2,
         NEW mem2 \in [Frames -> Table],
         Rewritten(mem, mem2, t, i, f),
         lev[t] > 1 => \A j \in Slot : mem2[f][j].frame = 0 /\ ~mem2[f][j].present
  PROVE  Tree(mem2, free2, r, [lev EXCEPT ![f] = lev[t] - 1])
<1>1. PICK lev2 : lev2 = [lev EXCEPT ![f] = lev[t] - 1]
  OBVIOUS
<1>2. /\ r \in Frames /\ lev \in [Frames -> 0 .. 5]
      /\ \A x \in Frames : lev[x] = 4 <=> x = r
      /\ \A x \in free : lev[x] = 5
  BY DEF Tree, Levels
<1>3. /\ lev2 \in [Frames -> 0 .. 5]
      /\ \A x \in Frames : lev2[x] = IF x = f THEN lev[t] - 1 ELSE lev[x]
      /\ t # f
  BY <1>1, <1>2
<1>4. \A x \in Frames, j \in Slot :
        x # f => Below(mem2, x, j) = IF x = t /\ j = i THEN f ELSE Below(mem, x, j)
  <2>1. Relinked(mem, mem2, t, i, f)
    BY BelowWritten
  <2> QED  BY <2>1, Zenon DEF Relinked
<1>5. lev[t] > 1 => \A j \in Slot : Below(mem2, f, j) = Unmapped
  BY BelowIs, Zenon
<1>6. Levels(mem2, free2, r, lev2)
  <2>1. \A x \in Frames : lev2[x] = 4 <=> x = r
    BY <1>2, <1>3
  <2> QED  BY <1>2, <1>3, <2>1 DEF Levels
<1>7. Clean(mem2, free2, lev2)
  <2>1. ASSUME NEW x \in Frames, lev2[x] \in 1 .. 4 \/ x \in free2 PROVE Tidy(mem2, x)
    <3>1. CASE x = f
      <4>1. lev[t] > 1
        BY <2>1, <3>1, <1>2, <1>3
      <4> QED  BY <3>1, <4>1, Zenon DEF Tidy
    <3>2. CASE x # f
      <4>1. Tidy(mem, x)
        BY <2>1, <3>2, <1>3 DEF Tree, Clean
      <4>2. Present(f).frame = f /\ Present(f).present = TRUE
        BY DEF Present
      <4>3. ASSUME NEW j \in Slot PROVE mem2[x][j].present <=> mem2[x][j].frame # 0
        <5>1. CASE x = t /\ j = i
          <6>1. mem2[x][j] = Present(f)
            BY <3>2, <5>1 DEF Rewritten
          <6> QED  BY <4>2, <6>1, Zenon
        <5>2. CASE ~(x = t /\ j = i)
          <6>1. mem2[x][j] = mem[x][j]
            BY <3>2, <5>2 DEF Rewritten
          <6> QED  BY <4>1, <6>1, Zenon DEF Tidy
        <5> QED  BY <5>1, <5>2
      <4> QED  BY <4>3, Zenon DEF Tidy
    <3> QED  BY <3>1, <3>2
  <2>2. ASSUME NEW g \in free2, NEW j \in Slot PROVE Below(mem2, g, j) = Unmapped
    <3>1. g \in free /\ g # f /\ g # t /\ g \in Frames
      BY <1>2
    <3>2. Below(mem, g, j) = Unmapped
      BY <3>1 DEF Tree, Clean
    <3> QED  BY <1>4, <3>1, <3>2
  <2> QED  BY <2>1, <2>2 DEF Clean
<1>8. Descends(mem2, r, lev2)
  <2> SUFFICES ASSUME NEW x \in Frames, NEW j \in Slot, lev2[x] \in 1 .. 4,
                      Below(mem2, x, j) # Unmapped, ~Window(r, x, j)
               PROVE  lev2[Below(mem2, x, j)] = lev2[x] - 1
    BY DEF Descends
  <2>1. x # f
    BY <1>2, <1>3, <1>5
  <2>2. CASE x = t /\ j = i
    BY <1>3, <1>4, <2>1, <2>2
  <2>3. CASE ~(x = t /\ j = i)
    <3>1. Below(mem2, x, j) = Below(mem, x, j) /\ lev2[x] = lev[x]
      BY <1>3, <1>4, <2>1, <2>3
    <3>2. lev[Below(mem, x, j)] = lev[x] - 1 /\ Below(mem, x, j) \in Frames
      BY <3>1, BelowIs DEF Tree, Descends
    <3>3. Below(mem, x, j) # f
      BY <1>2, <3>1, <3>2
    <3> QED  BY <1>3, <3>1, <3>2, <3>3
  <2> QED  BY <2>2, <2>3
<1>9. Single(mem2, r, lev2)
  <2>0. \A x \in Frames, j \in Slot :
          lev[x] \in 1 .. 4 /\ ~Window(r, x, j) => Below(mem, x, j) # f
    <3> SUFFICES ASSUME NEW x \in Frames, NEW j \in Slot, lev[x] \in 1 .. 4, ~Window(r, x, j),
                        Below(mem, x, j) = f
                 PROVE  FALSE
      OBVIOUS
    <3>1. f # Unmapped
      BY VmParameters DEF Unmapped
    <3>2. lev[f] = lev[x] - 1
      BY <3>1 DEF Tree, Descends
    <3> QED  BY <3>2
  <2> SUFFICES ASSUME NEW x \in Frames, NEW y \in Frames, NEW j \in Slot, NEW k \in Slot,
                      lev2[x] \in 1 .. 4, lev2[y] \in 1 .. 4,
                      Below(mem2, x, j) # Unmapped, Below(mem2, x, j) = Below(mem2, y, k),
                      ~Window(r, x, j), ~Window(r, y, k)
               PROVE  x = y /\ j = k
    BY DEF Single
  <2>1. x # f /\ y # f
    BY <1>2, <1>3, <1>5
  <2>2. lev[x] \in 1 .. 4 /\ lev[y] \in 1 .. 4
    BY <1>3, <2>1
  <2>3. /\ Below(mem2, x, j) = IF x = t /\ j = i THEN f ELSE Below(mem, x, j)
        /\ Below(mem2, y, k) = IF y = t /\ k = i THEN f ELSE Below(mem, y, k)
    BY <1>4, <2>1
  <2>4. CASE (x = t /\ j = i) \/ (y = t /\ k = i)
    BY <2>0, <2>2, <2>3, <2>4
  <2>5. CASE ~(x = t /\ j = i) /\ ~(y = t /\ k = i)
    <3>1. Below(mem, x, j) = Below(mem, y, k) /\ Below(mem, x, j) # Unmapped
      BY <2>3, <2>5
    <3> QED  BY <2>2, <3>1 DEF Tree, Single
  <2> QED  BY <2>4, <2>5
<1> QED  BY <1>1, <1>6, <1>7, <1>8, <1>9 DEF Tree

(* On a way from the PML4 that does not start with the recursive entry     *)
(* each table is of its level.                                             *)
OnWay(lev, t3, t2, t1, t0) ==
  /\ t3 = Unmapped \/ (t3 \in Frames /\ lev[t3] = 3)
  /\ t2 = Unmapped \/ (t3 \in Frames /\ t2 \in Frames /\ lev[t2] = 2)
  /\ t1 = Unmapped \/ (t2 \in Frames /\ t1 \in Frames /\ lev[t1] = 1)
  /\ t0 = Unmapped \/ (t1 \in Frames /\ t0 \in Frames /\ lev[t0] = 0)

(* Every walk that does not start with the recursive entry descends level  *)
(* by level.                                                               *)
LEMMA OnTheWay ==
  ASSUME NEW mem \in [Frames -> Table], NEW free \in SUBSET Frames, NEW r, NEW lev,
         Tree(mem, free, r, lev)
  PROVE  \A a, b, c, d \in Slot : a # RECURSIVE_SLOT =>
           LET t3 == Below(mem, r, a)
               t2 == Below(mem, t3, b)
               t1 == Below(mem, t2, c)
           IN  OnWay(lev, t3, t2, t1, Below(mem, t1, d))
<1> SUFFICES ASSUME NEW a \in Slot, NEW b \in Slot, NEW c \in Slot, NEW d \in Slot,
                    a # RECURSIVE_SLOT,
                    NEW t3, t3 = Below(mem, r, a), NEW t2, t2 = Below(mem, t3, b),
                    NEW t1, t1 = Below(mem, t2, c), NEW t0, t0 = Below(mem, t1, d)
             PROVE  OnWay(lev, t3, t2, t1, t0)
  BY Zenon
<1>0. /\ r \in Frames /\ lev[r] = 4 /\ \A x \in Frames : lev[x] = 4 <=> x = r
      /\ Unmapped \notin Frames
  BY VmParameters DEF Tree, Levels, Unmapped
<1>1. \A x \in Frames, j \in Slot :
        lev[x] \in 1 .. 4 /\ Below(mem, x, j) # Unmapped /\ ~Window(r, x, j)
          => lev[Below(mem, x, j)] = lev[x] - 1
  BY DEF Tree, Descends
<1>2. t3 = Unmapped \/ (t3 \in Frames /\ lev[t3] = 3)
  <2>1. ~Window(r, r, a)
    BY DEF Window
  <2> QED  BY <1>0, <1>1, <2>1, BelowType
<1>3. t2 = Unmapped \/ (t3 \in Frames /\ t2 \in Frames /\ lev[t2] = 2)
  <2>1. t3 # r => ~Window(r, t3, b)
    BY DEF Window
  <2> QED  BY <1>0, <1>1, <1>2, <2>1, BelowType
<1>4. t1 = Unmapped \/ (t2 \in Frames /\ t1 \in Frames /\ lev[t1] = 1)
  <2>1. t2 # r => ~Window(r, t2, c)
    BY DEF Window
  <2> QED  BY <1>0, <1>1, <1>3, <2>1, BelowType
<1>5. t0 = Unmapped \/ (t1 \in Frames /\ t0 \in Frames /\ lev[t0] = 0)
  <2>1. t1 # r => ~Window(r, t1, d)
    BY DEF Window
  <2> QED  BY <1>0, <1>1, <1>4, <2>1, BelowType
<1> QED  BY <1>2, <1>3, <1>4, <1>5 DEF OnWay

(* A page table, and a frame, is reached on one way only.                  *)
Unshared(mem, r, a, b, c, d, a2, b2, c2, d2) ==
  LET t1 == Below(mem, Below(mem, Below(mem, r, a), b), c)
      u1 == Below(mem, Below(mem, Below(mem, r, a2), b2), c2)
  IN  /\ t1 = u1 /\ t1 # Unmapped => a = a2 /\ b = b2 /\ c = c2
      /\ Below(mem, t1, d) = Below(mem, u1, d2) /\ Below(mem, t1, d) # Unmapped
           => a = a2 /\ b = b2 /\ c = c2 /\ d = d2

(* In a tree a page table, and a frame, is reached on one way only.        *)
LEMMA OneWay ==
  ASSUME NEW mem \in [Frames -> Table], NEW free \in SUBSET Frames, NEW r, NEW lev,
         Tree(mem, free, r, lev),
         NEW a \in Slot, NEW b \in Slot, NEW c \in Slot, NEW d \in Slot, a # RECURSIVE_SLOT,
         NEW a2 \in Slot, NEW b2 \in Slot, NEW c2 \in Slot, NEW d2 \in Slot, a2 # RECURSIVE_SLOT
  PROVE  Unshared(mem, r, a, b, c, d, a2, b2, c2, d2)
<1>3. PICK t3, u3 : t3 = Below(mem, r, a) /\ u3 = Below(mem, r, a2)
  OBVIOUS
<1>2. PICK t2, u2 : t2 = Below(mem, t3, b) /\ u2 = Below(mem, u3, b2)
  OBVIOUS
<1>1. PICK t1, u1 : t1 = Below(mem, t2, c) /\ u1 = Below(mem, u2, c2)
  OBVIOUS
<1>0. PICK t0, u0 : t0 = Below(mem, t1, d) /\ u0 = Below(mem, u1, d2)
  OBVIOUS
<1>4. /\ t3 = Unmapped \/ (t3 \in Frames /\ lev[t3] = 3)
      /\ t2 = Unmapped \/ (t3 \in Frames /\ t2 \in Frames /\ lev[t2] = 2)
      /\ t1 = Unmapped \/ (t2 \in Frames /\ t1 \in Frames /\ lev[t1] = 1)
      /\ t0 = Unmapped \/ (t1 \in Frames /\ t0 \in Frames /\ lev[t0] = 0)
  <2>1. OnWay(lev, t3, t2, t1, t0)
    BY <1>0, <1>1, <1>2, <1>3, OnTheWay, Zenon
  <2> QED  BY <2>1 DEF OnWay
<1>5. /\ u3 = Unmapped \/ (u3 \in Frames /\ lev[u3] = 3)
      /\ u2 = Unmapped \/ (u3 \in Frames /\ u2 \in Frames /\ lev[u2] = 2)
      /\ u1 = Unmapped \/ (u2 \in Frames /\ u1 \in Frames /\ lev[u1] = 1)
      /\ u0 = Unmapped \/ (u1 \in Frames /\ u0 \in Frames /\ lev[u0] = 0)
  <2>1. OnWay(lev, u3, u2, u1, u0)
    BY <1>0, <1>1, <1>2, <1>3, OnTheWay, Zenon
  <2> QED  BY <2>1 DEF OnWay
<1>6. /\ r \in Frames /\ lev[r] \in 1 .. 4
      /\ \A x : x \in {t3, u3, t2, u2, t1, u1} /\ x # Unmapped
           => x \in Frames /\ lev[x] \in 1 .. 4 /\ x # r
      /\ \A x : Below(mem, Unmapped, x) = Unmapped
  <2>1. r \in Frames /\ lev[r] = 4
    BY DEF Tree, Levels
  <2>2. \A x : Below(mem, Unmapped, x) = Unmapped
    BY Zenon DEF Below
  <2> QED  BY <1>4, <1>5, <2>1, <2>2
<1>7. \A x, y \in Frames, i, j \in Slot :
         /\ lev[x] \in 1 .. 4 /\ lev[y] \in 1 .. 4
         /\ Below(mem, x, i) # Unmapped /\ Below(mem, x, i) = Below(mem, y, j)
         /\ ~Window(r, x, i) /\ ~Window(r, y, j)
         => x = y /\ i = j
  BY DEF Tree, Single
<1>8. /\ ~Window(r, r, a) /\ ~Window(r, r, a2)
      /\ \A x, i : x # r => ~Window(r, x, i)
  BY DEF Window
<1>9. t3 = u3 /\ t3 # Unmapped => a = a2
  BY <1>3, <1>6, <1>7, <1>8, Zenon
<1>10. t2 = u2 /\ t2 # Unmapped => t3 = u3 /\ t3 # Unmapped /\ b = b2
  <2> SUFFICES ASSUME t2 = u2, t2 # Unmapped
               PROVE  t3 = u3 /\ t3 # Unmapped /\ b = b2
    OBVIOUS
  <2>1. t3 # Unmapped /\ u3 # Unmapped
    BY <1>2, <1>6, Zenon
  <2>2. /\ t3 \in Frames /\ u3 \in Frames /\ lev[t3] \in 1 .. 4 /\ lev[u3] \in 1 .. 4
        /\ ~Window(r, t3, b) /\ ~Window(r, u3, b2)
    BY <1>6, <1>8, <2>1, Zenon
  <2> QED  BY <1>2, <1>7, <2>1, <2>2, Zenon
<1>11. t1 = u1 /\ t1 # Unmapped => t2 = u2 /\ t2 # Unmapped /\ c = c2
  <2> SUFFICES ASSUME t1 = u1, t1 # Unmapped
               PROVE  t2 = u2 /\ t2 # Unmapped /\ c = c2
    OBVIOUS
  <2>1. t2 # Unmapped /\ u2 # Unmapped
    BY <1>1, <1>6, Zenon
  <2>2. /\ t2 \in Frames /\ u2 \in Frames /\ lev[t2] \in 1 .. 4 /\ lev[u2] \in 1 .. 4
        /\ ~Window(r, t2, c) /\ ~Window(r, u2, c2)
    BY <1>6, <1>8, <2>1, Zenon
  <2> QED  BY <1>1, <1>7, <2>1, <2>2, Zenon
<1>12. t0 = u0 /\ t0 # Unmapped => t1 = u1 /\ t1 # Unmapped /\ d = d2
  <2> SUFFICES ASSUME t0 = u0, t0 # Unmapped
               PROVE  t1 = u1 /\ t1 # Unmapped /\ d = d2
    OBVIOUS
  <2>1. t1 # Unmapped /\ u1 # Unmapped
    BY <1>0, <1>6, Zenon
  <2>2. /\ t1 \in Frames /\ u1 \in Frames /\ lev[t1] \in 1 .. 4 /\ lev[u1] \in 1 .. 4
        /\ ~Window(r, t1, d) /\ ~Window(r, u1, d2)
    BY <1>6, <1>8, <2>1, Zenon
  <2> QED  BY <1>0, <1>7, <2>1, <2>2, Zenon
<1> QED  BY <1>0, <1>1, <1>2, <1>3, <1>9, <1>10, <1>11, <1>12, Zenon DEF Unshared

SameMap(mem, mem2, r) ==
  \A a, b, c, d \in Slot :
    a # RECURSIVE_SLOT => Walk(mem2, r, a, b, c, d) = Walk(mem, r, a, b, c, d)

(* Linking an empty table changes no translation.                          *)
LEMMA LinkedSame ==
  ASSUME NEW mem \in [Frames -> Table], NEW free \in SUBSET Frames, NEW r, NEW lev,
         Tree(mem, free, r, lev),
         NEW t \in Frames, lev[t] \in 2 .. 4, NEW i \in Slot, Below(mem, t, i) = Unmapped,
         NEW f \in Frames, lev[f] = 5,
         NEW mem2 \in [Frames -> Table],
         Relinked(mem, mem2, t, i, f),
         \A j \in Slot : Below(mem2, f, j) = Unmapped
  PROVE  SameMap(mem, mem2, r)
<1> SUFFICES ASSUME NEW a \in Slot, NEW b \in Slot, NEW c \in Slot, NEW d \in Slot,
                    a # RECURSIVE_SLOT
             PROVE  Walk(mem2, r, a, b, c, d) = Walk(mem, r, a, b, c, d)
  BY DEF SameMap
<1>3. PICK t3, u3 : t3 = Below(mem, r, a) /\ u3 = Below(mem2, r, a)
  OBVIOUS
<1>2. PICK t2, u2 : t2 = Below(mem, t3, b) /\ u2 = Below(mem2, u3, b)
  OBVIOUS
<1>1. PICK t1, u1 : t1 = Below(mem, t2, c) /\ u1 = Below(mem2, u2, c)
  OBVIOUS
<1>0. PICK t0, u0 : t0 = Below(mem, t1, d) /\ u0 = Below(mem2, u1, d)
  OBVIOUS
<1>4. /\ t3 = Unmapped \/ (t3 \in Frames /\ lev[t3] = 3)
      /\ t2 = Unmapped \/ (t3 \in Frames /\ t2 \in Frames /\ lev[t2] = 2)
      /\ t1 = Unmapped \/ (t2 \in Frames /\ t1 \in Frames /\ lev[t1] = 1)
      /\ t0 = Unmapped \/ (t1 \in Frames /\ t0 \in Frames /\ lev[t0] = 0)
  <2>1. OnWay(lev, t3, t2, t1, t0)
    BY <1>0, <1>1, <1>2, <1>3, OnTheWay, Zenon
  <2> QED  BY <2>1 DEF OnWay
<1>5. /\ r \in Frames /\ lev[r] = 4 /\ Unmapped \notin Frames
      /\ \A j \in Slot : Below(mem, Unmapped, j) = Unmapped /\ Below(mem2, Unmapped, j) = Unmapped
  BY VmParameters, BelowType DEF Tree, Levels, Unmapped
<1>r. \A x \in Frames, j \in Slot :
        x # f => Below(mem2, x, j) = IF x = t /\ j = i THEN f ELSE Below(mem, x, j)
  BY Zenon DEF Relinked
<1>6. u3 = t3 \/ (t3 = Unmapped /\ u3 = f)
  BY <1>3, <1>5, <1>r
<1>7. u2 = t2 \/ (t2 = Unmapped /\ u2 = f)
  <2>1. CASE u3 = t3
    BY <1>2, <1>4, <1>5, <1>r, <2>1
  <2>2. CASE t3 = Unmapped /\ u3 = f
    BY <1>2, <1>5, <1>r, <2>2
  <2> QED  BY <1>6, <2>1, <2>2
<1>8. u1 = t1 \/ (t1 = Unmapped /\ u1 = f)
  <2>1. CASE u2 = t2
    BY <1>1, <1>4, <1>5, <1>r, <2>1
  <2>2. CASE t2 = Unmapped /\ u2 = f
    BY <1>1, <1>5, <1>r, <2>2
  <2> QED  BY <1>7, <2>1, <2>2
<1>9. u0 = t0
  <2>1. CASE u1 = t1
    <3>1. t1 # Unmapped => t1 # f /\ t1 # t
      BY <1>4
    <3> QED  BY <1>0, <1>4, <1>5, <1>r, <2>1, <3>1
  <2>2. CASE t1 = Unmapped /\ u1 = f
    BY <1>0, <1>5, <1>r, <2>2
  <2> QED  BY <1>8, <2>1, <2>2
<1> QED  BY <1>0, <1>1, <1>2, <1>3, <1>9, Zenon DEF Walk

(* Writing an entry of a page table changes one translation.               *)
LEMMA PageWritten ==
  ASSUME NEW mem \in [Frames -> Table], NEW free \in SUBSET Frames, NEW r, NEW lev,
         Tree(mem, free, r, lev),
         NEW t \in Frames, lev[t] = 1, NEW i \in Slot,
         NEW f \in Frames, lev[f] = 5,
         NEW mem2 \in [Frames -> Table],
         Relinked(mem, mem2, t, i, f),
         NEW a \in Slot, NEW b \in Slot, NEW c \in Slot, NEW d \in Slot, a # RECURSIVE_SLOT
  PROVE  Walk(mem2, r, a, b, c, d) =
           IF Below(mem, Below(mem, Below(mem, r, a), b), c) = t /\ d = i
           THEN f ELSE Walk(mem, r, a, b, c, d)
<1>3. PICK t3, u3 : t3 = Below(mem, r, a) /\ u3 = Below(mem2, r, a)
  OBVIOUS
<1>2. PICK t2, u2 : t2 = Below(mem, t3, b) /\ u2 = Below(mem2, u3, b)
  OBVIOUS
<1>1. PICK t1, u1 : t1 = Below(mem, t2, c) /\ u1 = Below(mem2, u2, c)
  OBVIOUS
<1>0. PICK t0, u0 : t0 = Below(mem, t1, d) /\ u0 = Below(mem2, u1, d)
  OBVIOUS
<1>4. /\ t3 = Unmapped \/ (t3 \in Frames /\ lev[t3] = 3)
      /\ t2 = Unmapped \/ (t3 \in Frames /\ t2 \in Frames /\ lev[t2] = 2)
      /\ t1 = Unmapped \/ (t2 \in Frames /\ t1 \in Frames /\ lev[t1] = 1)
      /\ t0 = Unmapped \/ (t1 \in Frames /\ t0 \in Frames /\ lev[t0] = 0)
  <2>1. OnWay(lev, t3, t2, t1, t0)
    BY <1>0, <1>1, <1>2, <1>3, OnTheWay, Zenon
  <2> QED  BY <2>1 DEF OnWay
<1>5. /\ r \in Frames /\ lev[r] = 4 /\ Unmapped \notin Frames
      /\ \A j \in Slot : Below(mem, Unmapped, j) = Unmapped /\ Below(mem2, Unmapped, j) = Unmapped
  BY VmParameters, BelowType DEF Tree, Levels, Unmapped
<1>r. \A x \in Frames, j \in Slot :
        x # f => Below(mem2, x, j) = IF x = t /\ j = i THEN f ELSE Below(mem, x, j)
  BY Zenon DEF Relinked
<1>6. u3 = t3
  BY <1>3, <1>5, <1>r
<1>7. u2 = t2
  BY <1>2, <1>4, <1>5, <1>r, <1>6
<1>8. u1 = t1
  BY <1>1, <1>4, <1>5, <1>r, <1>7
<1>9. u0 = IF t1 = t /\ d = i THEN f ELSE t0
  BY <1>0, <1>4, <1>5, <1>r, <1>8
<1> QED  BY <1>0, <1>1, <1>2, <1>3, <1>9, Zenon DEF Walk

-----------------------------------------------------------------------------
(* mmap through the recursive window.                                      *)

(* A state in which mmap works: the tables are a tree, and the recursive   *)
(* entry leads back to the PML4.                                           *)
Good(s, r, lev) ==
  /\ s \in State /\ ~s.fault
  /\ Below(s.mem, r, RECURSIVE_SLOT) = r
  /\ Tree(s.mem, s.free, r, lev)

Grows(mem, mem2) ==
  \A x \in Frames, j \in Slot : Below(mem, x, j) # Unmapped => Below(mem2, x, j) = Below(mem, x, j)

Later(s, e, r, lev, lev2) ==
  /\ Good(e, r, lev2)
  /\ e.free \subseteq s.free
  /\ \A x \in Frames : x \notin s.free => lev2[x] = lev[x]
  /\ Grows(s.mem, e.mem)
  /\ SameMap(s.mem, e.mem, r)

(* The pages that show the tables keep their frames, once they have one.   *)
WindowsStay(mem, mem2, r) ==
  \A b, c, d \in Slot :
    Walk(mem, r, RECURSIVE_SLOT, b, c, d) # Unmapped
      => Walk(mem2, r, RECURSIVE_SLOT, b, c, d) = Walk(mem, r, RECURSIVE_SLOT, b, c, d)

(* A walk that arrives goes through present entries.                       *)
LEMMA GrownWindows ==
  ASSUME NEW mem \in [Frames -> Table], NEW mem2 \in [Frames -> Table], NEW r \in Frames,
         Grows(mem, mem2)
  PROVE  WindowsStay(mem, mem2, r)
<1> SUFFICES ASSUME NEW b \in Slot, NEW c \in Slot, NEW d \in Slot,
                    Walk(mem, r, RECURSIVE_SLOT, b, c, d) # Unmapped
             PROVE  Walk(mem2, r, RECURSIVE_SLOT, b, c, d) = Walk(mem, r, RECURSIVE_SLOT, b, c, d)
  BY DEF WindowsStay
<1>1. PICK R \in Slot : R = RECURSIVE_SLOT
  BY Entries
<1>2. PICK x3 : x3 = Below(mem, r, R)
  OBVIOUS
<1>3. PICK x2 : x2 = Below(mem, x3, b)
  OBVIOUS
<1>4. PICK x1 : x1 = Below(mem, x2, c)
  OBVIOUS
<1>5. PICK x0 : x0 = Below(mem, x1, d)
  OBVIOUS
<1>6. x0 = Walk(mem, r, RECURSIVE_SLOT, b, c, d)
  BY <1>1, <1>2, <1>3, <1>4, <1>5, Zenon DEF Walk
<1>7. \A x \in Frames, j \in Slot : Below(mem, x, j) \in Frames \cup {Unmapped}
  BY BelowType
<1>8. \A j \in Slot : Below(mem, Unmapped, j) = Unmapped
  BY BelowType
<1>9. x3 \in Frames \cup {Unmapped}
  BY <1>2, <1>7
<1>10. x2 \in Frames \cup {Unmapped}
  BY <1>3, <1>7, <1>8, <1>9
<1>11. x1 \in Frames \cup {Unmapped}
  BY <1>4, <1>7, <1>8, <1>10
<1>12. x1 # Unmapped /\ x2 # Unmapped /\ x3 # Unmapped
  BY <1>3, <1>4, <1>5, <1>6, <1>8
<1>13. x3 \in Frames /\ x2 \in Frames /\ x1 \in Frames
  BY <1>9, <1>10, <1>11, <1>12
<1>14. /\ Below(mem2, r, R) = x3 /\ Below(mem2, x3, b) = x2
       /\ Below(mem2, x2, c) = x1 /\ Below(mem2, x1, d) = x0
  BY <1>2, <1>3, <1>4, <1>5, <1>6, <1>12, <1>13 DEF Grows
<1> QED  BY <1>1, <1>6, <1>14, Zenon DEF Walk

(* A walk that goes round meets no page table.                             *)
LEMMA PageWindows ==
  ASSUME NEW mem \in [Frames -> Table], NEW free \in SUBSET Frames, NEW r, NEW lev,
         Tree(mem, free, r, lev), Below(mem, r, RECURSIVE_SLOT) = r,
         NEW t \in Frames, lev[t] = 1, NEW i \in Slot,
         NEW f \in Frames, lev[f] = 5,
         NEW mem2 \in [Frames -> Table],
         Relinked(mem, mem2, t, i, f)
  PROVE  WindowsStay(mem, mem2, r)
<1> SUFFICES ASSUME NEW b \in Slot, NEW c \in Slot, NEW d \in Slot
             PROVE  Walk(mem2, r, RECURSIVE_SLOT, b, c, d) = Walk(mem, r, RECURSIVE_SLOT, b, c, d)
  BY DEF WindowsStay
<1>1. PICK R \in Slot : R = RECURSIVE_SLOT
  BY Entries
<1>2. r \in Frames /\ lev[r] = 4 /\ \A x \in Frames : lev[x] = 4 => x = r
  BY DEF Tree, Levels
<1>3. \A j \in Slot : Below(mem, Unmapped, j) = Unmapped /\ Below(mem2, Unmapped, j) = Unmapped
  BY BelowType
<1>4. \A x \in Frames, j \in Slot :
        lev[x] \in 2 .. 4 => Below(mem2, x, j) = Below(mem, x, j)
  BY DEF Relinked
<1>5. \A x \in Frames, j \in Slot :
        lev[x] \in 1 .. 4 /\ Below(mem, x, j) # Unmapped /\ ~(x = r /\ j = R)
          => Below(mem, x, j) \in Frames /\ lev[Below(mem, x, j)] = lev[x] - 1
  <2>1. \A x \in Frames, j \in Slot : Below(mem, x, j) \in Frames \cup {Unmapped}
    BY BelowType
  <2> QED  BY <1>1, <2>1 DEF Tree, Descends, Window
<1>6. Below(mem, r, R) = r /\ Below(mem2, r, R) = r
  BY <1>1, <1>2, <1>4
<1>7. PICK x2 : x2 = Below(mem, r, b) /\ x2 = Below(mem2, r, b)
  BY <1>2, <1>4
<1>8. x2 = Unmapped \/ (x2 \in Frames /\ (x2 = r \/ lev[x2] = 3))
  <2>1. b = R => x2 = r
    BY <1>6, <1>7
  <2>2. b # R /\ x2 # Unmapped => x2 \in Frames /\ lev[x2] = lev[r] - 1
    <3>1. lev[r] \in 1 .. 4
      BY <1>2
    <3> QED  BY <1>2, <1>5, <1>7, <3>1, Zenon
  <2> QED  BY <1>2, <2>1, <2>2
<1>9. PICK x1 : x1 = Below(mem, x2, c) /\ x1 = Below(mem2, x2, c)
  BY <1>2, <1>3, <1>4, <1>8
<1>10. x1 = Unmapped \/ (x1 \in Frames /\ (x1 = r \/ lev[x1] = 3 \/ lev[x1] = 2))
  <2>1. x2 = Unmapped => x1 = Unmapped
    BY <1>3, <1>9
  <2>2. x2 = r /\ c = R => x1 = r
    BY <1>6, <1>9
  <2>3. ASSUME x2 # Unmapped, ~(x2 = r /\ c = R), x1 # Unmapped
        PROVE  x1 \in Frames /\ lev[x1] = lev[x2] - 1
    <3>1. x2 \in Frames /\ lev[x2] \in 1 .. 4
      BY <1>2, <1>8, <2>3
    <3> QED  BY <1>5, <1>9, <2>3, <3>1
  <2> QED  BY <1>2, <1>8, <2>1, <2>2, <2>3
<1>11. Below(mem2, x1, d) = Below(mem, x1, d)
  BY <1>2, <1>3, <1>4, <1>10
<1> QED  BY <1>1, <1>6, <1>7, <1>9, <1>11, Zenon DEF Walk

LEMMA WindowsFollow ==
  ASSUME NEW mem, NEW mem2, NEW mem3, NEW r,
         WindowsStay(mem, mem2, r), WindowsStay(mem2, mem3, r)
  PROVE  WindowsStay(mem, mem3, r)
BY DEF WindowsStay

(* The parts of such a state that every proof needs.                       *)
LEMMA GoodFacts ==
  ASSUME NEW s, NEW r, NEW lev, Good(s, r, lev)
  PROVE  /\ s \in State /\ s.mem \in [Frames -> Table] /\ s.free \in SUBSET RAM /\ s.free \in SUBSET Frames
         /\ r \in Frames /\ lev \in [Frames -> 0 .. 5] /\ lev[r] = 4
         /\ \A f \in s.free : lev[f] = 5 /\ f # 0
         /\ \A x \in Frames : lev[x] = 4 => x = r
BY VmParameters DEF Good, State, Tree, Levels

(* One level of mmap, in a table of the tree and not in the recursive      *)
(* entry, leaves an entry to follow and the tables a tree.                 *)
LEMMA EnsureKeeps ==
  ASSUME NEW s, NEW r, NEW lev, Good(s, r, lev),
         NEW window, NEW t \in Frames, t = Translate(s.mem, r, window),
         lev[t] \in 2 .. 4, NEW i \in Slot, ~Window(r, t, i),
         NEW e, e = Ensure(s, r, window, i), ~e.failed
  PROVE  \E lev2 : Later(s, e, r, lev, lev2) /\ Below(e.mem, t, i) # Unmapped
<1>1. /\ s \in State /\ s.mem \in [Frames -> Table] /\ s.free \in SUBSET Frames /\ r \in Frames
      /\ lev \in [Frames -> 0 .. 5] /\ lev[r] = 4
      /\ \A f \in s.free : lev[f] = 5 /\ f # 0
      /\ Unmapped \notin Frames
  BY GoodFacts, VmParameters DEF Unmapped
<1>2. Tidy(s.mem, t)
  BY DEF Good, Tree, Clean
<1>3. /\ s.mem[t][i].frame \in Frames
      /\ Below(s.mem, t, i) = IF s.mem[t][i].present THEN s.mem[t][i].frame ELSE Unmapped
  BY <1>1, BelowIs
<1>4. CASE s.mem[t][i].frame # 0
  <2>1. e = s
    BY <1>1, <1>4, EnsureIs
  <2>2. Below(s.mem, t, i) # Unmapped
    BY <1>1, <1>2, <1>3, <1>4 DEF Tidy
  <2>3. Later(s, s, r, lev, lev)
    BY DEF Later, Grows, SameMap
  <2> QED  BY <2>1, <2>2, <2>3
<1>5. CASE s.mem[t][i].frame = 0
  <2>1. PICK f \in Frames : f = Fresh(s)
    BY <1>1, FreshIs
  <2>2. /\ e \in State
        /\ e.mem = [s.mem EXCEPT ![t][i] = Present(f)]
        /\ e.free = s.free \ {f}
        /\ e.failed = (s.failed \/ s.free = {})
        /\ e.fault = s.fault
    BY <1>1, <1>5, <2>1, EnsureIs
  <2>3. f \in s.free /\ lev[f] = 5 /\ f # 0 /\ f # t /\ f # r
    <3>1. s.free # {}
      BY <2>2, Zenon
    <3>2. f \in s.free
      BY <1>1, <2>1, <3>1, FreshIs, Zenon
    <3> QED  BY <1>1, <3>2
  <2>4. Below(s.mem, t, i) = Unmapped
    BY <1>2, <1>3, <1>5 DEF Tidy
  <2>5. PICK mem \in [Frames -> Table] : mem = s.mem
    BY <1>1
  <2>6. PICK mem2 \in [Frames -> Table] :
          /\ mem2 = e.mem
          /\ \A x \in Frames, j \in Slot : mem2[x][j] = IF x = t /\ j = i THEN Present(f) ELSE mem[x][j]
    <3>1. e.mem = WithEntry(mem, t, i, f)
      BY <2>2, <2>5, Zenon DEF WithEntry
    <3> QED  BY <3>1, WithEntryIs
  <2>8. Rewritten(mem, mem2, t, i, f)
    BY <2>6 DEF Rewritten
  <2>9. \A j \in Slot : /\ mem2[f][j] = mem[f][j]
                        /\ Below(mem, f, j) = Unmapped
                        /\ mem[f][j].present <=> mem[f][j].frame # 0
    BY <2>3, <2>5, <2>6 DEF Good, Tree, Clean, Tidy
  <2>10. \A j \in Slot : mem2[f][j].frame = 0 /\ ~mem2[f][j].present /\ Below(mem2, f, j) = Unmapped
    <3> SUFFICES ASSUME NEW j \in Slot
                 PROVE  mem2[f][j].frame = 0 /\ ~mem2[f][j].present /\ Below(mem2, f, j) = Unmapped
      OBVIOUS
    <3>1. /\ mem[f][j].frame \in Frames
          /\ Below(mem, f, j) = IF mem[f][j].present THEN mem[f][j].frame ELSE Unmapped
          /\ Below(mem2, f, j) = IF mem2[f][j].present THEN mem2[f][j].frame ELSE Unmapped
      BY BelowIs
    <3> QED  BY <1>1, <2>9, <3>1
  <2>11. Relinked(mem, mem2, t, i, f)
    BY <2>8, BelowWritten
  <2>12. PICK free \in SUBSET Frames : free = s.free
    BY <1>1
  <2>13. Tree(mem, free, r, lev)
    BY <2>5, <2>12 DEF Good
  <2>14. PICK lev2 : lev2 = [lev EXCEPT ![f] = lev[t] - 1]
    OBVIOUS
  <2>15. Tree(mem2, free \ {f}, r, lev2)
    <3>1. free \ {f} \in SUBSET free /\ f \notin free \ {f} /\ lev[t] \in 1 .. 4
      OBVIOUS
    <3> QED  BY <2>3, <2>8, <2>10, <2>13, <2>14, <3>1, Grown
  <2>16. SameMap(mem, mem2, r)
    BY <2>3, <2>4, <2>5, <2>10, <2>11, <2>13, LinkedSame
  <2>17. Grows(mem, mem2)
    <3> SUFFICES ASSUME NEW x \in Frames, NEW j \in Slot, Below(mem, x, j) # Unmapped
                 PROVE  Below(mem2, x, j) = Below(mem, x, j)
      BY DEF Grows
    <3>1. x # f
      BY <2>9
    <3>2. ~(x = t /\ j = i)
      BY <2>4, <2>5
    <3> QED  BY <2>11, <3>1, <3>2 DEF Relinked
  <2>18. Below(mem2, r, RECURSIVE_SLOT) = r
    BY <1>1, <2>5, <2>17, Entries DEF Good, Grows
  <2>19. Below(mem2, t, i) = f
    BY <2>3, <2>11 DEF Relinked
  <2>20. Good(e, r, lev2)
    BY <2>2, <2>6, <2>12, <2>15, <2>18 DEF Good
  <2>21. \A x \in Frames : x \notin s.free => lev2[x] = lev[x]
    BY <1>1, <2>3, <2>14
  <2> QED  BY <1>1, <2>2, <2>5, <2>6, <2>16, <2>17, <2>19, <2>20, <2>21 DEF Later
<1> QED  BY <1>3, <1>4, <1>5

(* Through the recursive entry a walk goes round once less.                *)
LEMMA Windows ==
  ASSUME NEW mem \in [Frames -> Table], NEW r \in Frames, Below(mem, r, RECURSIVE_SLOT) = r,
         NEW v, NEW a \in Slot, NEW b \in Slot, NEW c \in Slot,
         a = PML4Index(v), b = PDPIndex(v), c = PDIndex(v)
  PROVE  /\ Translate(mem, r, PML4_BASE) = r
         /\ Translate(mem, r, PDP_BASE(v)) = Below(mem, r, a)
         /\ Translate(mem, r, PD_BASE(v)) = Below(mem, Below(mem, r, a), b)
         /\ Translate(mem, r, PT_BASE(v)) = Below(mem, Below(mem, Below(mem, r, a), b), c)
<1>1. PICK R \in Slot : R = RECURSIVE_SLOT
  BY Entries
<1>2. Translate(mem, r, PML4_BASE) = r
  <2>1. Translate(mem, r, PML4_BASE) = Walk(mem, r, R, R, R, R)
    BY <1>1, TranslateIsWalk DEF PML4_BASE
  <2> QED  BY <1>1, <2>1, Zenon DEF Walk
<1>3. Translate(mem, r, PDP_BASE(v)) = Below(mem, r, a)
  <2>1. Translate(mem, r, PDP_BASE(v)) = Walk(mem, r, R, R, R, a)
    BY <1>1, TranslateIsWalk DEF PDP_BASE
  <2> QED  BY <1>1, <2>1, Zenon DEF Walk
<1>4. Translate(mem, r, PD_BASE(v)) = Below(mem, Below(mem, r, a), b)
  <2>1. Translate(mem, r, PD_BASE(v)) = Walk(mem, r, R, R, a, b)
    BY <1>1, TranslateIsWalk DEF PD_BASE
  <2> QED  BY <1>1, <2>1, Zenon DEF Walk
<1>5. Translate(mem, r, PT_BASE(v)) = Below(mem, Below(mem, Below(mem, r, a), b), c)
  <2>1. Translate(mem, r, PT_BASE(v)) = Walk(mem, r, R, a, b, c)
    BY <1>1, TranslateIsWalk DEF PT_BASE
  <2> QED  BY <1>1, <2>1, Zenon DEF Walk
<1> QED  BY <1>2, <1>3, <1>4, <1>5

(* Whatever the tables say, mmap translates windows to frames or nothing.  *)
LEMMA WindowTypes ==
  ASSUME NEW mem \in [Frames -> Table], NEW r \in Frames, NEW v \in Page
  PROVE  \A w \in {PML4_BASE, PDP_BASE(v), PD_BASE(v), PT_BASE(v)} :
           Translate(mem, r, w) \in Frames \cup {Unmapped}
<1>1. PICK R \in Slot : R = RECURSIVE_SLOT
  BY Entries
<1>2. PICK a \in Slot, b \in Slot, c \in Slot : a = PML4Index(v) /\ b = PDPIndex(v) /\ c = PDIndex(v)
  BY PageOfIndices
<1>3. /\ PML4_BASE = PageOf(R, R, R, R) /\ PDP_BASE(v) = PageOf(R, R, R, a)
      /\ PD_BASE(v) = PageOf(R, R, a, b) /\ PT_BASE(v) = PageOf(R, a, b, c)
  BY <1>1, <1>2, Zenon DEF PML4_BASE, PDP_BASE, PD_BASE, PT_BASE
<1>4. \A i, j, k, l \in Slot : Translate(mem, r, PageOf(i, j, k, l)) \in Frames \cup {Unmapped}
  BY TranslateIsWalk, WalkType
<1> QED  BY <1>3, <1>4

(* mmap level by level.                                                    *)
Levelwise(s, r, v, f, s4, s3, s2, t) ==
  /\ s4 = Ensure(s, r, PML4_BASE, PML4Index(v))
  /\ s3 = Ensure(s4, r, PDP_BASE(v), PDPIndex(v))
  /\ s2 = Ensure(s3, r, PD_BASE(v), PDIndex(v))
  /\ (s.failed => s4.failed) /\ (s4.failed => s3.failed) /\ (s3.failed => s2.failed)
  /\ t = Translate(s2.mem, r, PT_BASE(v))
  /\ mmap(s, r, v, f) = IF t = Unmapped THEN [s2 EXCEPT !.fault = TRUE]
                        ELSE [s2 EXCEPT !.mem[t][PTIndex(v)] = Present(f)]

(* mmap goes through such states.                                          *)
LEMMA MmapSteps ==
  ASSUME NEW s \in State, NEW r \in Frames, NEW v \in Page, NEW f \in Frames
  PROVE  \E s4 \in State, s3 \in State, s2 \in State, t \in Frames \cup {Unmapped} :
           Levelwise(s, r, v, f, s4, s3, s2, t)
<1>1. PICK a \in Slot, b \in Slot, c \in Slot : a = PML4Index(v) /\ b = PDPIndex(v) /\ c = PDIndex(v)
  BY PageOfIndices
<1>2. \A e \in State : \A w \in {PML4_BASE, PDP_BASE(v), PD_BASE(v), PT_BASE(v)} :
        Translate(e.mem, r, w) \in Frames \cup {Unmapped}
  BY WindowTypes DEF State
<1>3. \A e \in State, i \in Slot : \A w \in {PML4_BASE, PDP_BASE(v), PD_BASE(v), PT_BASE(v)} :
        Ensure(e, r, w, i) \in State /\ (e.failed => Ensure(e, r, w, i).failed)
  BY <1>2, EnsureIs
<1>4. PICK s4 \in State : s4 = Ensure(s, r, PML4_BASE, PML4Index(v)) /\ (s.failed => s4.failed)
  BY <1>1, <1>3
<1>5. PICK s3 \in State : s3 = Ensure(s4, r, PDP_BASE(v), PDPIndex(v)) /\ (s4.failed => s3.failed)
  BY <1>1, <1>3
<1>6. PICK s2 \in State : s2 = Ensure(s3, r, PD_BASE(v), PDIndex(v)) /\ (s3.failed => s2.failed)
  BY <1>1, <1>3
<1>7. PICK t \in Frames \cup {Unmapped} : t = Translate(s2.mem, r, PT_BASE(v))
  BY <1>2
<1>8. mmap(s, r, v, f) = IF t = Unmapped THEN [s2 EXCEPT !.fault = TRUE]
                         ELSE [s2 EXCEPT !.mem[t][PTIndex(v)] = Present(f)]
  BY <1>4, <1>5, <1>6, <1>7, Zenon DEF mmap
<1>9. Levelwise(s, r, v, f, s4, s3, s2, t)
  BY <1>4, <1>5, <1>6, <1>7, <1>8 DEF Levelwise
<1> QED  BY <1>9

(* mmap keeps the types, and the memory of a failure.                      *)
LEMMA MmapType ==
  ASSUME NEW s \in State, NEW r \in Frames, NEW v \in Page, NEW f \in Frames
  PROVE  mmap(s, r, v, f) \in State /\ (s.failed => mmap(s, r, v, f).failed)
<1>0. PICK s4 \in State, s3 \in State, s2 \in State, t \in Frames \cup {Unmapped} :
         Levelwise(s, r, v, f, s4, s3, s2, t)
  BY MmapSteps
<1>1. /\ s.failed => s2.failed
      /\ mmap(s, r, v, f) = IF t = Unmapped THEN [s2 EXCEPT !.fault = TRUE]
                            ELSE [s2 EXCEPT !.mem[t][PTIndex(v)] = Present(f)]
  BY <1>0, Zenon DEF Levelwise
<1>2. CASE t = Unmapped
  <2>1. PICK e : e = [s2 EXCEPT !.fault = TRUE]
    OBVIOUS
  <2>2. e \in State /\ e.failed = s2.failed
    BY <2>1 DEF State
  <2> QED  BY <1>1, <1>2, <2>1, <2>2, Zenon
<1>3. CASE t # Unmapped
  <2>1. PICK i \in Slot : i = PTIndex(v)
    BY PageOfIndices
  <2>2. PICK e : e = [s2 EXCEPT !.mem[t][i] = Present(f)]
    OBVIOUS
  <2>3. e \in State /\ e.failed = s2.failed
    BY <1>3, <2>2, Linked
  <2> QED  BY <1>1, <1>3, <2>1, <2>2, <2>3, Zenon
<1> QED  BY <1>2, <1>3

(* The indices of a page outside the window.                               *)
LEMMA OrdinaryIndices ==
  ASSUME NEW w \in Ordinary
  PROVE  /\ w \in Page
         /\ PML4Index(w) \in Slot /\ PDPIndex(w) \in Slot /\ PDIndex(w) \in Slot /\ PTIndex(w) \in Slot
         /\ PML4Index(w) # RECURSIVE_SLOT
         /\ w = PageOf(PML4Index(w), PDPIndex(w), PDIndex(w), PTIndex(w))
BY PageOfIndices DEF Ordinary

(* Translating any page is a walk along its indices.                       *)
LEMMA TranslateWalks ==
  \A mem, r, w :
    Translate(mem, r, w) = Walk(mem, r, PML4Index(w), PDPIndex(w), PDIndex(w), PTIndex(w))
BY Zenon DEF Translate, Walk

(* Page v is now at frame f, and every other page where it was.            *)
Remapped(s, e, r, v, f) ==
  \A w \in Ordinary : Translate(e.mem, r, w) = IF w = v THEN f ELSE Translate(s.mem, r, w)

Entered(s, t, v, f) == [s EXCEPT !.mem[t][PTIndex(v)] = Present(f)]

(* The frames that are tables were tables before.                          *)
NoNewTable(lev, lev2) == \A x \in Frames : lev2[x] \in 1 .. 4 => lev[x] \in 1 .. 4

(* The entry of page v is written in the right table, at the end of mmap.  *)
LEMMA LastStep ==
  ASSUME NEW s, NEW r, NEW lev, Good(s, r, lev),
         NEW v \in Ordinary, NEW f \in Frames, f # 0, lev[f] = 5, f \notin s.free,
         NEW t \in Frames,
         t = Below(s.mem, Below(s.mem, Below(s.mem, r, PML4Index(v)), PDPIndex(v)), PDIndex(v)),
         NEW m, m = Entered(s, t, v, f)
  PROVE  /\ \E lev2 : Good(m, r, lev2) /\ NoNewTable(lev, lev2)
         /\ m.free = s.free /\ Remapped(s, m, r, v, f)
         /\ WindowsStay(s.mem, m.mem, r)
<1>1. /\ s \in State /\ s.mem \in [Frames -> Table] /\ s.free \in SUBSET Frames /\ r \in Frames
      /\ lev \in [Frames -> 0 .. 5] /\ lev[r] = 4
      /\ \A x \in Frames : lev[x] = 4 => x = r
      /\ Unmapped \notin Frames
  BY GoodFacts, VmParameters DEF Unmapped
<1>2. PICK a \in Slot, b \in Slot, c \in Slot, d \in Slot :
        a = PML4Index(v) /\ b = PDPIndex(v) /\ c = PDIndex(v) /\ d = PTIndex(v)
  BY OrdinaryIndices
<1>3. v = PageOf(a, b, c, d) /\ a # RECURSIVE_SLOT
  BY <1>2, OrdinaryIndices
<1>4. PICK mem \in [Frames -> Table] : mem = s.mem
  BY <1>1
<1>5. PICK free \in SUBSET Frames : free = s.free
  BY <1>1
<1>6. Tree(mem, free, r, lev)
  BY <1>4, <1>5 DEF Good
<1>7. /\ m \in State /\ m.mem = [mem EXCEPT ![t][d] = Present(f)]
      /\ m.free = s.free /\ m.failed = s.failed /\ m.fault = s.fault
  <2>1. m = [s EXCEPT !.mem[t][d] = Present(f)]
    BY <1>2, Zenon DEF Entered
  <2> QED  BY <1>1, <1>4, <2>1, Linked
<1>8. PICK mem2 \in [Frames -> Table] : mem2 = m.mem
  BY <1>7, Written
<1>9. Rewritten(mem, mem2, t, d, f)
  <2>1. \A x \in Frames, j \in Slot : mem2[x][j] = IF x = t /\ j = d THEN Present(f) ELSE mem[x][j]
    <3>1. mem2 = [mem EXCEPT ![t][d] = Present(f)]
      BY <1>7, <1>8
    <3> QED  BY <3>1, Written
  <2> QED  BY <2>1 DEF Rewritten
<1>10. Relinked(mem, mem2, t, d, f)
  BY <1>9, BelowWritten
<1>11. lev[t] = 1
  <2>1. OnWay(lev, Below(mem, r, a), Below(mem, Below(mem, r, a), b), t, Below(mem, t, d))
    BY <1>2, <1>3, <1>4, <1>6, OnTheWay, Zenon
  <2> QED  BY <1>1, <2>1 DEF OnWay
<1>12. PICK lev2 : lev2 = [lev EXCEPT ![f] = lev[t] - 1]
  OBVIOUS
<1>13. Tree(mem2, free, r, lev2)
  <2>1. /\ free \in SUBSET free /\ f \notin free /\ lev[t] \in 1 .. 4
        /\ ~Window(r, t, d)
        /\ lev[t] > 1 => \A j \in Slot : mem2[f][j].frame = 0 /\ ~mem2[f][j].present
    BY <1>1, <1>5, <1>11 DEF Window
  <2> QED  BY <1>6, <1>9, <1>12, <2>1, Grown
<1>14. Below(mem2, r, RECURSIVE_SLOT) = r
  <2>1. r # t /\ r # f
    BY <1>1, <1>11
  <2> QED  BY <1>1, <1>4, <1>10, <2>1, Entries DEF Good, Relinked
<1>15. Good(m, r, lev2)
  BY <1>5, <1>7, <1>8, <1>13, <1>14 DEF Good
<1>16. Remapped(s, m, r, v, f)
  <2> SUFFICES ASSUME NEW w \in Ordinary
               PROVE  Translate(m.mem, r, w) = IF w = v THEN f ELSE Translate(s.mem, r, w)
    BY DEF Remapped
  <2>1. PICK a2 \in Slot, b2 \in Slot, c2 \in Slot, d2 \in Slot :
          a2 = PML4Index(w) /\ b2 = PDPIndex(w) /\ c2 = PDIndex(w) /\ d2 = PTIndex(w)
    BY OrdinaryIndices
  <2>2. w = PageOf(a2, b2, c2, d2) /\ a2 # RECURSIVE_SLOT
    BY <2>1, OrdinaryIndices
  <2>3. Walk(mem2, r, a2, b2, c2, d2) =
          IF Below(mem, Below(mem, Below(mem, r, a2), b2), c2) = t /\ d2 = d
          THEN f ELSE Walk(mem, r, a2, b2, c2, d2)
    BY <1>6, <1>10, <1>11, <2>2, PageWritten
  <2>4. Below(mem, Below(mem, Below(mem, r, a), b), c) = t /\ t # Unmapped
    BY <1>1, <1>2, <1>4
  <2>5. Below(mem, Below(mem, Below(mem, r, a2), b2), c2) = t /\ d2 = d => w = v
    <3>1. Unshared(mem, r, a, b, c, d, a2, b2, c2, d2)
      BY <1>3, <1>6, <2>2, OneWay
    <3> QED  BY <1>3, <2>2, <2>4, <3>1 DEF Unshared
  <2>6. w = v => Below(mem, Below(mem, Below(mem, r, a2), b2), c2) = t /\ d2 = d
    BY <1>2, <2>1, <2>4, Zenon
  <2>7. /\ Translate(m.mem, r, w) = Walk(mem2, r, a2, b2, c2, d2)
        /\ Translate(s.mem, r, w) = Walk(mem, r, a2, b2, c2, d2)
    BY <1>4, <1>8, <2>1, TranslateWalks, Zenon
  <2>8. CASE w = v
    BY <2>3, <2>6, <2>7, <2>8
  <2>9. CASE w # v
    BY <2>3, <2>5, <2>7, <2>9
  <2> QED  BY <2>8, <2>9
<1>17. WindowsStay(mem, mem2, r)
  BY <1>4, <1>6, <1>10, <1>11, PageWindows DEF Good
<1>18. NoNewTable(lev, lev2)
  BY <1>1, <1>11, <1>12 DEF NoNewTable
<1> QED  BY <1>4, <1>7, <1>8, <1>15, <1>16, <1>17, <1>18

(* mmap of a frame outside the tree changes one translation and no other,  *)
(* and keeps the tables a tree (pagetab.c:156 to 196).                     *)
LEMMA MmapKeeps ==
  ASSUME NEW s, NEW r, NEW lev, Good(s, r, lev),
         NEW v \in Ordinary, NEW f \in Frames, f # 0, lev[f] = 5, f \notin s.free,
         NEW m, m = mmap(s, r, v, f), ~m.failed
  PROVE  /\ \E lev2 : Good(m, r, lev2)
         /\ m.free \subseteq s.free /\ Remapped(s, m, r, v, f)
         /\ WindowsStay(s.mem, m.mem, r)
<1>1. s \in State /\ r \in Frames /\ v \in Page /\ Unmapped \notin Frames /\ lev[r] = 4
  BY GoodFacts, OrdinaryIndices, VmParameters DEF Unmapped
<1>2. PICK a \in Slot, b \in Slot, c \in Slot, d \in Slot :
        a = PML4Index(v) /\ b = PDPIndex(v) /\ c = PDIndex(v) /\ d = PTIndex(v)
  BY OrdinaryIndices
<1>3. a # RECURSIVE_SLOT
  BY <1>2, OrdinaryIndices
<1>4. PICK s4 \in State, s3 \in State, s2 \in State, t \in Frames \cup {Unmapped} :
        Levelwise(s, r, v, f, s4, s3, s2, t)
  BY <1>1, MmapSteps
<1>5. /\ s4 = Ensure(s, r, PML4_BASE, a)
      /\ s3 = Ensure(s4, r, PDP_BASE(v), b)
      /\ s2 = Ensure(s3, r, PD_BASE(v), c)
      /\ (s4.failed => s3.failed) /\ (s3.failed => s2.failed)
      /\ t = Translate(s2.mem, r, PT_BASE(v))
      /\ m = IF t = Unmapped THEN [s2 EXCEPT !.fault = TRUE]
             ELSE [s2 EXCEPT !.mem[t][d] = Present(f)]
  BY <1>2, <1>4, Zenon DEF Levelwise
<1>6. m.failed = s2.failed
  <2>1. CASE t = Unmapped
    <3>1. m = [s2 EXCEPT !.fault = TRUE]
      BY <1>5, <2>1
    <3> QED  BY <3>1 DEF State
  <2>2. CASE t # Unmapped
    <3>1. m = [s2 EXCEPT !.mem[t][d] = Present(f)]
      BY <1>5, <2>2
    <3> QED  BY <2>2, <3>1, Linked
  <2> QED  BY <2>1, <2>2
<1>7. ~s2.failed /\ ~s3.failed /\ ~s4.failed
  BY <1>5, <1>6, Zenon
<1>8. PICK lev4 : Later(s, s4, r, lev, lev4) /\ Below(s4.mem, r, a) # Unmapped
  <2>1. r = Translate(s.mem, r, PML4_BASE)
    BY <1>1, <1>2, Windows DEF Good, State
  <2>2. lev[r] \in 2 .. 4 /\ ~Window(r, r, a)
    BY <1>1, <1>3 DEF Window
  <2> QED  BY <1>1, <1>5, <1>7, <2>1, <2>2, EnsureKeeps
<1>9. /\ Good(s4, r, lev4) /\ s4.free \subseteq s.free
      /\ s4 \in State /\ s4.mem \in [Frames -> Table] /\ s4.free \in SUBSET Frames
      /\ Below(s4.mem, r, RECURSIVE_SLOT) = r /\ Tree(s4.mem, s4.free, r, lev4)
  BY <1>8, GoodFacts DEF Later, Good
<1>10. PICK t3 : t3 = Below(s4.mem, r, a)
  OBVIOUS
<1>11. t3 \in Frames /\ lev4[t3] = 3 /\ t3 # r
  <2>1. OnWay(lev4, t3, Below(s4.mem, t3, b), Below(s4.mem, Below(s4.mem, t3, b), c),
              Below(s4.mem, Below(s4.mem, Below(s4.mem, t3, b), c), d))
    BY <1>2, <1>3, <1>9, <1>10, OnTheWay, Zenon
  <2>2. lev4[r] = 4
    BY <1>9, GoodFacts
  <2> QED  BY <1>8, <1>10, <2>1, <2>2 DEF OnWay
<1>12. PICK lev3 : Later(s4, s3, r, lev4, lev3) /\ Below(s3.mem, t3, b) # Unmapped
  <2>1. t3 = Translate(s4.mem, r, PDP_BASE(v))
    BY <1>1, <1>2, <1>9, <1>10, Windows
  <2>2. lev4[t3] \in 2 .. 4 /\ ~Window(r, t3, b)
    BY <1>11 DEF Window
  <2> QED  BY <1>2, <1>5, <1>7, <1>9, <1>11, <2>1, <2>2, EnsureKeeps
<1>13. /\ Good(s3, r, lev3) /\ s3.free \subseteq s4.free
       /\ s3 \in State /\ s3.mem \in [Frames -> Table] /\ s3.free \in SUBSET Frames
       /\ Below(s3.mem, r, RECURSIVE_SLOT) = r /\ Tree(s3.mem, s3.free, r, lev3)
  BY <1>12, GoodFacts DEF Later, Good
<1>14. Below(s3.mem, r, a) = t3
  BY <1>1, <1>2, <1>8, <1>10, <1>12 DEF Later, Grows
<1>15. PICK t2 : t2 = Below(s3.mem, t3, b)
  OBVIOUS
<1>16. t2 \in Frames /\ lev3[t2] = 2 /\ t2 # r
  <2>1. OnWay(lev3, t3, t2, Below(s3.mem, t2, c), Below(s3.mem, Below(s3.mem, t2, c), d))
    BY <1>2, <1>3, <1>13, <1>14, <1>15, OnTheWay, Zenon
  <2>2. lev3[r] = 4
    BY <1>13, GoodFacts
  <2> QED  BY <1>12, <1>15, <2>1, <2>2 DEF OnWay
<1>17. PICK lev2 : Later(s3, s2, r, lev3, lev2) /\ Below(s2.mem, t2, c) # Unmapped
  <2>1. t2 = Translate(s3.mem, r, PD_BASE(v))
    BY <1>1, <1>2, <1>13, <1>14, <1>15, Windows
  <2>2. lev3[t2] \in 2 .. 4 /\ ~Window(r, t2, c)
    BY <1>16 DEF Window
  <2> QED  BY <1>2, <1>5, <1>7, <1>13, <1>16, <2>1, <2>2, EnsureKeeps
<1>18. /\ Good(s2, r, lev2) /\ s2.free \subseteq s3.free
       /\ s2 \in State /\ s2.mem \in [Frames -> Table] /\ s2.free \in SUBSET Frames
       /\ Below(s2.mem, r, RECURSIVE_SLOT) = r
  BY <1>17, GoodFacts DEF Later, Good
<1>19. Below(s2.mem, r, a) = t3 /\ Below(s2.mem, t3, b) = t2
  BY <1>1, <1>2, <1>8, <1>10, <1>11, <1>12, <1>14, <1>15, <1>17 DEF Later, Grows
<1>20. t = Below(s2.mem, Below(s2.mem, Below(s2.mem, r, a), b), c) /\ t # Unmapped
  <2>1. t = Below(s2.mem, Below(s2.mem, Below(s2.mem, r, a), b), c)
    BY <1>1, <1>2, <1>5, <1>18, Windows
  <2> QED  BY <1>17, <1>19, <2>1
<1>21. m = [s2 EXCEPT !.mem[t][PTIndex(v)] = Present(f)]
  BY <1>2, <1>5, <1>20
<1>22. lev2[f] = 5 /\ f \notin s2.free /\ s2.free \subseteq s.free
  <2>1. s2.free \subseteq s3.free /\ s3.free \subseteq s4.free /\ s4.free \subseteq s.free
    BY <1>8, <1>12, <1>17 DEF Later
  <2>2. lev4[f] = lev[f] /\ lev3[f] = lev4[f] /\ lev2[f] = lev3[f]
    BY <2>1, <1>8, <1>12, <1>17 DEF Later
  <2> QED  BY <2>1, <2>2
<1>23. /\ \E new : Good(m, r, new)
       /\ m.free = s2.free /\ Remapped(s2, m, r, v, f)
       /\ WindowsStay(s2.mem, m.mem, r)
  <2>1. t \in Frames
    BY <1>20
  <2>2. Good(s2, r, lev2) /\ lev2[f] = 5 /\ f \notin s2.free
    BY <1>18, <1>22
  <2>3. t = Below(s2.mem, Below(s2.mem, Below(s2.mem, r, PML4Index(v)), PDPIndex(v)), PDIndex(v))
    BY <1>2, <1>20, Zenon
  <2>4. m = Entered(s2, t, v, f)
    BY <1>21 DEF Entered
  <2> QED  BY <2>1, <2>2, <2>3, <2>4, LastStep
<1>24. Remapped(s, m, r, v, f)
  <2> SUFFICES ASSUME NEW w \in Ordinary
               PROVE  Translate(m.mem, r, w) = IF w = v THEN f ELSE Translate(s.mem, r, w)
    BY DEF Remapped
  <2>1. PICK a2 \in Slot, b2 \in Slot, c2 \in Slot, d2 \in Slot :
          /\ a2 = PML4Index(w) /\ b2 = PDPIndex(w) /\ c2 = PDIndex(w) /\ d2 = PTIndex(w)
          /\ a2 # RECURSIVE_SLOT
    BY OrdinaryIndices
  <2>2. /\ Walk(s4.mem, r, a2, b2, c2, d2) = Walk(s.mem, r, a2, b2, c2, d2)
        /\ Walk(s3.mem, r, a2, b2, c2, d2) = Walk(s4.mem, r, a2, b2, c2, d2)
        /\ Walk(s2.mem, r, a2, b2, c2, d2) = Walk(s3.mem, r, a2, b2, c2, d2)
    BY <1>8, <1>12, <1>17, <2>1 DEF Later, SameMap
  <2>3. Translate(s2.mem, r, w) = Translate(s.mem, r, w)
    BY <2>1, <2>2, TranslateWalks, Zenon
  <2> QED  BY <1>23, <2>3 DEF Remapped
<1>25. WindowsStay(s.mem, m.mem, r)
  <2>1. s.mem \in [Frames -> Table]
    BY GoodFacts
  <2>2. Grows(s.mem, s2.mem)
    BY <1>8, <1>12, <1>17 DEF Later, Grows
  <2>3. WindowsStay(s.mem, s2.mem, r)
    BY <1>1, <1>18, <2>1, <2>2, GrownWindows
  <2> QED  BY <1>23, <2>3, WindowsFollow
<1> QED  BY <1>22, <1>23, <1>24, <1>25

(* A frame is allocated and mapped.                                        *)
LEMMA BackedKeeps ==
  ASSUME NEW s, NEW r, NEW lev, Good(s, r, lev), NEW v \in Ordinary,
         NEW m, m = Backed(s, r, v), ~m.failed
  PROVE  \E f \in s.free :
           /\ \E lev2 : Good(m, r, lev2)
           /\ m.free \subseteq s.free \ {f} /\ Remapped(s, m, r, v, f)
           /\ WindowsStay(s.mem, m.mem, r)
<1>1. s \in State /\ s.mem \in [Frames -> Table] /\ r \in Frames /\ v \in Page
      /\ \A f \in s.free : lev[f] = 5 /\ f # 0
  BY GoodFacts, OrdinaryIndices
<1>2. PICK f \in Frames : f = Fresh(s)
  BY <1>1, FreshIs
<1>3. PICK p \in State : p = Taken(s)
  BY <1>1, FreshIs
<1>4. /\ p.mem = s.mem /\ p.fault = s.fault /\ p.free = s.free \ {f}
      /\ p.failed = (s.failed \/ s.free = {}) /\ (s.free # {} => f \in s.free)
  BY <1>1, <1>2, <1>3, FreshIs
<1>5. m = mmap(p, r, v, f)
  BY <1>2, <1>3 DEF Backed
<1>6. ~p.failed
  BY <1>1, <1>5, MmapType
<1>7. f \in s.free
  BY <1>4, <1>6, Zenon
<1>8. Tree(s.mem, s.free \ {f}, r, lev)
  BY DEF Good, Tree, Levels, Clean
<1>9. Good(p, r, lev)
  BY <1>4, <1>8 DEF Good
<1>10. f # 0 /\ lev[f] = 5 /\ f \notin p.free
  BY <1>1, <1>4, <1>7
<1>11. /\ \E lev2 : Good(m, r, lev2)
       /\ m.free \subseteq p.free /\ Remapped(p, m, r, v, f)
       /\ WindowsStay(p.mem, m.mem, r)
  BY <1>5, <1>9, <1>10, MmapKeeps
<1> QED  BY <1>4, <1>7, <1>11 DEF Remapped

(* Allocating and mapping keeps the types, and the memory of a failure.    *)
LEMMA BackedType ==
  ASSUME NEW s \in State, NEW r \in Frames, NEW v \in Page
  PROVE  Backed(s, r, v) \in State /\ (s.failed => Backed(s, r, v).failed)
<1>1. PICK f \in Frames : f = Fresh(s)
  BY FreshIs
<1>2. PICK p \in State : p = Taken(s) /\ p.failed = (s.failed \/ s.free = {})
  BY FreshIs
<1>3. Backed(s, r, v) = mmap(p, r, v, f)
  BY <1>1, <1>2 DEF Backed
<1>4. mmap(p, r, v, f) \in State /\ (p.failed => mmap(p, r, v, f).failed)
  BY MmapType
<1> QED  BY <1>2, <1>3, <1>4, Zenon

-----------------------------------------------------------------------------
(* The rounds of an allocating loop.                                       *)

IsRound(after, n, pages) ==
  after[n] = IF n = 0 THEN vm ELSE Backed(after[n - 1], cr3, pages[n])

(* The recursive function of an allocating loop exists: for no rounds, and *)
(* with one round more, by induction.                                      *)
LEMMA RoundsExist ==
  ASSUME NEW pages, NEW N \in Nat
  PROVE  \E after : after = [n \in 0 .. N |-> IF n = 0 THEN vm ELSE Backed(after[n - 1], cr3, pages[n])]
<1> DEFINE Body(after, n) == IF n = 0 THEN vm ELSE Backed(after[n - 1], cr3, pages[n])
           S == {k \in Nat : \E after : after = [n \in 0 .. k |-> Body(after, n)]}
<1>1. 0 \in S
  <2>1. PICK after : after = [n \in 0 .. 0 |-> vm]
    OBVIOUS
  <2>2. DOMAIN after = 0 .. 0 /\ after = [n \in 0 .. 0 |-> after[n]]
    BY <2>1
  <2>3. \A n \in 0 .. 0 : after[n] = Body(after, n)
    BY <2>1
  <2>4. after = [n \in 0 .. 0 |-> Body(after, n)]
    BY <2>2, <2>3
  <2> QED  BY <2>4
<1>2. ASSUME NEW k \in S PROVE k + 1 \in S
  <2>1. k \in Nat
    OBVIOUS
  <2>2. PICK g : g = [n \in 0 .. k |-> Body(g, n)]
    OBVIOUS
  <2>3. PICK h : h = [n \in 0 .. k + 1 |-> IF n <= k THEN g[n] ELSE Backed(g[k], cr3, pages[k + 1])]
    OBVIOUS
  <2>4. \A n \in 0 .. k + 1 : h[n] = IF n <= k THEN g[n] ELSE Backed(g[k], cr3, pages[k + 1])
    BY <2>3
  <2>5. \A n \in 0 .. k : g[n] = Body(g, n)
    BY <2>2
  <2>6. ASSUME NEW n \in 0 .. k + 1 PROVE h[n] = Body(h, n)
    <3>1. CASE n = 0
      BY <2>1, <2>4, <2>5, <3>1
    <3>2. CASE n \in 1 .. k
      <4>1. n - 1 \in 0 .. k + 1 /\ n - 1 <= k /\ n <= k /\ n \in 0 .. k /\ n # 0
        BY <2>1, <3>2
      <4>2. h[n - 1] = g[n - 1] /\ h[n] = g[n]
        BY <2>4, <4>1
      <4> QED  BY <2>5, <4>1, <4>2
    <3>3. CASE n = k + 1
      <4>1. n - 1 = k /\ k \in 0 .. k + 1 /\ ~(n <= k) /\ n # 0
        BY <2>1, <3>3
      <4>2. h[k] = g[k] /\ h[n] = Backed(g[k], cr3, pages[n])
        BY <2>1, <2>4, <3>3, <4>1
      <4> QED  BY <4>1, <4>2, Zenon
    <3> QED  BY <2>1, <3>1, <3>2, <3>3
  <2>7. h = [n \in 0 .. k + 1 |-> h[n]]
    BY <2>3
  <2>8. h = [n \in 0 .. k + 1 |-> Body(h, n)]
    BY <2>6, <2>7
  <2> QED  BY <2>1, <2>8
<1> HIDE DEF S
<1>3. S \in SUBSET Nat
  BY DEF S
<1>4. S = Nat
  BY <1>1, <1>2, <1>3, ByInduction, Zenon
<1> QED  BY <1>4 DEF S

(* An allocating loop ends in the last of its rounds.                      *)
LEMMA Rounds ==
  ASSUME NEW pages, NEW N \in Nat, N = Len(pages)
  PROVE  \E after : /\ \A n \in 0 .. N : IsRound(after, n, pages)
                    /\ AllBacked(pages) = after[N]
<1> DEFINE P(after) == after = [n \in 0 .. N |-> IF n = 0 THEN vm ELSE Backed(after[n - 1], cr3, pages[n])]
           g == CHOOSE after : P(after)
<1>1. P(g)
  BY RoundsExist, Zenon
<1>2. AllBacked(pages) = g[N]
  BY DEF AllBacked
<1>3. PICK after : P(after) /\ after = g
  BY <1>1
<1>4. ASSUME NEW n \in 0 .. N PROVE IsRound(after, n, pages)
  BY <1>3 DEF IsRound
<1> QED  BY <1>2, <1>3, <1>4

(* The pages in P have new frames, all others are where they were.         *)
Moved(s, e, r, P) ==
  /\ \E lev : Good(e, r, lev)
  /\ e.free \subseteq s.free
  /\ \A w \in Ordinary :
       /\ w \in P => Translate(e.mem, r, w) \in s.free \ e.free
       /\ w \notin P => Translate(e.mem, r, w) = Translate(s.mem, r, w)
  /\ WindowsStay(s.mem, e.mem, r)

Through(pages, n) == {pages[i] : i \in 1 .. n}

(* One round more moves one page more.                                     *)
LEMMA MovedMore ==
  ASSUME NEW s, NEW e, NEW r, NEW P, Moved(s, e, r, P), NEW v \in Ordinary,
         NEW m, m = Backed(e, r, v), ~m.failed
  PROVE  Moved(s, m, r, P \cup {v})
<1>1. PICK lev : Good(e, r, lev)
  BY DEF Moved
<1>2. PICK f \in e.free :
        /\ \E lev2 : Good(m, r, lev2)
        /\ m.free \subseteq e.free \ {f} /\ Remapped(e, m, r, v, f)
        /\ WindowsStay(e.mem, m.mem, r)
  BY <1>1, BackedKeeps
<1>3. ASSUME NEW w \in Ordinary
      PROVE  /\ w \in P \cup {v} => Translate(m.mem, r, w) \in s.free \ m.free
             /\ w \notin P \cup {v} => Translate(m.mem, r, w) = Translate(s.mem, r, w)
  <2>1. Translate(m.mem, r, w) = IF w = v THEN f ELSE Translate(e.mem, r, w)
    BY <1>2 DEF Remapped
  <2>2. /\ e.free \subseteq s.free
        /\ w \in P => Translate(e.mem, r, w) \in s.free \ e.free
        /\ w \notin P => Translate(e.mem, r, w) = Translate(s.mem, r, w)
    BY DEF Moved
  <2>3. CASE w = v
    BY <1>2, <2>1, <2>2, <2>3
  <2>4. CASE w # v
    BY <1>2, <2>1, <2>2, <2>4
  <2> QED  BY <2>3, <2>4
<1>4. m.free \subseteq s.free
  BY <1>2 DEF Moved
<1>5. WindowsStay(s.mem, m.mem, r)
  BY <1>2, WindowsFollow DEF Moved
<1> QED  BY <1>2, <1>3, <1>4, <1>5 DEF Moved

(* What was mapped and is not among the pages moved is where it was.       *)
LEMMA OthersStay ==
  ASSUME NEW s, NEW e, NEW r, NEW P, Moved(s, e, r, P),
         NEW v \in Page, v \notin P, Translate(s.mem, r, v) # Unmapped
  PROVE  Translate(e.mem, r, v) = Translate(s.mem, r, v)
<1>1. CASE v \in Ordinary
  BY <1>1 DEF Moved
<1>2. CASE v \notin Ordinary
  <2>1. PICK a \in Slot, b \in Slot, c \in Slot, d \in Slot :
          a = PML4Index(v) /\ b = PDPIndex(v) /\ c = PDIndex(v) /\ d = PTIndex(v)
    BY PageOfIndices
  <2>2. a = RECURSIVE_SLOT
    BY <1>2, <2>1 DEF Ordinary
  <2>3. \A mem : Translate(mem, r, v) = Walk(mem, r, RECURSIVE_SLOT, b, c, d)
    BY <2>1, <2>2, TranslateWalks, Zenon
  <2> QED  BY <2>1, <2>3 DEF Moved, WindowsStay
<1> QED  BY <1>1, <1>2

(* The loop of an allocation, unless memory runs out.                      *)
LEMMA AllBackedKeeps ==
  ASSUME vm \in State, cr3 \in Frames, NEW pages, NEW N \in Nat, N = Len(pages),
         \A i \in 1 .. N : pages[i] \in Ordinary
  PROVE  /\ AllBacked(pages) \in State
         /\ vm.failed => AllBacked(pages).failed
         /\ (\E lev : Good(vm, cr3, lev)) =>
              AllBacked(pages).failed \/ Moved(vm, AllBacked(pages), cr3, Through(pages, N))
<1>1. PICK after : /\ \A n \in 0 .. N : IsRound(after, n, pages)
                   /\ AllBacked(pages) = after[N]
  BY Rounds
<1> DEFINE Fine(n) == /\ after[n] \in State
                      /\ vm.failed => after[n].failed
                      /\ (\E lev : Good(vm, cr3, lev)) =>
                           after[n].failed \/ Moved(vm, after[n], cr3, Through(pages, n))
           S == {n \in Nat : n <= N => Fine(n)}
<1>2. 0 \in S
  <2>1. after[0] = vm
    <3>1. IsRound(after, 0, pages)
      BY <1>1
    <3> QED  BY <3>1, Zenon DEF IsRound
  <2>2. Through(pages, 0) = {}
    BY DEF Through
  <2>3. (\E lev : Good(vm, cr3, lev)) => Moved(vm, vm, cr3, {})
    BY DEF Moved, WindowsStay
  <2> QED  BY <2>1, <2>2, <2>3
<1>3. ASSUME NEW n \in S PROVE n + 1 \in S
  <2> SUFFICES ASSUME n + 1 <= N PROVE Fine(n + 1)
    OBVIOUS
  <2>1. n \in Nat /\ n \in 0 .. N /\ n + 1 \in 1 .. N /\ n + 1 \in 0 .. N /\ n + 1 # 0 /\ (n + 1) - 1 = n
    OBVIOUS
  <2>2. Fine(n)
    BY <2>1
  <2>3. PICK v \in Ordinary : v = pages[n + 1]
    BY <2>1
  <2>4. after[n + 1] = Backed(after[n], cr3, v)
    <3>1. IsRound(after, n + 1, pages)
      BY <1>1, <2>1
    <3> QED  BY <2>1, <2>3, <3>1, Zenon DEF IsRound
  <2>5. v \in Page
    BY DEF Ordinary
  <2>6. after[n + 1] \in State /\ (after[n].failed => after[n + 1].failed)
    BY <2>2, <2>4, <2>5, BackedType
  <2>7. ASSUME ~after[n + 1].failed, \E lev : Good(vm, cr3, lev)
        PROVE  Moved(vm, after[n + 1], cr3, Through(pages, n + 1))
    <3>1. Moved(vm, after[n], cr3, Through(pages, n))
      BY <2>2, <2>6, <2>7
    <3>2. Through(pages, n + 1) = Through(pages, n) \cup {v}
      <4>1. 1 .. n + 1 = (1 .. n) \cup {n + 1}
        BY <2>1
      <4> QED  BY <2>3, <4>1 DEF Through
    <3> QED  BY <2>4, <2>7, <3>1, <3>2, MovedMore
  <2> QED  BY <2>2, <2>6, <2>7
<1> HIDE DEF S
<1>4. S \in SUBSET Nat
  BY DEF S
<1>5. S = Nat
  BY <1>2, <1>3, <1>4, ByInduction, Zenon
<1>6. N \in S
  BY <1>5
<1>7. Fine(N)
  BY <1>6 DEF S
<1> QED  BY <1>1, <1>7

-----------------------------------------------------------------------------
(* The ranges that setup_page_tables maps.                                 *)

OneTable(first, last) ==
  /\ first \in Nat /\ last \in Nat /\ first <= last
  /\ first .. last \subseteq Frames
  /\ \A f \in first .. last :
       /\ f # 0 /\ f \notin RAM
       /\ VIRT_OFFSET + f \in Ordinary
       /\ (VIRT_OFFSET + f) \div ENTRIES = (VIRT_OFFSET + first) \div ENTRIES

(* Division is monotone.                                                   *)
LEMMA DivideMonotone ==
  ASSUME NEW n \in Nat \ {0}, NEW x \in Nat, NEW y \in Nat, x <= y
  PROVE  x \div n <= y \div n
<1>1. PICK q \in Nat, a \in 0 .. n - 1 : q = x \div n /\ x = q * n + a
  BY Split
<1>2. PICK p \in Nat, b \in 0 .. n - 1 : p = y \div n /\ y = p * n + b
  BY Split
<1>3. SUFFICES ASSUME q >= p + 1 PROVE FALSE
  BY <1>1, <1>2
<1>4. q * n >= (p + 1) * n
  BY <1>3
<1>5. (p + 1) * n = p * n + n
  BY <1>2
<1> QED  BY <1>1, <1>2, <1>4, <1>5

(* The image with the bitmap is such a range, and so is the screen.        *)
LEMMA RangesFit == OneTable(physbase, physfree) /\ OneTable(Video, Video)
<1>1. /\ physbase \in Nat /\ physfree \in Nat /\ Video \in Nat /\ VIRT_OFFSET \in Nat /\ KERNEL_LIMIT \in Nat
      /\ physbase <= physfree /\ physfree < KERNEL_LIMIT /\ Video < physbase /\ 0 < Video
      /\ physbase .. physfree \subseteq Frames /\ Video \in Frames
      /\ \A f \in RAM : f \notin physbase .. physfree /\ f # Video
  BY VmParameters
<1>2. \A f \in 0 .. KERNEL_LIMIT : VIRT_OFFSET + f \in Ordinary
  BY VmLayout
<1>3. ASSUME NEW f \in physbase .. physfree
      PROVE  (VIRT_OFFSET + f) \div ENTRIES = (VIRT_OFFSET + physbase) \div ENTRIES
  <2>1. PICK n \in Nat \ {0} : n = ENTRIES
    BY Entries
  <2>2. PICK x \in Nat, y \in Nat, z \in Nat :
          x = VIRT_OFFSET + physbase /\ y = VIRT_OFFSET + f /\ z = VIRT_OFFSET + physfree
          /\ x <= y /\ y <= z
    BY <1>1
  <2>3. x \div n <= y \div n /\ y \div n <= z \div n
    BY <2>2, DivideMonotone
  <2>4. x \div n = z \div n
    BY <2>1, <2>2, VmLayout
  <2>5. x \div n \in Nat /\ y \div n \in Nat /\ z \div n \in Nat
    BY Split
  <2>6. x \div n = y \div n
    BY <2>3, <2>4, <2>5
  <2> QED  BY <2>1, <2>2, <2>6
<1>4. \A f \in physbase .. physfree : f # 0 /\ f \notin RAM /\ VIRT_OFFSET + f \in Ordinary
  BY <1>1, <1>2
<1>5. OneTable(physbase, physfree)
  BY <1>1, <1>3, <1>4 DEF OneTable
<1>6. Video .. Video = {Video}
  BY <1>1
<1>7. Video # 0 /\ Video \notin RAM /\ VIRT_OFFSET + Video \in Ordinary
  BY <1>1, <1>2
<1>8. OneTable(Video, Video)
  BY <1>1, <1>6, <1>7 DEF OneTable
<1> QED  BY <1>5, <1>8

(* In such a range a page is told by its index in the table.               *)
LEMMA RangeIndices ==
  ASSUME NEW first, NEW last, OneTable(first, last),
         NEW f \in first .. last, NEW h \in first .. last
  PROVE  /\ PML4Index(VIRT_OFFSET + f) = PML4Index(VIRT_OFFSET + h)
         /\ PDPIndex(VIRT_OFFSET + f) = PDPIndex(VIRT_OFFSET + h)
         /\ PDIndex(VIRT_OFFSET + f) = PDIndex(VIRT_OFFSET + h)
         /\ PTIndex(VIRT_OFFSET + f) = PTIndex(VIRT_OFFSET + h) => f = h
<1>1. f \in Nat /\ h \in Nat /\ VIRT_OFFSET \in Nat
  BY VmParameters DEF OneTable
<1>2. PICK x \in Nat, y \in Nat : x = VIRT_OFFSET + f /\ y = VIRT_OFFSET + h
  BY <1>1
<1>3. PICK n \in Nat \ {0} : n = ENTRIES
  BY Entries
<1>4. x \div n = y \div n
  BY <1>2, <1>3 DEF OneTable
<1>5. x = (x \div n) * n + (x % n) /\ y = (y \div n) * n + (y % n)
  BY Split
<1>6. x % n = y % n => x = y
  BY <1>4, <1>5
<1>7. PTIndex(x) = PTIndex(y) => f = h
  BY <1>1, <1>2, <1>3, <1>6 DEF PTIndex
<1>8. PDIndex(x) = PDIndex(y)
  BY <1>3, <1>4 DEF PDIndex
<1>9. PDPIndex(x) = PDPIndex(y) /\ PML4Index(x) = PML4Index(y)
  <2>1. /\ PDPIndex(x) = ((x \div n) \div n) % n /\ PML4Index(x) = (((x \div n) \div n) \div n) % n
        /\ PDPIndex(y) = ((y \div n) \div n) % n /\ PML4Index(y) = (((y \div n) \div n) \div n) % n
    BY <1>3, Thrice
  <2> QED  BY <1>4, <2>1, Zenon
<1> QED  BY <1>2, <1>7, <1>8, <1>9

-----------------------------------------------------------------------------
(* The tables before the recursive entry is written.                       *)

(* A state of setup_page_tables: the tables are a tree without a window.   *)
Young(s, r, lev) ==
  /\ s \in State /\ ~s.fault
  /\ Below(s.mem, r, RECURSIVE_SLOT) = Unmapped
  /\ Tree(s.mem, s.free, r, lev)

YoungLater(s, e, r, lev, lev2) ==
  /\ Young(e, r, lev2)
  /\ e.free \subseteq s.free
  /\ \A x \in Frames : x \notin s.free => lev2[x] = lev[x]
  /\ Grows(s.mem, e.mem)
  /\ SameMap(s.mem, e.mem, r)

(* The parts of such a state that every proof needs.                       *)
LEMMA YoungFacts ==
  ASSUME NEW s, NEW r, NEW lev, Young(s, r, lev)
  PROVE  /\ s \in State /\ s.mem \in [Frames -> Table] /\ s.free \in SUBSET RAM /\ s.free \in SUBSET Frames
         /\ r \in Frames /\ lev \in [Frames -> 0 .. 5] /\ lev[r] = 4
         /\ \A f \in s.free : lev[f] = 5 /\ f # 0
         /\ \A x \in Frames : lev[x] = 4 => x = r
BY VmParameters DEF Young, State, Tree, Levels

(* The empty table.                                                        *)
LEMMA EmptyIs ==
  /\ Empty \in Table
  /\ \A j \in Slot : Empty[j].frame = 0 /\ ~Empty[j].present
BY VmParameters DEF Empty, Absent, Table, Entry

(* A frame is cleared.                                                     *)
Cleared(s, e, f) ==
  /\ e.free = s.free /\ e.failed = s.failed /\ e.fault = s.fault
  /\ \A x \in Frames : e.mem[x] = IF x = f THEN Empty ELSE s.mem[x]

(* Clearing keeps the types.                                               *)
LEMMA ClearedRow ==
  ASSUME NEW s \in State, NEW f \in Frames, NEW e, e = [s EXCEPT !.mem[f] = Empty]
  PROVE  e \in State /\ Cleared(s, e, f)
<1>1. PICK m : m = [s.mem EXCEPT ![f] = Empty]
  OBVIOUS
<1>2. m \in [Frames -> Table] /\ \A x \in Frames : m[x] = IF x = f THEN Empty ELSE s.mem[x]
  BY <1>1, EmptyIs DEF State
<1>3. e = [s EXCEPT !.mem = m]
  BY <1>1
<1>5. e \in State /\ e.mem = m /\ e.free = s.free /\ e.failed = s.failed /\ e.fault = s.fault
  BY <1>2, <1>3 DEF State
<1> QED  BY <1>2, <1>5 DEF Cleared

(* An entry of s is given the address of a cleared frame.                  *)
Installed(s, e, t, i) ==
  /\ e.free = s.free \ {Fresh(s)}
  /\ e.failed = (s.failed \/ s.free = {})
  /\ \A x \in Frames, j \in Slot :
       e.mem[x][j] = IF x = Fresh(s) THEN Empty[j]
                     ELSE IF x = t /\ j = i THEN Present(Fresh(s)) ELSE s.mem[x][j]

(* One level of getPT keeps the types, and the memory of a failure.        *)
LEMMA EnsureClearedIs ==
  ASSUME NEW s \in State, NEW t \in Frames, NEW i \in Slot,
         NEW e, e = EnsureCleared(s, t, i)
  PROVE  /\ e \in State
         /\ s.failed => e.failed
         /\ e.fault = s.fault
         /\ s.mem[t][i].frame # 0 => e = s
         /\ s.mem[t][i].frame = 0 => Installed(s, e, t, i)
<1>1. CASE s.mem[t][i].frame # 0
  BY <1>1 DEF EnsureCleared
<1>2. CASE s.mem[t][i].frame = 0
  <2>1. PICK f \in Frames : f = Fresh(s)
    BY FreshIs
  <2>2. PICK p \in State : p = Taken(s)
    BY FreshIs
  <2>3. PICK l : l = [p EXCEPT !.mem[t][i] = Present(f)]
    OBVIOUS
  <2>4. /\ l \in State /\ l.mem = [p.mem EXCEPT ![t][i] = Present(f)]
        /\ l.free = p.free /\ l.failed = p.failed /\ l.fault = p.fault
    BY <2>3, Linked
  <2>5. e = [l EXCEPT !.mem[f] = Empty]
    BY <1>2, <2>1, <2>2, <2>3 DEF EnsureCleared
  <2>6. /\ e \in State /\ e.free = l.free /\ e.failed = l.failed /\ e.fault = l.fault
        /\ \A x \in Frames : e.mem[x] = IF x = f THEN Empty ELSE l.mem[x]
    <3>1. e \in State /\ Cleared(l, e, f)
      BY <2>4, <2>5, ClearedRow
    <3> QED  BY <3>1 DEF Cleared
  <2>8. /\ p.mem = s.mem /\ p.fault = s.fault /\ p.free = s.free \ {f}
        /\ p.failed = (s.failed \/ s.free = {})
    BY <2>1, <2>2, FreshIs
  <2>9. s.mem \in [Frames -> Table]
    BY DEF State
  <2>10. \A x \in Frames, j \in Slot :
           l.mem[x][j] = IF x = t /\ j = i THEN Present(f) ELSE s.mem[x][j]
    BY <2>4, <2>8, <2>9, Written
  <2>11. \A x \in Frames, j \in Slot :
           e.mem[x][j] = IF x = f THEN Empty[j]
                         ELSE IF x = t /\ j = i THEN Present(f) ELSE s.mem[x][j]
    BY <2>6, <2>10
  <2>12. Installed(s, e, t, i)
    BY <2>1, <2>4, <2>6, <2>8, <2>11, Zenon DEF Installed
  <2> QED  BY <1>2, <2>4, <2>6, <2>8, <2>12, Zenon
<1> QED  BY <1>1, <1>2

(* The entry leads to a table, and the tables are a tree still.            *)
LedOn(s, e, r, lev, t, i) ==
  /\ \E lev2 : YoungLater(s, e, r, lev, lev2)
  /\ Below(e.mem, t, i) \in Frames /\ Below(e.mem, t, i) = e.mem[t][i].frame

(* One level of getPT leads on and keeps the tables a tree.                *)
LEMMA EnsureClearedKeeps ==
  ASSUME NEW s, NEW r, NEW lev, Young(s, r, lev),
         NEW t \in Frames, lev[t] \in 2 .. 4, NEW i \in Slot, ~Window(r, t, i),
         NEW e, e = EnsureCleared(s, t, i), ~e.failed
  PROVE  LedOn(s, e, r, lev, t, i)
<1>1. /\ s \in State /\ s.mem \in [Frames -> Table] /\ s.free \in SUBSET Frames /\ r \in Frames
      /\ lev \in [Frames -> 0 .. 5] /\ lev[r] = 4
      /\ \A f \in s.free : lev[f] = 5 /\ f # 0
      /\ Unmapped \notin Frames
  BY YoungFacts, VmParameters DEF Unmapped
<1>2. Tidy(s.mem, t)
  BY DEF Young, Tree, Clean
<1>3. /\ s.mem[t][i].frame \in Frames
      /\ Below(s.mem, t, i) = IF s.mem[t][i].present THEN s.mem[t][i].frame ELSE Unmapped
  BY <1>1, BelowIs
<1>4. CASE s.mem[t][i].frame # 0
  <2>1. e = s
    BY <1>1, <1>4, EnsureClearedIs
  <2>2. Below(s.mem, t, i) = s.mem[t][i].frame
    BY <1>1, <1>2, <1>3, <1>4 DEF Tidy
  <2>3. YoungLater(s, s, r, lev, lev)
    BY DEF YoungLater, Grows, SameMap
  <2> QED  BY <1>3, <2>1, <2>2, <2>3 DEF LedOn
<1>5. CASE s.mem[t][i].frame = 0
  <2>1. PICK f \in Frames : f = Fresh(s)
    BY <1>1, FreshIs
  <2>2. /\ e \in State
        /\ \A x \in Frames, j \in Slot :
             e.mem[x][j] = IF x = f THEN Empty[j]
                           ELSE IF x = t /\ j = i THEN Present(f) ELSE s.mem[x][j]
        /\ e.free = s.free \ {f}
        /\ e.failed = (s.failed \/ s.free = {})
        /\ e.fault = s.fault
    <3>1. e \in State /\ e.fault = s.fault /\ Installed(s, e, t, i)
      BY <1>1, <1>5, EnsureClearedIs
    <3> QED  BY <2>1, <3>1, Zenon DEF Installed
  <2>3. f \in s.free /\ lev[f] = 5 /\ f # 0 /\ f # t /\ f # r
    <3>1. s.free # {}
      BY <2>2, Zenon
    <3>2. f \in s.free
      BY <1>1, <2>1, <3>1, FreshIs, Zenon
    <3> QED  BY <1>1, <3>2
  <2>4. Below(s.mem, t, i) = Unmapped
    BY <1>2, <1>3, <1>5 DEF Tidy
  <2>5. PICK mem \in [Frames -> Table] : mem = s.mem
    BY <1>1
  <2>6. PICK mem2 \in [Frames -> Table] : mem2 = e.mem
    BY <2>2 DEF State
  <2>8. Rewritten(mem, mem2, t, i, f)
    BY <2>2, <2>5, <2>6 DEF Rewritten
  <2>9. \A j \in Slot : Below(mem, f, j) = Unmapped
    BY <2>3, <2>5 DEF Young, Tree, Clean
  <2>10. \A j \in Slot : mem2[f][j].frame = 0 /\ ~mem2[f][j].present /\ Below(mem2, f, j) = Unmapped
    <3> SUFFICES ASSUME NEW j \in Slot
                 PROVE  mem2[f][j].frame = 0 /\ ~mem2[f][j].present /\ Below(mem2, f, j) = Unmapped
      OBVIOUS
    <3>1. mem2[f][j] = Empty[j]
      BY <2>2, <2>6
    <3>2. Below(mem2, f, j) = IF mem2[f][j].present THEN mem2[f][j].frame ELSE Unmapped
      BY BelowIs
    <3> QED  BY <3>1, <3>2, EmptyIs
  <2>11. Relinked(mem, mem2, t, i, f)
    BY <2>8, BelowWritten
  <2>12. PICK free \in SUBSET Frames : free = s.free
    BY <1>1
  <2>13. Tree(mem, free, r, lev)
    BY <2>5, <2>12 DEF Young
  <2>14. PICK lev2 : lev2 = [lev EXCEPT ![f] = lev[t] - 1]
    OBVIOUS
  <2>15. Tree(mem2, free \ {f}, r, lev2)
    <3>1. free \ {f} \in SUBSET free /\ f \notin free \ {f} /\ lev[t] \in 1 .. 4
      OBVIOUS
    <3> QED  BY <2>3, <2>8, <2>10, <2>13, <2>14, <3>1, Grown
  <2>16. SameMap(mem, mem2, r)
    BY <2>3, <2>4, <2>5, <2>10, <2>11, <2>13, LinkedSame
  <2>17. Grows(mem, mem2)
    <3> SUFFICES ASSUME NEW x \in Frames, NEW j \in Slot, Below(mem, x, j) # Unmapped
                 PROVE  Below(mem2, x, j) = Below(mem, x, j)
      BY DEF Grows
    <3>1. x # f
      BY <2>9
    <3>2. ~(x = t /\ j = i)
      BY <2>4, <2>5
    <3> QED  BY <2>11, <3>1, <3>2 DEF Relinked
  <2>18. Below(mem2, r, RECURSIVE_SLOT) = Unmapped
    BY <1>1, <2>3, <2>5, <2>11, Entries DEF Young, Relinked, Window
  <2>19. Below(mem2, t, i) = f /\ mem2[t][i].frame = f
    <3>1. Below(mem2, t, i) = f
      BY <2>3, <2>11 DEF Relinked
    <3>2. mem2[t][i] = Present(f)
      BY <2>3, <2>8 DEF Rewritten
    <3> QED  BY <3>1, <3>2 DEF Present
  <2>20. Young(e, r, lev2)
    BY <2>2, <2>6, <2>12, <2>15, <2>18 DEF Young
  <2>21. \A x \in Frames : x \notin s.free => lev2[x] = lev[x]
    BY <1>1, <2>3, <2>14
  <2>22. YoungLater(s, e, r, lev, lev2)
    BY <2>2, <2>5, <2>6, <2>16, <2>17, <2>20, <2>21 DEF YoungLater
  <2> QED  BY <2>6, <2>19, <2>22 DEF LedOn
<1> QED  BY <1>3, <1>4, <1>5

(* getPT level by level.                                                   *)
Descended(s, r, v, s4, s3, s2, pdp, pd, pt) ==
  /\ s4 = EnsureCleared(s, r, PML4Index(v)) /\ pdp = s4.mem[r][PML4Index(v)].frame
  /\ s3 = EnsureCleared(s4, pdp, PDPIndex(v)) /\ pd = s3.mem[pdp][PDPIndex(v)].frame
  /\ s2 = EnsureCleared(s3, pd, PDIndex(v)) /\ pt = s2.mem[pd][PDIndex(v)].frame
  /\ (s.failed => s4.failed) /\ (s4.failed => s3.failed) /\ (s3.failed => s2.failed)
  /\ s2.fault = s.fault
  /\ getPT(s, r, v) = [state |-> s2, pt |-> pt]

(* getPT goes through such states.                                         *)
LEMMA GetPTSteps ==
  ASSUME NEW s \in State, NEW r \in Frames, NEW v \in Page
  PROVE  \E s4 \in State, s3 \in State, s2 \in State, pdp \in Frames, pd \in Frames, pt \in Frames :
           Descended(s, r, v, s4, s3, s2, pdp, pd, pt)
<1>1. PICK a \in Slot, b \in Slot, c \in Slot : a = PML4Index(v) /\ b = PDPIndex(v) /\ c = PDIndex(v)
  BY PageOfIndices
<1>2. \A e \in State, t \in Frames, i \in Slot :
        /\ EnsureCleared(e, t, i) \in State /\ (e.failed => EnsureCleared(e, t, i).failed)
        /\ EnsureCleared(e, t, i).fault = e.fault
  BY EnsureClearedIs
<1>3. \A e \in State, t \in Frames, i \in Slot : e.mem[t][i].frame \in Frames
  BY BelowIs DEF State
<1>4. PICK s4 \in State : s4 = EnsureCleared(s, r, PML4Index(v)) /\ (s.failed => s4.failed) /\ s4.fault = s.fault
  BY <1>1, <1>2
<1>5. PICK pdp \in Frames : pdp = s4.mem[r][PML4Index(v)].frame
  BY <1>1, <1>3
<1>6. PICK s3 \in State : s3 = EnsureCleared(s4, pdp, PDPIndex(v)) /\ (s4.failed => s3.failed) /\ s3.fault = s4.fault
  BY <1>1, <1>2
<1>7. PICK pd \in Frames : pd = s3.mem[pdp][PDPIndex(v)].frame
  BY <1>1, <1>3
<1>8. PICK s2 \in State : s2 = EnsureCleared(s3, pd, PDIndex(v)) /\ (s3.failed => s2.failed) /\ s2.fault = s3.fault
  BY <1>1, <1>2
<1>9. PICK pt \in Frames : pt = s2.mem[pd][PDIndex(v)].frame
  BY <1>1, <1>3
<1>10. getPT(s, r, v) = [state |-> s2, pt |-> pt]
  BY <1>4, <1>5, <1>6, <1>7, <1>8, <1>9, Zenon DEF getPT
<1>11. Descended(s, r, v, s4, s3, s2, pdp, pd, pt)
  BY <1>4, <1>5, <1>6, <1>7, <1>8, <1>9, <1>10, Zenon DEF Descended
<1> QED  BY <1>11

(* getPT links empty tables down to page v.                                *)
LedDown(s, e, r, lev, v, pt) ==
  \E lev2 :
    /\ YoungLater(s, e, r, lev, lev2)
    /\ pt \in Frames /\ lev2[pt] = 1
    /\ pt = Below(e.mem, Below(e.mem, Below(e.mem, r, PML4Index(v)), PDPIndex(v)), PDIndex(v))

(* getPT leads to the page table of the page (pagetab.c:114 to 154).       *)
LEMMA GetPTKeeps ==
  ASSUME NEW s, NEW r, NEW lev, Young(s, r, lev), NEW v \in Ordinary,
         NEW e, NEW pt, getPT(s, r, v) = [state |-> e, pt |-> pt], ~e.failed
  PROVE  LedDown(s, e, r, lev, v, pt)
<1>1. s \in State /\ r \in Frames /\ v \in Page /\ lev[r] = 4
  BY YoungFacts, OrdinaryIndices
<1>2. PICK a \in Slot, b \in Slot, c \in Slot, d \in Slot :
        a = PML4Index(v) /\ b = PDPIndex(v) /\ c = PDIndex(v) /\ d = PTIndex(v)
  BY OrdinaryIndices
<1>3. a # RECURSIVE_SLOT
  BY <1>2, OrdinaryIndices
<1>4. PICK s4 \in State, s3 \in State, s2 \in State, pdp \in Frames, pd \in Frames, p \in Frames :
        Descended(s, r, v, s4, s3, s2, pdp, pd, p)
  BY <1>1, GetPTSteps
<1>5. /\ s4 = EnsureCleared(s, r, a) /\ pdp = s4.mem[r][a].frame
      /\ s3 = EnsureCleared(s4, pdp, b) /\ pd = s3.mem[pdp][b].frame
      /\ s2 = EnsureCleared(s3, pd, c) /\ p = s2.mem[pd][c].frame
      /\ (s4.failed => s3.failed) /\ (s3.failed => s2.failed)
      /\ getPT(s, r, v) = [state |-> s2, pt |-> p]
  BY <1>2, <1>4, Zenon DEF Descended
<1>6. e = s2 /\ pt = p
  <2>1. [state |-> e, pt |-> pt] = [state |-> s2, pt |-> p]
    BY <1>5
  <2>2. [state |-> e, pt |-> pt].state = [state |-> s2, pt |-> p].state
    BY <2>1
  <2>3. [state |-> e, pt |-> pt].pt = [state |-> s2, pt |-> p].pt
    BY <2>1
  <2> QED  BY <2>2, <2>3
<1>7. ~s2.failed /\ ~s3.failed /\ ~s4.failed
  BY <1>5, <1>6, Zenon
<1>8. PICK lev4 : /\ YoungLater(s, s4, r, lev, lev4)
                  /\ Below(s4.mem, r, a) \in Frames /\ Below(s4.mem, r, a) = pdp
  <2>1. ~Window(r, r, a)
    BY <1>3 DEF Window
  <2>2. lev[r] \in 2 .. 4
    BY <1>1
  <2>3. LedOn(s, s4, r, lev, r, a)
    BY <1>1, <1>5, <1>7, <2>1, <2>2, EnsureClearedKeeps
  <2> QED  BY <1>5, <2>3 DEF LedOn
<1>9. /\ Young(s4, r, lev4) /\ s4.free \subseteq s.free
      /\ s4.mem \in [Frames -> Table] /\ s4.free \in SUBSET Frames
      /\ Tree(s4.mem, s4.free, r, lev4) /\ lev4[r] = 4
  BY <1>8, YoungFacts DEF YoungLater, Young
<1>10. lev4[pdp] = 3 /\ pdp # r
  <2>1. PICK x : x = Below(s4.mem, Below(s4.mem, pdp, b), c)
    OBVIOUS
  <2>2. OnWay(lev4, pdp, Below(s4.mem, pdp, b), x, Below(s4.mem, x, d))
    BY <1>2, <1>3, <1>8, <1>9, <2>1, OnTheWay, Zenon
  <2>3. pdp # Unmapped
    BY VmParameters DEF Unmapped
  <2> QED  BY <1>9, <2>2, <2>3 DEF OnWay
<1>11. PICK lev3 : /\ YoungLater(s4, s3, r, lev4, lev3)
                   /\ Below(s3.mem, pdp, b) \in Frames /\ Below(s3.mem, pdp, b) = pd
  <2>1. ~Window(r, pdp, b)
    BY <1>10 DEF Window
  <2>2. lev4[pdp] \in 2 .. 4
    BY <1>10
  <2>3. LedOn(s4, s3, r, lev4, pdp, b)
    BY <1>5, <1>7, <1>9, <1>10, <2>1, <2>2, EnsureClearedKeeps
  <2> QED  BY <1>5, <2>3 DEF LedOn
<1>12. /\ Young(s3, r, lev3) /\ s3.free \subseteq s4.free
       /\ s3.mem \in [Frames -> Table] /\ s3.free \in SUBSET Frames
       /\ Tree(s3.mem, s3.free, r, lev3) /\ lev3[r] = 4
  BY <1>11, YoungFacts DEF YoungLater, Young
<1>13. Below(s3.mem, r, a) = pdp
  <2>1. pdp # Unmapped
    BY VmParameters DEF Unmapped
  <2> QED  BY <1>1, <1>8, <1>11, <2>1 DEF YoungLater, Grows
<1>14. lev3[pd] = 2 /\ pd # r
  <2>1. PICK x : x = Below(s3.mem, pd, c)
    OBVIOUS
  <2>2. OnWay(lev3, pdp, pd, x, Below(s3.mem, x, d))
    BY <1>2, <1>3, <1>11, <1>12, <1>13, <2>1, OnTheWay, Zenon
  <2>3. pd # Unmapped
    BY VmParameters DEF Unmapped
  <2> QED  BY <1>12, <2>2, <2>3 DEF OnWay
<1>15. PICK lev2 : /\ YoungLater(s3, s2, r, lev3, lev2)
                   /\ Below(s2.mem, pd, c) \in Frames /\ Below(s2.mem, pd, c) = p
  <2>1. ~Window(r, pd, c)
    BY <1>14 DEF Window
  <2>2. lev3[pd] \in 2 .. 4
    BY <1>14
  <2>3. LedOn(s3, s2, r, lev3, pd, c)
    BY <1>5, <1>7, <1>12, <1>14, <2>1, <2>2, EnsureClearedKeeps
  <2> QED  BY <1>5, <2>3 DEF LedOn
<1>16. /\ Young(s2, r, lev2) /\ s2.free \subseteq s3.free
       /\ s2.mem \in [Frames -> Table] /\ s2.free \in SUBSET Frames
       /\ Tree(s2.mem, s2.free, r, lev2)
  BY <1>15, YoungFacts DEF YoungLater, Young
<1>17. Below(s2.mem, r, a) = pdp /\ Below(s2.mem, pdp, b) = pd
  <2>1. pdp # Unmapped /\ pd # Unmapped
    BY VmParameters DEF Unmapped
  <2> QED  BY <1>1, <1>11, <1>13, <1>15, <2>1 DEF YoungLater, Grows
<1>18. lev2[p] = 1
  <2>1. OnWay(lev2, pdp, pd, p, Below(s2.mem, p, d))
    BY <1>2, <1>3, <1>15, <1>16, <1>17, OnTheWay, Zenon
  <2>2. p # Unmapped
    BY VmParameters DEF Unmapped
  <2> QED  BY <2>1, <2>2 DEF OnWay
<1>19. YoungLater(s, s2, r, lev, lev2)
  <2>1. s2.free \subseteq s.free
    BY <1>9, <1>12, <1>16
  <2>2. \A x \in Frames : x \notin s.free => lev2[x] = lev[x]
    BY <1>8, <1>9, <1>11, <1>12, <1>15 DEF YoungLater
  <2>3. Grows(s.mem, s2.mem)
    <3>1. Grows(s.mem, s4.mem) /\ Grows(s4.mem, s3.mem) /\ Grows(s3.mem, s2.mem)
      BY <1>8, <1>11, <1>15 DEF YoungLater
    <3> SUFFICES ASSUME NEW x \in Frames, NEW j \in Slot, Below(s.mem, x, j) # Unmapped
                 PROVE  Below(s2.mem, x, j) = Below(s.mem, x, j)
      BY DEF Grows
    <3>2. Below(s4.mem, x, j) = Below(s.mem, x, j)
      BY <3>1 DEF Grows
    <3>3. Below(s3.mem, x, j) = Below(s4.mem, x, j)
      BY <3>1, <3>2 DEF Grows
    <3> QED  BY <3>1, <3>2, <3>3 DEF Grows
  <2>4. SameMap(s.mem, s2.mem, r)
    BY <1>8, <1>11, <1>15 DEF YoungLater, SameMap
  <2> QED  BY <1>16, <2>1, <2>2, <2>3, <2>4 DEF YoungLater
<1> QED  BY <1>2, <1>6, <1>15, <1>17, <1>18, <1>19, Zenon DEF LedDown

(* The entries of page table p that belong to the frames of F are given    *)
(* those frames.                                                           *)
IndexOf(f) == PTIndex(VIRT_OFFSET + f)

RowWritten(mem, mem2, p, F) ==
  /\ \A x \in Frames, j \in Slot :
       x # p \/ (\A f \in F : IndexOf(f) # j) => mem2[x][j] = mem[x][j]
  /\ \A f \in F : mem2[p][IndexOf(f)] = Present(f)

(* No two frames of F share an entry.                                      *)
Apart(F) ==
  /\ F \in SUBSET Frames
  /\ \A f \in F : f # 0 /\ IndexOf(f) \in Slot
  /\ \A f, h \in F : IndexOf(f) = IndexOf(h) => f = h

(* What stands in the entries of such a row.                               *)
LEMMA RowBelow ==
  ASSUME NEW mem \in [Frames -> Table], NEW mem2 \in [Frames -> Table],
         NEW p \in Frames, NEW F, Apart(F), RowWritten(mem, mem2, p, F)
  PROVE  /\ \A x \in Frames, j \in Slot :
              x # p \/ (\A f \in F : IndexOf(f) # j) => Below(mem2, x, j) = Below(mem, x, j)
         /\ \A f \in F : Below(mem2, p, IndexOf(f)) = f
<1>1. ASSUME NEW x \in Frames, NEW j \in Slot, x # p \/ (\A f \in F : IndexOf(f) # j)
      PROVE  Below(mem2, x, j) = Below(mem, x, j)
  <2>1. mem2[x][j] = mem[x][j]
    BY <1>1 DEF RowWritten
  <2>2. x # Unmapped
    BY VmParameters DEF Unmapped
  <2> QED  BY <2>1, <2>2 DEF Below
<1>2. ASSUME NEW f \in F PROVE Below(mem2, p, IndexOf(f)) = f
  <2>1. mem2[p][IndexOf(f)] = Present(f)
    BY DEF RowWritten
  <2>2. p # Unmapped
    BY VmParameters DEF Unmapped
  <2> QED  BY <2>1, <2>2 DEF Below, Present
<1> QED  BY <1>1, <1>2

Lowered(lev, F) == [x \in Frames |-> IF x \in F THEN 0 ELSE lev[x]]

(* Writing a row of pages into a page table keeps the tables a tree.       *)
LEMMA RowGrown ==
  ASSUME NEW mem \in [Frames -> Table], NEW free \in SUBSET Frames, NEW r, NEW lev,
         Tree(mem, free, r, lev),
         NEW p \in Frames, lev[p] = 1,
         NEW F, Apart(F), \A f \in F : lev[f] = 5 /\ f \notin free,
         NEW mem2 \in [Frames -> Table], RowWritten(mem, mem2, p, F),
         NEW lev2, lev2 = Lowered(lev, F)
  PROVE  Tree(mem2, free, r, lev2)
<1>2. /\ r \in Frames /\ lev \in [Frames -> 0 .. 5]
      /\ \A x \in Frames : lev[x] = 4 <=> x = r
      /\ \A x \in free : lev[x] = 5
  BY DEF Tree, Levels
<1>3. /\ lev2 \in [Frames -> 0 .. 5]
      /\ \A x \in Frames : lev2[x] = IF x \in F THEN 0 ELSE lev[x]
      /\ p \notin F /\ p # r /\ r \notin F
  BY <1>2 DEF Apart, Lowered
<1>4. /\ \A x \in Frames, j \in Slot :
           x # p \/ (\A f \in F : IndexOf(f) # j) => Below(mem2, x, j) = Below(mem, x, j)
      /\ \A f \in F : Below(mem2, p, IndexOf(f)) = f
  BY RowBelow
<1>6. Levels(mem2, free, r, lev2)
  <2>1. \A x \in Frames : lev2[x] = 4 <=> x = r
    BY <1>2, <1>3
  <2>2. \A x \in free : lev2[x] = 5
    BY <1>2, <1>3
  <2> QED  BY <1>2, <1>3, <2>1, <2>2 DEF Levels
<1>7. Clean(mem2, free, lev2)
  <2>1. ASSUME NEW x \in Frames, lev2[x] \in 1 .. 4 \/ x \in free PROVE Tidy(mem2, x)
    <3>1. Tidy(mem, x)
      BY <2>1, <1>2, <1>3 DEF Tree, Clean
    <3>2. ASSUME NEW j \in Slot PROVE mem2[x][j].present <=> mem2[x][j].frame # 0
      <4>1. CASE x # p \/ (\A f \in F : IndexOf(f) # j)
        <5>1. mem2[x][j] = mem[x][j]
          BY <4>1 DEF RowWritten
        <5> QED  BY <3>1, <5>1, Zenon DEF Tidy
      <4>2. CASE ~(x # p \/ (\A f \in F : IndexOf(f) # j))
        <5>1. PICK f \in F : IndexOf(f) = j /\ x = p
          BY <4>2
        <5>2. mem2[x][j] = Present(f) /\ f # 0
          BY <5>1 DEF RowWritten, Apart
        <5>3. Present(f).frame = f /\ Present(f).present = TRUE
          BY DEF Present
        <5> QED  BY <5>2, <5>3, Zenon
      <4> QED  BY <4>1, <4>2
    <3> QED  BY <3>2, Zenon DEF Tidy
  <2>2. ASSUME NEW g \in free, NEW j \in Slot PROVE Below(mem2, g, j) = Unmapped
    <3>1. g # p /\ g \in Frames
      BY <1>2
    <3>2. Below(mem, g, j) = Unmapped
      BY <3>1 DEF Tree, Clean
    <3> QED  BY <1>4, <3>1, <3>2
  <2> QED  BY <2>1, <2>2 DEF Clean
<1>d. \A x \in Frames, j \in Slot :
        lev[x] \in 1 .. 4 /\ Below(mem, x, j) # Unmapped /\ ~Window(r, x, j)
          => lev[Below(mem, x, j)] = lev[x] - 1
  BY DEF Tree, Descends
<1>8. ASSUME NEW x \in Frames, NEW j \in Slot, lev2[x] \in 1 .. 4,
             Below(mem2, x, j) # Unmapped, ~Window(r, x, j)
      PROVE  \/ \E f \in F : x = p /\ IndexOf(f) = j /\ Below(mem2, x, j) = f
             \/ /\ Below(mem2, x, j) = Below(mem, x, j) /\ Below(mem2, x, j) \in Frames
                /\ Below(mem2, x, j) \notin F /\ lev[x] = lev2[x]
                /\ lev[Below(mem2, x, j)] = lev[x] - 1
  <2>1. CASE x # p \/ (\A f \in F : IndexOf(f) # j)
    <3>1. Below(mem2, x, j) = Below(mem, x, j)
      BY <1>4, <2>1
    <3>2. lev[x] = lev2[x] /\ Below(mem, x, j) \in Frames
      BY <1>3, <1>8, <3>1, BelowIs
    <3>3. lev[Below(mem, x, j)] = lev[x] - 1
      BY <1>d, <1>8, <3>1, <3>2
    <3> QED  BY <1>8, <3>1, <3>2, <3>3
  <2>2. CASE ~(x # p \/ (\A f \in F : IndexOf(f) # j))
    BY <1>4, <2>2
  <2> QED  BY <2>1, <2>2
<1>9. Descends(mem2, r, lev2)
  <2> SUFFICES ASSUME NEW x \in Frames, NEW j \in Slot, lev2[x] \in 1 .. 4,
                      Below(mem2, x, j) # Unmapped, ~Window(r, x, j)
               PROVE  lev2[Below(mem2, x, j)] = lev2[x] - 1
    BY DEF Descends
  <2>1. CASE \E f \in F : x = p /\ IndexOf(f) = j /\ Below(mem2, x, j) = f
    BY <1>3, <2>1 DEF Apart
  <2>2. CASE ~ \E f \in F : x = p /\ IndexOf(f) = j /\ Below(mem2, x, j) = f
    BY <1>3, <1>8, <2>2
  <2> QED  BY <2>1, <2>2
<1>s. \A x, y \in Frames, i, j \in Slot :
         /\ lev[x] \in 1 .. 4 /\ lev[y] \in 1 .. 4
         /\ Below(mem, x, i) # Unmapped /\ Below(mem, x, i) = Below(mem, y, j)
         /\ ~Window(r, x, i) /\ ~Window(r, y, j)
         => x = y /\ i = j
  BY DEF Tree, Single
<1>10. Single(mem2, r, lev2)
  <2> SUFFICES ASSUME NEW x \in Frames, NEW y \in Frames, NEW i \in Slot, NEW j \in Slot,
                      lev2[x] \in 1 .. 4, lev2[y] \in 1 .. 4,
                      Below(mem2, x, i) # Unmapped, Below(mem2, x, i) = Below(mem2, y, j),
                      ~Window(r, x, i), ~Window(r, y, j)
               PROVE  x = y /\ i = j
    BY DEF Single
  <2>1. CASE \E f \in F : x = p /\ IndexOf(f) = i /\ Below(mem2, x, i) = f
    <3>1. \E f \in F : y = p /\ IndexOf(f) = j /\ Below(mem2, y, j) = f
      <4>1. Below(mem2, y, j) \in F /\ Below(mem2, y, j) # Unmapped
        BY <2>1
      <4> QED  BY <1>8, <4>1
    <3> QED  BY <2>1, <3>1
  <2>2. CASE ~ \E f \in F : x = p /\ IndexOf(f) = i /\ Below(mem2, x, i) = f
    <3>1. /\ Below(mem2, x, i) = Below(mem, x, i) /\ Below(mem2, x, i) \notin F
          /\ lev[x] = lev2[x]
      BY <1>8, <2>2
    <3>2. Below(mem2, y, j) = Below(mem, y, j) /\ lev[y] = lev2[y]
      <4>1. ~ \E f \in F : y = p /\ IndexOf(f) = j /\ Below(mem2, y, j) = f
        BY <3>1
      <4>2. Below(mem2, y, j) # Unmapped
        OBVIOUS
      <4> QED  BY <1>8, <4>1, <4>2
    <3> QED  BY <1>s, <3>1, <3>2
  <2> QED  BY <2>1, <2>2
<1> QED  BY <1>6, <1>7, <1>9, <1>10 DEF Tree

(* The translations after such a row is written.                           *)
RowWalks(mem, mem2, r, p, F, a, b, c, d) ==
  /\ \A f \in F : Below(mem, Below(mem, Below(mem, r, a), b), c) = p /\ IndexOf(f) = d
                    => Walk(mem2, r, a, b, c, d) = f
  /\ Below(mem, Below(mem, Below(mem, r, a), b), c) # p \/ (\A f \in F : IndexOf(f) # d)
       => Walk(mem2, r, a, b, c, d) = Walk(mem, r, a, b, c, d)

(* Writing a row changes the translations of its pages only.               *)
LEMMA RowTranslates ==
  ASSUME NEW mem \in [Frames -> Table], NEW free \in SUBSET Frames, NEW r, NEW lev,
         Tree(mem, free, r, lev),
         NEW p \in Frames, lev[p] = 1,
         NEW F, Apart(F),
         NEW mem2 \in [Frames -> Table], RowWritten(mem, mem2, p, F),
         NEW a \in Slot, NEW b \in Slot, NEW c \in Slot, NEW d \in Slot, a # RECURSIVE_SLOT
  PROVE  RowWalks(mem, mem2, r, p, F, a, b, c, d)
<1>3. PICK t3, u3 : t3 = Below(mem, r, a) /\ u3 = Below(mem2, r, a)
  OBVIOUS
<1>2. PICK t2, u2 : t2 = Below(mem, t3, b) /\ u2 = Below(mem2, u3, b)
  OBVIOUS
<1>1. PICK t1, u1 : t1 = Below(mem, t2, c) /\ u1 = Below(mem2, u2, c)
  OBVIOUS
<1>0. PICK t0, u0 : t0 = Below(mem, t1, d) /\ u0 = Below(mem2, u1, d)
  OBVIOUS
<1>4. /\ t3 = Unmapped \/ (t3 \in Frames /\ lev[t3] = 3)
      /\ t2 = Unmapped \/ (t3 \in Frames /\ t2 \in Frames /\ lev[t2] = 2)
      /\ t1 = Unmapped \/ (t2 \in Frames /\ t1 \in Frames /\ lev[t1] = 1)
      /\ t0 = Unmapped \/ (t1 \in Frames /\ t0 \in Frames /\ lev[t0] = 0)
  <2>1. OnWay(lev, t3, t2, t1, t0)
    BY <1>0, <1>1, <1>2, <1>3, OnTheWay, Zenon
  <2> QED  BY <2>1 DEF OnWay
<1>5. /\ r \in Frames /\ lev[r] = 4 /\ Unmapped \notin Frames
      /\ \A j \in Slot : Below(mem, Unmapped, j) = Unmapped /\ Below(mem2, Unmapped, j) = Unmapped
  BY VmParameters, BelowType DEF Tree, Levels, Unmapped
<1>r. /\ \A x \in Frames, j \in Slot :
           x # p \/ (\A f \in F : IndexOf(f) # j) => Below(mem2, x, j) = Below(mem, x, j)
      /\ \A f \in F : Below(mem2, p, IndexOf(f)) = f
  BY RowBelow
<1>6. u3 = t3
  BY <1>3, <1>5, <1>r
<1>7. u2 = t2
  BY <1>2, <1>4, <1>5, <1>r, <1>6
<1>8. u1 = t1
  BY <1>1, <1>4, <1>5, <1>r, <1>7
<1>9. /\ \A f \in F : t1 = p /\ IndexOf(f) = d => u0 = f
      /\ t1 # p \/ (\A f \in F : IndexOf(f) # d) => u0 = t0
  <2>1. ASSUME NEW f \in F, t1 = p, IndexOf(f) = d PROVE u0 = f
    BY <1>0, <1>r, <1>8, <2>1
  <2>2. ASSUME t1 # p \/ (\A f \in F : IndexOf(f) # d) PROVE u0 = t0
    BY <1>0, <1>4, <1>5, <1>r, <1>8, <2>2
  <2> QED  BY <2>1, <2>2
<1> QED  BY <1>0, <1>1, <1>2, <1>3, <1>9, Zenon DEF Walk, RowWalks

(* A range that lies in one table is kept apart by its indices.            *)
LEMMA RangeApart ==
  ASSUME NEW first, NEW last, OneTable(first, last)
  PROVE  Apart(first .. last)
<1>1. \A f \in first .. last : f # 0 /\ VIRT_OFFSET + f \in Ordinary
  BY DEF OneTable
<1>2. \A f \in first .. last : IndexOf(f) \in Slot
  BY <1>1, OrdinaryIndices DEF IndexOf
<1>3. \A f, h \in first .. last : IndexOf(f) = IndexOf(h) => f = h
  BY RangeIndices DEF IndexOf
<1>4. first .. last \in SUBSET Frames
  BY DEF OneTable
<1> QED  BY <1>1, <1>2, <1>3, <1>4 DEF Apart

(* The row that a mapping loop leaves in the page table.                   *)
Belonging(first, last, i) == {f \in first .. last : PTIndex(VIRT_OFFSET + f) = i}
Greatest(S) == CHOOSE f \in S : \A h \in S : h <= f

RowOf(old, first, last) ==
  [i \in Slot |-> IF Belonging(first, last, i) = {} THEN old[i]
                  ELSE Present(Greatest(Belonging(first, last, i)))]

(* The row is a table; it shows every frame of the range and leaves the    *)
(* other entries alone.                                                    *)
LEMMA RowIs ==
  ASSUME NEW old \in Table, NEW first, NEW last, OneTable(first, last),
         NEW row, row = RowOf(old, first, last)
  PROVE  /\ row \in Table
         /\ \A j \in Slot : (\A f \in first .. last : IndexOf(f) # j) => row[j] = old[j]
         /\ \A f \in first .. last : row[IndexOf(f)] = Present(f)
<1>1. Apart(first .. last)
  BY RangeApart
<1>2. ASSUME NEW j \in Slot, \A f \in first .. last : IndexOf(f) # j PROVE row[j] = old[j]
  <2>1. Belonging(first, last, j) = {}
    BY <1>2 DEF IndexOf, Belonging
  <2> QED  BY <2>1 DEF RowOf
<1>3. ASSUME NEW f \in first .. last PROVE IndexOf(f) \in Slot /\ row[IndexOf(f)] = Present(f)
  <2>1. PICK j \in Slot : j = IndexOf(f)
    BY <1>1 DEF Apart
  <2>2. PICK S : S = Belonging(first, last, j)
    OBVIOUS
  <2>3. \A g : g \in S <=> g = f
    BY <1>1, <2>1, <2>2 DEF Apart, IndexOf, Belonging
  <2>4. S = {f}
    BY <2>3, Zenon
  <2>5. f \in Nat
    BY DEF OneTable
  <2>6. Greatest(S) = f
    BY <2>4, <2>5 DEF Greatest
  <2>7. row[j] = IF S = {} THEN old[j] ELSE Present(Greatest(S))
    BY <2>2 DEF RowOf
  <2> QED  BY <2>1, <2>4, <2>6, <2>7
<1>4. row \in Table
  <2>1. \A j \in Slot : row[j] \in Entry
    <3> SUFFICES ASSUME NEW j \in Slot PROVE row[j] \in Entry
      OBVIOUS
    <3>1. CASE \A f \in first .. last : IndexOf(f) # j
      BY <1>2, <3>1 DEF Table
    <3>2. CASE ~ \A f \in first .. last : IndexOf(f) # j
      <4>1. PICK f \in first .. last : IndexOf(f) = j
        BY <3>2
      <4>2. f \in Frames
        BY <1>1 DEF Apart
      <4>3. row[j] = Present(f)
        BY <1>3, <4>1
      <4> QED  BY <4>2, <4>3 DEF Present, Entry
    <3> QED  BY <3>1, <3>2
  <2>2. row = [i \in Slot |-> row[i]]
    BY DEF RowOf
  <2> QED  BY <2>1, <2>2 DEF Table
<1> QED  BY <1>2, <1>3, <1>4

(* MapRange writes such a row into the table that getPT returns.           *)
Ranged(s, r, v, first, last, e, g, p) ==
  /\ getPT(s, r, v) = [state |-> g, pt |-> p]
  /\ e.free = g.free /\ e.failed = g.failed /\ e.fault = g.fault
  /\ g.fault = s.fault /\ (s.failed => g.failed)
  /\ RowWritten(g.mem, e.mem, p, first .. last)

(* MapRange does that, whatever the tables hold.                           *)
LEMMA MapRangeIs ==
  ASSUME NEW s \in State, NEW r \in Frames, NEW v \in Page,
         NEW first, NEW last, OneTable(first, last),
         NEW e, e = MapRange(s, r, v, first, last)
  PROVE  e \in State /\ \E g \in State, p \in Frames : Ranged(s, r, v, first, last, e, g, p)
<1>1. PICK s4 \in State, s3 \in State, g \in State, pdp \in Frames, pd \in Frames, p \in Frames :
        Descended(s, r, v, s4, s3, g, pdp, pd, p)
  BY GetPTSteps
<1>2. /\ getPT(s, r, v) = [state |-> g, pt |-> p]
      /\ (s.failed => g.failed) /\ g.fault = s.fault
  BY <1>1 DEF Descended
<1>3. PICK row : row = RowOf(g.mem[p], first, last)
  OBVIOUS
<1>4. getPT(s, r, v).state = g /\ getPT(s, r, v).pt = p
  BY <1>2
<1>5. e = [g EXCEPT !.mem[p] = RowOf(g.mem[p], first, last)]
  BY <1>4 DEF MapRange, RowOf, Belonging, Greatest
<1>6. g.mem[p] \in Table
  BY DEF State
<1>7. /\ row \in Table
      /\ \A j \in Slot : (\A f \in first .. last : IndexOf(f) # j) => row[j] = g.mem[p][j]
      /\ \A f \in first .. last : row[IndexOf(f)] = Present(f)
  BY <1>3, <1>6, RowIs
<1>8. PICK m : m = [g.mem EXCEPT ![p] = row]
  OBVIOUS
<1>9. m \in [Frames -> Table] /\ \A x \in Frames : m[x] = IF x = p THEN row ELSE g.mem[x]
  BY <1>7, <1>8 DEF State
<1>10. e = [g EXCEPT !.mem = m]
  BY <1>3, <1>5, <1>8
<1>11. e \in State /\ e.mem = m /\ e.free = g.free /\ e.failed = g.failed /\ e.fault = g.fault
  BY <1>9, <1>10 DEF State
<1>12. RowWritten(g.mem, e.mem, p, first .. last)
  <2>1. ASSUME NEW x \in Frames, NEW j \in Slot, x # p \/ (\A f \in first .. last : IndexOf(f) # j)
        PROVE  m[x][j] = g.mem[x][j]
    BY <1>7, <1>9, <2>1
  <2>2. ASSUME NEW f \in first .. last PROVE m[p][IndexOf(f)] = Present(f)
    BY <1>7, <1>9
  <2> QED  BY <1>11, <2>1, <2>2 DEF RowWritten
<1>13. Ranged(s, r, v, first, last, e, g, p)
  BY <1>2, <1>11, <1>12 DEF Ranged
<1> QED  BY <1>11, <1>13

(* A page table is reached on one way only.                                *)
LEMMA OneTableWay ==
  ASSUME NEW mem \in [Frames -> Table], NEW free \in SUBSET Frames, NEW r, NEW lev,
         Tree(mem, free, r, lev), NEW p \in Frames,
         NEW a \in Slot, NEW b \in Slot, NEW c \in Slot, a # RECURSIVE_SLOT,
         NEW a2 \in Slot, NEW b2 \in Slot, NEW c2 \in Slot, a2 # RECURSIVE_SLOT,
         p = Below(mem, Below(mem, Below(mem, r, a), b), c),
         p = Below(mem, Below(mem, Below(mem, r, a2), b2), c2)
  PROVE  a = a2 /\ b = b2 /\ c = c2
<1>1. p # Unmapped
  BY VmParameters DEF Unmapped
<1>2. PICK d \in Slot : d = 0
  BY Entries
<1>3. Unshared(mem, r, a, b, c, d, a2, b2, c2, d)
  BY OneWay
<1> QED  BY <1>1, <1>3, Zenon DEF Unshared

(* After it the frames of the range are found VIRT_OFFSET further up, and  *)
(* every other page where it was.                                          *)
Shown(s, e, r, F) ==
  \A w \in Ordinary :
    /\ \A f \in F : w = VIRT_OFFSET + f => Translate(e.mem, r, w) = f
    /\ (\A f \in F : w # VIRT_OFFSET + f) => Translate(e.mem, r, w) = Translate(s.mem, r, w)

RangedOn(s, e, r, lev, F) ==
  /\ \E lev2 : /\ Young(e, r, lev2)
               /\ \A x \in Frames : x \notin s.free /\ x \notin F => lev2[x] = lev[x]
  /\ e.free \subseteq s.free
  /\ Shown(s, e, r, F)

(* A mapping loop of setup_page_tables shows its range and nothing else,   *)
(* and keeps the tables a tree (pagetab.c:47 to 73).                       *)
LEMMA MapRangeKeeps ==
  ASSUME NEW s, NEW r, NEW lev, Young(s, r, lev),
         NEW first, NEW last, OneTable(first, last),
         \A f \in first .. last : lev[f] = 5,
         NEW e, e = MapRange(s, r, VIRT_OFFSET + first, first, last), ~e.failed
  PROVE  RangedOn(s, e, r, lev, first .. last)
<1> PICK F : F = first .. last
  OBVIOUS
<1>1. /\ s \in State /\ r \in Frames
      /\ first \in F /\ F \in SUBSET Frames /\ \A f \in F : f \notin RAM /\ VIRT_OFFSET + f \in Ordinary
      /\ Unmapped \notin Frames
  BY YoungFacts, VmParameters DEF OneTable, Unmapped
<1>2. PICK v \in Ordinary : v = VIRT_OFFSET + first
  BY <1>1
<1>3. v \in Page
  BY OrdinaryIndices
<1>4. PICK g \in State, p \in Frames : Ranged(s, r, v, first, last, e, g, p) /\ e \in State
  BY <1>1, <1>2, <1>3, MapRangeIs
<1>5. /\ getPT(s, r, v) = [state |-> g, pt |-> p]
      /\ e.free = g.free /\ ~g.failed /\ e.fault = g.fault /\ RowWritten(g.mem, e.mem, p, F)
  BY <1>4, Zenon DEF Ranged
<1>6. PICK lev2 :
           /\ YoungLater(s, g, r, lev, lev2)
           /\ lev2[p] = 1
           /\ p = Below(g.mem, Below(g.mem, Below(g.mem, r, PML4Index(v)), PDPIndex(v)), PDIndex(v))
  <2>1. LedDown(s, g, r, lev, v, p)
    BY <1>5, GetPTKeeps
  <2> QED  BY <2>1, Zenon DEF LedDown
<1>t. /\ g.mem \in [Frames -> Table] /\ e.mem \in [Frames -> Table] /\ g.free \in SUBSET Frames
      /\ s.free \subseteq RAM
  BY <1>1, <1>4, VmParameters DEF State
<1>7. PICK mem \in [Frames -> Table], mem2 \in [Frames -> Table], free \in SUBSET Frames :
        mem = g.mem /\ mem2 = e.mem /\ free = g.free
  BY <1>t
<1>8. /\ Young(g, r, lev2) /\ Tree(mem, free, r, lev2) /\ free \subseteq s.free /\ s.free \subseteq RAM
      /\ \A x \in Frames : x \notin s.free => lev2[x] = lev[x]
      /\ SameMap(s.mem, g.mem, r)
      /\ lev2 \in [Frames -> 0 .. 5] /\ lev2[r] = 4
  <2>1. /\ Young(g, r, lev2) /\ g.free \subseteq s.free
        /\ \A x \in Frames : x \notin s.free => lev2[x] = lev[x]
        /\ SameMap(s.mem, g.mem, r)
    BY <1>6, Zenon DEF YoungLater
  <2>2. lev2 \in [Frames -> 0 .. 5] /\ lev2[r] = 4
    BY <2>1, YoungFacts
  <2>3. Tree(mem, free, r, lev2)
    BY <1>7, <2>1 DEF Young
  <2> QED  BY <1>t, <1>7, <2>1, <2>2, <2>3
<1>9. Apart(F)
  BY RangeApart
<1>10. \A f \in F : lev2[f] = 5 /\ f \notin free
  BY <1>1, <1>8
<1>11. RowWritten(mem, mem2, p, F)
  BY <1>5, <1>7
<1>12. PICK lev3 : lev3 = Lowered(lev2, F)
  OBVIOUS
<1>13. Tree(mem2, free, r, lev3)
  <2>1. Tree(mem, free, r, lev2) /\ lev2[p] = 1
    BY <1>6, <1>8
  <2> QED  BY <1>9, <1>10, <1>11, <1>12, <2>1, RowGrown
<1>14. Below(e.mem, r, RECURSIVE_SLOT) = Unmapped
  <2>1. r # p /\ Below(mem, r, RECURSIVE_SLOT) = Unmapped
    BY <1>6, <1>7, <1>8 DEF Young
  <2>2. Below(mem2, r, RECURSIVE_SLOT) = Below(mem, r, RECURSIVE_SLOT)
    BY <1>1, <1>9, <1>11, <2>1, RowBelow, Entries
  <2> QED  BY <1>7, <2>1, <2>2
<1>15. Young(e, r, lev3)
  BY <1>4, <1>5, <1>7, <1>8, <1>13, <1>14 DEF Young
<1>16. \A x \in Frames : x \notin s.free /\ x \notin F => lev3[x] = lev[x]
  BY <1>8, <1>12 DEF Lowered
<1>17. ASSUME NEW w \in Ordinary
       PROVE  /\ \A f \in F : w = VIRT_OFFSET + f => Translate(e.mem, r, w) = f
              /\ (\A f \in F : w # VIRT_OFFSET + f) => Translate(e.mem, r, w) = Translate(s.mem, r, w)
  <2>1. PICK a \in Slot, b \in Slot, c \in Slot, d \in Slot :
          a = PML4Index(w) /\ b = PDPIndex(w) /\ c = PDIndex(w) /\ d = PTIndex(w)
    BY OrdinaryIndices
  <2>2. PICK a2 \in Slot, b2 \in Slot, c2 \in Slot, d2 \in Slot :
          a2 = PML4Index(v) /\ b2 = PDPIndex(v) /\ c2 = PDIndex(v) /\ d2 = PTIndex(v)
    BY OrdinaryIndices
  <2>3. a # RECURSIVE_SLOT /\ w = PageOf(a, b, c, d) /\ a2 # RECURSIVE_SLOT
    BY <2>1, <2>2, OrdinaryIndices
  <2>4. /\ \A f \in F : Below(mem, Below(mem, Below(mem, r, a), b), c) = p /\ IndexOf(f) = d
                           => Walk(mem2, r, a, b, c, d) = f
        /\ Below(mem, Below(mem, Below(mem, r, a), b), c) # p \/ (\A f \in F : IndexOf(f) # d)
              => Walk(mem2, r, a, b, c, d) = Walk(mem, r, a, b, c, d)
    <3>1. RowWalks(mem, mem2, r, p, F, a, b, c, d)
      BY <1>6, <1>8, <1>9, <1>11, <2>3, RowTranslates
    <3> QED  BY <3>1, Zenon DEF RowWalks
  <2>5. /\ Translate(e.mem, r, w) = Walk(mem2, r, a, b, c, d)
        /\ Translate(s.mem, r, w) = Walk(s.mem, r, a, b, c, d)
    BY <1>7, <2>1, TranslateWalks, Zenon
  <2>6. Walk(s.mem, r, a, b, c, d) = Walk(mem, r, a, b, c, d)
    BY <1>7, <1>8, <2>3 DEF SameMap
  <2>7. p = Below(mem, Below(mem, Below(mem, r, a2), b2), c2)
    BY <1>6, <1>7, <2>2
  <2>8. ASSUME NEW f \in F, w = VIRT_OFFSET + f PROVE Translate(e.mem, r, w) = f
    <3>1. a = a2 /\ b = b2 /\ c = c2 /\ IndexOf(f) = d
      BY <1>1, <1>2, <2>1, <2>2, <2>8, RangeIndices DEF IndexOf
    <3> QED  BY <2>4, <2>5, <2>7, <3>1
  <2>9. ASSUME \A f \in F : w # VIRT_OFFSET + f PROVE Translate(e.mem, r, w) = Translate(s.mem, r, w)
    <3>1. ASSUME NEW f \in F, Below(mem, Below(mem, Below(mem, r, a), b), c) = p, IndexOf(f) = d PROVE FALSE
      <4>1. a = a2 /\ b = b2 /\ c = c2
        BY <1>8, <2>3, <2>7, <3>1, OneTableWay
      <4>2. PICK x \in Ordinary : x = VIRT_OFFSET + f
        BY <1>1
      <4>3. PML4Index(x) = a /\ PDPIndex(x) = b /\ PDIndex(x) = c /\ PTIndex(x) = d
        BY <1>1, <1>2, <2>2, <3>1, <4>1, <4>2, RangeIndices DEF IndexOf
      <4>4. x = PageOf(a, b, c, d)
        BY <4>3, OrdinaryIndices
      <4> QED  BY <2>3, <2>9, <4>2, <4>4
    <3> QED  BY <2>4, <2>5, <2>6, <3>1
  <2> QED  BY <2>8, <2>9
<1>18. Shown(s, e, r, F)
  BY <1>17 DEF Shown
<1>19. e.free \subseteq s.free
  BY <1>5, <1>7, <1>8
<1> QED  BY <1>15, <1>16, <1>18, <1>19 DEF RangedOn

-----------------------------------------------------------------------------
(* setup_page_tables.                                                      *)

(* The kernel relies on its memory being cleared at boot: mmap does not    *)
(* clear the tables it makes.                                              *)
ClearRam == \A m \in RamAtBoot, f \in RAM : m[f] = Empty

(* The recursive entry is written last and changes no translation.         *)
LEMMA WindowOpened ==
  ASSUME NEW s, NEW r, NEW lev, Young(s, r, lev), r # 0,
         NEW e, e = [s EXCEPT !.mem[r][RECURSIVE_SLOT] = Present(r)]
  PROVE  Good(e, r, lev) /\ SameMap(s.mem, e.mem, r)
<1>1. /\ s \in State /\ r \in Frames /\ lev \in [Frames -> 0 .. 5] /\ lev[r] = 4
      /\ \A x \in s.free : lev[x] = 5
      /\ s.mem \in [Frames -> Table] /\ s.free \in SUBSET Frames /\ Unmapped \notin Frames
  BY YoungFacts, VmParameters DEF Unmapped
<1>2. PICK R \in Slot : R = RECURSIVE_SLOT
  BY Entries
<1>3. /\ e \in State /\ e.mem = [s.mem EXCEPT ![r][R] = Present(r)]
      /\ e.free = s.free /\ e.failed = s.failed /\ e.fault = s.fault
  BY <1>1, <1>2, Linked
<1>4. PICK mem \in [Frames -> Table], mem2 \in [Frames -> Table], free \in SUBSET Frames :
        mem = s.mem /\ mem2 = e.mem /\ free = s.free
  BY <1>1, <1>3 DEF State
<1>5. \A x \in Frames, j \in Slot :
        /\ Below(mem2, x, j) = IF x = r /\ j = R THEN r ELSE Below(mem, x, j)
        /\ mem2[x][j] = IF x = r /\ j = R THEN Present(r) ELSE mem[x][j]
  <2>1. mem2 = [mem EXCEPT ![r][R] = Present(r)]
    BY <1>3, <1>4
  <2>2. \A x \in Frames, j \in Slot : mem2[x][j] = IF x = r /\ j = R THEN Present(r) ELSE mem[x][j]
    BY <1>1, <2>1, Written
  <2>3. \A x \in Frames, j \in Slot : Below(mem2, x, j) = IF x = r /\ j = R THEN r ELSE Below(mem, x, j)
    <3> SUFFICES ASSUME NEW x \in Frames, NEW j \in Slot
                 PROVE  Below(mem2, x, j) = IF x = r /\ j = R THEN r ELSE Below(mem, x, j)
      OBVIOUS
    <3>1. /\ Below(mem2, x, j) = IF mem2[x][j].present THEN mem2[x][j].frame ELSE Unmapped
          /\ Below(mem, x, j) = IF mem[x][j].present THEN mem[x][j].frame ELSE Unmapped
      BY BelowIs
    <3>2. Present(r).frame = r /\ Present(r).present = TRUE
      BY DEF Present
    <3>3. CASE x = r /\ j = R
      <4>1. mem2[x][j] = Present(r)
        BY <2>2, <3>3
      <4> QED  BY <3>1, <3>2, <3>3, <4>1, Zenon
    <3>4. CASE ~(x = r /\ j = R)
      <4>1. mem2[x][j] = mem[x][j]
        BY <2>2, <3>4
      <4> QED  BY <3>1, <3>4, <4>1, Zenon
    <3> QED  BY <3>3, <3>4
  <2> QED  BY <2>2, <2>3, Zenon
<1>6. Tree(mem, free, r, lev)
  BY <1>4 DEF Young
<1>7. Clean(mem2, free, lev)
  <2>1. ASSUME NEW x \in Frames, lev[x] \in 1 .. 4 \/ x \in free PROVE Tidy(mem2, x)
    <3>1. Tidy(mem, x)
      BY <1>6, <2>1 DEF Tree, Clean
    <3>2. Present(r).frame = r /\ Present(r).present = TRUE
      BY DEF Present
    <3>3. ASSUME NEW j \in Slot PROVE mem2[x][j].present <=> mem2[x][j].frame # 0
      <4>1. CASE x = r /\ j = R
        <5>1. mem2[x][j] = Present(r)
          BY <1>5, <4>1
        <5> QED  BY <3>2, <5>1, Zenon
      <4>2. CASE ~(x = r /\ j = R)
        <5>1. mem2[x][j] = mem[x][j]
          BY <1>5, <4>2
        <5> QED  BY <3>1, <5>1, Zenon DEF Tidy
      <4> QED  BY <4>1, <4>2
    <3> QED  BY <3>3, Zenon DEF Tidy
  <2>2. ASSUME NEW g \in free, NEW j \in Slot PROVE Below(mem2, g, j) = Unmapped
    <3>1. g \in Frames /\ g # r
      BY <1>1, <1>4
    <3>2. Below(mem, g, j) = Unmapped
      BY <1>6 DEF Tree, Clean
    <3> QED  BY <1>5, <3>1, <3>2
  <2> QED  BY <2>1, <2>2 DEF Clean
<1>8. Descends(mem2, r, lev)
  <2> SUFFICES ASSUME NEW x \in Frames, NEW j \in Slot, lev[x] \in 1 .. 4,
                      Below(mem2, x, j) # Unmapped, ~Window(r, x, j)
               PROVE  lev[Below(mem2, x, j)] = lev[x] - 1
    BY DEF Descends
  <2>1. Below(mem2, x, j) = Below(mem, x, j)
    BY <1>2, <1>5 DEF Window
  <2> QED  BY <1>6, <2>1 DEF Tree, Descends
<1>9. Single(mem2, r, lev)
  <2> SUFFICES ASSUME NEW x \in Frames, NEW y \in Frames, NEW i \in Slot, NEW j \in Slot,
                      lev[x] \in 1 .. 4, lev[y] \in 1 .. 4,
                      Below(mem2, x, i) # Unmapped, Below(mem2, x, i) = Below(mem2, y, j),
                      ~Window(r, x, i), ~Window(r, y, j)
               PROVE  x = y /\ i = j
    BY DEF Single
  <2>1. Below(mem2, x, i) = Below(mem, x, i) /\ Below(mem2, y, j) = Below(mem, y, j)
    BY <1>2, <1>5 DEF Window
  <2> QED  BY <1>6, <2>1 DEF Tree, Single
<1>10. Tree(mem2, free, r, lev)
  BY <1>6, <1>7, <1>8, <1>9 DEF Tree, Levels
<1>11. Below(mem2, r, R) = r
  BY <1>1, <1>5
<1>12. Good(e, r, lev)
  BY <1>2, <1>3, <1>4, <1>10, <1>11 DEF Good, Young
<1>13. ASSUME NEW a \in Slot, NEW b \in Slot, NEW c \in Slot, NEW d \in Slot, a # RECURSIVE_SLOT
       PROVE  Walk(mem2, r, a, b, c, d) = Walk(mem, r, a, b, c, d)
  <2>1. PICK t3 : t3 = Below(mem, r, a)
    OBVIOUS
  <2>2. PICK t2 : t2 = Below(mem, t3, b)
    OBVIOUS
  <2>3. PICK t1 : t1 = Below(mem, t2, c)
    OBVIOUS
  <2>4. OnWay(lev, t3, t2, t1, Below(mem, t1, d))
    BY <1>6, <1>13, <2>1, <2>2, <2>3, OnTheWay, Zenon
  <2>5. /\ t3 = Unmapped \/ (t3 \in Frames /\ t3 # r)
        /\ t2 = Unmapped \/ (t2 \in Frames /\ t2 # r)
        /\ t1 = Unmapped \/ (t1 \in Frames /\ t1 # r)
    BY <1>1, <2>4 DEF OnWay
  <2>6. \A j \in Slot : Below(mem, Unmapped, j) = Unmapped /\ Below(mem2, Unmapped, j) = Unmapped
    BY BelowType
  <2>7. Below(mem2, r, a) = t3
    BY <1>1, <1>2, <1>5, <1>13, <2>1
  <2>8. Below(mem2, t3, b) = t2
    BY <1>5, <2>2, <2>5, <2>6
  <2>9. Below(mem2, t2, c) = t1
    BY <1>5, <2>3, <2>5, <2>6
  <2>10. Below(mem2, t1, d) = Below(mem, t1, d)
    BY <1>5, <2>5, <2>6
  <2> QED  BY <2>1, <2>2, <2>3, <2>7, <2>8, <2>9, <2>10, Zenon DEF Walk
<1>14. SameMap(s.mem, e.mem, r)
  BY <1>4, <1>13 DEF SameMap
<1> QED  BY <1>12, <1>14

(* What setup_page_tables leaves behind, step by step.                     *)
SetUp(s, r, clear, kernel, video, e) ==
  /\ r = Fresh(s)
  /\ clear = [Taken(s) EXCEPT !.mem[r] = Empty]
  /\ kernel = MapRange(clear, r, VIRT_OFFSET + physbase, physbase, physfree)
  /\ video = MapRange(kernel, r, VIRT_OFFSET + Video, Video, Video)
  /\ e = [video EXCEPT !.mem[r][RECURSIVE_SLOT] = Present(r)]

SetUpTypes(s, r, clear, kernel, video, e) ==
  /\ r \in Frames /\ clear \in State /\ kernel \in State /\ video \in State /\ e \in State
  /\ Cleared(Taken(s), clear, r)
  /\ (clear.failed => kernel.failed) /\ (kernel.failed => video.failed)
  /\ e.failed = video.failed
  /\ e.fault = s.fault

(* Those steps keep the types whatever memory held at boot.                *)
LEMMA SetUpType ==
  ASSUME NEW s \in State, NEW r, NEW clear, NEW kernel, NEW video, NEW e,
         SetUp(s, r, clear, kernel, video, e)
  PROVE  SetUpTypes(s, r, clear, kernel, video, e)
<1>1. /\ r = Fresh(s)
      /\ clear = [Taken(s) EXCEPT !.mem[r] = Empty]
      /\ kernel = MapRange(clear, r, VIRT_OFFSET + physbase, physbase, physfree)
      /\ video = MapRange(kernel, r, VIRT_OFFSET + Video, Video, Video)
      /\ e = [video EXCEPT !.mem[r][RECURSIVE_SLOT] = Present(r)]
  BY Zenon DEF SetUp
<1>2. r \in Frames /\ Taken(s) \in State /\ Taken(s).fault = s.fault
  BY <1>1, FreshIs
<1>3. clear \in State /\ Cleared(Taken(s), clear, r)
  BY <1>1, <1>2, ClearedRow
<1>4. clear.fault = s.fault
  BY <1>2, <1>3 DEF Cleared
<1>5. /\ OneTable(physbase, physfree) /\ OneTable(Video, Video)
      /\ VIRT_OFFSET + physbase \in Page /\ VIRT_OFFSET + Video \in Page
  BY RangesFit, VmParameters DEF OneTable, Ordinary
<1>6. kernel \in State /\ \E g \in State, p \in Frames :
        Ranged(clear, r, VIRT_OFFSET + physbase, physbase, physfree, kernel, g, p)
  BY <1>1, <1>2, <1>3, <1>5, MapRangeIs
<1>7. kernel \in State /\ (clear.failed => kernel.failed) /\ kernel.fault = clear.fault
  BY <1>6, Zenon DEF Ranged
<1>8. video \in State /\ \E g \in State, p \in Frames :
        Ranged(kernel, r, VIRT_OFFSET + Video, Video, Video, video, g, p)
  BY <1>1, <1>2, <1>5, <1>7, MapRangeIs
<1>9. video \in State /\ (kernel.failed => video.failed) /\ video.fault = kernel.fault
  BY <1>8, Zenon DEF Ranged
<1>10. e \in State /\ e.failed = video.failed /\ e.fault = video.fault
  BY <1>1, <1>2, <1>9, Entries, Linked
<1> QED  BY <1>2, <1>3, <1>4, <1>7, <1>9, <1>10 DEF SetUpTypes

(* Where a page is after setup_page_tables.                                *)
AtBoot(w) ==
  IF w - VIRT_OFFSET \in (physbase .. physfree) \cup {Video} THEN w - VIRT_OFFSET ELSE Unmapped

Booted(e, r) ==
  /\ \E lev : Good(e, r, lev)
  /\ \A w \in Ordinary : Translate(e.mem, r, w) = AtBoot(w)

(* The cleared PML4 is a tree without branches.                            *)
LEMMA ClearTree ==
  ASSUME NEW s \in State, \A x \in RAM : s.mem[x] = Empty, s.free = RAM, ~s.fault,
         NEW r \in RAM, r = Fresh(s),
         NEW clear \in State, Cleared(Taken(s), clear, r),
         NEW lev, lev = [x \in Frames |-> IF x = r THEN 4 ELSE 5]
  PROVE  /\ Young(clear, r, lev)
         /\ \A w \in Ordinary : Translate(clear.mem, r, w) = Unmapped
<1>1. /\ r \in Frames /\ RAM \subseteq Frames /\ Taken(s).free = RAM \ {r} /\ Taken(s).mem = s.mem
      /\ Taken(s).fault = s.fault
  BY FreshIs, VmParameters
<1>2. /\ clear.free = RAM \ {r} /\ ~clear.fault
      /\ \A x \in RAM : clear.mem[x] = Empty
  BY <1>1 DEF Cleared
<1>3. PICK mem \in [Frames -> Table] : mem = clear.mem
  BY DEF State
<1>4. \A x \in RAM, j \in Slot : mem[x][j].frame = 0 /\ ~mem[x][j].present
  BY <1>2, <1>3, EmptyIs
<1>5. \A x \in RAM, j \in Slot : Below(mem, x, j) = Unmapped
  BY <1>1, <1>4, BelowIs
<1>6. /\ lev \in [Frames -> 0 .. 5] /\ \A x \in Frames : lev[x] = IF x = r THEN 4 ELSE 5
  OBVIOUS
<1>7. Levels(mem, RAM \ {r}, r, lev)
  BY <1>1, <1>6 DEF Levels
<1>8. Clean(mem, RAM \ {r}, lev)
  <2>1. \A x \in RAM : Tidy(mem, x)
    BY <1>4, Zenon DEF Tidy
  <2> QED  BY <1>1, <1>5, <1>6, <2>1 DEF Clean
<1>9. Descends(mem, r, lev) /\ Single(mem, r, lev)
  BY <1>5, <1>6 DEF Descends, Single
<1>10. Tree(mem, RAM \ {r}, r, lev)
  BY <1>7, <1>8, <1>9 DEF Tree
<1>11. Young(clear, r, lev)
  BY <1>2, <1>3, <1>5, <1>10, Entries DEF Young
<1>12. ASSUME NEW w \in Ordinary PROVE Translate(mem, r, w) = Unmapped
  <2>1. PICK a \in Slot, b \in Slot, c \in Slot, d \in Slot :
          a = PML4Index(w) /\ b = PDPIndex(w) /\ c = PDIndex(w) /\ d = PTIndex(w)
    BY OrdinaryIndices
  <2>2. Below(mem, r, a) = Unmapped
    BY <1>5
  <2>3. \A j \in Slot : Below(mem, Unmapped, j) = Unmapped
    BY BelowType
  <2> QED  BY <2>1, <2>2, <2>3, Zenon DEF Translate
<1> QED  BY <1>3, <1>11, <1>12

(* setup_page_tables builds a tree that shows the image, the bitmap and    *)
(* the screen, and nothing else (pagetab.c:31 to 112).                     *)
LEMMA SetUpBoots ==
  ASSUME NEW s \in State, \A x \in RAM : s.mem[x] = Empty, s.free = RAM, ~s.failed, ~s.fault,
         NEW r, NEW clear, NEW kernel, NEW video, NEW e,
         SetUp(s, r, clear, kernel, video, e), ~e.failed
  PROVE  Booted(e, r)
<1>1. /\ r = Fresh(s)
      /\ kernel = MapRange(clear, r, VIRT_OFFSET + physbase, physbase, physfree)
      /\ video = MapRange(kernel, r, VIRT_OFFSET + Video, Video, Video)
      /\ e = [video EXCEPT !.mem[r][RECURSIVE_SLOT] = Present(r)]
  BY Zenon DEF SetUp
<1>2. SetUpTypes(s, r, clear, kernel, video, e)
  BY SetUpType
<1>3. /\ r \in Frames /\ clear \in State /\ kernel \in State /\ video \in State /\ e \in State
      /\ Cleared(Taken(s), clear, r)
      /\ ~clear.failed /\ ~kernel.failed /\ ~video.failed
  BY <1>2, Zenon DEF SetUpTypes
<1>4. r \in RAM /\ r # 0
  <2>1. Taken(s).failed = (s.failed \/ s.free = {}) /\ clear.failed = Taken(s).failed
    BY <1>3, FreshIs DEF Cleared
  <2>2. s.free # {}
    BY <1>3, <2>1, Zenon
  <2> QED  BY <1>1, <2>2, FreshIs, VmParameters
<1>5. PICK lev0 : lev0 = [x \in Frames |-> IF x = r THEN 4 ELSE 5]
  OBVIOUS
<1>6. /\ Young(clear, r, lev0)
      /\ \A w \in Ordinary : Translate(clear.mem, r, w) = Unmapped
  BY <1>1, <1>3, <1>4, <1>5, ClearTree
<1>7. OneTable(physbase, physfree) /\ OneTable(Video, Video)
  BY RangesFit
<1>8. \A f \in physbase .. physfree : lev0[f] = 5
  BY <1>4, <1>5, <1>7 DEF OneTable
<1>9. RangedOn(clear, kernel, r, lev0, physbase .. physfree)
  BY <1>1, <1>3, <1>6, <1>7, <1>8, MapRangeKeeps
<1>10. PICK lev1 : Young(kernel, r, lev1)
                   /\ \A x \in Frames : x \notin clear.free /\ x \notin physbase .. physfree => lev1[x] = lev0[x]
  BY <1>9, Zenon DEF RangedOn
<1>11. Shown(clear, kernel, r, physbase .. physfree)
  BY <1>9 DEF RangedOn
<1>12. Video \in Frames /\ Video \notin RAM /\ Video \notin physbase .. physfree /\ Video .. Video = {Video}
  BY VmParameters
<1>13. \A f \in Video .. Video : lev1[f] = 5
  <2>1. clear.free \subseteq RAM
    BY <1>3 DEF State
  <2>2. lev0[Video] = 5
    BY <1>4, <1>5, <1>12
  <2> QED  BY <1>10, <1>12, <2>1, <2>2
<1>14. RangedOn(kernel, video, r, lev1, Video .. Video)
  BY <1>1, <1>3, <1>7, <1>10, <1>13, MapRangeKeeps
<1>15. PICK lev2 : Young(video, r, lev2)
  BY <1>14, Zenon DEF RangedOn
<1>16. Shown(kernel, video, r, {Video})
  BY <1>12, <1>14 DEF RangedOn
<1>17. Good(e, r, lev2) /\ SameMap(video.mem, e.mem, r)
  BY <1>1, <1>4, <1>15, WindowOpened, Zenon
<1>18. ASSUME NEW w \in Ordinary PROVE Translate(e.mem, r, w) = AtBoot(w)
  <2>1. Translate(e.mem, r, w) = Translate(video.mem, r, w)
    <3>1. PICK a \in Slot, b \in Slot, c \in Slot, d \in Slot :
            /\ a = PML4Index(w) /\ b = PDPIndex(w) /\ c = PDIndex(w) /\ d = PTIndex(w)
            /\ a # RECURSIVE_SLOT
      BY OrdinaryIndices
    <3>2. Walk(e.mem, r, a, b, c, d) = Walk(video.mem, r, a, b, c, d)
      BY <1>17, <3>1 DEF SameMap
    <3> QED  BY <3>1, <3>2, TranslateWalks, Zenon
  <2>2. /\ w = VIRT_OFFSET + Video => Translate(video.mem, r, w) = Video
        /\ w # VIRT_OFFSET + Video => Translate(video.mem, r, w) = Translate(kernel.mem, r, w)
    BY <1>16 DEF Shown
  <2>3. /\ \A f \in physbase .. physfree : w = VIRT_OFFSET + f => Translate(kernel.mem, r, w) = f
        /\ (\A f \in physbase .. physfree : w # VIRT_OFFSET + f) => Translate(kernel.mem, r, w) = Unmapped
    BY <1>6, <1>11 DEF Shown
  <2>4. w \in Nat /\ VIRT_OFFSET \in Nat /\ Video \in Nat /\ physbase \in Nat /\ physfree \in Nat
    BY VmParameters, OrdinaryIndices, PageOfIndices
  <2>5. CASE w = VIRT_OFFSET + Video
    BY <2>1, <2>2, <2>4, <2>5 DEF AtBoot
  <2>6. CASE w # VIRT_OFFSET + Video /\ w - VIRT_OFFSET \in physbase .. physfree
    <3>1. PICK f \in physbase .. physfree : f = w - VIRT_OFFSET
      BY <2>6
    <3>2. w = VIRT_OFFSET + f
      BY <2>4, <3>1
    <3> QED  BY <2>1, <2>2, <2>3, <2>6, <3>1, <3>2 DEF AtBoot
  <2>7. CASE w # VIRT_OFFSET + Video /\ w - VIRT_OFFSET \notin physbase .. physfree
    <3>1. \A f \in physbase .. physfree : w # VIRT_OFFSET + f
      BY <2>4, <2>7
    <3>2. w - VIRT_OFFSET # Video
      BY <2>4, <2>7
    <3> QED  BY <2>1, <2>2, <2>3, <2>7, <3>1, <3>2 DEF AtBoot
  <2> QED  BY <2>5, <2>6, <2>7
<1> QED  BY <1>17, <1>18 DEF Booted

-----------------------------------------------------------------------------
(* The invariant.                                                          *)

Typed ==
  /\ vm \in State
  /\ cr3 \in Frames \cup {Unmapped}
  /\ kernelfree \in physfree .. KERNEL_LIMIT

(* Until setup_page_tables has run, nothing has happened.                  *)
Untouched ==
  cr3 = Unmapped => /\ vm.mem \in RamAtBoot /\ vm.free = RAM /\ ~vm.failed /\ ~vm.fault
                    /\ regions = {}

(* The pages of the regions lie between the image and kernelfree, and      *)
(* belong to one region each.                                              *)
RegionPages ==
  /\ \A q \in regions : \A p \in PagesOf(q) :
       \E f \in physfree .. kernelfree - 1 : p = VIRT_OFFSET + f
  /\ \A q, u \in regions : q # u => PagesOf(q) \cap PagesOf(u) = {}

Fixed == (physbase .. physfree - 1) \cup {Video}

(* What holds until memory runs out.                                       *)
Working ==
  /\ \E lev : Good(vm, cr3, lev)
  /\ \A f \in Fixed : FrameOf(VIRT_OFFSET + f) = f
  /\ \A p \in HeldPages : FrameOf(p) \in RAM

VInv == Typed /\ Untouched /\ RegionPages /\ (cr3 # Unmapped /\ ~vm.failed => Working)

(* The constants as the proofs use them.                                   *)
LEMMA Parameters ==
  /\ VIRT_OFFSET \in Nat /\ physbase \in Nat /\ physfree \in Nat /\ KERNEL_LIMIT \in Nat /\ Video \in Nat
  /\ Video < physbase /\ physbase <= physfree /\ physfree < KERNEL_LIMIT
  /\ PAGE_SIZE \in Nat \ {0} /\ Sizes \subseteq Nat
  /\ \A f \in 0 .. KERNEL_LIMIT : VIRT_OFFSET + f \in Ordinary
  /\ Unmapped \notin Frames
BY VmParameters, VmLayout DEF Unmapped

(* A held page is a page of a region.                                      *)
LEMMA HeldPagesAre ==
  \A p : p \in HeldPages <=> \E q \in regions : p \in PagesOf(q)
BY Zenon DEF HeldPages

(* A size needs no more pages than kmalloc goes through.                   *)
LEMMA CountsSuffice ==
  ASSUME NEW size \in Nat, NEW i \in 0 .. (size - 1) \div PAGE_SIZE
  PROVE  i <= size \div PAGE_SIZE /\ size \div PAGE_SIZE \in Nat
<1>1. PICK n \in Nat \ {0} : n = PAGE_SIZE
  BY Parameters
<1>2. PICK x \in Nat, a \in 0 .. n - 1 : x = size \div n /\ size = x * n + a
  BY Split
<1>3. CASE size = 0
  <2>1. (0 - 1) \div n < 0
    BY <1>1
  <2> QED  BY <1>1, <1>2, <1>3, <2>1
<1>4. CASE size # 0
  <2>1. PICK m \in Nat : m = size - 1
    BY <1>4
  <2>2. m \div n <= size \div n
    BY <2>1, DivideMonotone
  <2> QED  BY <1>1, <1>2, <2>1, <2>2
<1> QED  BY <1>3, <1>4

-----------------------------------------------------------------------------
(* What the properties say follows from the invariant.                     *)

(* In a tree two pages never have the same frame.                          *)
LEMMA InjectivePages ==
  ASSUME NEW s, NEW r, NEW lev, Good(s, r, lev),
         NEW v \in Ordinary, NEW w \in Ordinary,
         Translate(s.mem, r, v) = Translate(s.mem, r, w), Translate(s.mem, r, v) # Unmapped
  PROVE  v = w
<1>1. PICK mem \in [Frames -> Table], free \in SUBSET Frames : mem = s.mem /\ free = s.free
  BY GoodFacts
<1>2. Tree(mem, free, r, lev)
  BY <1>1 DEF Good
<1>3. PICK a \in Slot, b \in Slot, c \in Slot, d \in Slot :
        a = PML4Index(v) /\ b = PDPIndex(v) /\ c = PDIndex(v) /\ d = PTIndex(v)
  BY OrdinaryIndices
<1>4. PICK a2 \in Slot, b2 \in Slot, c2 \in Slot, d2 \in Slot :
        a2 = PML4Index(w) /\ b2 = PDPIndex(w) /\ c2 = PDIndex(w) /\ d2 = PTIndex(w)
  BY OrdinaryIndices
<1>5. a # RECURSIVE_SLOT /\ a2 # RECURSIVE_SLOT /\ v = PageOf(a, b, c, d) /\ w = PageOf(a2, b2, c2, d2)
  BY <1>3, <1>4, OrdinaryIndices
<1>6. /\ Translate(mem, r, v) = Below(mem, Below(mem, Below(mem, Below(mem, r, a), b), c), d)
      /\ Translate(mem, r, w) = Below(mem, Below(mem, Below(mem, Below(mem, r, a2), b2), c2), d2)
  BY <1>3, <1>4, Zenon DEF Translate
<1>7. Unshared(mem, r, a, b, c, d, a2, b2, c2, d2)
  BY <1>2, <1>5, OneWay
<1>8. a = a2 /\ b = b2 /\ c = c2 /\ d = d2
  BY <1>1, <1>6, <1>7, Zenon DEF Unshared
<1> QED  BY <1>5, <1>8

(* What kmalloc has returned is private: the pages of the regions are      *)
(* apart, and in a tree two pages never have the same frame.               *)
LEMMA RegionsFollow == VInv => RegionsArePrivate
<1> SUFFICES ASSUME VInv, ~vm.failed PROVE RegionsArePrivate
  BY DEF RegionsArePrivate
<1>1. Typed /\ Untouched /\ RegionPages /\ (cr3 # Unmapped => Working)
  BY DEF VInv
<1>2. CASE cr3 = Unmapped
  <2>1. regions = {}
    BY <1>1, <1>2 DEF Untouched
  <2>2. HeldPages = {}
    BY <2>1 DEF HeldPages
  <2> QED  BY <2>1, <2>2 DEF RegionsArePrivate
<1>3. CASE cr3 # Unmapped
  <2>1. Working
    BY <1>1, <1>3
  <2>2. \A p \in HeldPages : FrameOf(p) \in RAM
    BY <2>1 DEF Working
  <2>3. \A p \in HeldPages : p \in Ordinary
    <3> SUFFICES ASSUME NEW p \in HeldPages PROVE p \in Ordinary
      OBVIOUS
    <3>1. PICK q \in regions : p \in PagesOf(q)
      BY HeldPagesAre
    <3>2. PICK f \in physfree .. kernelfree - 1 : p = VIRT_OFFSET + f
      BY <1>1, <3>1 DEF RegionPages
    <3>3. f \in 0 .. KERNEL_LIMIT
      BY <1>1, Parameters DEF Typed
    <3> QED  BY <3>2, <3>3, Parameters
  <2>4. PICK lev : Good(vm, cr3, lev)
    BY <2>1 DEF Working
  <2>5. ASSUME NEW p \in HeldPages, NEW q \in HeldPages, FrameOf(p) = FrameOf(q) PROVE p = q
    <3>1. Translate(vm.mem, cr3, p) = Translate(vm.mem, cr3, q)
      BY <2>5 DEF FrameOf
    <3>2. Translate(vm.mem, cr3, p) # Unmapped
      BY <2>2, VmParameters DEF FrameOf, Unmapped
    <3> QED  BY <2>3, <2>4, <3>1, <3>2, InjectivePages
  <2>6. \A q, u \in regions : q # u => PagesOf(q) \cap PagesOf(u) = {}
    BY <1>1 DEF RegionPages
  <2> QED  BY <2>2, <2>5, <2>6 DEF RegionsArePrivate
<1> QED  BY <1>2, <1>3

(* The kernel stays mapped.                                                *)
LEMMA KernelFollows == VInv => KernelStaysMapped
<1> SUFFICES ASSUME VInv, cr3 # Unmapped, ~vm.failed PROVE KernelStaysMapped
  BY DEF KernelStaysMapped
<1>1. Working
  BY DEF VInv
<1>2. ~vm.fault
  BY <1>1 DEF Working, Good
<1>3. \A f \in Fixed : FrameOf(VIRT_OFFSET + f) = f
  BY <1>1 DEF Working
<1> QED  BY <1>2, <1>3 DEF KernelStaysMapped, Fixed

(* The entries of a level of the tree.                                     *)
LEMMA ChildrenAre ==
  ASSUME NEW lev, Good(vm, cr3, lev), NEW ts \in SUBSET Frames, NEW n \in 1 .. 4,
         \A t \in ts : lev[t] = n
  PROVE  \A e \in Children(ts) :
           /\ e[1] \in ts /\ e[2] \in Slot /\ e = <<e[1], e[2]>>
           /\ ~Window(cr3, e[1], e[2])
           /\ Frame(e) = Below(vm.mem, e[1], e[2]) /\ Frame(e) \in Frames
           /\ lev[Frame(e)] = n - 1
<1> SUFFICES ASSUME NEW e \in Children(ts)
             PROVE  /\ e[1] \in ts /\ e[2] \in Slot /\ e = <<e[1], e[2]>>
                    /\ ~Window(cr3, e[1], e[2])
                    /\ Frame(e) = Below(vm.mem, e[1], e[2]) /\ Frame(e) \in Frames
                    /\ lev[Frame(e)] = n - 1
  OBVIOUS
<1>1. e \in ts \X Slot /\ vm.mem[e[1]][e[2]].present /\ e # <<cr3, RECURSIVE_SLOT>>
  BY DEF Children
<1>2. PICK t \in ts, i \in Slot : e = <<t, i>>
  BY <1>1
<1>3. e[1] = t /\ e[2] = i /\ ~Window(cr3, t, i)
  BY <1>1, <1>2 DEF Window
<1>4. vm.mem \in [Frames -> Table] /\ Tree(vm.mem, vm.free, cr3, lev)
  BY GoodFacts DEF Good
<1>5. /\ Below(vm.mem, t, i) = vm.mem[t][i].frame /\ vm.mem[t][i].frame \in Frames
      /\ Below(vm.mem, t, i) # Unmapped
  BY <1>1, <1>3, <1>4, BelowIs, Parameters
<1>6. lev[Below(vm.mem, t, i)] = n - 1
  BY <1>3, <1>4, <1>5 DEF Tree, Descends
<1> QED  BY <1>2, <1>3, <1>5, <1>6 DEF Frame

-----------------------------------------------------------------------------
(* The tree as the property counts it.                                     *)

(* An entry below a table of a level is among its children.                *)
LEMMA ChildIs ==
  ASSUME NEW ts \in SUBSET Frames, vm.mem \in [Frames -> Table],
         NEW t \in ts, NEW i \in Slot, Below(vm.mem, t, i) # Unmapped, ~Window(cr3, t, i)
  PROVE  <<t, i>> \in Children(ts) /\ Below(vm.mem, t, i) \in Targets(Children(ts))
<1>1. vm.mem[t][i].present /\ Below(vm.mem, t, i) = vm.mem[t][i].frame
  BY BelowIs
<1>2. <<t, i>> \in ts \X Slot /\ <<t, i>>[1] = t /\ <<t, i>>[2] = i /\ <<t, i>> # <<cr3, RECURSIVE_SLOT>>
  BY DEF Window
<1>3. <<t, i>> \in Children(ts)
  BY <1>1, <1>2 DEF Children
<1>4. Frame(<<t, i>>) = Below(vm.mem, t, i)
  BY <1>1, <1>2 DEF Frame
<1> QED  BY <1>3, <1>4 DEF Targets

(* What the entries of the tree have in common.                            *)
IsBranch(lev, e) ==
  /\ e[1] \in Frames /\ e[2] \in Slot /\ e = <<e[1], e[2]>>
  /\ ~Window(cr3, e[1], e[2]) /\ lev[e[1]] \in 1 .. 4
  /\ Frame(e) = Below(vm.mem, e[1], e[2]) /\ Frame(e) \in Frames
  /\ lev[Frame(e)] \in 0 .. 3

(* The children of one level are branches to the next.                     *)
LEMMA LevelOfChildren ==
  ASSUME NEW lev, Good(vm, cr3, lev), NEW ts \in SUBSET Frames, NEW n \in 1 .. 4,
         \A t \in ts : lev[t] = n
  PROVE  /\ \A e \in Children(ts) : IsBranch(lev, e)
         /\ Targets(Children(ts)) \in SUBSET Frames
         /\ \A t \in Targets(Children(ts)) : lev[t] = n - 1
<1>1. \A e \in Children(ts) :
        /\ e[1] \in ts /\ e[2] \in Slot /\ e = <<e[1], e[2]>>
        /\ ~Window(cr3, e[1], e[2])
        /\ Frame(e) = Below(vm.mem, e[1], e[2]) /\ Frame(e) \in Frames
        /\ lev[Frame(e)] = n - 1
  BY ChildrenAre
<1>2. \A e \in Children(ts) : IsBranch(lev, e)
  BY <1>1 DEF IsBranch
<1>3. ASSUME NEW t \in Targets(Children(ts)) PROVE t \in Frames /\ lev[t] = n - 1
  <2>1. PICK e \in Children(ts) : t = Frame(e)
    BY DEF Targets
  <2> QED  BY <1>1, <2>1
<1> QED  BY <1>2, <1>3

(* In a tree one entry leads to a frame.                                   *)
LEMMA SingleEntry ==
  ASSUME NEW mem, NEW r, NEW lev, Single(mem, r, lev),
         NEW t \in Frames, NEW u \in Frames, NEW i \in Slot, NEW j \in Slot,
         lev[t] \in 1 .. 4, lev[u] \in 1 .. 4,
         Below(mem, t, i) # Unmapped, Below(mem, t, i) = Below(mem, u, j),
         ~Window(r, t, i), ~Window(r, u, j)
  PROVE  t = u /\ i = j
BY DEF Single

(* The tables are the tree that the levels describe.                       *)
LEMMA TreeFollows == VInv => TablesAreATree
<1> SUFFICES ASSUME VInv, Up, ~vm.failed PROVE TablesAreATree
  BY DEF TablesAreATree
<1>1. Typed /\ Working
  BY DEF VInv, Up
<1>2. PICK lev : Good(vm, cr3, lev)
  BY <1>1 DEF Working
<1>3. /\ vm.mem \in [Frames -> Table] /\ vm.free \in SUBSET Frames
      /\ cr3 \in Frames /\ lev[cr3] = 4
      /\ \A f \in vm.free : lev[f] = 5
      /\ Tree(vm.mem, vm.free, cr3, lev)
  <2>1. Tree(vm.mem, vm.free, cr3, lev)
    BY <1>2 DEF Good
  <2>2. /\ vm.mem \in [Frames -> Table] /\ vm.free \in SUBSET Frames
        /\ cr3 \in Frames /\ lev[cr3] = 4
        /\ \A f \in vm.free : lev[f] = 5
    BY <1>2, GoodFacts
  <2> QED  BY <2>1, <2>2
<1>4. /\ \A e \in PDPEntries : IsBranch(lev, e)
      /\ Targets(PDPEntries) \in SUBSET Frames /\ \A t \in Targets(PDPEntries) : lev[t] = 3
  <2>1. {cr3} \in SUBSET Frames /\ \A t \in {cr3} : lev[t] = 4
    BY <1>3
  <2>2. /\ \A e \in Children({cr3}) : IsBranch(lev, e)
        /\ Targets(Children({cr3})) \in SUBSET Frames
        /\ \A t \in Targets(Children({cr3})) : lev[t] = 4 - 1
    BY <1>2, <2>1, LevelOfChildren
  <2> QED  BY <2>2 DEF PDPEntries
<1>5. /\ \A e \in PDEntries : IsBranch(lev, e)
      /\ Targets(PDEntries) \in SUBSET Frames /\ \A t \in Targets(PDEntries) : lev[t] = 2
  <2>1. PICK ts \in SUBSET Frames : ts = Targets(PDPEntries)
    BY <1>4
  <2>2. /\ \A e \in Children(ts) : IsBranch(lev, e)
        /\ Targets(Children(ts)) \in SUBSET Frames
        /\ \A t \in Targets(Children(ts)) : lev[t] = 3 - 1
    BY <1>2, <1>4, <2>1, LevelOfChildren
  <2> QED  BY <2>1, <2>2 DEF PDEntries
<1>6. /\ \A e \in PTEntries : IsBranch(lev, e)
      /\ Targets(PTEntries) \in SUBSET Frames /\ \A t \in Targets(PTEntries) : lev[t] = 1
  <2>1. PICK ts \in SUBSET Frames : ts = Targets(PDEntries)
    BY <1>5
  <2>2. /\ \A e \in Children(ts) : IsBranch(lev, e)
        /\ Targets(Children(ts)) \in SUBSET Frames
        /\ \A t \in Targets(Children(ts)) : lev[t] = 2 - 1
    BY <1>2, <1>5, <2>1, LevelOfChildren
  <2> QED  BY <2>1, <2>2 DEF PTEntries
<1>7. \A e \in PageEntries : IsBranch(lev, e)
  <2>1. PICK ts \in SUBSET Frames : ts = Targets(PTEntries)
    BY <1>6
  <2>2. \A e \in Children(ts) : IsBranch(lev, e)
    BY <1>2, <1>6, <2>1, LevelOfChildren
  <2> QED  BY <2>1, <2>2 DEF PageEntries
<1>8. \A e \in AllEntries : IsBranch(lev, e)
  BY <1>4, <1>5, <1>6, <1>7 DEF AllEntries
<1>9. Inject(AllEntries)
  <2> SUFFICES ASSUME NEW d \in AllEntries, NEW e \in AllEntries, Frame(d) = Frame(e) PROVE d = e
    BY DEF Inject
  <2>1. IsBranch(lev, d) /\ IsBranch(lev, e)
    BY <1>8
  <2>2. d[1] = e[1] /\ d[2] = e[2]
    <3>1. Single(vm.mem, cr3, lev)
      BY <1>3 DEF Tree
    <3>2. Frame(d) # Unmapped
      BY <2>1, Parameters DEF IsBranch
    <3>3. PICK t \in Frames, i \in Slot : /\ t = d[1] /\ i = d[2] /\ ~Window(cr3, t, i)
                                           /\ lev[t] \in 1 .. 4 /\ Frame(d) = Below(vm.mem, t, i)
      BY <2>1 DEF IsBranch
    <3>4. PICK u \in Frames, j \in Slot : /\ u = e[1] /\ j = e[2] /\ ~Window(cr3, u, j)
                                           /\ lev[u] \in 1 .. 4 /\ Frame(e) = Below(vm.mem, u, j)
      BY <2>1 DEF IsBranch
    <3>5. t = u /\ i = j
      <4>1. Below(vm.mem, t, i) # Unmapped /\ Below(vm.mem, t, i) = Below(vm.mem, u, j)
        BY <3>2, <3>3, <3>4
      <4>2. lev[t] \in 1 .. 4 /\ lev[u] \in 1 .. 4
        BY <3>3, <3>4
      <4>3. ~Window(cr3, t, i) /\ ~Window(cr3, u, j)
        BY <3>3, <3>4
      <4> QED  BY <3>1, <4>1, <4>2, <4>3, SingleEntry
    <3> QED  BY <3>3, <3>4, <3>5
  <2> QED  BY <2>1, <2>2, Zenon DEF IsBranch
<1>10. \A t \in Targets(AllEntries) : lev[t] \in 0 .. 3
  BY <1>8 DEF Targets, IsBranch
<1>11. cr3 \notin Targets(AllEntries) /\ Targets(AllEntries) \cap vm.free = {}
  <2>1. cr3 \notin Targets(AllEntries)
    BY <1>3, <1>10
  <2>2. \A f : ~(f \in Targets(AllEntries) /\ f \in vm.free)
    <3> SUFFICES ASSUME NEW f \in Targets(AllEntries), f \in vm.free PROVE FALSE
      OBVIOUS
    <3>1. lev[f] = 5 /\ lev[f] \in 0 .. 3
      BY <1>3, <1>10
    <3> QED  BY <3>1
  <2> QED  BY <2>1, <2>2
<1>12. ASSUME NEW v \in Page, PML4Index(v) # RECURSIVE_SLOT, FrameOf(v) # Unmapped
       PROVE  <<Below(vm.mem, Below(vm.mem, Below(vm.mem, cr3, PML4Index(v)),
                  PDPIndex(v)), PDIndex(v)), PTIndex(v)>> \in PageEntries
  <2>1. PICK a \in Slot, b \in Slot, c \in Slot, d \in Slot :
          a = PML4Index(v) /\ b = PDPIndex(v) /\ c = PDIndex(v) /\ d = PTIndex(v)
    BY PageOfIndices
  <2>2. PICK t3 : t3 = Below(vm.mem, cr3, a)
    OBVIOUS
  <2>3. PICK t2 : t2 = Below(vm.mem, t3, b)
    OBVIOUS
  <2>4. PICK t1 : t1 = Below(vm.mem, t2, c)
    OBVIOUS
  <2>5. PICK t0 : t0 = Below(vm.mem, t1, d)
    OBVIOUS
  <2>6. t0 # Unmapped
    BY <1>12, <2>1, <2>2, <2>3, <2>4, <2>5, Zenon DEF FrameOf, Translate
  <2>7. \A j : Below(vm.mem, Unmapped, j) = Unmapped
    BY Zenon DEF Below
  <2>8. t1 # Unmapped
    BY <2>5, <2>6, <2>7
  <2>9. t2 # Unmapped
    BY <2>4, <2>7, <2>8
  <2>10. t3 # Unmapped
    BY <2>3, <2>7, <2>9
  <2>11. t3 \in Targets(PDPEntries)
    <3>1. ~Window(cr3, cr3, a)
      BY <1>12, <2>1 DEF Window
    <3>2. {cr3} \in SUBSET Frames /\ cr3 \in {cr3}
      BY <1>3
    <3>3. t3 \in Targets(Children({cr3}))
      BY <1>3, <2>2, <2>10, <3>1, <3>2, ChildIs
    <3> QED  BY <3>3 DEF PDPEntries
  <2>12. t2 \in Targets(PDEntries)
    <3>1. PICK ts \in SUBSET Frames : ts = Targets(PDPEntries)
      BY <1>4
    <3>2. ~Window(cr3, t3, b)
      BY <1>3, <1>4, <2>11 DEF Window
    <3>3. t2 \in Targets(Children(ts))
      BY <1>3, <2>3, <2>9, <2>11, <3>1, <3>2, ChildIs
    <3> QED  BY <3>1, <3>3 DEF PDEntries
  <2>13. t1 \in Targets(PTEntries)
    <3>1. PICK ts \in SUBSET Frames : ts = Targets(PDEntries)
      BY <1>5
    <3>2. ~Window(cr3, t2, c)
      BY <1>3, <1>5, <2>12 DEF Window
    <3>3. t1 \in Targets(Children(ts))
      BY <1>3, <2>4, <2>8, <2>12, <3>1, <3>2, ChildIs
    <3> QED  BY <3>1, <3>3 DEF PTEntries
  <2>14. <<t1, d>> \in PageEntries
    <3>1. PICK ts \in SUBSET Frames : ts = Targets(PTEntries)
      BY <1>6
    <3>2. ~Window(cr3, t1, d)
      BY <1>3, <1>6, <2>13 DEF Window
    <3>3. <<t1, d>> \in Children(ts)
      BY <1>3, <2>5, <2>6, <2>13, <3>1, <3>2, ChildIs
    <3> QED  BY <3>1, <3>3 DEF PageEntries
  <2> QED  BY <2>1, <2>2, <2>3, <2>4, <2>14
<1> QED  BY <1>9, <1>11, <1>12 DEF TablesAreATree

-----------------------------------------------------------------------------
(* Types.                                                                  *)

(* The invariant holds at boot.                                            *)
LEMMA InitVInv == Init => VInv
<1> SUFFICES ASSUME Init PROVE VInv
  OBVIOUS
<1>1. PICK m \in RamAtBoot : vm = [mem |-> m, free |-> RAM, failed |-> FALSE, fault |-> FALSE]
  BY DEF Init
<1>2. /\ vm.mem = m /\ vm.free = RAM /\ vm.failed = FALSE /\ vm.fault = FALSE
      /\ m \in [Frames -> Table]
  BY <1>1, VmParameters
<1>3. vm \in State
  BY <1>1, <1>2 DEF State
<1>4. Typed
  BY <1>3, Parameters DEF Typed, Init
<1>5. Untouched
  BY <1>2 DEF Untouched, Init
<1>6. RegionPages
  BY DEF RegionPages, Init
<1>7. cr3 = Unmapped
  BY DEF Init
<1> QED  BY <1>4, <1>5, <1>6, <1>7 DEF VInv

(* setup_page_tables, in its steps.                                        *)
LEMMA SetUpIs ==
  ASSUME setup_page_tables
  PROVE  \E clear, kernel, video : SetUp(vm, cr3', clear, kernel, video, vm')
<1>1. PICK r : r = Fresh(vm)
  OBVIOUS
<1>2. PICK clear : clear = [Taken(vm) EXCEPT !.mem[r] = Empty]
  OBVIOUS
<1>3. PICK kernel : kernel = MapRange(clear, r, VIRT_OFFSET + physbase, physbase, physfree)
  OBVIOUS
<1>4. PICK video : video = MapRange(kernel, r, VIRT_OFFSET + Video, Video, Video)
  OBVIOUS
<1>5. vm' = [video EXCEPT !.mem[r][RECURSIVE_SLOT] = Present(r)] /\ cr3' = r
  BY <1>1, <1>2, <1>3, <1>4, Zenon DEF setup_page_tables
<1>6. SetUp(vm, cr3', clear, kernel, video, vm')
  BY <1>1, <1>2, <1>3, <1>4, <1>5, Zenon DEF SetUp
<1> QED  BY <1>6

(* Types are kept whatever memory held at boot.                            *)
LEMMA SetUpTyped ==
  ASSUME Typed, setup_page_tables
  PROVE  Typed' /\ cr3' \in Frames /\ vm'.fault = vm.fault
<1>1. PICK clear, kernel, video : SetUp(vm, cr3', clear, kernel, video, vm')
  BY SetUpIs
<1>2. SetUpTypes(vm, cr3', clear, kernel, video, vm')
  BY <1>1, SetUpType DEF Typed
<1>3. vm' \in State /\ cr3' \in Frames /\ vm'.fault = vm.fault
  BY <1>2, Zenon DEF SetUpTypes
<1>4. kernelfree' = kernelfree
  BY DEF setup_page_tables
<1> QED  BY <1>3, <1>4 DEF Typed

(* The pages kmalloc goes through are ordinary pages.                      *)
LEMMA KernelPagesAre ==
  ASSUME Typed, NEW n \in Nat, kernelfree + n <= KERNEL_LIMIT
  PROVE  /\ n = Len(KernelPages(n))
         /\ \A i \in 1 .. n : KernelPages(n)[i] = VIRT_OFFSET + kernelfree + i - 1
         /\ \A i \in 1 .. n : KernelPages(n)[i] \in Ordinary
<1>1. kernelfree \in Nat /\ VIRT_OFFSET \in Nat
  BY Parameters DEF Typed
<1>2. \A i \in 1 .. n : KernelPages(n)[i] = VIRT_OFFSET + kernelfree + i - 1
  BY DEF KernelPages
<1>3. n = Len(KernelPages(n))
  BY DEF KernelPages
<1>4. ASSUME NEW i \in 1 .. n PROVE KernelPages(n)[i] \in Ordinary
  <2>1. PICK f \in 0 .. KERNEL_LIMIT : f = kernelfree + i - 1
    BY <1>1, Parameters
  <2>2. KernelPages(n)[i] = VIRT_OFFSET + f
    BY <1>1, <1>2, <2>1
  <2> QED  BY <2>2, Parameters
<1> QED  BY <1>2, <1>3, <1>4

(* And so are those of kmalloc_virtual, which lie below the kernel.        *)
LEMMA StridedPagesAre ==
  ASSUME NEW size \in Nat, NEW v,
         \A i \in 0 .. size \div PAGE_SIZE : v + 8 * i \in Ordinary /\ v + 8 * i < VIRT_OFFSET
  PROVE  /\ Count(size) \in Nat \ {0}
         /\ Count(size) = Len(StridedPages(v, Count(size)))
         /\ \A i \in 1 .. Count(size) : /\ StridedPages(v, Count(size))[i] \in Ordinary
                                       /\ StridedPages(v, Count(size))[i] < VIRT_OFFSET
<1>1. PICK q \in Nat : q = size \div PAGE_SIZE
  BY Split, Parameters
<1>2. PICK n \in Nat : n = Count(size)
  BY <1>1 DEF Count
<1>3. n = q + 1
  BY <1>1, <1>2 DEF Count
<1>4. n = Len(StridedPages(v, n)) /\ \A i \in 1 .. n : StridedPages(v, n)[i] = v + 8 * (i - 1)
  BY DEF StridedPages
<1>5. ASSUME NEW i \in 1 .. n
      PROVE  StridedPages(v, n)[i] \in Ordinary /\ StridedPages(v, n)[i] < VIRT_OFFSET
  <2>1. PICK k \in 0 .. size \div PAGE_SIZE : k = i - 1
    BY <1>1, <1>3
  <2>2. v + 8 * k \in Ordinary /\ v + 8 * k < VIRT_OFFSET
    OBVIOUS
  <2> QED  BY <1>4, <2>1, <2>2
<1> QED  BY <1>2, <1>3, <1>4, <1>5

(* kmalloc goes through as many pages as the size needs, or one more.      *)
LEMMA CountIs ==
  ASSUME NEW size \in Nat
  PROVE  /\ Count(size) \in Nat \ {0}
         /\ \A i \in 0 .. (size - 1) \div PAGE_SIZE : i <= Count(size) - 1
<1>1. PICK q \in Nat : q = size \div PAGE_SIZE
  BY Split, Parameters
<1>2. Count(size) = q + 1
  BY <1>1 DEF Count
<1>3. \A i \in 0 .. (size - 1) \div PAGE_SIZE : i <= q
  BY <1>1, CountsSuffice
<1> QED  BY <1>2, <1>3

(* kmalloc_page needs one.                                                 *)
LEMMA OnePage == \A i \in 0 .. (PAGE_SIZE - 1) \div PAGE_SIZE : i <= 0
<1>1. PICK n \in Nat \ {0} : n = PAGE_SIZE
  BY Parameters
<1>2. (n - 1) \div n < 1
  BY <1>1, Smaller
<1> QED  BY <1>1, <1>2

(* An allocating loop keeps the types.                                     *)
LEMMA AllocationTyped ==
  ASSUME Typed, Up, NEW n \in Nat, NEW pages, n = Len(pages), \A i \in 1 .. n : pages[i] \in Ordinary,
         vm' = AllBacked(pages), cr3' = cr3, kernelfree' = kernelfree + n,
         kernelfree + n <= KERNEL_LIMIT
  PROVE  Typed'
<1>1. vm \in State /\ cr3 \in Frames
  BY DEF Typed, Up
<1>2. vm' \in State
  BY <1>1, AllBackedKeeps
<1>3. kernelfree' \in physfree .. KERNEL_LIMIT
  BY Parameters DEF Typed
<1> QED  BY <1>1, <1>2, <1>3 DEF Typed

(* Every call keeps the types.                                             *)
LEMMA NextTyped == Typed /\ [Next]_vars => Typed'
<1> SUFFICES ASSUME Typed, [Next]_vars PROVE Typed'
  OBVIOUS
<1>1. CASE setup_page_tables
  BY <1>1, SetUpTyped
<1>2. CASE kmalloc_page
  <2>1. /\ Up /\ kernelfree + 1 <= KERNEL_LIMIT /\ vm' = AllBacked(KernelPages(1))
        /\ cr3' = cr3 /\ kernelfree' = kernelfree + 1
    BY <1>2 DEF kmalloc_page, Bumped
  <2>2. 1 = Len(KernelPages(1)) /\ \A i \in 1 .. 1 : KernelPages(1)[i] \in Ordinary
    BY <2>1, KernelPagesAre
  <2> QED  BY <2>1, <2>2, AllocationTyped
<1>3. ASSUME NEW size \in Sizes, kmalloc(size) PROVE Typed'
  <2>1. PICK n \in Nat \ {0} : n = Count(size)
    BY CountIs, Parameters
  <2>2. /\ Up /\ kernelfree + n <= KERNEL_LIMIT /\ vm' = AllBacked(KernelPages(n))
        /\ cr3' = cr3 /\ kernelfree' = kernelfree + n
    BY <1>3, <2>1 DEF kmalloc, Bumped
  <2>3. n = Len(KernelPages(n)) /\ \A i \in 1 .. n : KernelPages(n)[i] \in Ordinary
    BY <2>2, KernelPagesAre
  <2> QED  BY <2>2, <2>3, AllocationTyped
<1>4. ASSUME NEW size \in Sizes, NEW v \in UserPages, kmalloc_virtual(size, v) PROVE Typed'
  <2>1. PICK n \in Nat \ {0} : n = Count(size)
    BY CountIs, Parameters
  <2>2. /\ Up /\ kernelfree + n <= KERNEL_LIMIT /\ vm' = AllBacked(StridedPages(v, n))
        /\ cr3' = cr3 /\ kernelfree' = kernelfree + n
    BY <1>4, <2>1 DEF kmalloc_virtual, Bumped
  <2>3. n = Len(StridedPages(v, n)) /\ \A i \in 1 .. n : StridedPages(v, n)[i] \in Ordinary
    BY <2>1, StridedPagesAre, VmLayout, Parameters
  <2> QED  BY <2>2, <2>3, AllocationTyped
<1>5. CASE UNCHANGED vars
  BY <1>5 DEF Typed, vars
<1> QED  BY <1>1, <1>2, <1>3, <1>4, <1>5 DEF Next

(* What was returned has its type.                                         *)
ResultsTyped ==
  /\ regions \subseteq [base : Ordinary, size : Sizes \cup {PAGE_SIZE}]
  /\ placed \subseteq [base : UserPages, size : Sizes]

(* A region starts behind the heap, where pages are ordinary.              *)
LEMMA RegionIsTyped ==
  ASSUME Typed, ResultsTyped, NEW size \in Sizes \cup {PAGE_SIZE}, NEW n \in Nat,
         kernelfree + n <= KERNEL_LIMIT, placed' = placed,
         regions' = regions \cup {[base |-> VIRT_OFFSET + kernelfree, size |-> size]}
  PROVE  ResultsTyped'
<1>1. kernelfree \in 0 .. KERNEL_LIMIT
  BY Parameters DEF Typed
<1>2. VIRT_OFFSET + kernelfree \in Ordinary
  BY <1>1, Parameters
<1>3. [base |-> VIRT_OFFSET + kernelfree, size |-> size] \in [base : Ordinary, size : Sizes \cup {PAGE_SIZE}]
  BY <1>2
<1> QED  BY <1>3 DEF ResultsTyped

LEMMA NextResults == Typed /\ ResultsTyped /\ [Next]_vars => ResultsTyped'
<1> SUFFICES ASSUME Typed, ResultsTyped, [Next]_vars PROVE ResultsTyped'
  OBVIOUS
<1>1. CASE setup_page_tables \/ UNCHANGED vars
  BY <1>1 DEF setup_page_tables, vars, ResultsTyped
<1>2. CASE kmalloc_page
  <2>1. /\ kernelfree + 1 <= KERNEL_LIMIT /\ placed' = placed
        /\ regions' = regions \cup {[base |-> VIRT_OFFSET + kernelfree, size |-> PAGE_SIZE]}
    BY <1>2, Zenon DEF kmalloc_page
  <2> QED  BY <2>1, RegionIsTyped
<1>3. ASSUME NEW size \in Sizes, kmalloc(size) PROVE ResultsTyped'
  <2>1. PICK n \in Nat \ {0} : n = Count(size)
    BY CountIs, Parameters
  <2>2. /\ kernelfree + n <= KERNEL_LIMIT /\ placed' = placed
        /\ regions' = regions \cup {[base |-> VIRT_OFFSET + kernelfree, size |-> size]}
    BY <1>3, <2>1, Zenon DEF kmalloc
  <2> QED  BY <2>2, RegionIsTyped
<1>4. ASSUME NEW size \in Sizes, NEW v \in UserPages, kmalloc_virtual(size, v) PROVE ResultsTyped'
  <2>1. placed' = placed \cup {[base |-> v, size |-> size]} /\ regions' = regions
    BY <1>4, Zenon DEF kmalloc_virtual
  <2> QED  BY <2>1 DEF ResultsTyped
<1> QED  BY <1>1, <1>2, <1>3, <1>4 DEF Next

(* The tables and the heap keep their types, and so does what is returned, *)
(* whatever memory held at boot.                                           *)
THEOREM TypesHold == Spec => []TypeOK
<1>1. Init => Typed /\ ResultsTyped
  BY InitVInv DEF VInv, Init, ResultsTyped
<1>2. Typed /\ ResultsTyped => TypeOK
  BY DEF Typed, ResultsTyped, TypeOK, State
<1> QED  BY <1>1, <1>2, NextTyped, NextResults, PTL DEF Spec

-----------------------------------------------------------------------------
(* The invariant is kept.                                                  *)

(* An allocating loop, from the invariant.                                 *)
LEMMA Allocates ==
  ASSUME VInv, Up, NEW n \in Nat, NEW pages, n = Len(pages),
         \A i \in 1 .. n : pages[i] \in Ordinary, vm' = AllBacked(pages), cr3' = cr3
  PROVE  /\ vm.failed => vm'.failed
         /\ vm'.failed \/ Moved(vm, vm', cr3, Through(pages, n))
<1>1. vm \in State /\ cr3 \in Frames
  BY DEF VInv, Typed, Up
<1>2. /\ vm.failed => vm'.failed
      /\ (\E lev : Good(vm, cr3, lev)) => vm'.failed \/ Moved(vm, vm', cr3, Through(pages, n))
  BY <1>1, AllBackedKeeps
<1>3. ~vm.failed => \E lev : Good(vm, cr3, lev)
  BY DEF VInv, Working, Up
<1> QED  BY <1>2, <1>3

(* Where the pages of the kernel and of the regions are.                   *)
LEMMA HeldPlaces ==
  ASSUME Typed, RegionPages
  PROVE  /\ \A p \in HeldPages : p \in Ordinary /\ VIRT_OFFSET <= p /\ p < VIRT_OFFSET + kernelfree
         /\ \A f \in Fixed : /\ VIRT_OFFSET + f \in Ordinary /\ VIRT_OFFSET <= VIRT_OFFSET + f
                             /\ VIRT_OFFSET + f < VIRT_OFFSET + kernelfree
<1>1. kernelfree \in Nat /\ physfree <= kernelfree /\ kernelfree <= KERNEL_LIMIT
  BY Parameters DEF Typed
<1>2. ASSUME NEW p \in HeldPages
      PROVE  p \in Ordinary /\ VIRT_OFFSET <= p /\ p < VIRT_OFFSET + kernelfree
  <2>1. PICK q \in regions : p \in PagesOf(q)
    BY HeldPagesAre
  <2>2. PICK f \in physfree .. kernelfree - 1 : p = VIRT_OFFSET + f
    BY <2>1 DEF RegionPages
  <2>3. f \in 0 .. KERNEL_LIMIT /\ f < kernelfree
    BY <1>1, Parameters
  <2> QED  BY <1>1, <2>2, <2>3, Parameters
<1>3. ASSUME NEW f \in Fixed
      PROVE  /\ VIRT_OFFSET + f \in Ordinary /\ VIRT_OFFSET <= VIRT_OFFSET + f
             /\ VIRT_OFFSET + f < VIRT_OFFSET + kernelfree
  <2>1. f \in 0 .. KERNEL_LIMIT /\ f < kernelfree
    BY <1>1, Parameters DEF Fixed
  <2> QED  BY <1>1, <2>1, Parameters
<1> QED  BY <1>2, <1>3

(* Pages that are not among those allocated keep their frames.             *)
LEMMA OldPagesStay ==
  ASSUME VInv, Up, ~vm.failed, cr3' = cr3, NEW P, Moved(vm, vm', cr3, P),
         \A p \in P : p < VIRT_OFFSET \/ VIRT_OFFSET + kernelfree <= p
  PROVE  /\ (\E lev : Good(vm, cr3, lev))'
         /\ \A f \in Fixed : FrameOf(VIRT_OFFSET + f)' = f
         /\ \A p \in HeldPages : FrameOf(p)' \in RAM
<1>1. Typed /\ RegionPages /\ Working
  BY DEF VInv, Up
<1>2. \A w \in Ordinary : w \notin P => Translate(vm'.mem, cr3, w) = Translate(vm.mem, cr3, w)
  BY DEF Moved
<1>3. \A w : VIRT_OFFSET <= w /\ w < VIRT_OFFSET + kernelfree /\ w \in Nat => w \notin P
  BY <1>1, Parameters DEF Typed
<1>4. \A w \in Ordinary : w \in Nat
  BY PageOfIndices DEF Ordinary
<1>5. ASSUME NEW f \in Fixed PROVE FrameOf(VIRT_OFFSET + f)' = f
  <2>1. PICK w \in Ordinary : w = VIRT_OFFSET + f /\ w \notin P
    BY <1>1, <1>3, <1>4, HeldPlaces
  <2>2. Translate(vm.mem, cr3, w) = f
    BY <1>1, <2>1 DEF Working, FrameOf
  <2> QED  BY <1>2, <2>1, <2>2 DEF FrameOf
<1>6. ASSUME NEW p \in HeldPages PROVE FrameOf(p)' \in RAM
  <2>1. p \in Ordinary /\ p \notin P
    BY <1>1, <1>3, <1>4, HeldPlaces
  <2>2. Translate(vm.mem, cr3, p) \in RAM
    BY <1>1 DEF Working, FrameOf
  <2> QED  BY <1>2, <2>1, <2>2 DEF FrameOf
<1>7. \E lev : Good(vm', cr3', lev)
  BY DEF Moved
<1> QED  BY <1>5, <1>6, <1>7

(* The region that kmalloc adds.                                           *)
NewRegion(size) == [base |-> VIRT_OFFSET + kernelfree, size |-> size]

(* The pages of the new region are among those the loop went through,      *)
(* above every page in use.                                                *)
LEMMA NewPages ==
  ASSUME Typed, NEW n \in Nat \ {0}, kernelfree + n <= KERNEL_LIMIT,
         NEW size, \A i \in 0 .. (size - 1) \div PAGE_SIZE : i <= n - 1
  PROVE  \A p \in PagesOf(NewRegion(size)) :
           /\ \E f \in kernelfree .. kernelfree + n - 1 : p = VIRT_OFFSET + f
           /\ p \in Through(KernelPages(n), n)
<1> SUFFICES ASSUME NEW p \in PagesOf(NewRegion(size))
             PROVE  /\ \E f \in kernelfree .. kernelfree + n - 1 : p = VIRT_OFFSET + f
                    /\ p \in Through(KernelPages(n), n)
  OBVIOUS
<1>1. PICK i \in 0 .. (size - 1) \div PAGE_SIZE : p = VIRT_OFFSET + kernelfree + i
  BY DEF PagesOf, NewRegion
<1>2. kernelfree \in Nat /\ VIRT_OFFSET \in Nat /\ i \in Nat /\ i <= n - 1
  BY <1>1, Parameters DEF Typed
<1>3. PICK f \in kernelfree .. kernelfree + n - 1 : f = kernelfree + i
  BY <1>2
<1>4. p = VIRT_OFFSET + f
  BY <1>1, <1>2, <1>3
<1>5. PICK k \in 1 .. n : k = i + 1
  BY <1>2
<1>6. KernelPages(n)[k] = p
  <2>1. KernelPages(n)[k] = VIRT_OFFSET + kernelfree + k - 1
    BY KernelPagesAre
  <2> QED  BY <1>1, <1>2, <1>5, <2>1
<1> QED  BY <1>4, <1>6 DEF Through

(* The new region lies behind all others.                                  *)
LEMMA RegionPagesAdded ==
  ASSUME Typed, RegionPages, NEW n \in Nat \ {0}, kernelfree + n <= KERNEL_LIMIT,
         NEW size, \A i \in 0 .. (size - 1) \div PAGE_SIZE : i <= n - 1,
         kernelfree' = kernelfree + n, regions' = regions \cup {NewRegion(size)}
  PROVE  RegionPages'
<1>a. Typed /\ RegionPages /\ kernelfree \in Nat /\ VIRT_OFFSET \in Nat
  BY Parameters DEF Typed
<1>b. \A p \in PagesOf(NewRegion(size)) :
        \E f \in kernelfree .. kernelfree + n - 1 : p = VIRT_OFFSET + f
  BY NewPages
<1>1. ASSUME NEW q \in regions', NEW p \in PagesOf(q)
      PROVE  \E f \in physfree .. kernelfree' - 1 : p = VIRT_OFFSET + f
  <2>1. CASE q \in regions
    <3>1. PICK f \in physfree .. kernelfree - 1 : p = VIRT_OFFSET + f
      BY <1>a, <1>1, <2>1 DEF RegionPages
    <3>2. f \in physfree .. kernelfree' - 1
      BY <1>a
    <3> QED  BY <3>1, <3>2
  <2>2. CASE q = NewRegion(size)
    <3>1. PICK f \in kernelfree .. kernelfree + n - 1 : p = VIRT_OFFSET + f
      BY <1>b, <1>1, <2>2
    <3>2. f \in physfree .. kernelfree' - 1
      BY <1>a, Parameters DEF Typed
    <3> QED  BY <3>1, <3>2
  <2> QED  BY <2>1, <2>2
<1>2. ASSUME NEW q \in regions, NEW p \in PagesOf(q), p \in PagesOf(NewRegion(size)) PROVE FALSE
  <2>1. PICK f \in physfree .. kernelfree - 1 : p = VIRT_OFFSET + f
    BY <1>a DEF RegionPages
  <2>2. PICK g \in kernelfree .. kernelfree + n - 1 : p = VIRT_OFFSET + g
    BY <1>b, <1>2
  <2>3. f \in Int /\ g \in Int /\ f < kernelfree /\ kernelfree <= g
    BY <1>a
  <2> QED  BY <1>a, <2>1, <2>2, <2>3
<1>3. ASSUME NEW q \in regions', NEW u \in regions', q # u
      PROVE  PagesOf(q) \cap PagesOf(u) = {}
  <2>1. CASE q \in regions /\ u \in regions
    BY <1>a, <1>3, <2>1 DEF RegionPages
  <2>2. CASE q \in regions /\ u = NewRegion(size)
    BY <1>2, <2>2
  <2>3. CASE u \in regions /\ q = NewRegion(size)
    BY <1>2, <2>3
  <2> QED  BY <1>3, <2>1, <2>2, <2>3
<1> QED  BY <1>1, <1>3, Zenon DEF RegionPages, PagesOf

(* kmalloc and kmalloc_page keep the invariant: the pages they map are     *)
(* beyond kernelfree, where nothing was held before.                       *)
LEMMA RegionAdded ==
  ASSUME VInv, Typed', Up, NEW n \in Nat \ {0}, kernelfree + n <= KERNEL_LIMIT,
         NEW size, \A i \in 0 .. (size - 1) \div PAGE_SIZE : i <= n - 1,
         vm' = AllBacked(KernelPages(n)), kernelfree' = kernelfree + n,
         regions' = regions \cup {NewRegion(size)}, cr3' = cr3
  PROVE  VInv'
<1>1. Typed /\ RegionPages /\ kernelfree \in Nat /\ VIRT_OFFSET \in Nat /\ cr3 # Unmapped
  BY Parameters DEF VInv, Typed, Up
<1>2. /\ n = Len(KernelPages(n))
      /\ \A i \in 1 .. n : KernelPages(n)[i] = VIRT_OFFSET + kernelfree + i - 1
      /\ \A i \in 1 .. n : KernelPages(n)[i] \in Ordinary
  BY <1>1, KernelPagesAre
<1>3. PICK P : P = Through(KernelPages(n), n)
  OBVIOUS
<1>4. /\ vm.failed => vm'.failed
      /\ vm'.failed \/ Moved(vm, vm', cr3, P)
  BY <1>2, <1>3, Allocates
<1>5. \A p \in P : VIRT_OFFSET + kernelfree <= p /\ p \in Ordinary
  BY <1>1, <1>2, <1>3 DEF Through
<1>6. \A p \in PagesOf(NewRegion(size)) :
        /\ \E f \in kernelfree .. kernelfree + n - 1 : p = VIRT_OFFSET + f
        /\ p \in P
  BY <1>1, <1>3, NewPages
<1>7. RegionPages'
  BY <1>1, RegionPagesAdded
<1>8. ASSUME ~vm'.failed PROVE Working'
  <2>1. Moved(vm, vm', cr3, P) /\ ~vm.failed
    BY <1>4, <1>8
  <2>2. /\ (\E lev : Good(vm, cr3, lev))'
        /\ \A f \in Fixed : FrameOf(VIRT_OFFSET + f)' = f
        /\ \A p \in HeldPages : FrameOf(p)' \in RAM
    BY <1>5, <2>1, OldPagesStay
  <2>3. ASSUME NEW p \in HeldPages' PROVE FrameOf(p)' \in RAM
    <3>1. PICK q \in regions' : p \in PagesOf(q)
      BY Zenon DEF HeldPages, PagesOf
    <3>2. CASE q \in regions
      <4>1. p \in HeldPages
        BY <3>1, <3>2, HeldPagesAre
      <4> QED  BY <2>2, <4>1
    <3>3. CASE q = NewRegion(size)
      <4>1. p \in P /\ p \in Ordinary
        BY <1>5, <1>6, <3>1, <3>3
      <4>2. Translate(vm'.mem, cr3, p) \in vm.free
        BY <2>1, <4>1 DEF Moved
      <4>3. vm.free \subseteq RAM
        BY <1>1 DEF Typed, State
      <4> QED  BY <4>2, <4>3 DEF FrameOf
    <3> QED  BY <3>1, <3>2, <3>3
  <2> QED  BY <2>2, <2>3 DEF Working, Fixed
<1>9. Untouched'
  BY <1>1 DEF Untouched
<1> QED  BY <1>7, <1>8, <1>9 DEF VInv

(* kmalloc_virtual takes pages below the kernel's.                         *)
LEMMA VirtualAdded ==
  ASSUME VInv, Typed', Up, NEW n \in Nat, NEW pages, n = Len(pages),
         \A i \in 1 .. n : pages[i] \in Ordinary /\ pages[i] < VIRT_OFFSET,
         vm' = AllBacked(pages), kernelfree' = kernelfree + n, regions' = regions, cr3' = cr3
  PROVE  VInv'
<1>1. Typed /\ RegionPages /\ kernelfree \in Nat /\ VIRT_OFFSET \in Nat /\ cr3 # Unmapped
  BY Parameters DEF VInv, Typed, Up
<1>2. PICK P : P = Through(pages, n)
  OBVIOUS
<1>3. /\ vm.failed => vm'.failed
      /\ vm'.failed \/ Moved(vm, vm', cr3, P)
  BY <1>2, Allocates
<1>4. \A p \in P : p < VIRT_OFFSET
  BY <1>2 DEF Through
<1>5. RegionPages'
  <2>1. ASSUME NEW q \in regions, NEW p \in PagesOf(q)
        PROVE  \E f \in physfree .. kernelfree' - 1 : p = VIRT_OFFSET + f
    <3>1. PICK f \in physfree .. kernelfree - 1 : p = VIRT_OFFSET + f
      BY <1>1 DEF RegionPages
    <3>2. f \in physfree .. kernelfree' - 1
      BY <1>1
    <3> QED  BY <3>1, <3>2
  <2> QED  BY <1>1, <2>1, Zenon DEF RegionPages, PagesOf
<1>6. ASSUME ~vm'.failed PROVE Working'
  <2>1. Moved(vm, vm', cr3, P) /\ ~vm.failed
    BY <1>3, <1>6
  <2>2. /\ (\E lev : Good(vm, cr3, lev))'
        /\ \A f \in Fixed : FrameOf(VIRT_OFFSET + f)' = f
        /\ \A p \in HeldPages : FrameOf(p)' \in RAM
    BY <1>4, <2>1, OldPagesStay
  <2>3. HeldPages' = HeldPages
    BY Zenon DEF HeldPages, PagesOf
  <2> QED  BY <2>2, <2>3 DEF Working, Fixed
<1>7. Untouched'
  BY <1>1 DEF Untouched
<1> QED  BY <1>5, <1>6, <1>7 DEF VInv

(* setup_page_tables establishes what holds until memory runs out.         *)
LEMMA SetUpVInv ==
  ASSUME ClearRam, VInv, setup_page_tables
  PROVE  /\ VInv'
         /\ ~vm.failed /\ ~vm.fault /\ cr3' # Unmapped
         /\ ~vm'.fault /\ (~vm'.failed => Booted(vm', cr3'))
<1>1. cr3 = Unmapped /\ kernelfree' = kernelfree /\ regions' = regions
  BY DEF setup_page_tables
<1>2. /\ vm \in State /\ vm.mem \in RamAtBoot /\ vm.free = RAM /\ ~vm.failed /\ ~vm.fault
      /\ regions = {}
  BY <1>1 DEF VInv, Typed, Untouched
<1>3. Typed' /\ cr3' \in Frames /\ vm'.fault = vm.fault
  BY SetUpTyped DEF VInv
<1>4. PICK clear, kernel, video : SetUp(vm, cr3', clear, kernel, video, vm')
  BY SetUpIs
<1>5. ~vm'.failed => Booted(vm', cr3')
  <2>1. \A x \in RAM : vm.mem[x] = Empty
    BY <1>2 DEF ClearRam
  <2> QED  BY <1>2, <1>4, <2>1, SetUpBoots
<1>6. ASSUME ~vm'.failed PROVE Working'
  <2>1. (\E lev : Good(vm, cr3, lev))'
    BY <1>5, <1>6 DEF Booted
  <2>2. ASSUME NEW f \in Fixed PROVE FrameOf(VIRT_OFFSET + f)' = f
    <3>1. f \in 0 .. KERNEL_LIMIT /\ f \in (physbase .. physfree) \cup {Video} /\ VIRT_OFFSET \in Nat
      BY Parameters DEF Fixed
    <3>2. PICK w \in Ordinary : w = VIRT_OFFSET + f
      BY <3>1, Parameters
    <3>3. Translate(vm'.mem, cr3', w) = AtBoot(w)
      BY <1>5, <1>6 DEF Booted
    <3>4. w - VIRT_OFFSET = f
      BY <3>1, <3>2
    <3> QED  BY <3>1, <3>2, <3>3, <3>4 DEF AtBoot, FrameOf
  <2>3. HeldPages' = {}
    BY <1>1, <1>2 DEF HeldPages
  <2> QED  BY <2>1, <2>2, <2>3 DEF Working, Fixed
<1>7. RegionPages' /\ Untouched'
  BY <1>1, <1>2, <1>3, Parameters DEF RegionPages, Untouched
<1> QED  BY <1>2, <1>3, <1>5, <1>6, <1>7, Parameters DEF VInv

(* Every step keeps the invariant.                                         *)
LEMMA NextVInv ==
  ASSUME ClearRam, VInv, [Next]_vars
  PROVE  VInv'
<1>t. Typed'
  BY NextTyped DEF VInv
<1>1. CASE setup_page_tables
  BY <1>1, SetUpVInv
<1>2. CASE kmalloc_page
  <2>1. /\ Up /\ kernelfree + 1 <= KERNEL_LIMIT /\ vm' = AllBacked(KernelPages(1))
        /\ cr3' = cr3 /\ kernelfree' = kernelfree + 1
        /\ regions' = regions \cup {NewRegion(PAGE_SIZE)}
    BY <1>2 DEF kmalloc_page, Bumped, NewRegion
  <2>2. \A i \in 0 .. (PAGE_SIZE - 1) \div PAGE_SIZE : i <= 1 - 1
    BY OnePage
  <2> QED  BY <1>t, <2>1, <2>2, RegionAdded
<1>3. ASSUME NEW size \in Sizes, kmalloc(size) PROVE VInv'
  <2>1. PICK n \in Nat \ {0} : n = Count(size)
    BY CountIs, Parameters
  <2>2. /\ Up /\ kernelfree + n <= KERNEL_LIMIT /\ vm' = AllBacked(KernelPages(n))
        /\ cr3' = cr3 /\ kernelfree' = kernelfree + n
        /\ regions' = regions \cup {NewRegion(size)}
    BY <1>3, <2>1 DEF kmalloc, Bumped, NewRegion
  <2>3. \A i \in 0 .. (size - 1) \div PAGE_SIZE : i <= n - 1
    BY <2>1, CountIs, Parameters
  <2> QED  BY <1>t, <2>2, <2>3, RegionAdded
<1>4. ASSUME NEW size \in Sizes, NEW v \in UserPages, kmalloc_virtual(size, v) PROVE VInv'
  <2>1. PICK n \in Nat \ {0} : n = Count(size)
    BY CountIs, Parameters
  <2>2. /\ Up /\ vm' = AllBacked(StridedPages(v, n))
        /\ cr3' = cr3 /\ kernelfree' = kernelfree + n /\ regions' = regions
    BY <1>4, <2>1 DEF kmalloc_virtual, Bumped
  <2>3. /\ n = Len(StridedPages(v, n))
        /\ \A i \in 1 .. n : StridedPages(v, n)[i] \in Ordinary /\ StridedPages(v, n)[i] < VIRT_OFFSET
    BY <2>1, StridedPagesAre, VmLayout, Parameters
  <2> QED  BY <1>t, <2>2, <2>3, VirtualAdded
<1>5. CASE UNCHANGED vars
  <2>1. vm' = vm /\ cr3' = cr3 /\ kernelfree' = kernelfree /\ regions' = regions
    BY <1>5 DEF vars
  <2>2. HeldPages' = HeldPages
    BY <2>1, Zenon DEF HeldPages, PagesOf
  <2>3. RegionPages'
    BY <2>1, Zenon DEF VInv, RegionPages, PagesOf
  <2>4. Untouched'
    BY <2>1 DEF VInv, Untouched
  <2>5. ASSUME Working PROVE Working'
    <3>1. PICK lev : Good(vm, cr3, lev)
      BY <2>5 DEF Working
    <3>2. Good(vm', cr3', lev)
      BY <2>1, <3>1
    <3>3. \A p : FrameOf(p)' = FrameOf(p)
      BY <2>1 DEF FrameOf
    <3> QED  BY <2>2, <2>5, <3>2, <3>3 DEF Working, Fixed
  <2> QED  BY <1>t, <2>1, <2>3, <2>4, <2>5 DEF VInv
<1> QED  BY <1>1, <1>2, <1>3, <1>4, <1>5 DEF Next

(* The invariant holds for every kernel image, every memory that is clear  *)
(* at boot, and every sequence of allocations.                             *)
LEMMA VInvHolds ==
  ASSUME ClearRam
  PROVE  Spec => []VInv
<1>1. VInv /\ [Next]_vars => VInv'
  BY NextVInv
<1> QED  BY <1>1, InitVInv, PTL DEF Spec

(* Until memory runs out the page tables are a tree: mmap, which finds the *)
(* tables through the recursive entry, and getPT, which finds them by      *)
(* address, never share a table between two entries or link a frame that   *)
(* kmalloc_mem could return again (pagetab.c:114 to 196).                  *)
THEOREM TablesStayATree ==
  ASSUME ClearRam
  PROVE  Spec => []TablesAreATree
BY VInvHolds, TreeFollows, PTL

(* Until memory runs out no call touches an unmapped page, and the kernel  *)
(* and the screen stay where remap_printf and remap_bitmap expect them,    *)
(* whatever is allocated (pagetab.c:31 to 112, pmap.c:233, write.c:333).   *)
THEOREM KernelStays ==
  ASSUME ClearRam
  PROVE  Spec => []KernelStaysMapped
BY VInvHolds, KernelFollows, PTL

(* Until memory runs out what kmalloc and kmalloc_page return is as long   *)
(* as it was asked to be, in frames of its own (pmap.c:135 to 174).        *)
THEOREM RegionsStayPrivate ==
  ASSUME ClearRam
  PROVE  Spec => []RegionsArePrivate
BY VInvHolds, RegionsFollow, PTL

-----------------------------------------------------------------------------
(* What the processor has cached.                                          *)

(* From kernelfree on nothing is mapped, but for the page behind the       *)
(* bitmap that setup_page_tables maps as well.                             *)
Beyond ==
  /\ kernelfree = physfree => regions = {}
  /\ cr3 # Unmapped /\ ~vm.failed =>
       \A f \in kernelfree .. KERNEL_LIMIT : f # physfree => FrameOf(VIRT_OFFSET + f) = Unmapped

(* That page, before kmalloc has returned anything.                        *)
Behind(v) == v = VIRT_OFFSET + physfree /\ regions = {}

KeepsTranslations ==
  \A v \in Page : FrameOf(v) \in {Unmapped, FrameOf(v)'} \/ Behind(v)

LEMMA BeyondInit == Init => Beyond
BY DEF Init, Beyond

LEMMA BeyondSetUp ==
  ASSUME ClearRam, VInv, Beyond, setup_page_tables
  PROVE  Beyond'
<1>1. kernelfree' = kernelfree /\ regions' = regions
  BY DEF setup_page_tables
<1>2. kernelfree \in Nat /\ physfree <= kernelfree
  BY Parameters DEF VInv, Typed
<1>3. ASSUME ~vm'.failed, NEW f \in kernelfree .. KERNEL_LIMIT, f # physfree
      PROVE  Translate(vm'.mem, cr3', VIRT_OFFSET + f) = Unmapped
  <2>1. f \in 0 .. KERNEL_LIMIT /\ f \notin (physbase .. physfree) \cup {Video}
    BY <1>2, <1>3, Parameters
  <2>2. PICK w \in Ordinary : w = VIRT_OFFSET + f
    BY <2>1, Parameters
  <2>3. Translate(vm'.mem, cr3', w) = AtBoot(w)
    BY <1>3, SetUpVInv DEF Booted
  <2>4. w - VIRT_OFFSET = f
    BY <2>1, <2>2, Parameters
  <2> QED  BY <2>1, <2>2, <2>3, <2>4 DEF AtBoot
<1> QED  BY <1>1, <1>3 DEF Beyond, FrameOf

(* An allocating loop below the new kernelfree leaves nothing mapped from  *)
(* there on, and changes no translation but those of its pages.            *)
LEMMA BeyondAllocates ==
  ASSUME VInv, Beyond, Up, NEW n \in Nat \ {0}, NEW pages, n = Len(pages),
         \A i \in 1 .. n : pages[i] \in Ordinary /\ pages[i] < VIRT_OFFSET + kernelfree + n,
         vm' = AllBacked(pages), kernelfree' = kernelfree + n, cr3' = cr3
  PROVE  /\ Beyond'
         /\ ~vm'.failed =>
              /\ ~vm.failed
              /\ \A v \in Page \ Through(pages, n) : FrameOf(v) \in {Unmapped, FrameOf(v)'}
<1>1. /\ kernelfree \in Nat /\ physfree \in Nat /\ VIRT_OFFSET \in Nat /\ physfree <= kernelfree
      /\ cr3 # Unmapped
  BY Parameters DEF VInv, Typed, Up
<1>2. PICK P : P = Through(pages, n)
  OBVIOUS
<1>3. /\ vm.failed => vm'.failed
      /\ vm'.failed \/ Moved(vm, vm', cr3, P)
  BY <1>2, Allocates
<1>4. ASSUME ~vm'.failed, NEW v \in Page, v \notin P
      PROVE  FrameOf(v) \in {Unmapped, FrameOf(v)'}
  BY <1>3, <1>4, OthersStay DEF FrameOf
<1>5. ASSUME ~vm'.failed, NEW f \in kernelfree' .. KERNEL_LIMIT
      PROVE  Translate(vm'.mem, cr3', VIRT_OFFSET + f) = Unmapped
  <2>1. /\ f \in kernelfree .. KERNEL_LIMIT /\ f # physfree /\ f \in 0 .. KERNEL_LIMIT
        /\ VIRT_OFFSET + kernelfree + n <= VIRT_OFFSET + f
    BY <1>1, Parameters
  <2>2. PICK w \in Ordinary : w = VIRT_OFFSET + f
    BY <2>1, Parameters
  <2>3. w \notin P
    <3>1. \A p \in P : p < VIRT_OFFSET + kernelfree + n /\ p \in Nat
      BY <1>2, PageOfIndices DEF Through, Ordinary
    <3> QED  BY <1>1, <2>1, <2>2, <3>1
  <2>4. Translate(vm'.mem, cr3, w) = Translate(vm.mem, cr3, w)
    BY <1>3, <1>5, <2>3 DEF Moved
  <2>5. Translate(vm.mem, cr3, w) = Unmapped
    BY <1>1, <1>3, <1>5, <2>1, <2>2 DEF Beyond, FrameOf
  <2> QED  BY <2>2, <2>4, <2>5
<1>6. kernelfree' # physfree
  BY <1>1
<1>7. Beyond'
  BY <1>5, <1>6 DEF Beyond, FrameOf
<1> QED  BY <1>2, <1>3, <1>4, <1>7

(* kmalloc maps pages that were not mapped.                                *)
LEMMA KernelKeeps ==
  ASSUME VInv, Beyond, Up, NEW n \in Nat \ {0}, kernelfree + n <= KERNEL_LIMIT,
         vm' = AllBacked(KernelPages(n)), kernelfree' = kernelfree + n, cr3' = cr3
  PROVE  Beyond' /\ (~vm'.failed => ~vm.failed /\ KeepsTranslations)
<1>1. /\ kernelfree \in Nat /\ physfree \in Nat /\ VIRT_OFFSET \in Nat /\ physfree <= kernelfree
      /\ cr3 # Unmapped
  BY Parameters DEF VInv, Typed, Up
<1>2. /\ n = Len(KernelPages(n))
      /\ \A i \in 1 .. n : KernelPages(n)[i] = VIRT_OFFSET + kernelfree + i - 1
      /\ \A i \in 1 .. n : KernelPages(n)[i] \in Ordinary
  BY KernelPagesAre DEF VInv
<1>3. \A i \in 1 .. n : KernelPages(n)[i] < VIRT_OFFSET + kernelfree + n
  BY <1>1, <1>2
<1>4. /\ Beyond'
      /\ ~vm'.failed =>
           /\ ~vm.failed
           /\ \A v \in Page \ Through(KernelPages(n), n) : FrameOf(v) \in {Unmapped, FrameOf(v)'}
  BY <1>2, <1>3, BeyondAllocates
<1>5. ASSUME ~vm.failed, NEW v \in Through(KernelPages(n), n)
      PROVE  FrameOf(v) = Unmapped \/ Behind(v)
  <2>1. PICK i \in 1 .. n : v = VIRT_OFFSET + kernelfree + i - 1
    BY <1>2 DEF Through
  <2>2. PICK f \in kernelfree .. KERNEL_LIMIT : f = kernelfree + i - 1
    BY <1>1, Parameters
  <2>3. v = VIRT_OFFSET + f
    BY <1>1, <2>1, <2>2
  <2>4. CASE f # physfree
    BY <1>1, <1>5, <2>3, <2>4 DEF Beyond
  <2>5. CASE f = physfree
    <3>1. kernelfree = physfree
      BY <1>1, <2>2, <2>5
    <3> QED  BY <2>3, <2>5, <3>1 DEF Beyond, Behind
  <2> QED  BY <2>4, <2>5
<1> QED  BY <1>4, <1>5 DEF KeepsTranslations

LEMMA NextBeyond ==
  ASSUME ClearRam, VInv, Beyond, [Next]_vars
  PROVE  /\ Beyond'
         /\ (\E size \in Sizes : kmalloc(size)) \/ kmalloc_page =>
              (~vm'.failed => KeepsTranslations)
<1>1. CASE setup_page_tables
  <2>1. ~Up
    BY <1>1 DEF setup_page_tables, Up
  <2> QED  BY <1>1, <2>1, BeyondSetUp DEF kmalloc, kmalloc_page
<1>2. CASE kmalloc_page
  <2>1. /\ Up /\ kernelfree + 1 <= KERNEL_LIMIT /\ vm' = AllBacked(KernelPages(1))
        /\ cr3' = cr3 /\ kernelfree' = kernelfree + 1
    BY <1>2 DEF kmalloc_page, Bumped
  <2> QED  BY <2>1, KernelKeeps
<1>3. ASSUME NEW size \in Sizes, kmalloc(size)
      PROVE  Beyond' /\ (~vm'.failed => KeepsTranslations)
  <2>1. PICK n \in Nat \ {0} : n = Count(size)
    BY CountIs, Parameters
  <2>2. /\ Up /\ kernelfree + n <= KERNEL_LIMIT /\ vm' = AllBacked(KernelPages(n))
        /\ cr3' = cr3 /\ kernelfree' = kernelfree + n
    BY <1>3, <2>1 DEF kmalloc, Bumped
  <2> QED  BY <2>2, KernelKeeps
<1>4. ASSUME NEW size \in Sizes, NEW v \in UserPages, kmalloc_virtual(size, v) PROVE Beyond'
  <2>1. PICK n \in Nat \ {0} : n = Count(size)
    BY CountIs, Parameters
  <2>2. /\ Up /\ vm' = AllBacked(StridedPages(v, n))
        /\ cr3' = cr3 /\ kernelfree' = kernelfree + n
    BY <1>4, <2>1 DEF kmalloc_virtual, Bumped
  <2>3. /\ n = Len(StridedPages(v, n))
        /\ \A i \in 1 .. n : StridedPages(v, n)[i] \in Ordinary /\ StridedPages(v, n)[i] < VIRT_OFFSET
    BY <2>1, StridedPagesAre, VmLayout, Parameters
  <2>4. \A i \in 1 .. n : StridedPages(v, n)[i] \in Ordinary /\ StridedPages(v, n)[i] < VIRT_OFFSET + kernelfree + n
    <3>1. kernelfree \in Nat /\ VIRT_OFFSET \in Nat
      BY Parameters DEF VInv, Typed
    <3>2. \A w \in Ordinary : w \in Nat
      BY PageOfIndices DEF Ordinary
    <3> QED  BY <2>3, <3>1, <3>2
  <2> QED  BY <2>2, <2>3, <2>4, BeyondAllocates
<1>5. ASSUME UNCHANGED vars PROVE Beyond' /\ KeepsTranslations
  <2>1. vm' = vm /\ cr3' = cr3 /\ kernelfree' = kernelfree /\ regions' = regions
    BY <1>5 DEF vars
  <2>2. \A v : FrameOf(v)' = FrameOf(v)
    BY <2>1 DEF FrameOf
  <2> QED  BY <2>1, <2>2 DEF Beyond, KeepsTranslations
<1>6. CASE \E size \in Sizes, v \in UserPages : kmalloc_virtual(size, v)
  <2>1. Beyond'
    BY <1>4, <1>6
  <2>2. ASSUME (\E size \in Sizes : kmalloc(size)) \/ kmalloc_page, ~vm'.failed
        PROVE  KeepsTranslations
    BY <1>2, <1>3, <2>2
  <2> QED  BY <2>1, <2>2
<1>7. CASE \E size \in Sizes : kmalloc(size)
  BY <1>2, <1>3, <1>7
<1> QED  BY <1>1, <1>2, <1>3, <1>5, <1>6, <1>7 DEF Next

(* mmap invalidates nothing, and for kmalloc it need not: until memory     *)
(* runs out no page that was mapped gets another frame, whatever           *)
(* kmalloc_virtual has mapped before, but for the page behind the bitmap,  *)
(* once (pagetab.c:193, pmap.c:150 to 174).                                *)
THEOREM KmallocReplacesNothing ==
  ASSUME ClearRam
  PROVE  Spec => [][((\E size \in Sizes : kmalloc(size)) \/ kmalloc_page)
                      => (~vm'.failed => KeepsTranslations)]_vars
<1>1. VInv /\ Beyond /\ [Next]_vars
        => Beyond' /\ [((\E size \in Sizes : kmalloc(size)) \/ kmalloc_page)
                         => (~vm'.failed => KeepsTranslations)]_vars
  BY NextBeyond
<1> QED  BY <1>1, VInvHolds, BeyondInit, PTL DEF Spec

-----------------------------------------------------------------------------
(* The address space.                                                      *)

ASMap(v) == IF cr3 = Unmapped THEN AtBoot(v) ELSE FrameOf(v)

ASStep == [AS!Map \/ AS!Over]_(AS!asvars)

(* The map that Vm gives an address space.                                 *)
ASFunction == [v \in Ordinary |-> ASMap(v)]

(* Pages that change between two maps that agree outside P.                *)
LEMMA MapMoves ==
  ASSUME cr3' # Unmapped, ~Broken, ~Broken', vm'.free \subseteq vm.free, NEW P,
         \A v \in Ordinary :
           /\ v \in P => FrameOf(v)' \in vm.free \ vm'.free
           /\ v \notin P => FrameOf(v)' = ASMap(v),
         \A v \in Ordinary, w \in Ordinary :
           v \in P /\ w \in P /\ FrameOf(v)' = FrameOf(w)' => v = w
  PROVE  AS!Map
<1>1. \A v \in AS!Changed : v \in Ordinary /\ FrameOf(v)' # ASMap(v)
  BY DEF AS!Changed, ASMap, AtBoot
<1>2. \A v \in AS!Changed : v \in Ordinary /\ v \in P
  BY <1>1
<1>3. ASSUME NEW v \in AS!Changed
      PROVE  v \in Ordinary /\ v \in P /\ FrameOf(v)' \in vm.free \ vm'.free
  BY <1>2
<1>4. ASSUME NEW v \in AS!Changed PROVE ASFunction'[v] = FrameOf(v)'
  BY <1>3 DEF ASFunction, ASMap
<1>5. /\ \A v \in AS!Changed : ASFunction'[v] \in vm.free \ vm'.free
      /\ \A v, w \in AS!Changed : ASFunction'[v] = ASFunction'[w] => v = w
  BY <1>3, <1>4
<1>6. UNCHANGED Broken
  BY DEF Broken
<1> QED  BY <1>5, <1>6, Zenon DEF AS!Map, ASFunction, ASMap, AtBoot

(* An allocation gives its pages fresh frames, or is the end of memory.    *)
LEMMA AllocationMaps ==
  ASSUME VInv, Up, NEW n \in Nat, NEW pages, n = Len(pages),
         \A i \in 1 .. n : pages[i] \in Ordinary, vm' = AllBacked(pages), cr3' = cr3
  PROVE  AS!Map \/ AS!Over
<1>1. cr3 # Unmapped /\ ~vm.fault
  BY DEF Up
<1>2. PICK P : P = Through(pages, n)
  OBVIOUS
<1>3. /\ vm.failed => vm'.failed
      /\ vm'.failed \/ Moved(vm, vm', cr3, P)
  BY <1>2, Allocates
<1>4. CASE vm'.failed
  BY <1>1, <1>4 DEF AS!Over, Broken
<1>5. CASE ~vm'.failed
  <2>1. ~vm.failed /\ Moved(vm, vm', cr3, P)
    BY <1>3, <1>5
  <2>2. PICK lev : Good(vm', cr3', lev)
    BY <2>1 DEF Moved
  <2>3. ~vm'.fault
    BY <2>2 DEF Good
  <2>4. ~Broken /\ ~Broken'
    BY <1>1, <1>5, <2>1, <2>3 DEF Broken
  <2>5. \A v : ASMap(v) = Translate(vm.mem, cr3, v)
    BY <1>1 DEF ASMap, FrameOf
  <2>6. \A v : FrameOf(v)' = Translate(vm'.mem, cr3', v)
    BY DEF FrameOf
  <2>7. /\ vm'.free \subseteq vm.free
        /\ \A v \in Ordinary :
             /\ v \in P => FrameOf(v)' \in vm.free \ vm'.free
             /\ v \notin P => FrameOf(v)' = ASMap(v)
    BY <2>1, <2>5, <2>6 DEF Moved
  <2>8. vm.free \subseteq RAM /\ Unmapped \notin RAM
    BY VmParameters, Parameters DEF VInv, Typed, State
  <2>9. \A v \in Ordinary, w \in Ordinary :
          v \in P /\ w \in P /\ FrameOf(v)' = FrameOf(w)' => v = w
    <3> SUFFICES ASSUME NEW v \in Ordinary, NEW w \in Ordinary, v \in P, w \in P,
                        FrameOf(v)' = FrameOf(w)'
                 PROVE  v = w
      OBVIOUS
    <3>1. /\ Translate(vm'.mem, cr3', v) = Translate(vm'.mem, cr3', w)
          /\ Translate(vm'.mem, cr3', v) # Unmapped
      BY <2>6, <2>7, <2>8
    <3> QED  BY <2>2, <3>1, InjectivePages
  <2> QED  BY <1>1, <2>4, <2>7, <2>9, MapMoves
<1> QED  BY <1>4, <1>5

(* Loading cr3 changes no translation.                                     *)
LEMMA SetUpMaps ==
  ASSUME ClearRam, VInv, setup_page_tables
  PROVE  AS!Map \/ AS!Over
<1>1. cr3 = Unmapped
  BY DEF setup_page_tables
<1>2. ~vm.failed /\ ~vm.fault /\ cr3' # Unmapped /\ ~vm'.fault /\ VInv'
  BY SetUpVInv
<1>3. CASE vm'.failed
  BY <1>2, <1>3 DEF AS!Over, Broken
<1>4. CASE ~vm'.failed
  <2>1. Booted(vm', cr3')
    BY <1>4, SetUpVInv
  <2>2. ~Broken /\ ~Broken'
    BY <1>1, <1>2, <1>4 DEF Broken
  <2>3. vm'.free \subseteq vm.free
    <3>1. vm.free = RAM
      BY <1>1 DEF VInv, Untouched
    <3>2. vm' \in State
      BY <1>2 DEF VInv, Typed
    <3> QED  BY <3>1, <3>2 DEF State
  <2>4. \A v \in Ordinary : FrameOf(v)' = ASMap(v)
    BY <1>1, <2>1 DEF ASMap, FrameOf, Booted
  <2>5. PICK P : P = {}
    OBVIOUS
  <2> QED  BY <1>2, <2>2, <2>3, <2>4, <2>5, MapMoves
<1> QED  BY <1>3, <1>4

(* Every step is one of an address space.                                  *)
LEMMA NextMaps ==
  ASSUME ClearRam, VInv, [Next]_vars
  PROVE  ASStep
<1>1. CASE setup_page_tables
  BY <1>1, SetUpMaps DEF ASStep
<1>2. ASSUME NEW n \in Nat, n = Len(KernelPages(n)), Up, kernelfree + n <= KERNEL_LIMIT,
             vm' = AllBacked(KernelPages(n)), cr3' = cr3
      PROVE  AS!Map \/ AS!Over
  <2>1. \A i \in 1 .. n : KernelPages(n)[i] \in Ordinary
    BY <1>2, KernelPagesAre DEF VInv
  <2> QED  BY <1>2, <2>1, AllocationMaps
<1>3. CASE kmalloc_page
  <2>1. /\ Up /\ kernelfree + 1 <= KERNEL_LIMIT /\ vm' = AllBacked(KernelPages(1))
        /\ cr3' = cr3 /\ 1 = Len(KernelPages(1))
    BY <1>3, KernelPagesAre DEF kmalloc_page, VInv
  <2> QED  BY <1>2, <2>1 DEF ASStep
<1>4. ASSUME NEW size \in Sizes, kmalloc(size) PROVE ASStep
  <2>1. PICK n \in Nat \ {0} : n = Count(size)
    BY CountIs, Parameters
  <2>2. /\ Up /\ kernelfree + n <= KERNEL_LIMIT /\ vm' = AllBacked(KernelPages(n))
        /\ cr3' = cr3
    BY <1>4, <2>1 DEF kmalloc
  <2>3. n = Len(KernelPages(n))
    BY <2>2, KernelPagesAre DEF VInv
  <2> QED  BY <1>2, <2>2, <2>3 DEF ASStep
<1>5. ASSUME NEW size \in Sizes, NEW v \in UserPages, kmalloc_virtual(size, v) PROVE ASStep
  <2>1. PICK n \in Nat \ {0} : n = Count(size)
    BY CountIs, Parameters
  <2>2. /\ Up /\ vm' = AllBacked(StridedPages(v, n)) /\ cr3' = cr3
    BY <1>5, <2>1 DEF kmalloc_virtual
  <2>3. /\ n = Len(StridedPages(v, n))
        /\ \A i \in 1 .. n : StridedPages(v, n)[i] \in Ordinary
    BY <2>1, StridedPagesAre, VmLayout, Parameters
  <2> QED  BY <2>2, <2>3, AllocationMaps DEF ASStep
<1>6. CASE UNCHANGED vars
  <2>1. vm' = vm /\ cr3' = cr3
    BY <1>6 DEF vars
  <2> QED  BY <2>1 DEF ASStep, AS!asvars, FrameOf, Broken
<1> QED  BY <1>1, <1>3, <1>4, <1>5, <1>6 DEF Next

(* The page tables implement an address space: in every step a page keeps  *)
(* its frame or gets one that was free and that no other page gets, and    *)
(* frames never become free again, until memory runs out (pagetab.c:31 to  *)
(* 196, pmap.c:135 to 203).                                                *)
THEOREM VmImplementsAddressSpace ==
  ASSUME ClearRam
  PROVE  Spec => ImplementsAddressSpace
<1>1. VInv /\ [Next]_vars => ASStep
  BY NextMaps
<1>2. Init => ~Broken
  BY DEF Init, Broken
<1> QED  BY <1>1, <1>2, VInvHolds, PTL DEF Spec, ImplementsAddressSpace, AS!ASSpec, ASStep

-----------------------------------------------------------------------------
(* Memory that is not cleared at boot: setup_page_tables.                  *)

(* The same state in memory whose free frames hold something else.         *)
SameUsed(s, c) ==
  /\ s \in State /\ c \in State
  /\ c.free = s.free /\ c.failed = s.failed /\ c.fault = s.fault
  /\ \A x \in Frames, j \in Slot : x \notin s.free => c.mem[x][j] = s.mem[x][j]

(* Every state has such a one in which the free frames are clear.          *)
WithClearFree(s) == [s EXCEPT !.mem = [x \in Frames |-> IF x \in s.free THEN Empty ELSE s.mem[x]]]

LEMMA ClearFreeIs ==
  ASSUME NEW s \in State, NEW c, c = WithClearFree(s)
  PROVE  SameUsed(s, c) /\ \A x \in s.free : c.mem[x] = Empty
<1>1. PICK m : m = [x \in Frames |-> IF x \in s.free THEN Empty ELSE s.mem[x]]
  OBVIOUS
<1>2. m \in [Frames -> Table] /\ \A x \in Frames : m[x] = IF x \in s.free THEN Empty ELSE s.mem[x]
  BY <1>1, EmptyIs DEF State
<1>3. c = [s EXCEPT !.mem = m]
  BY <1>1 DEF WithClearFree
<1>4. c \in State /\ c.mem = m /\ c.free = s.free /\ c.failed = s.failed /\ c.fault = s.fault
  BY <1>2, <1>3 DEF State
<1>5. s.free \subseteq Frames
  BY VmParameters DEF State
<1> QED  BY <1>2, <1>4, <1>5 DEF SameUsed

(* Both take the same frame.                                               *)
LEMMA SameFresh ==
  ASSUME NEW s, NEW c, SameUsed(s, c)
  PROVE  Fresh(c) = Fresh(s)
BY DEF SameUsed, Fresh

(* One level of getPT clears what it takes, so the difference stays among  *)
(* the free frames.                                                        *)
LEMMA EnsureClearedSame ==
  ASSUME NEW s, NEW c, SameUsed(s, c), NEW t \in Frames, t \notin s.free, NEW i \in Slot,
         NEW e, e = EnsureCleared(s, t, i), NEW ec, ec = EnsureCleared(c, t, i)
  PROVE  SameUsed(e, ec)
<1>1. /\ s \in State /\ c \in State /\ c.free = s.free /\ c.failed = s.failed /\ c.fault = s.fault
      /\ \A x \in Frames, j \in Slot : x \notin s.free => c.mem[x][j] = s.mem[x][j]
  BY Zenon DEF SameUsed
<1>2. c.mem[t][i] = s.mem[t][i]
  BY <1>1
<1>3. CASE s.mem[t][i].frame # 0
  <2>1. c.mem[t][i].frame # 0
    BY <1>2, <1>3
  <2>2. e = s /\ ec = c
    BY <1>1, <1>3, <2>1, EnsureClearedIs
  <2> QED  BY <2>2
<1>4. CASE s.mem[t][i].frame = 0
  <2>1. c.mem[t][i].frame = 0
    BY <1>2, <1>4
  <2>2. /\ e \in State /\ e.fault = s.fault /\ Installed(s, e, t, i)
        /\ ec \in State /\ ec.fault = c.fault /\ Installed(c, ec, t, i)
    BY <1>1, <1>4, <2>1, EnsureClearedIs
  <2>3. PICK f \in Frames : f = Fresh(s) /\ f = Fresh(c)
    BY <1>1, FreshIs, SameFresh
  <2>4. /\ e.free = s.free \ {f} /\ e.failed = (s.failed \/ s.free = {})
        /\ \A x \in Frames, j \in Slot :
             e.mem[x][j] = IF x = f THEN Empty[j]
                           ELSE IF x = t /\ j = i THEN Present(f) ELSE s.mem[x][j]
    <3>1. f = Fresh(s) /\ Installed(s, e, t, i)
      BY <2>2, <2>3
    <3> QED  BY <3>1, Zenon DEF Installed
  <2>5. /\ ec.free = c.free \ {f} /\ ec.failed = (c.failed \/ c.free = {})
        /\ \A x \in Frames, j \in Slot :
             ec.mem[x][j] = IF x = f THEN Empty[j]
                            ELSE IF x = t /\ j = i THEN Present(f) ELSE c.mem[x][j]
    <3>1. f = Fresh(c) /\ Installed(c, ec, t, i)
      BY <2>2, <2>3
    <3> QED  BY <3>1, Zenon DEF Installed
  <2>6. ASSUME NEW x \in Frames, NEW j \in Slot, x \notin e.free
        PROVE  ec.mem[x][j] = e.mem[x][j]
    <3>1. x = f \/ c.mem[x][j] = s.mem[x][j]
      BY <1>1, <2>4, <2>6
    <3>2. /\ e.mem[x][j] = IF x = f THEN Empty[j]
                           ELSE IF x = t /\ j = i THEN Present(f) ELSE s.mem[x][j]
          /\ ec.mem[x][j] = IF x = f THEN Empty[j]
                            ELSE IF x = t /\ j = i THEN Present(f) ELSE c.mem[x][j]
      BY <2>4, <2>5
    <3> QED  BY <3>1, <3>2
  <2>7. ec.free = e.free /\ ec.failed = e.failed /\ ec.fault = e.fault
    BY <1>1, <2>2, <2>4, <2>5
  <2> QED  BY <2>2, <2>6, <2>7 DEF SameUsed
<1> QED  BY <1>3, <1>4

(* The entry leads to a table one level down, which is not free.           *)
Led(c, ec, r, lev, t, i, p) ==
  \E lev2 :
    /\ YoungLater(c, ec, r, lev, lev2)
    /\ p \in Frames /\ p \notin ec.free /\ lev2[p] = lev[t] - 1 /\ p # r

(* One level of getPT leads to such a table.                               *)
LEMMA LedToTable ==
  ASSUME NEW c, NEW r, NEW lev, Young(c, r, lev),
         NEW t \in Frames, lev[t] \in 2 .. 4, NEW i \in Slot, ~Window(r, t, i),
         NEW ec, ec = EnsureCleared(c, t, i), ~ec.failed, NEW p, p = ec.mem[t][i].frame
  PROVE  Led(c, ec, r, lev, t, i, p)
<1>1. LedOn(c, ec, r, lev, t, i)
  BY EnsureClearedKeeps
<1>2. PICK lev2 : YoungLater(c, ec, r, lev, lev2)
  BY <1>1 DEF LedOn
<1>3. p \in Frames /\ Below(ec.mem, t, i) = p
  BY <1>1 DEF LedOn
<1>4. /\ Young(ec, r, lev2) /\ \A x \in ec.free : lev2[x] = 5
      /\ lev2[r] = 4 /\ lev2 \in [Frames -> 0 .. 5]
  BY <1>2, YoungFacts DEF YoungLater
<1>5. lev2[t] = lev[t]
  <2>1. t \notin c.free
    BY YoungFacts
  <2> QED  BY <1>2, <2>1 DEF YoungLater
<1>6. lev2[p] = lev2[t] - 1
  <2>1. Below(ec.mem, t, i) # Unmapped
    BY <1>3, VmParameters DEF Unmapped
  <2>2. Descends(ec.mem, r, lev2)
    BY <1>4 DEF Young, Tree
  <2>3. lev2[t] \in 1 .. 4
    BY <1>5
  <2> QED  BY <1>3, <2>1, <2>2, <2>3, Zenon DEF Descends
<1>7. p \notin ec.free /\ p # r
  BY <1>4, <1>5, <1>6
<1> QED  BY <1>2, <1>3, <1>5, <1>6, <1>7, Zenon DEF Led

(* getPT finds the same table.                                             *)
LEMMA GetPTSame ==
  ASSUME NEW s, NEW c, SameUsed(s, c), NEW r, NEW lev, Young(c, r, lev), NEW v \in Ordinary,
         NEW e, NEW p, getPT(s, r, v) = [state |-> e, pt |-> p],
         NEW ec, NEW pc, getPT(c, r, v) = [state |-> ec, pt |-> pc], ~e.failed
  PROVE  SameUsed(e, ec) /\ pc = p /\ p \in Frames /\ p \notin e.free
<1>1. /\ s \in State /\ c \in State /\ c.free = s.free /\ r \in Frames /\ r \notin c.free /\ lev[r] = 4
      /\ v \in Page
  BY YoungFacts, OrdinaryIndices DEF SameUsed
<1>2. PICK i4 \in Slot, i3 \in Slot, i2 \in Slot :
        i4 = PML4Index(v) /\ i3 = PDPIndex(v) /\ i2 = PDIndex(v) /\ i4 # RECURSIVE_SLOT
  BY OrdinaryIndices
<1>3. PICK s4 \in State, s3 \in State, s2 \in State, q3 \in Frames, q2 \in Frames, q1 \in Frames :
        Descended(s, r, v, s4, s3, s2, q3, q2, q1)
  BY <1>1, GetPTSteps
<1>4. PICK c4 \in State, c3 \in State, c2 \in State, p3 \in Frames, p2 \in Frames, p1 \in Frames :
        Descended(c, r, v, c4, c3, c2, p3, p2, p1)
  BY <1>1, GetPTSteps
<1>5. /\ s4 = EnsureCleared(s, r, i4) /\ q3 = s4.mem[r][i4].frame
      /\ s3 = EnsureCleared(s4, q3, i3) /\ q2 = s3.mem[q3][i3].frame
      /\ s2 = EnsureCleared(s3, q2, i2) /\ q1 = s2.mem[q2][i2].frame
      /\ (s4.failed => s3.failed) /\ (s3.failed => s2.failed)
      /\ getPT(s, r, v) = [state |-> s2, pt |-> q1]
  BY <1>2, <1>3, Zenon DEF Descended
<1>6. /\ c4 = EnsureCleared(c, r, i4) /\ p3 = c4.mem[r][i4].frame
      /\ c3 = EnsureCleared(c4, p3, i3) /\ p2 = c3.mem[p3][i3].frame
      /\ c2 = EnsureCleared(c3, p2, i2) /\ p1 = c2.mem[p2][i2].frame
      /\ getPT(c, r, v) = [state |-> c2, pt |-> p1]
  BY <1>2, <1>4, Zenon DEF Descended
<1>7. \A x, y, w, z : [state |-> x, pt |-> y] = [state |-> w, pt |-> z] => x = w /\ y = z
  <2> SUFFICES ASSUME NEW x, NEW y, NEW w, NEW z, [state |-> x, pt |-> y] = [state |-> w, pt |-> z]
               PROVE  x = w /\ y = z
    OBVIOUS
  <2>1. /\ [state |-> x, pt |-> y].state = [state |-> w, pt |-> z].state
        /\ [state |-> x, pt |-> y].pt = [state |-> w, pt |-> z].pt
    OBVIOUS
  <2> QED  BY <2>1
<1>8. e = s2 /\ p = q1 /\ ec = c2 /\ pc = p1
  <2>1. [state |-> e, pt |-> p] = [state |-> s2, pt |-> q1]
    BY <1>5
  <2>2. [state |-> ec, pt |-> pc] = [state |-> c2, pt |-> p1]
    BY <1>6
  <2> QED  BY <1>7, <2>1, <2>2, Zenon
<1>9. ~s4.failed /\ ~s3.failed /\ ~s2.failed
  BY <1>5, <1>8, Zenon
<1>10. SameUsed(s4, c4)
  BY <1>1, <1>5, <1>6, EnsureClearedSame
<1>11. PICK lev4 : /\ YoungLater(c, c4, r, lev, lev4)
                   /\ p3 \in Frames /\ p3 \notin c4.free /\ lev4[p3] = 3 /\ p3 # r
  <2>1. ~Window(r, r, i4) /\ lev[r] \in 2 .. 4
    BY <1>1, <1>2 DEF Window
  <2>f. ~c4.failed
    BY <1>9, <1>10 DEF SameUsed
  <2>2. Led(c, c4, r, lev, r, i4, p3)
    BY <1>1, <1>6, <2>f, <2>1, LedToTable
  <2> QED  BY <1>1, <2>2 DEF Led
<1>12. Young(c4, r, lev4) /\ r \notin c4.free /\ c4.free = s4.free
  BY <1>10, <1>11, YoungFacts DEF YoungLater, SameUsed
<1>13. q3 = p3
  <2>1. c4.mem[r][i4] = s4.mem[r][i4]
    BY <1>1, <1>10, <1>12 DEF SameUsed
  <2> QED  BY <1>5, <1>6, <2>1
<1>14. SameUsed(s3, c3)
  BY <1>5, <1>6, <1>10, <1>11, <1>12, <1>13, EnsureClearedSame
<1>15. PICK lev3 : /\ YoungLater(c4, c3, r, lev4, lev3)
                   /\ p2 \in Frames /\ p2 \notin c3.free /\ lev3[p2] = 2 /\ p2 # r
  <2>1. ~Window(r, p3, i3) /\ lev4[p3] \in 2 .. 4
    BY <1>11 DEF Window
  <2>f. ~c3.failed
    BY <1>9, <1>14 DEF SameUsed
  <2>2. Led(c4, c3, r, lev4, p3, i3, p2)
    BY <1>6, <2>f, <1>11, <1>12, <2>1, LedToTable
  <2> QED  BY <1>11, <2>2 DEF Led
<1>16. Young(c3, r, lev3) /\ c3.free = s3.free /\ c3.free \subseteq c4.free
  BY <1>14, <1>15 DEF YoungLater, SameUsed
<1>17. q2 = p2
  <2>1. c3.mem[p3][i3] = s3.mem[p3][i3]
    BY <1>11, <1>14, <1>16 DEF SameUsed
  <2> QED  BY <1>5, <1>6, <1>13, <2>1
<1>18. SameUsed(s2, c2)
  BY <1>5, <1>6, <1>14, <1>15, <1>16, <1>17, EnsureClearedSame
<1>19. p1 \notin c2.free /\ c2.free \subseteq c3.free
  <2>1. ~Window(r, p2, i2) /\ lev3[p2] \in 2 .. 4
    BY <1>15 DEF Window
  <2>f. ~c2.failed
    BY <1>9, <1>18 DEF SameUsed
  <2>2. Led(c3, c2, r, lev3, p2, i2, p1)
    BY <1>6, <2>f, <1>15, <1>16, <2>1, LedToTable
  <2> QED  BY <2>2 DEF Led, YoungLater
<1>20. q1 = p1
  <2>1. c2.free = s2.free /\ c2.mem[p2][i2] = s2.mem[p2][i2]
    BY <1>15, <1>18, <1>19 DEF SameUsed
  <2> QED  BY <1>5, <1>6, <1>17, <2>1
<1>21. c2.free = s2.free
  BY <1>18 DEF SameUsed
<1> QED  BY <1>8, <1>18, <1>19, <1>20, <1>21

(* A mapping loop writes the same entries.                                 *)
LEMMA MapRangeSame ==
  ASSUME NEW s, NEW c, SameUsed(s, c), NEW r, NEW lev, Young(c, r, lev),
         NEW first, NEW last, OneTable(first, last),
         NEW e, e = MapRange(s, r, VIRT_OFFSET + first, first, last), ~e.failed,
         NEW ec, ec = MapRange(c, r, VIRT_OFFSET + first, first, last)
  PROVE  SameUsed(e, ec)
<1>1. s \in State /\ c \in State /\ r \in Frames
  BY YoungFacts DEF SameUsed
<1>2. PICK v \in Ordinary : v = VIRT_OFFSET + first
  BY DEF OneTable
<1>3. v \in Page
  BY OrdinaryIndices
<1>4. PICK F : F = first .. last
  OBVIOUS
<1>5. e \in State /\ \E g \in State, p \in Frames : Ranged(s, r, v, first, last, e, g, p)
  BY <1>1, <1>2, <1>3, MapRangeIs
<1>6. ec \in State /\ \E g \in State, p \in Frames : Ranged(c, r, v, first, last, ec, g, p)
  BY <1>1, <1>2, <1>3, MapRangeIs
<1>7. PICK g \in State, p \in Frames :
        /\ getPT(s, r, v) = [state |-> g, pt |-> p]
        /\ e.free = g.free /\ e.failed = g.failed /\ e.fault = g.fault
        /\ RowWritten(g.mem, e.mem, p, F)
  BY <1>4, <1>5, Zenon DEF Ranged
<1>8. PICK gc \in State, pc \in Frames :
        /\ getPT(c, r, v) = [state |-> gc, pt |-> pc]
        /\ ec.free = gc.free /\ ec.failed = gc.failed /\ ec.fault = gc.fault
        /\ RowWritten(gc.mem, ec.mem, pc, F)
  BY <1>4, <1>6, Zenon DEF Ranged
<1>9. SameUsed(g, gc) /\ pc = p /\ p \notin g.free
  BY <1>7, <1>8, GetPTSame
<1>10. ASSUME NEW x \in Frames, NEW j \in Slot, x \notin e.free PROVE ec.mem[x][j] = e.mem[x][j]
  <2>1. CASE x # p \/ (\A f \in F : IndexOf(f) # j)
    <3>1. e.mem[x][j] = g.mem[x][j] /\ ec.mem[x][j] = gc.mem[x][j]
      BY <1>7, <1>8, <1>9, <2>1 DEF RowWritten
    <3>2. gc.mem[x][j] = g.mem[x][j]
      BY <1>7, <1>9, <1>10 DEF SameUsed
    <3> QED  BY <3>1, <3>2
  <2>2. CASE x = p /\ \E f \in F : IndexOf(f) = j
    <3>1. PICK f \in F : IndexOf(f) = j
      BY <2>2
    <3>2. e.mem[p][j] = Present(f) /\ ec.mem[p][j] = Present(f)
      BY <1>7, <1>8, <1>9, <3>1 DEF RowWritten
    <3> QED  BY <2>2, <3>2
  <2> QED  BY <2>1, <2>2
<1>11. ec.free = e.free /\ ec.failed = e.failed /\ ec.fault = e.fault
  BY <1>7, <1>8, <1>9 DEF SameUsed
<1> QED  BY <1>5, <1>6, <1>10, <1>11 DEF SameUsed

(* setup_page_tables leaves the same tables, whatever its memory held: it  *)
(* clears every frame it takes.                                            *)
LEMMA SetUpSame ==
  ASSUME NEW s \in State, s.free = RAM, ~s.failed, ~s.fault,
         NEW r, NEW clear, NEW kernel, NEW video, NEW e,
         SetUp(s, r, clear, kernel, video, e), ~e.failed
  PROVE  \E c : SameUsed(e, c) /\ Booted(c, r)
<1>1. PICK c \in State : SameUsed(s, c) /\ \A x \in RAM : c.mem[x] = Empty
  <2>1. PICK c : c = WithClearFree(s)
    OBVIOUS
  <2>2. SameUsed(s, c) /\ \A x \in RAM : c.mem[x] = Empty
    BY <2>1, ClearFreeIs
  <2> QED  BY <2>2 DEF SameUsed
<1>2. c.free = RAM /\ ~c.failed /\ ~c.fault
  BY <1>1 DEF SameUsed
<1>3. /\ r = Fresh(s) /\ clear = [Taken(s) EXCEPT !.mem[r] = Empty]
      /\ kernel = MapRange(clear, r, VIRT_OFFSET + physbase, physbase, physfree)
      /\ video = MapRange(kernel, r, VIRT_OFFSET + Video, Video, Video)
      /\ e = [video EXCEPT !.mem[r][RECURSIVE_SLOT] = Present(r)]
  BY Zenon DEF SetUp
<1>4. PICK cclear : cclear = [Taken(c) EXCEPT !.mem[r] = Empty]
  OBVIOUS
<1>5. PICK ckernel : ckernel = MapRange(cclear, r, VIRT_OFFSET + physbase, physbase, physfree)
  OBVIOUS
<1>6. PICK cvideo : cvideo = MapRange(ckernel, r, VIRT_OFFSET + Video, Video, Video)
  OBVIOUS
<1>7. PICK ce : ce = [cvideo EXCEPT !.mem[r][RECURSIVE_SLOT] = Present(r)]
  OBVIOUS
<1>8. r = Fresh(c)
  BY <1>1, <1>3, SameFresh
<1>9. SetUp(c, r, cclear, ckernel, cvideo, ce)
  BY <1>4, <1>5, <1>6, <1>7, <1>8, Zenon DEF SetUp
<1>10. /\ r \in Frames /\ clear \in State /\ kernel \in State /\ video \in State /\ e \in State
       /\ Cleared(Taken(s), clear, r)
       /\ ~clear.failed /\ ~kernel.failed /\ ~video.failed
  <2>1. SetUpTypes(s, r, clear, kernel, video, e)
    BY SetUpType
  <2> QED  BY <2>1, Zenon DEF SetUpTypes
<1>11. /\ cclear \in State /\ ckernel \in State /\ cvideo \in State /\ ce \in State
       /\ Cleared(Taken(c), cclear, r)
  <2>1. SetUpTypes(c, r, cclear, ckernel, cvideo, ce)
    BY <1>9, SetUpType
  <2> QED  BY <2>1, Zenon DEF SetUpTypes
<1>12. r \in RAM /\ r # 0
  <2>1. Taken(s).failed = (s.failed \/ s.free = {}) /\ clear.failed = Taken(s).failed
    BY <1>10, FreshIs DEF Cleared
  <2>2. s.free # {}
    BY <1>10, <2>1, Zenon
  <2> QED  BY <1>3, <2>2, FreshIs, VmParameters
<1>13. SameUsed(clear, cclear)
  <2>1. /\ Taken(s).mem = s.mem /\ Taken(s).free = s.free \ {r}
        /\ Taken(s).failed = (s.failed \/ s.free = {}) /\ Taken(s).fault = s.fault
    BY <1>3, FreshIs
  <2>2. /\ Taken(c).mem = c.mem /\ Taken(c).free = c.free \ {r}
        /\ Taken(c).failed = (c.failed \/ c.free = {}) /\ Taken(c).fault = c.fault
    BY <1>8, FreshIs
  <2>3. cclear.free = clear.free /\ cclear.failed = clear.failed /\ cclear.fault = clear.fault
    BY <1>1, <1>10, <1>11, <2>1, <2>2 DEF Cleared, SameUsed
  <2>4. ASSUME NEW x \in Frames, NEW j \in Slot, x \notin clear.free
        PROVE  cclear.mem[x][j] = clear.mem[x][j]
    <3>1. x = r \/ x \notin s.free
      BY <1>10, <2>1, <2>4 DEF Cleared
    <3>2. /\ clear.mem[x] = IF x = r THEN Empty ELSE s.mem[x]
          /\ cclear.mem[x] = IF x = r THEN Empty ELSE c.mem[x]
      BY <1>10, <1>11, <2>1, <2>2 DEF Cleared
    <3> QED  BY <1>1, <3>1, <3>2 DEF SameUsed
  <2> QED  BY <1>10, <1>11, <2>3, <2>4 DEF SameUsed
<1>14. PICK lev0 : lev0 = [x \in Frames |-> IF x = r THEN 4 ELSE 5]
  OBVIOUS
<1>15. Young(cclear, r, lev0)
  BY <1>1, <1>2, <1>8, <1>11, <1>12, <1>14, ClearTree
<1>16. OneTable(physbase, physfree) /\ OneTable(Video, Video)
  BY RangesFit
<1>17. SameUsed(kernel, ckernel)
  BY <1>3, <1>5, <1>10, <1>13, <1>15, <1>16, MapRangeSame
<1>18. PICK lev1 : Young(ckernel, r, lev1)
  <2>1. \A f \in physbase .. physfree : lev0[f] = 5
    BY <1>12, <1>14, <1>16 DEF OneTable
  <2>2. ~ckernel.failed
    BY <1>10, <1>17 DEF SameUsed
  <2>3. RangedOn(cclear, ckernel, r, lev0, physbase .. physfree)
    BY <1>5, <1>15, <1>16, <2>1, <2>2, MapRangeKeeps
  <2> QED  BY <2>3, Zenon DEF RangedOn
<1>19. SameUsed(video, cvideo)
  BY <1>3, <1>6, <1>10, <1>16, <1>17, <1>18, MapRangeSame
<1>20. SameUsed(e, ce)
  <2>1. PICK R \in Slot : R = RECURSIVE_SLOT
    BY Entries
  <2>2. /\ e.mem = [video.mem EXCEPT ![r][R] = Present(r)]
        /\ e.free = video.free /\ e.failed = video.failed /\ e.fault = video.fault
    BY <1>3, <1>10, <2>1, Linked
  <2>3. /\ ce.mem = [cvideo.mem EXCEPT ![r][R] = Present(r)]
        /\ ce.free = cvideo.free /\ ce.failed = cvideo.failed /\ ce.fault = cvideo.fault
    BY <1>7, <1>10, <1>11, <2>1, Linked
  <2>4. ASSUME NEW x \in Frames, NEW j \in Slot, x \notin e.free PROVE ce.mem[x][j] = e.mem[x][j]
    <3>1. video.mem \in [Frames -> Table] /\ cvideo.mem \in [Frames -> Table]
      BY <1>10, <1>11 DEF State
    <3>2. e.mem[x][j] = IF x = r /\ j = R THEN Present(r) ELSE video.mem[x][j]
      BY <1>10, <2>2, <3>1, Written
    <3>3. ce.mem[x][j] = IF x = r /\ j = R THEN Present(r) ELSE cvideo.mem[x][j]
      BY <1>10, <2>3, <3>1, Written
    <3>4. cvideo.mem[x][j] = video.mem[x][j]
      BY <1>19, <2>2, <2>4 DEF SameUsed
    <3> QED  BY <3>2, <3>3, <3>4
  <2>5. ce.free = e.free /\ ce.failed = e.failed /\ ce.fault = e.fault
    BY <1>19, <2>2, <2>3 DEF SameUsed
  <2> QED  BY <1>10, <1>11, <2>4, <2>5 DEF SameUsed
<1>21. Booted(ce, r)
  <2>1. ~ce.failed
    BY <1>20 DEF SameUsed
  <2> QED  BY <1>1, <1>2, <1>9, <2>1, SetUpBoots
<1> QED  BY <1>20, <1>21

-----------------------------------------------------------------------------
(* The heap in that memory.                                                *)

(* The tables of s are those of c, a state whose free frames are clear.    *)
(* What they hold besides, in free frames and in those of pages, may       *)
(* differ.                                                                 *)
Shadowed(s, r, c, lev) ==
  /\ Good(c, r, lev)
  /\ s \in State /\ c.free = s.free /\ c.failed = s.failed /\ c.fault = s.fault
  /\ \A x \in Frames, j \in Slot : lev[x] \in 1 .. 4 => s.mem[x][j] = c.mem[x][j]

LEMMA UsedIsShadowed ==
  ASSUME NEW s, NEW c, SameUsed(s, c), NEW r, NEW lev, Good(c, r, lev)
  PROVE  Shadowed(s, r, c, lev)
<1>1. \A x \in s.free : lev[x] = 5
  BY GoodFacts DEF SameUsed
<1>2. \A x \in Frames, j \in Slot : lev[x] \in 1 .. 4 => s.mem[x][j] = c.mem[x][j]
  BY <1>1 DEF SameUsed
<1> QED  BY <1>2, Zenon DEF SameUsed, Shadowed

(* The entries of a table lead to the same frames.                         *)
LEMMA ShadowedBelow ==
  ASSUME NEW s, NEW r, NEW c, NEW lev, Shadowed(s, r, c, lev),
         NEW x, x = Unmapped \/ (x \in Frames /\ lev[x] \in 1 .. 4), NEW j \in Slot
  PROVE  Below(s.mem, x, j) = Below(c.mem, x, j)
<1>1. s.mem \in [Frames -> Table] /\ c.mem \in [Frames -> Table]
  BY GoodFacts DEF Shadowed, State
<1>2. CASE x = Unmapped
  BY <1>1, <1>2, BelowType
<1>3. CASE x \in Frames /\ lev[x] \in 1 .. 4
  <2>1. s.mem[x][j] = c.mem[x][j]
    BY <1>3 DEF Shadowed
  <2>2. /\ Below(s.mem, x, j) = IF s.mem[x][j].present THEN s.mem[x][j].frame ELSE Unmapped
        /\ Below(c.mem, x, j) = IF c.mem[x][j].present THEN c.mem[x][j].frame ELSE Unmapped
    BY <1>1, <1>3, BelowIs
  <2> QED  BY <2>1, <2>2
<1> QED  BY <1>2, <1>3

(* The tables on the way to a page, and the page, are the same.            *)
SameWay(mem, mem2, r, a, b, c, d) ==
  /\ Below(mem, r, a) = Below(mem2, r, a)
  /\ Below(mem, Below(mem, r, a), b) = Below(mem2, Below(mem2, r, a), b)
  /\ Below(mem, Below(mem, Below(mem, r, a), b), c) = Below(mem2, Below(mem2, Below(mem2, r, a), b), c)
  /\ Walk(mem, r, a, b, c, d) = Walk(mem2, r, a, b, c, d)

(* The tables of s lead the same way as those of its shadow.               *)
LEMMA ShadowedWay ==
  ASSUME NEW s, NEW r, NEW c, NEW lev, Shadowed(s, r, c, lev),
         NEW i4 \in Slot, NEW i3 \in Slot, NEW i2 \in Slot, NEW i1 \in Slot, i4 # RECURSIVE_SLOT
  PROVE  SameWay(s.mem, c.mem, r, i4, i3, i2, i1)
<1>0. Good(c, r, lev)
  BY DEF Shadowed
<1>1. /\ c.mem \in [Frames -> Table] /\ c.free \in SUBSET Frames /\ r \in Frames /\ lev[r] = 4
      /\ Tree(c.mem, c.free, r, lev)
  <2>1. Tree(c.mem, c.free, r, lev)
    BY <1>0 DEF Good
  <2> QED  BY <1>0, <2>1, GoodFacts
<1>2. PICK t3 : t3 = Below(c.mem, r, i4)
  OBVIOUS
<1>3. PICK t2 : t2 = Below(c.mem, t3, i3)
  OBVIOUS
<1>4. PICK t1 : t1 = Below(c.mem, t2, i2)
  OBVIOUS
<1>5. OnWay(lev, t3, t2, t1, Below(c.mem, t1, i1))
  BY <1>1, <1>2, <1>3, <1>4, OnTheWay, Zenon
<1>6. /\ t3 = Unmapped \/ (t3 \in Frames /\ lev[t3] \in 1 .. 4)
      /\ t2 = Unmapped \/ (t2 \in Frames /\ lev[t2] \in 1 .. 4)
      /\ t1 = Unmapped \/ (t1 \in Frames /\ lev[t1] \in 1 .. 4)
  BY <1>5 DEF OnWay
<1>7. /\ Below(s.mem, r, i4) = t3 /\ Below(s.mem, t3, i3) = t2
      /\ Below(s.mem, t2, i2) = t1 /\ Below(s.mem, t1, i1) = Below(c.mem, t1, i1)
  BY <1>1, <1>2, <1>3, <1>4, <1>6, ShadowedBelow
<1> QED  BY <1>2, <1>3, <1>4, <1>7, Zenon DEF SameWay, Walk

(* So every page is translated alike.                                      *)
LEMMA ShadowedMap ==
  ASSUME NEW s, NEW r, NEW c, NEW lev, Shadowed(s, r, c, lev), NEW w \in Ordinary
  PROVE  Translate(s.mem, r, w) = Translate(c.mem, r, w)
<1>1. PICK i4 \in Slot, i3 \in Slot, i2 \in Slot, i1 \in Slot :
        /\ i4 = PML4Index(w) /\ i3 = PDPIndex(w) /\ i2 = PDIndex(w) /\ i1 = PTIndex(w)
        /\ i4 # RECURSIVE_SLOT
  BY OrdinaryIndices
<1>2. SameWay(s.mem, c.mem, r, i4, i3, i2, i1)
  BY <1>1, ShadowedWay
<1> QED  BY <1>1, <1>2, TranslateWalks, Zenon DEF SameWay

(* The page table of page v.                                               *)
TableOf(mem, r, v) == Below(mem, Below(mem, Below(mem, r, PML4Index(v)), PDPIndex(v)), PDIndex(v))

(* Where all tables are present mmap allocates none and writes the entry.  *)
LEMMA MmapInTable ==
  ASSUME NEW s \in State, NEW r \in Frames, Below(s.mem, r, RECURSIVE_SLOT) = r,
         NEW v \in Page, NEW i4 \in Slot, NEW i3 \in Slot, NEW i2 \in Slot,
         i4 = PML4Index(v), i3 = PDPIndex(v), i2 = PDIndex(v),
         NEW t3 \in Frames, NEW t2 \in Frames, NEW t1 \in Frames, t3 # 0, t2 # 0, t1 # 0,
         t3 = Below(s.mem, r, i4), t2 = Below(s.mem, t3, i3), t1 = Below(s.mem, t2, i2),
         NEW f \in Frames
  PROVE  mmap(s, r, v, f) = Entered(s, t1, v, f)
<1>1. s.mem \in [Frames -> Table] /\ Unmapped \notin Frames
  BY VmParameters DEF State, Unmapped
<1>2. /\ Translate(s.mem, r, PML4_BASE) = r /\ Translate(s.mem, r, PDP_BASE(v)) = t3
      /\ Translate(s.mem, r, PD_BASE(v)) = t2 /\ Translate(s.mem, r, PT_BASE(v)) = t1
  BY <1>1, Windows
<1>3. s.mem[r][i4].frame # 0 /\ s.mem[t3][i3].frame # 0 /\ s.mem[t2][i2].frame # 0
  BY <1>1, BelowIs
<1>e. \A window, t, i :
        t = Translate(s.mem, r, window) /\ t # Unmapped /\ s.mem[t][i].frame # 0
          => Ensure(s, r, window, i) = s
  BY Zenon DEF Ensure
<1>4. Ensure(s, r, PML4_BASE, i4) = s
  BY <1>1, <1>2, <1>3, <1>e
<1>5. Ensure(s, r, PDP_BASE(v), i3) = s
  BY <1>1, <1>2, <1>3, <1>e
<1>6. Ensure(s, r, PD_BASE(v), i2) = s
  BY <1>1, <1>2, <1>3, <1>e
<1>7. PICK s4 \in State, s3 \in State, s2 \in State, t \in Frames \cup {Unmapped} :
        Levelwise(s, r, v, f, s4, s3, s2, t)
  BY MmapSteps
<1>8. /\ s4 = Ensure(s, r, PML4_BASE, i4)
      /\ s3 = Ensure(s4, r, PDP_BASE(v), i3)
      /\ s2 = Ensure(s3, r, PD_BASE(v), i2)
      /\ t = Translate(s2.mem, r, PT_BASE(v))
      /\ mmap(s, r, v, f) = IF t = Unmapped THEN [s2 EXCEPT !.fault = TRUE]
                            ELSE [s2 EXCEPT !.mem[t][PTIndex(v)] = Present(f)]
  BY <1>7, Zenon DEF Levelwise
<1>9. s2 = s
  BY <1>4, <1>5, <1>6, <1>8
<1>10. t = t1 /\ t # Unmapped
  BY <1>1, <1>2, <1>8, <1>9
<1> QED  BY <1>8, <1>9, <1>10 DEF Entered

(* Where a page table is present, and the ones above it are too.           *)
LEMMA TablesPresent ==
  ASSUME NEW c, NEW r, NEW lev, Good(c, r, lev), NEW v \in Ordinary, TableOf(c.mem, r, v) # Unmapped,
         NEW t3, NEW t2, NEW t1, t3 = Below(c.mem, r, PML4Index(v)),
         t2 = Below(c.mem, t3, PDPIndex(v)), t1 = Below(c.mem, t2, PDIndex(v))
  PROVE  /\ t3 \in Frames /\ lev[t3] = 3 /\ t3 # 0
         /\ t2 \in Frames /\ lev[t2] = 2 /\ t2 # 0
         /\ t1 \in Frames /\ lev[t1] = 1 /\ t1 # 0
<1>1. PICK i4 \in Slot, i3 \in Slot, i2 \in Slot, i1 \in Slot :
        /\ i4 = PML4Index(v) /\ i3 = PDPIndex(v) /\ i2 = PDIndex(v) /\ i1 = PTIndex(v)
        /\ i4 # RECURSIVE_SLOT
  BY OrdinaryIndices
<1>2. /\ c.mem \in [Frames -> Table] /\ c.free \in SUBSET Frames /\ r \in Frames /\ lev[r] = 4
      /\ Unmapped \notin Frames
  BY GoodFacts, VmParameters DEF Unmapped
<1>3. Tree(c.mem, c.free, r, lev) /\ \A x \in Frames : lev[x] \in 1 .. 4 => Tidy(c.mem, x)
  BY DEF Good, Tree, Clean
<1>4. t3 = Below(c.mem, r, i4) /\ t2 = Below(c.mem, t3, i3) /\ t1 = Below(c.mem, t2, i2) /\ t1 # Unmapped
  BY <1>1, Zenon DEF TableOf
<1>5. OnWay(lev, t3, t2, t1, Below(c.mem, t1, i1))
  <2>1. OnWay(lev, Below(c.mem, r, i4), Below(c.mem, Below(c.mem, r, i4), i3),
              Below(c.mem, Below(c.mem, Below(c.mem, r, i4), i3), i2),
              Below(c.mem, Below(c.mem, Below(c.mem, Below(c.mem, r, i4), i3), i2), i1))
    BY <1>1, <1>2, <1>3, OnTheWay, Zenon
  <2> QED  BY <1>4, <2>1
<1>6. /\ t3 \in Frames /\ lev[t3] = 3 /\ t2 \in Frames /\ lev[t2] = 2 /\ t1 \in Frames /\ lev[t1] = 1
  BY <1>2, <1>4, <1>5 DEF OnWay
<1>7. \A x \in Frames, i \in Slot : lev[x] \in 1 .. 4 /\ Below(c.mem, x, i) \in Frames => Below(c.mem, x, i) # 0
  <2> SUFFICES ASSUME NEW x \in Frames, NEW i \in Slot, lev[x] \in 1 .. 4, Below(c.mem, x, i) \in Frames
               PROVE  Below(c.mem, x, i) # 0
    OBVIOUS
  <2>1. Below(c.mem, x, i) = IF c.mem[x][i].present THEN c.mem[x][i].frame ELSE Unmapped
    BY <1>2, BelowIs
  <2>2. c.mem[x][i].present => c.mem[x][i].frame # 0
    BY <1>3 DEF Tidy
  <2> QED  BY <1>2, <2>1, <2>2
<1> QED  BY <1>2, <1>4, <1>6, <1>7

(* A page backed where its page table is present is backed in both states, *)
(* in the same frame.                                                      *)
LEMMA ShadowedBacked ==
  ASSUME NEW s, NEW r, NEW c, NEW lev, Shadowed(s, r, c, lev),
         NEW v \in Ordinary, TableOf(c.mem, r, v) # Unmapped,
         NEW m, m = Backed(s, r, v), ~m.failed, NEW mc, mc = Backed(c, r, v)
  PROVE  ~mc.failed /\ \E lev2 : Shadowed(m, r, mc, lev2)
<1>0. /\ Good(c, r, lev) /\ s \in State
      /\ c.free = s.free /\ c.failed = s.failed /\ c.fault = s.fault
      /\ \A x \in Frames, j \in Slot : lev[x] \in 1 .. 4 => s.mem[x][j] = c.mem[x][j]
  BY DEF Shadowed
<1>1. /\ c \in State /\ c.mem \in [Frames -> Table] /\ r \in Frames /\ lev[r] = 4 /\ v \in Page
      /\ s.mem \in [Frames -> Table] /\ \A f \in c.free : lev[f] = 5 /\ f # 0
  BY <1>0, GoodFacts, OrdinaryIndices DEF State
<1>2. PICK i4 \in Slot, i3 \in Slot, i2 \in Slot, d \in Slot :
        i4 = PML4Index(v) /\ i3 = PDPIndex(v) /\ i2 = PDIndex(v) /\ d = PTIndex(v)
  BY OrdinaryIndices
<1>3. PICK t3 : t3 = Below(c.mem, r, i4)
  OBVIOUS
<1>4. PICK t2 : t2 = Below(c.mem, t3, i3)
  OBVIOUS
<1>5. PICK t : t = Below(c.mem, t2, i2)
  OBVIOUS
<1>6. /\ t3 \in Frames /\ lev[t3] = 3 /\ t3 # 0
      /\ t2 \in Frames /\ lev[t2] = 2 /\ t2 # 0
      /\ t \in Frames /\ lev[t] = 1 /\ t # 0
  BY <1>0, <1>2, <1>3, <1>4, <1>5, TablesPresent
<1>7. Below(c.mem, r, RECURSIVE_SLOT) = r
  BY <1>0 DEF Good
<1>8. /\ Below(s.mem, r, RECURSIVE_SLOT) = r
      /\ t3 = Below(s.mem, r, i4) /\ t2 = Below(s.mem, t3, i3) /\ t = Below(s.mem, t2, i2)
  BY <1>1, <1>3, <1>4, <1>5, <1>6, <1>7, ShadowedBelow, Entries
<1>9. PICK f \in Frames : f = Fresh(s) /\ f = Fresh(c)
  <2>1. Fresh(s) = Fresh(c)
    BY <1>0 DEF Fresh
  <2> QED  BY <1>0, <2>1, FreshIs
<1>10. PICK p \in State : p = Taken(s)
  BY <1>0, FreshIs
<1>11. PICK q \in State : q = Taken(c)
  BY <1>1, FreshIs
<1>12. /\ p.mem = s.mem /\ p.fault = s.fault /\ p.free = s.free \ {f}
       /\ p.failed = (s.failed \/ s.free = {}) /\ (s.free # {} => f \in s.free)
  BY <1>0, <1>9, <1>10, FreshIs
<1>13. /\ q.mem = c.mem /\ q.fault = c.fault /\ q.free = c.free \ {f}
       /\ q.failed = (c.failed \/ c.free = {})
  BY <1>1, <1>9, <1>11, FreshIs
<1>14. m = mmap(p, r, v, f) /\ mc = mmap(q, r, v, f)
  BY <1>9, <1>10, <1>11 DEF Backed
<1>15. m = Entered(p, t, v, f)
  BY <1>1, <1>2, <1>6, <1>8, <1>12, <1>14, MmapInTable
<1>16. mc = Entered(q, t, v, f)
  BY <1>1, <1>2, <1>3, <1>4, <1>5, <1>6, <1>7, <1>13, <1>14, MmapInTable
<1>17. /\ m \in State /\ m.mem = [p.mem EXCEPT ![t][d] = Present(f)]
       /\ m.free = p.free /\ m.failed = p.failed /\ m.fault = p.fault
  <2>1. m = [p EXCEPT !.mem[t][d] = Present(f)]
    BY <1>2, <1>15, Zenon DEF Entered
  <2> QED  BY <1>6, <2>1, Linked
<1>18. /\ mc \in State /\ mc.mem = [q.mem EXCEPT ![t][d] = Present(f)]
       /\ mc.free = q.free /\ mc.failed = q.failed /\ mc.fault = q.fault
  <2>1. mc = [q EXCEPT !.mem[t][d] = Present(f)]
    BY <1>2, <1>16, Zenon DEF Entered
  <2> QED  BY <1>6, <2>1, Linked
<1>19. ~p.failed
  BY <1>17
<1>20. f \in s.free /\ f # 0 /\ lev[f] = 5 /\ f \notin q.free
  BY <1>0, <1>1, <1>12, <1>13, <1>19
<1>21. mc.free = m.free /\ mc.failed = m.failed /\ mc.fault = m.fault
  BY <1>0, <1>12, <1>13, <1>17, <1>18
<1>22. Good(q, r, lev)
  <2>1. Tree(c.mem, c.free \ {f}, r, lev)
    BY <1>0 DEF Good, Tree, Levels, Clean
  <2>2. ~c.fault
    BY <1>0 DEF Good
  <2> QED  BY <1>7, <1>13, <2>1, <2>2 DEF Good
<1>23. PICK lev2 : Good(mc, r, lev2) /\ NoNewTable(lev, lev2)
  <2>1. t = Below(q.mem, Below(q.mem, Below(q.mem, r, PML4Index(v)), PDPIndex(v)), PDIndex(v))
    BY <1>2, <1>3, <1>4, <1>5, <1>13, Zenon
  <2> QED  BY <1>6, <1>16, <1>20, <1>22, <2>1, LastStep
<1>24. ASSUME NEW x \in Frames, NEW j \in Slot, lev2[x] \in 1 .. 4
       PROVE  m.mem[x][j] = mc.mem[x][j]
  <2>1. s.mem[x][j] = c.mem[x][j]
    BY <1>0, <1>23, <1>24 DEF NoNewTable
  <2>2. m.mem[x][j] = IF x = t /\ j = d THEN Present(f) ELSE s.mem[x][j]
    BY <1>1, <1>6, <1>12, <1>17, Written
  <2>3. mc.mem[x][j] = IF x = t /\ j = d THEN Present(f) ELSE c.mem[x][j]
    BY <1>1, <1>6, <1>13, <1>18, Written
  <2> QED  BY <2>1, <2>2, <2>3
<1>25. Shadowed(m, r, mc, lev2)
  BY <1>17, <1>21, <1>23, <1>24 DEF Shadowed
<1> QED  BY <1>21, <1>25

(* Page tables stay where they are while pages are moved.                  *)
LEMMA TableStays ==
  ASSUME NEW s, NEW e, NEW r, NEW P, Moved(s, e, r, P),
         Below(s.mem, r, RECURSIVE_SLOT) = r, Below(e.mem, r, RECURSIVE_SLOT) = r,
         NEW v \in Ordinary, TableOf(s.mem, r, v) # Unmapped
  PROVE  TableOf(e.mem, r, v) = TableOf(s.mem, r, v)
<1>1. PICK i4 \in Slot, i3 \in Slot, i2 \in Slot :
        i4 = PML4Index(v) /\ i3 = PDPIndex(v) /\ i2 = PDIndex(v)
  BY OrdinaryIndices
<1>2. \A mem : Below(mem, r, RECURSIVE_SLOT) = r
                 => Walk(mem, r, RECURSIVE_SLOT, i4, i3, i2) = TableOf(mem, r, v)
  BY <1>1, Zenon DEF Walk, TableOf
<1> QED  BY <1>1, <1>2 DEF Moved, WindowsStay

(* e has moved the pages in P since s, and so has its shadow since that of *)
(* s.                                                                      *)
Followed(c, e, r, P) == \E c2, lev2 : Shadowed(e, r, c2, lev2) /\ Moved(c, c2, r, P)

(* One round more where the page table is present.                         *)
LEMMA FollowedMore ==
  ASSUME NEW c, NEW e, NEW r, NEW P, Followed(c, e, r, P), Below(c.mem, r, RECURSIVE_SLOT) = r,
         NEW v \in Ordinary, TableOf(c.mem, r, v) # Unmapped,
         NEW m, m = Backed(e, r, v), ~m.failed
  PROVE  Followed(c, m, r, P \cup {v})
<1>1. PICK c2, lev2 : Shadowed(e, r, c2, lev2) /\ Moved(c, c2, r, P)
  BY DEF Followed
<1>2. Below(c2.mem, r, RECURSIVE_SLOT) = r
  BY <1>1 DEF Shadowed, Good
<1>3. TableOf(c2.mem, r, v) # Unmapped
  BY <1>1, <1>2, TableStays
<1>4. PICK mc : mc = Backed(c2, r, v)
  OBVIOUS
<1>5. ~mc.failed /\ \E lev3 : Shadowed(m, r, mc, lev3)
  BY <1>1, <1>3, <1>4, ShadowedBacked
<1>6. Moved(c, mc, r, P \cup {v})
  BY <1>1, <1>4, <1>5, MovedMore
<1> QED  BY <1>5, <1>6 DEF Followed

(* The loop of an allocation whose page tables are present.                *)
LEMMA AllBackedFollows ==
  ASSUME NEW c, NEW lev, Shadowed(vm, cr3, c, lev),
         NEW pages, NEW N \in Nat, N = Len(pages),
         \A i \in 1 .. N : pages[i] \in Ordinary /\ TableOf(c.mem, cr3, pages[i]) # Unmapped
  PROVE  AllBacked(pages).failed \/ Followed(c, AllBacked(pages), cr3, Through(pages, N))
<1>0. vm \in State /\ cr3 \in Frames /\ Good(c, cr3, lev) /\ Below(c.mem, cr3, RECURSIVE_SLOT) = cr3
  <2>1. Good(c, cr3, lev) /\ vm \in State
    BY DEF Shadowed
  <2>2. Below(c.mem, cr3, RECURSIVE_SLOT) = cr3
    BY <2>1 DEF Good
  <2> QED  BY <2>1, <2>2, GoodFacts
<1>1. PICK after : /\ \A n \in 0 .. N : IsRound(after, n, pages)
                   /\ AllBacked(pages) = after[N]
  BY Rounds
<1> DEFINE Fine(n) == /\ after[n] \in State
                      /\ after[n].failed \/ Followed(c, after[n], cr3, Through(pages, n))
           S == {n \in Nat : n <= N => Fine(n)}
<1>2. 0 \in S
  <2>1. after[0] = vm
    <3>1. IsRound(after, 0, pages)
      BY <1>1
    <3> QED  BY <3>1, Zenon DEF IsRound
  <2>2. Through(pages, 0) = {}
    BY DEF Through
  <2>3. Moved(c, c, cr3, {})
    BY <1>0 DEF Moved, WindowsStay
  <2>4. Followed(c, vm, cr3, {})
    BY <2>3 DEF Followed
  <2> QED  BY <1>0, <2>1, <2>2, <2>4
<1>3. ASSUME NEW n \in S PROVE n + 1 \in S
  <2> SUFFICES ASSUME n + 1 <= N PROVE Fine(n + 1)
    OBVIOUS
  <2>1. n \in Nat /\ n \in 0 .. N /\ n + 1 \in 1 .. N /\ n + 1 \in 0 .. N /\ n + 1 # 0 /\ (n + 1) - 1 = n
    OBVIOUS
  <2>2. Fine(n)
    BY <2>1
  <2>3. PICK v \in Ordinary : v = pages[n + 1] /\ TableOf(c.mem, cr3, v) # Unmapped
    BY <2>1
  <2>4. after[n + 1] = Backed(after[n], cr3, v)
    <3>1. IsRound(after, n + 1, pages)
      BY <1>1, <2>1
    <3> QED  BY <2>1, <2>3, <3>1, Zenon DEF IsRound
  <2>5. v \in Page
    BY DEF Ordinary
  <2>6. after[n + 1] \in State /\ (after[n].failed => after[n + 1].failed)
    BY <1>0, <2>2, <2>4, <2>5, BackedType
  <2>7. ASSUME ~after[n + 1].failed
        PROVE  Followed(c, after[n + 1], cr3, Through(pages, n + 1))
    <3>1. Followed(c, after[n], cr3, Through(pages, n))
      BY <2>2, <2>6, <2>7
    <3>2. Through(pages, n + 1) = Through(pages, n) \cup {v}
      <4>1. 1 .. n + 1 = (1 .. n) \cup {n + 1}
        BY <2>1
      <4> QED  BY <2>3, <4>1 DEF Through
    <3> QED  BY <1>0, <2>3, <2>4, <2>7, <3>1, <3>2, FollowedMore
  <2> QED  BY <2>2, <2>6, <2>7
<1> HIDE DEF S
<1>4. S \in SUBSET Nat
  BY DEF S
<1>5. S = Nat
  BY <1>2, <1>3, <1>4, ByInduction, Zenon
<1>6. N \in S
  BY <1>5
<1>7. Fine(N)
  BY <1>6 DEF S
<1> QED  BY <1>1, <1>7

(* Pages of the kernel's page table.                                       *)
InKernelTable(v) == v \div ENTRIES = (VIRT_OFFSET + physbase) \div ENTRIES

(* They have the same page table as the kernel's first page.               *)
LEMMA OneKernelTable ==
  ASSUME NEW v \in Nat, InKernelTable(v), NEW mem, NEW r
  PROVE  TableOf(mem, r, v) = TableOf(mem, r, VIRT_OFFSET + physbase)
<1>1. PICK w \in Nat : w = VIRT_OFFSET + physbase
  BY Parameters
<1>2. PICK n \in Nat \ {0} : n = ENTRIES
  BY Entries
<1>3. v \div n = w \div n
  BY <1>1, <1>2 DEF InKernelTable
<1>4. PDIndex(v) = PDIndex(w)
  BY <1>2, <1>3 DEF PDIndex
<1>5. PDPIndex(v) = PDPIndex(w) /\ PML4Index(v) = PML4Index(w)
  <2>1. /\ PDPIndex(v) = ((v \div n) \div n) % n /\ PML4Index(v) = (((v \div n) \div n) \div n) % n
        /\ PDPIndex(w) = ((w \div n) \div n) % n /\ PML4Index(w) = (((w \div n) \div n) \div n) % n
    BY <1>2, Thrice
  <2> QED  BY <1>3, <2>1, Zenon
<1> QED  BY <1>1, <1>4, <1>5, Zenon DEF TableOf

(* A page that is mapped has a page table.                                 *)
LEMMA MappedHasTable ==
  ASSUME NEW mem, NEW r, NEW v, Translate(mem, r, v) # Unmapped
  PROVE  TableOf(mem, r, v) # Unmapped
BY Zenon DEF Translate, TableOf, Below

(* As long as kmalloc_virtual has not been called and the heap fits into   *)
(* the kernel's page table, mmap needs no new tables.                      *)
HeapInKernelTable ==
  /\ placed = {}
  /\ \A f \in physfree .. kernelfree - 1 : InKernelTable(VIRT_OFFSET + f)

UncleanWorking ==
  /\ \E c, lev : Shadowed(vm, cr3, c, lev) /\ TableOf(c.mem, cr3, VIRT_OFFSET + physbase) # Unmapped
  /\ \A f \in Fixed : FrameOf(VIRT_OFFSET + f) = f
  /\ \A p \in HeldPages : FrameOf(p) \in RAM

UncleanInv ==
  /\ Typed /\ Untouched /\ RegionPages
  /\ HeapInKernelTable /\ cr3 # Unmapped /\ ~vm.failed => UncleanWorking

(* What an allocation does to the pages it maps and to the others.         *)
LEMMA FollowedPages ==
  ASSUME NEW c, NEW lev, Shadowed(vm, cr3, c, lev), NEW c2, NEW lev2, Shadowed(vm', cr3, c2, lev2),
         NEW P, Moved(c, c2, cr3, P), cr3' = cr3, NEW w \in Ordinary
  PROVE  /\ w \in P => FrameOf(w)' \in RAM
         /\ w \notin P => FrameOf(w)' = FrameOf(w)
<1>1. Translate(vm.mem, cr3, w) = Translate(c.mem, cr3, w)
  BY ShadowedMap
<1>2. Translate(vm'.mem, cr3, w) = Translate(c2.mem, cr3, w)
  BY ShadowedMap
<1>3. /\ w \in P => Translate(c2.mem, cr3, w) \in c.free
      /\ w \notin P => Translate(c2.mem, cr3, w) = Translate(c.mem, cr3, w)
  BY DEF Moved
<1>4. c.free \subseteq RAM
  <2>1. Good(c, cr3, lev)
    BY DEF Shadowed
  <2> QED  BY <2>1, GoodFacts
<1> QED  BY <1>1, <1>2, <1>3, <1>4 DEF FrameOf

(* kmalloc and kmalloc_page keep the invariant: within the kernel's page   *)
(* table they allocate pages and nothing else.                             *)
LEMMA UncleanRegionAdded ==
  ASSUME UncleanInv, Typed', Up, NEW n \in Nat \ {0}, kernelfree + n <= KERNEL_LIMIT,
         NEW size, \A i \in 0 .. (size - 1) \div PAGE_SIZE : i <= n - 1,
         vm' = AllBacked(KernelPages(n)), kernelfree' = kernelfree + n,
         regions' = regions \cup {NewRegion(size)}, cr3' = cr3, placed' = placed
  PROVE  UncleanInv'
<1>1. /\ Typed /\ RegionPages /\ kernelfree \in Nat /\ physfree \in Nat /\ physfree <= kernelfree
      /\ VIRT_OFFSET \in Nat /\ cr3 \in Frames /\ cr3 # Unmapped /\ vm \in State
  BY Parameters DEF UncleanInv, Typed, Up
<1>2. /\ n = Len(KernelPages(n))
      /\ \A i \in 1 .. n : KernelPages(n)[i] = VIRT_OFFSET + kernelfree + i - 1
      /\ \A i \in 1 .. n : KernelPages(n)[i] \in Ordinary
  BY <1>1, KernelPagesAre
<1>3. PICK P : P = Through(KernelPages(n), n)
  OBVIOUS
<1>4. vm.failed => vm'.failed
  BY <1>1, <1>2, AllBackedKeeps
<1>5. \A p \in P : VIRT_OFFSET + kernelfree <= p /\ p \in Ordinary
  BY <1>1, <1>2, <1>3 DEF Through
<1>6. \A p \in PagesOf(NewRegion(size)) : p \in P
  BY <1>1, <1>3, NewPages
<1>7. RegionPages'
  BY <1>1, RegionPagesAdded
<1>8. ASSUME HeapInKernelTable', ~vm'.failed PROVE UncleanWorking'
  <2>1. /\ placed = {}
        /\ \A f \in physfree .. kernelfree' - 1 : InKernelTable(VIRT_OFFSET + f)
    BY <1>8 DEF HeapInKernelTable, InKernelTable
  <2>2. HeapInKernelTable
    <3>1. \A f \in physfree .. kernelfree - 1 : f \in physfree .. kernelfree' - 1
      BY <1>1
    <3> QED  BY <2>1, <3>1 DEF HeapInKernelTable
  <2>3. UncleanWorking
    BY <1>1, <1>4, <1>8, <2>2 DEF UncleanInv
  <2>4. PICK c, lev : Shadowed(vm, cr3, c, lev) /\ TableOf(c.mem, cr3, VIRT_OFFSET + physbase) # Unmapped
    BY <2>3 DEF UncleanWorking
  <2>5. ASSUME NEW i \in 1 .. n PROVE TableOf(c.mem, cr3, KernelPages(n)[i]) # Unmapped
    <3>1. PICK f \in physfree .. kernelfree' - 1 : f = kernelfree + i - 1
      BY <1>1
    <3>2. PICK v \in Nat : v = VIRT_OFFSET + f /\ v = KernelPages(n)[i]
      BY <1>1, <1>2, <3>1
    <3>3. InKernelTable(v)
      BY <2>1, <3>2
    <3> QED  BY <2>4, <3>2, <3>3, OneKernelTable
  <2>6. Followed(c, vm', cr3, P)
    BY <1>2, <1>3, <1>8, <2>4, <2>5, AllBackedFollows
  <2>7. PICK c2, lev2 : Shadowed(vm', cr3, c2, lev2) /\ Moved(c, c2, cr3, P)
    BY <2>6 DEF Followed
  <2>8. TableOf(c2.mem, cr3, VIRT_OFFSET + physbase) # Unmapped
    <3>1. Below(c.mem, cr3, RECURSIVE_SLOT) = cr3 /\ Below(c2.mem, cr3, RECURSIVE_SLOT) = cr3
      BY <2>4, <2>7 DEF Shadowed, Good
    <3>2. PICK w \in Ordinary : w = VIRT_OFFSET + physbase
      BY Parameters
    <3> QED  BY <2>4, <2>7, <3>1, <3>2, TableStays
  <2>9. \A w \in Ordinary : /\ w \in P => FrameOf(w)' \in RAM
                            /\ w \notin P => FrameOf(w)' = FrameOf(w)
    BY <2>4, <2>7, FollowedPages
  <2>10. ASSUME NEW f \in Fixed PROVE FrameOf(VIRT_OFFSET + f)' = f
    <3>1. PICK w \in Ordinary : w = VIRT_OFFSET + f /\ w < VIRT_OFFSET + kernelfree
      BY <1>1, HeldPlaces
    <3>2. w \in Nat
      BY PageOfIndices DEF Ordinary
    <3>3. w \notin P
      BY <1>1, <1>5, <3>1, <3>2
    <3>4. FrameOf(w) = f
      BY <2>3, <3>1 DEF UncleanWorking
    <3> QED  BY <2>9, <3>1, <3>3, <3>4
  <2>11. ASSUME NEW p \in HeldPages' PROVE FrameOf(p)' \in RAM
    <3>1. PICK q \in regions' : p \in PagesOf(q)
      BY Zenon DEF HeldPages, PagesOf
    <3>2. CASE q \in regions
      <4>1. p \in HeldPages
        BY <3>1, <3>2, HeldPagesAre
      <4>2. p \in Ordinary /\ p < VIRT_OFFSET + kernelfree
        BY <1>1, <4>1, HeldPlaces
      <4>3. p \in Nat
        BY <4>2, PageOfIndices DEF Ordinary
      <4>4. p \notin P
        BY <1>1, <1>5, <4>2, <4>3
      <4>5. FrameOf(p) \in RAM
        BY <2>3, <4>1 DEF UncleanWorking
      <4> QED  BY <2>9, <4>2, <4>4, <4>5
    <3>3. CASE q = NewRegion(size)
      <4>1. p \in P /\ p \in Ordinary
        BY <1>5, <1>6, <3>1, <3>3
      <4> QED  BY <2>9, <4>1
    <3> QED  BY <3>1, <3>2, <3>3
  <2> QED  BY <2>7, <2>8, <2>10, <2>11 DEF UncleanWorking, Fixed
<1>9. Untouched'
  BY <1>1 DEF Untouched
<1> QED  BY <1>7, <1>8, <1>9 DEF UncleanInv

(* kmalloc_virtual ends what the invariant is about.                       *)
LEMMA UncleanVirtualAdded ==
  ASSUME UncleanInv, Typed', Up, NEW n \in Nat, kernelfree' = kernelfree + n,
         regions' = regions, cr3' = cr3, placed' # {}
  PROVE  UncleanInv'
<1>1. Typed /\ RegionPages /\ kernelfree \in Nat /\ cr3 # Unmapped
  BY Parameters DEF UncleanInv, Typed, Up
<1>2. RegionPages'
  <2>1. ASSUME NEW q \in regions, NEW p \in PagesOf(q)
        PROVE  \E f \in physfree .. kernelfree' - 1 : p = VIRT_OFFSET + f
    <3>1. PICK f \in physfree .. kernelfree - 1 : p = VIRT_OFFSET + f
      BY <1>1 DEF RegionPages
    <3>2. f \in physfree .. kernelfree' - 1
      BY <1>1
    <3> QED  BY <3>1, <3>2
  <2> QED  BY <1>1, <2>1, Zenon DEF RegionPages, PagesOf
<1>3. Untouched'
  BY <1>1 DEF Untouched
<1>4. ~HeapInKernelTable'
  BY DEF HeapInKernelTable
<1> QED  BY <1>2, <1>3, <1>4 DEF UncleanInv

(* setup_page_tables establishes it in any memory.                         *)
LEMMA UncleanSetUp ==
  ASSUME UncleanInv, setup_page_tables
  PROVE  UncleanInv'
<1>1. cr3 = Unmapped /\ kernelfree' = kernelfree /\ regions' = regions
  BY DEF setup_page_tables
<1>2. /\ vm \in State /\ vm.mem \in RamAtBoot /\ vm.free = RAM /\ ~vm.failed /\ ~vm.fault
      /\ regions = {}
  BY <1>1 DEF UncleanInv, Typed, Untouched
<1>3. Typed' /\ cr3' \in Frames
  BY SetUpTyped DEF UncleanInv
<1>4. PICK clear, kernel, video : SetUp(vm, cr3', clear, kernel, video, vm')
  BY SetUpIs
<1>5. ASSUME ~vm'.failed PROVE UncleanWorking'
  <2>1. PICK c : SameUsed(vm', c) /\ Booted(c, cr3')
    BY <1>2, <1>4, <1>5, SetUpSame
  <2>2. PICK lev : Good(c, cr3', lev)
    BY <2>1 DEF Booted
  <2>3. Shadowed(vm', cr3', c, lev)
    BY <2>1, <2>2, UsedIsShadowed
  <2>4. ASSUME NEW f \in (physbase .. physfree) \cup {Video}
        PROVE  /\ Translate(c.mem, cr3', VIRT_OFFSET + f) = f
               /\ Translate(vm'.mem, cr3', VIRT_OFFSET + f) = f
    <3>1. f \in 0 .. KERNEL_LIMIT /\ VIRT_OFFSET \in Nat
      BY Parameters
    <3>2. PICK w \in Ordinary : w = VIRT_OFFSET + f
      BY <3>1, Parameters
    <3>3. Translate(c.mem, cr3', w) = AtBoot(w)
      BY <2>1 DEF Booted
    <3>4. w - VIRT_OFFSET = f
      BY <3>1, <3>2
    <3>5. AtBoot(w) = f
      BY <3>4 DEF AtBoot
    <3>6. Translate(vm'.mem, cr3', w) = Translate(c.mem, cr3', w)
      BY <2>3, ShadowedMap
    <3> QED  BY <3>2, <3>3, <3>5, <3>6
  <2>5. TableOf(c.mem, cr3', VIRT_OFFSET + physbase) # Unmapped
    <3>1. physbase \in (physbase .. physfree) \cup {Video} /\ physbase # Unmapped
      BY Parameters DEF Unmapped
    <3> QED  BY <2>4, <3>1, MappedHasTable
  <2>6. \A f \in Fixed : FrameOf(VIRT_OFFSET + f)' = f
    <3>1. \A f \in Fixed : f \in (physbase .. physfree) \cup {Video}
      BY Parameters DEF Fixed
    <3> QED  BY <2>4, <3>1 DEF FrameOf
  <2>7. HeldPages' = {}
    BY <1>1, <1>2 DEF HeldPages
  <2> QED  BY <2>3, <2>5, <2>6, <2>7 DEF UncleanWorking, Fixed
<1>6. RegionPages' /\ Untouched'
  BY <1>1, <1>2, <1>3, Parameters DEF RegionPages, Untouched
<1> QED  BY <1>3, <1>5, <1>6 DEF UncleanInv

(* Every step keeps the invariant, whatever memory held at boot.           *)
LEMMA NextUnclean == UncleanInv /\ [Next]_vars => UncleanInv'
<1> SUFFICES ASSUME UncleanInv, [Next]_vars PROVE UncleanInv'
  OBVIOUS
<1>t. Typed'
  BY NextTyped DEF UncleanInv
<1>1. CASE setup_page_tables
  BY <1>1, UncleanSetUp
<1>2. CASE kmalloc_page
  <2>1. /\ Up /\ kernelfree + 1 <= KERNEL_LIMIT /\ vm' = AllBacked(KernelPages(1))
        /\ cr3' = cr3 /\ kernelfree' = kernelfree + 1 /\ placed' = placed
        /\ regions' = regions \cup {NewRegion(PAGE_SIZE)}
    BY <1>2 DEF kmalloc_page, Bumped, NewRegion
  <2>2. \A i \in 0 .. (PAGE_SIZE - 1) \div PAGE_SIZE : i <= 1 - 1
    BY OnePage
  <2> QED  BY <1>t, <2>1, <2>2, UncleanRegionAdded
<1>3. ASSUME NEW size \in Sizes, kmalloc(size) PROVE UncleanInv'
  <2>1. PICK n \in Nat \ {0} : n = Count(size)
    BY CountIs, Parameters
  <2>2. /\ Up /\ kernelfree + n <= KERNEL_LIMIT /\ vm' = AllBacked(KernelPages(n))
        /\ cr3' = cr3 /\ kernelfree' = kernelfree + n /\ placed' = placed
        /\ regions' = regions \cup {NewRegion(size)}
    BY <1>3, <2>1 DEF kmalloc, Bumped, NewRegion
  <2>3. \A i \in 0 .. (size - 1) \div PAGE_SIZE : i <= n - 1
    BY <2>1, CountIs, Parameters
  <2> QED  BY <1>t, <2>2, <2>3, UncleanRegionAdded
<1>4. ASSUME NEW size \in Sizes, NEW v \in UserPages, kmalloc_virtual(size, v) PROVE UncleanInv'
  <2>1. PICK n \in Nat \ {0} : n = Count(size)
    BY CountIs, Parameters
  <2>2. /\ Up /\ cr3' = cr3 /\ kernelfree' = kernelfree + n /\ regions' = regions
        /\ placed' # {}
    BY <1>4, <2>1 DEF kmalloc_virtual, Bumped
  <2> QED  BY <1>t, <2>2, UncleanVirtualAdded
<1>5. CASE UNCHANGED vars
  <2>1. vm' = vm /\ cr3' = cr3 /\ kernelfree' = kernelfree /\ regions' = regions /\ placed' = placed
    BY <1>5 DEF vars
  <2>2. HeldPages' = HeldPages
    BY <2>1, Zenon DEF HeldPages, PagesOf
  <2>3. RegionPages'
    BY <2>1, Zenon DEF UncleanInv, RegionPages, PagesOf
  <2>4. Untouched'
    BY <2>1 DEF UncleanInv, Untouched
  <2>5. HeapInKernelTable' = HeapInKernelTable
    BY <2>1, Zenon DEF HeapInKernelTable, InKernelTable
  <2>6. ASSUME UncleanWorking PROVE UncleanWorking'
    <3>1. PICK c, lev : Shadowed(vm, cr3, c, lev) /\ TableOf(c.mem, cr3, VIRT_OFFSET + physbase) # Unmapped
      BY <2>6 DEF UncleanWorking
    <3>2. Shadowed(vm', cr3', c, lev) /\ TableOf(c.mem, cr3', VIRT_OFFSET + physbase) # Unmapped
      BY <2>1, <3>1
    <3>3. \A p : FrameOf(p)' = FrameOf(p)
      BY <2>1 DEF FrameOf
    <3> QED  BY <2>2, <2>6, <3>2, <3>3 DEF UncleanWorking, Fixed
  <2> QED  BY <1>t, <2>1, <2>3, <2>4, <2>5, <2>6 DEF UncleanInv
<1> QED  BY <1>1, <1>2, <1>3, <1>4, <1>5 DEF Next

(* What the properties say follows.                                        *)
LEMMA UncleanFollows == UncleanInv /\ HeapInKernelTable => KernelStaysMapped /\ RegionsArePrivate
<1> SUFFICES ASSUME UncleanInv, HeapInKernelTable PROVE KernelStaysMapped /\ RegionsArePrivate
  OBVIOUS
<1>1. Typed /\ Untouched /\ RegionPages
  BY DEF UncleanInv
<1>2. CASE vm.failed
  BY <1>2 DEF KernelStaysMapped, RegionsArePrivate
<1>3. CASE ~vm.failed /\ cr3 = Unmapped
  <2>1. regions = {}
    BY <1>1, <1>3 DEF Untouched
  <2>2. HeldPages = {}
    BY <2>1 DEF HeldPages
  <2> QED  BY <1>3, <2>1, <2>2 DEF KernelStaysMapped, RegionsArePrivate
<1>4. CASE ~vm.failed /\ cr3 # Unmapped
  <2>1. UncleanWorking
    BY <1>4 DEF UncleanInv
  <2>2. PICK c, lev : Shadowed(vm, cr3, c, lev)
    BY <2>1 DEF UncleanWorking
  <2>3. Good(c, cr3, lev) /\ vm.fault = c.fault
    BY <2>2 DEF Shadowed
  <2>4. ~vm.fault
    BY <2>3 DEF Good
  <2>5. \A f \in Fixed : FrameOf(VIRT_OFFSET + f) = f
    BY <2>1 DEF UncleanWorking
  <2>6. \A p \in HeldPages : p \in Ordinary /\ FrameOf(p) \in RAM
    BY <1>1, <2>1, HeldPlaces DEF UncleanWorking
  <2>7. ASSUME NEW p \in HeldPages, NEW q \in HeldPages, FrameOf(p) = FrameOf(q) PROVE p = q
    <3>1. /\ Translate(c.mem, cr3, p) = FrameOf(p)
          /\ Translate(c.mem, cr3, q) = FrameOf(q)
      BY <2>2, <2>6, ShadowedMap DEF FrameOf
    <3>2. FrameOf(p) # Unmapped
      BY <2>6, VmParameters DEF Unmapped
    <3> QED  BY <2>3, <2>6, <2>7, <3>1, <3>2, InjectivePages
  <2>8. KernelStaysMapped
    BY <2>4, <2>5 DEF KernelStaysMapped, Fixed
  <2>9. \A q, u \in regions : q # u => PagesOf(q) \cap PagesOf(u) = {}
    BY <1>1 DEF RegionPages
  <2> QED  BY <2>6, <2>7, <2>8, <2>9 DEF RegionsArePrivate
<1> QED  BY <1>2, <1>3, <1>4

(* mmap does not clear the tables it allocates (pagetab.c:163), but the    *)
(* kernel's own heap does not depend on that: until kmalloc_virtual is     *)
(* called or the heap outgrows the page table that setup_page_tables has   *)
(* cleared, the kernel stays mapped, no call touches an unmapped page and  *)
(* what kmalloc returns is private, whatever memory held at boot.          *)
THEOREM HeapNeedsNoClearMemory ==
  Spec => [](HeapInKernelTable => KernelStaysMapped /\ RegionsArePrivate)
<1>1. Init => UncleanInv
  BY InitVInv DEF VInv, UncleanInv, Init
<1>2. UncleanInv => (HeapInKernelTable => KernelStaysMapped /\ RegionsArePrivate)
  BY UncleanFollows
<1> QED  BY <1>1, <1>2, NextUnclean, PTL DEF Spec

=============================================================================
