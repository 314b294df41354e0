--------------------------------- MODULE Vm ---------------------------------
(***************************************************************************)
(* Virtual memory: the four-level page tables of sys/pagetab.c and the     *)
(* functions of sys/pmap.c that map what they allocate.                    *)
(*                                                                         *)
(* Frames and pages are numbered; a page number is the four indices of its *)
(* address.  Physical memory is a function from frames to what they hold,  *)
(* read as a table of ENTRIES entries.  Once cr3 is loaded the code can    *)
(* reach a table only through the window that the recursive entry of the   *)
(* PML4 opens, and so can the model: every access of mmap is translated by *)
(* the tables it is changing.                                              *)
(***************************************************************************)
EXTENDS Integers, Sequences, FiniteSets, FrameSupply

CONSTANTS
  ENTRIES,         \* entries of a table, 512
  RECURSIVE_SLOT,  \* the entry of the PML4 that refers to the PML4, 510
  PAGE_SIZE,
  VIRT_OFFSET,     \* the page number of VIRT_OFFSET
  physbase,        \* first frame of the kernel
  physfree,        \* first frame after the kernel and the bitmap
  Video,           \* the frame of the screen
  Frames,          \* the frames of physical memory, 0 among them
  RAM,             \* frames kmalloc_mem hands out
  RamAtBoot,       \* what frames may hold at boot
  Sizes,           \* sizes callers of kmalloc ask for
  UserPages,       \* pages at which callers of kmalloc_virtual want memory
  KERNEL_LIMIT     \* bound: kernelfree stays below this frame

VARIABLES
  vm,         \* [mem, free, failed, fault]: physical memory, the frames
              \* kmalloc_mem can still return, whether it has returned NULL,
              \* whether the code has touched an unmapped page
  cr3,        \* the frame of the PML4
  kernelfree, \* the frame whose address kernelfree holds
  regions,    \* what kmalloc and kmalloc_page have returned
  placed      \* what kmalloc_virtual has returned

vars == <<vm, cr3, kernelfree, regions, placed>>

Slot  == 0 .. ENTRIES - 1
Page  == 0 .. ENTRIES * ENTRIES * ENTRIES * ENTRIES - 1
Entry == [frame : Frames, present : BOOLEAN]
Table == [Slot -> Entry]
Unmapped == -1

ASSUME VmParameters ==
  /\ ENTRIES \in Nat /\ RECURSIVE_SLOT \in Slot
  /\ PAGE_SIZE \in Nat \ {0} /\ Sizes \subseteq Nat
  /\ Frames \subseteq Nat /\ {0, Video} \cup (physbase .. physfree) \subseteq Frames
  /\ {Video, physbase, physfree, KERNEL_LIMIT, VIRT_OFFSET} \subseteq Nat
  /\ 0 < Video /\ Video < physbase /\ physbase <= physfree /\ physfree < KERNEL_LIMIT
  /\ RAM \subseteq Frames \ ((physbase .. physfree) \cup {0, Video})
  /\ RamAtBoot \subseteq [Frames -> Table]

Absent == [frame |-> 0, present |-> FALSE]
Present(f) == [frame |-> f, present |-> TRUE]
Empty == [i \in Slot |-> Absent]

-----------------------------------------------------------------------------
(* Addresses.                                                              *)

PTIndex(v)   == v % ENTRIES
PDIndex(v)   == (v \div ENTRIES) % ENTRIES
PDPIndex(v)  == (v \div (ENTRIES * ENTRIES)) % ENTRIES
PML4Index(v) == (v \div (ENTRIES * ENTRIES * ENTRIES)) % ENTRIES

PageOf(i4, i3, i2, i1) == ((i4 * ENTRIES + i3) * ENTRIES + i2) * ENTRIES + i1

(* Pages outside the window of the recursive slot.                         *)
Ordinary == {v \in Page : PML4Index(v) # RECURSIVE_SLOT}

(* The kernel's pages start at VIRT_OFFSET, programs lie below; the image  *)
(* and the bitmap fit into one page table.                                 *)
ASSUME VmLayout ==
  /\ \A f \in 0 .. KERNEL_LIMIT : VIRT_OFFSET + f \in Ordinary
  /\ (VIRT_OFFSET + physbase) \div ENTRIES = (VIRT_OFFSET + physfree) \div ENTRIES
  /\ \A v \in UserPages, size \in Sizes : \A i \in 0 .. size \div PAGE_SIZE :
       v + 8 * i \in Ordinary /\ v + 8 * i < VIRT_OFFSET

(* The pages at which PHY_TO_VIRT_..._BASE shows the tables of page v.     *)
PML4_BASE    == PageOf(RECURSIVE_SLOT, RECURSIVE_SLOT, RECURSIVE_SLOT, RECURSIVE_SLOT)
PDP_BASE(v)  == PageOf(RECURSIVE_SLOT, RECURSIVE_SLOT, RECURSIVE_SLOT, PML4Index(v))
PD_BASE(v)   == PageOf(RECURSIVE_SLOT, RECURSIVE_SLOT, PML4Index(v), PDPIndex(v))

(* A fault to seed: the index of the table one level up.                   *)
PT_BASE_Shifted(v) == PageOf(RECURSIVE_SLOT, PML4Index(v), PDPIndex(v), PDPIndex(v))

PT_BASE(v)   == PageOf(RECURSIVE_SLOT, PML4Index(v), PDPIndex(v), PDIndex(v))

(* The processor's walk.                                                   *)
Below(mem, t, i) ==
  IF t = Unmapped \/ ~mem[t][i].present THEN Unmapped ELSE mem[t][i].frame

Translate(mem, root, v) ==
  Below(mem, Below(mem, Below(mem, Below(mem, root,
    PML4Index(v)), PDPIndex(v)), PDIndex(v)), PTIndex(v))

-----------------------------------------------------------------------------
(* A fault to seed: a table is allocated even where there is one.          *)
EnsureAlways(s, root, window, i) ==
  LET t == Translate(s.mem, root, window)
  IN  IF t = Unmapped THEN [s EXCEPT !.fault = TRUE]
      ELSE [Taken(s) EXCEPT !.mem[t][i] = Present(Fresh(s))]

(* One level of mmap.  The entry is tested for an address, not for its     *)
(* present bit, and the new table is not cleared.                          *)
Ensure(s, root, window, i) ==
  LET t == Translate(s.mem, root, window)
  IN  IF t = Unmapped THEN [s EXCEPT !.fault = TRUE]
      ELSE IF s.mem[t][i].frame # 0 THEN s
      ELSE [Taken(s) EXCEPT !.mem[t][i] = Present(Fresh(s))]

mmap(s, root, v, f) ==
  LET s4 == Ensure(s, root, PML4_BASE, PML4Index(v))
      s3 == Ensure(s4, root, PDP_BASE(v), PDPIndex(v))
      s2 == Ensure(s3, root, PD_BASE(v), PDIndex(v))
      t  == Translate(s2.mem, root, PT_BASE(v))
  IN  IF t = Unmapped THEN [s2 EXCEPT !.fault = TRUE]
      ELSE [s2 EXCEPT !.mem[t][PTIndex(v)] = Present(f)]

(* A frame is allocated and mapped at page v.                              *)
Backed(s, root, v) == mmap(Taken(s), root, v, Fresh(s))

(* One level of getPT, which works on physical addresses and clears what   *)
(* it allocates.                                                           *)
EnsureCleared(s, t, i) ==
  IF s.mem[t][i].frame # 0 THEN s
  ELSE LET f == Fresh(s)
           linked == [Taken(s) EXCEPT !.mem[t][i] = Present(f)]
       IN  [linked EXCEPT !.mem[f] = Empty]

getPT(s, pml4, v) ==
  LET s4  == EnsureCleared(s, pml4, PML4Index(v))
      pdp == s4.mem[pml4][PML4Index(v)].frame
      s3  == EnsureCleared(s4, pdp, PDPIndex(v))
      pd  == s3.mem[pdp][PDPIndex(v)].frame
      s2  == EnsureCleared(s3, pd, PDIndex(v))
  IN  [state |-> s2, pt |-> s2.mem[pd][PDIndex(v)].frame]

(* A mapping loop of setup_page_tables: frames first to last, last as      *)
(* well, in the one table that holds the entry of page v.                  *)
MapRange(s, pml4, v, first, last) ==
  LET g == getPT(s, pml4, v)
      frames(i) == {f \in first .. last : PTIndex(VIRT_OFFSET + f) = i}
  IN  [g.state EXCEPT !.mem[g.pt] =
         [i \in Slot |-> IF frames(i) = {} THEN @[i]
                         ELSE Present(CHOOSE f \in frames(i) : \A h \in frames(i) : h <= f)]]

-----------------------------------------------------------------------------
Init ==
  /\ vm \in {[mem |-> m, free |-> RAM, failed |-> FALSE, fault |-> FALSE] : m \in RamAtBoot}
  /\ cr3 = Unmapped
  /\ kernelfree = physfree
  /\ regions = {}
  /\ placed = {}

setup_page_tables ==
  /\ cr3 = Unmapped
  /\ LET pml4   == Fresh(vm)
         clear  == [Taken(vm) EXCEPT !.mem[pml4] = Empty]
         kernel == MapRange(clear, pml4, VIRT_OFFSET + physbase, physbase, physfree)
         video  == MapRange(kernel, pml4, VIRT_OFFSET + Video, Video, Video)
     IN  /\ vm' = [video EXCEPT !.mem[pml4][RECURSIVE_SLOT] = Present(pml4)]
         /\ cr3' = pml4
  /\ UNCHANGED <<kernelfree, regions, placed>>

Up == cr3 # Unmapped /\ ~vm.fault

(* The pages kmalloc goes through, one more than the size needs when the   *)
(* size is a multiple of the page size.                                    *)
Count(size) == size \div PAGE_SIZE + 1

(* Faults to seed: virt_addr computed once, before the loop, and           *)
(* kernelfree advanced by the whole size in every round.                   *)
KernelPagesFixed(n) == [i \in 1 .. n |-> VIRT_OFFSET + kernelfree]

KernelPages(n) == [i \in 1 .. n |-> VIRT_OFFSET + kernelfree + i - 1]

(* virt_addr + PAGE_SIZE on a pointer to 8-byte words: 8 pages a round.    *)
StridedPages(v, n) == [i \in 1 .. n |-> v + 8 * (i - 1)]

(* The rounds of an allocating loop.                                       *)
AllBacked(pages) ==
  LET after[n \in 0 .. Len(pages)] ==
        IF n = 0 THEN vm ELSE Backed(after[n - 1], cr3, pages[n])
  IN  after[Len(pages)]

BumpedBySize(n) == kernelfree' = kernelfree + n * n

(* Another: kernelfree is left at the last page that was mapped.           *)
BumpedShort(n) == kernelfree' = kernelfree + n - 1

Bumped(n) == kernelfree' = kernelfree + n

kmalloc(size) ==
  /\ Up
  /\ kernelfree + Count(size) <= KERNEL_LIMIT
  /\ vm' = AllBacked(KernelPages(Count(size)))
  /\ Bumped(Count(size))
  /\ regions' = regions \cup {[base |-> VIRT_OFFSET + kernelfree, size |-> size]}
  /\ UNCHANGED <<cr3, placed>>

kmalloc_page ==
  /\ Up
  /\ kernelfree + 1 <= KERNEL_LIMIT
  /\ vm' = AllBacked(KernelPages(1))
  /\ Bumped(1)
  /\ regions' = regions \cup {[base |-> VIRT_OFFSET + kernelfree, size |-> PAGE_SIZE]}
  /\ UNCHANGED <<cr3, placed>>

kmalloc_virtual(size, v) ==
  /\ Up
  /\ kernelfree + Count(size) <= KERNEL_LIMIT
  /\ vm' = AllBacked(StridedPages(v, Count(size)))
  /\ Bumped(Count(size))
  /\ placed' = placed \cup {[base |-> v, size |-> size]}
  /\ UNCHANGED <<cr3, regions>>

Next ==
  \/ setup_page_tables
  \/ kmalloc_page
  \/ \E size \in Sizes : kmalloc(size) \/ \E v \in UserPages : kmalloc_virtual(size, v)

Spec == Init /\ [][Next]_vars

-----------------------------------------------------------------------------
(* Properties.                                                             *)

(* Memory, the free frames, cr3 and kernelfree have their types, and what  *)
(* the three functions have returned starts at a page outside the window,  *)
(* at the one asked for where one was, and has a size that was asked for.  *)
TypeOK ==
  /\ vm \in [mem : [Frames -> Table], free : SUBSET RAM, failed : BOOLEAN, fault : BOOLEAN]
  /\ cr3 \in Frames \cup {Unmapped}
  /\ kernelfree \in physfree .. KERNEL_LIMIT
  /\ regions \subseteq [base : Ordinary, size : Sizes \cup {PAGE_SIZE}]
  /\ placed \subseteq [base : UserPages, size : Sizes]

FrameOf(v) == Translate(vm.mem, cr3, v)

(* The entries of the tree: <<table, slot>> pairs, level by level.         *)
Children(ts) ==
  {e \in ts \X Slot : vm.mem[e[1]][e[2]].present /\ e # <<cr3, RECURSIVE_SLOT>>}
Frame(e) == vm.mem[e[1]][e[2]].frame
Targets(es) == {Frame(e) : e \in es}
PDPEntries  == Children({cr3})
PDEntries   == Children(Targets(PDPEntries))
PTEntries   == Children(Targets(PDEntries))
PageEntries == Children(Targets(PTEntries))
AllEntries  == PDPEntries \cup PDEntries \cup PTEntries \cup PageEntries

Inject(es) == \A d, e \in es : Frame(d) = Frame(e) => d = e

(* The tables are a tree with a single way to every table and every page   *)
(* frame; the PML4 is its root, and no entry leads to a frame that is      *)
(* still free: mmap finds the right tables through the recursive window    *)
(* and getPT by address, and both agree.                                   *)
TablesAreATree ==
  (Up /\ ~vm.failed) =>
    /\ Inject(AllEntries)
    /\ cr3 \notin Targets(AllEntries)
    /\ Targets(AllEntries) \cap vm.free = {}
    /\ \A v \in Page : PML4Index(v) # RECURSIVE_SLOT /\ FrameOf(v) # Unmapped
                         => <<Below(vm.mem, Below(vm.mem, Below(vm.mem, cr3, PML4Index(v)),
                                PDPIndex(v)), PDIndex(v)), PTIndex(v)>> \in PageEntries

(* The kernel, the bitmap and the screen stay where the code expects them, *)
(* whatever is allocated: remap_printf and remap_bitmap add VIRT_OFFSET to *)
(* a physical address and keep the result for good.                        *)
KernelStaysMapped ==
  (cr3 # Unmapped /\ ~vm.failed) =>
    /\ ~vm.fault
    /\ \A f \in (physbase .. physfree - 1) \cup {Video} : FrameOf(VIRT_OFFSET + f) = f

PagesOf(r) == {r.base + i : i \in 0 .. (r.size - 1) \div PAGE_SIZE}
HeldPages == UNION {PagesOf(r) : r \in regions}

(* What kmalloc has returned is as long as it was asked to be, in frames   *)
(* of its own, and stays so; two results never overlap.                    *)
RegionsArePrivate ==
  ~vm.failed =>
    /\ \A r, q \in regions : r # q => PagesOf(r) \cap PagesOf(q) = {}
    /\ \A p \in HeldPages : FrameOf(p) \in RAM
    /\ \A p, q \in HeldPages : FrameOf(p) = FrameOf(q) => p = q

(* A page keeps its frame or gets a fresh one: installing the tables for   *)
(* one page never changes the translation of another.                      *)
Broken == cr3 # Unmapped /\ (vm.failed \/ vm.fault)

AS == INSTANCE AddressSpace WITH
        Page <- Ordinary,
        map <- [v \in Ordinary |->
                  IF cr3 = Unmapped
                  THEN IF v - VIRT_OFFSET \in (physbase .. physfree) \cup {Video}
                       THEN v - VIRT_OFFSET ELSE Unmapped
                  ELSE FrameOf(v)],
        free <- vm.free,
        broken <- Broken

ImplementsAddressSpace == AS!ASSpec

(* The comment above kmalloc_virtual: it allocates pages according to      *)
(* size_mem and at a given virtual address.                                *)
VirtualIsContiguous ==
  ~vm.failed => \A r \in placed : \A p \in PagesOf(r) : FrameOf(p) # Unmapped

=============================================================================
