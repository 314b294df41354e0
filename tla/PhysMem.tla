------------------------------ MODULE PhysMem -------------------------------
(***************************************************************************)
(* The physical page allocator of sys/pmap.c, together with the loop of    *)
(* start() in sys/main.c that hands it the memory map.                     *)
(*                                                                         *)
(* free_pages_list is an array of MAX_PAGES bytes, one bit a page; here it *)
(* is the set of the pages whose bit is set.  The searches of the code     *)
(* index that array with a page number and stop at page MAX_PAGES, so the  *)
(* number of pages in a byte (BYTE) and the number of bytes (MAX_PAGES)    *)
(* are both parameters and both matter.                                    *)
(***************************************************************************)
EXTENDS Integers, Sequences, FiniteSetsExt, FrameSupply

CONSTANTS
  PAGE_SIZE,   \* bytes in a page
  BYTE,        \* bits in an element of free_pages_list
  MAX_PAGES,   \* elements of free_pages_list
  FIRST_PAGE,  \* the page kmalloc_mem starts from, 528
  physbase,    \* first address of the loaded kernel
  physfree,    \* first address after the loaded kernel
  MemoryMaps   \* the memory maps a boot loader may report

VARIABLES
  smap,     \* the memory map of this machine
  next,     \* the index in smap of the next entry start() handles
  used,     \* pages whose bit of free_pages_list is 1
  held,     \* pages callers have been given and not returned
  ret,      \* what the last call returned
  overrun   \* whether a search has read past the end of free_pages_list

vars == <<smap, next, used, held, ret, overrun>>

Pages == 0 .. MAX_PAGES * BYTE - 1
NULL  == 0      \* a null pointer, and also the address of page 0
None  == -1     \* the last call returned nothing
Fault == -2     \* the last call never returned: it read unmapped memory

MapEntry == [base : Nat, length : Nat, type : Nat]

(* The end of the bitmap, which init_freelist places after the kernel.     *)
BitmapEnd == physfree + MAX_PAGES

PhysMemAssumption ==
  /\ PAGE_SIZE \in Nat \ {0}
  /\ BYTE \in Nat \ {0}
  /\ MAX_PAGES \in Nat \ {0}
  /\ MAX_PAGES % BYTE = 0
  /\ FIRST_PAGE \in Nat \ {0}
  /\ FIRST_PAGE * BYTE < MAX_PAGES
  /\ physbase \in Nat
  /\ physfree \in Nat
  /\ physbase % PAGE_SIZE = 0
  /\ physbase <= FIRST_PAGE * PAGE_SIZE

(* Available memory starts on a page and ends within MAX_PHY_MEM           *)
(* (include/pagetab.h:98), the memory free_pages_list can describe.        *)
MemoryMapAssumption ==
  \A m \in MemoryMaps :
    /\ m \in Seq(MapEntry)
    /\ \A i \in 1 .. Len(m) :
         m[i].type = 1 =>
           /\ m[i].base % PAGE_SIZE = 0
           /\ m[i].base + m[i].length <= MAX_PAGES * BYTE * PAGE_SIZE

ASSUME PhysMemParameters == PhysMemAssumption
ASSUME PhysMemMaps == MemoryMapAssumption

-----------------------------------------------------------------------------
(* The bitmap.                                                             *)

(* A fault to seed: init_freelist does not reserve the bitmap.             *)
ReservedWithoutBitmap(p) ==
  p * PAGE_SIZE >= physbase /\ p * PAGE_SIZE < physfree

is_memory_reserved(p) ==
  p * PAGE_SIZE >= physbase /\ p * PAGE_SIZE <= BitmapEnd

(* set_kernel_in_freelist sweeps the pages of [start, end).                *)
Swept(start, end) == start \div PAGE_SIZE .. end \div PAGE_SIZE - 1

set_kernel_in_freelist(u, start, end) ==
  (u \ Swept(start, end))
    \cup {p \in Swept(start, end) : is_memory_reserved(p)}

(* free_pages_list[b] == 255                                               *)
ByteFull(u, b) == \A p \in b * BYTE .. b * BYTE + BYTE - 1 : p \in u

(* Faults to seed: the shift in the other direction, and a test of the     *)
(* whole byte.                                                             *)
LooksFreeBelow(u, p) == \A q \in (p \div BYTE) * BYTE .. p : q \notin u
LooksFreeByte(u, p)  == ~ByteFull(u, p \div BYTE)

(* !(free_pages_list[p / 8] >> (p % 8)) & 0x01: the bit of p and those of  *)
(* all the later pages of its byte are 0.                                  *)
LooksFree(u, p) == \A q \in p .. (p \div BYTE) * BYTE + BYTE - 1 : q \notin u

(* A fault to seed: MAX_PAGES is taken for a number of pages.              *)
OpenBytesCut(u, first) == {b \in first .. (MAX_PAGES \div BYTE) - 1 : ~ByteFull(u, b)}

(* The bytes at which the while loop of a search from first may stop.      *)
OpenBytes(u, first) == {b \in first .. MAX_PAGES - 1 : ~ByteFull(u, b)}

(* The pages a search from first may take: it looks at page numbers from   *)
(* the BYTE it stopped at.                                                 *)
Candidates(u, first) ==
  {p \in Pages : /\ OpenBytes(u, first) # {}
                 /\ p \in Min(OpenBytes(u, first)) .. MAX_PAGES - 1
                 /\ LooksFree(u, p)}

(* A fault to seed: an address where a page number is expected.            *)
FirstFitAddress(u, first) == Min(Candidates(u, first)) * PAGE_SIZE

FirstFit(u, first) == Min(Candidates(u, first))

-----------------------------------------------------------------------------
(* init_freelist has marked every page used.                               *)
Init ==
  /\ smap \in MemoryMaps
  /\ next = 1
  /\ used = Pages
  /\ held = {}
  /\ ret = None
  /\ overrun = FALSE

Booted == next > Len(smap)
Running == Booted /\ ret # Fault

(* One round of the loop over the memory map in start().                   *)
SmapEntry ==
  /\ ~Booted
  /\ LET e == smap[next]
     IN  used' = IF e.type = 1 /\ e.length # 0
                 THEN set_kernel_in_freelist(used, e.base, e.base + e.length)
                 ELSE used
  /\ next' = next + 1
  /\ UNCHANGED <<smap, held, ret, overrun>>

(* A fault to seed: the page found is not marked.                          *)
FoundUnmarked(first) ==
  /\ Candidates(used, first) # {}
  /\ ret' = FirstFit(used, first)
  /\ held' = held \cup ({FirstFit(used, first)} \ {NULL})
  /\ UNCHANGED <<used, overrun>>

(* The search of kmalloc_mem and malloc_mem.  The caller of a search that  *)
(* returns page 0 sees a null pointer and holds nothing.                   *)
Found(first) ==
  /\ Candidates(used, first) # {}
  /\ used' = used \cup {FirstFit(used, first)}
  /\ ret' = FirstFit(used, first)
  /\ held' = held \cup ({FirstFit(used, first)} \ {NULL})
  /\ UNCHANGED overrun

NotFound(first) ==
  /\ OpenBytes(used, first) # {}
  /\ Candidates(used, first) = {}
  /\ ret' = NULL
  /\ UNCHANGED <<used, held, overrun>>

(* With every byte full the while loop leaves the array.  It either meets  *)
(* a byte that is not 255, at a page number past MAX_PAGES, or a page that *)
(* is not mapped.                                                          *)
RunsOff(first) ==
  /\ OpenBytes(used, first) = {}
  /\ overrun' = TRUE
  /\ ret' \in {NULL, Fault}
  /\ UNCHANGED <<used, held>>

Search(first) ==
  /\ Running
  /\ Found(first) \/ NotFound(first) \/ RunsOff(first)
  /\ UNCHANGED <<smap, next>>

kmalloc_mem == Search(FIRST_PAGE)
malloc_mem == Search(0)

(* A fault to seed: the test for page 0 is inverted.                       *)
SetPageFreeInverted(p) ==
  /\ Running
  /\ p \in held
  /\ used' = IF p = 0 THEN used \ {p} ELSE used
  /\ held' = held \ {p}
  /\ ret' = None
  /\ UNCHANGED <<smap, next, overrun>>

(* A holder returns a page; nothing in the kernel calls this yet.          *)
set_page_free(p) ==
  /\ Running
  /\ p \in held
  /\ used' = IF p # 0 THEN used \ {p} ELSE used
  /\ held' = held \ {p}
  /\ ret' = None
  /\ UNCHANGED <<smap, next, overrun>>

(* A caller claims a free page by number; nothing calls this yet either.   *)
set_page_used(p) ==
  /\ Running
  /\ p \in Pages \ used
  /\ used' = IF p # 0 THEN used \cup {p} ELSE used
  /\ held' = held \cup ({p} \ {0})
  /\ ret' = None
  /\ UNCHANGED <<smap, next, overrun>>

(* The calls the kernel makes.                                             *)
KernelNext == SmapEntry \/ kmalloc_mem

(* Every operation of pmap.c on the bitmap.                                *)
Next ==
  \/ KernelNext
  \/ malloc_mem
  \/ \E p \in Pages : set_page_free(p) \/ set_page_used(p)

Spec == Init /\ [][Next]_vars

(* The kernel as it is, which returns no page and does not call malloc.    *)
KernelSpec == Init /\ [][KernelNext]_vars

-----------------------------------------------------------------------------
(* Properties.                                                             *)

(* The page lies inside entry i of the map, and that is available memory.  *)
Inside(i, p) ==
  /\ smap[i].type = 1
  /\ smap[i].base <= p * PAGE_SIZE
  /\ (p + 1) * PAGE_SIZE <= smap[i].base + smap[i].length

(* The page lies inside memory the map reports as available.               *)
RamPage(p) == \E i \in 1 .. Len(smap) : Inside(i, p)

(* The page shares a byte with the kernel image or with the bitmap.        *)
KernelPage(p) ==
  p * PAGE_SIZE < BitmapEnd /\ (p + 1) * PAGE_SIZE > physbase

(* Every variable of the allocator has its type.                           *)
TypeOK ==
  /\ smap \in MemoryMaps
  /\ next \in 1 .. Len(smap) + 1
  /\ used \in SUBSET Pages
  /\ held \in SUBSET Pages
  /\ ret \in Pages \cup {None, Fault}
  /\ overrun \in BOOLEAN

(* Whatever the order and the overlap of the entries of the memory map,    *)
(* a page a caller has been given is available memory, is no part of the   *)
(* kernel or of the bitmap, is not page 0, and is marked used, so that no  *)
(* later search finds it (set_kernel_in_freelist, kmalloc_mem).            *)
HeldIsUsableRam ==
  /\ held \subseteq used \ {NULL}
  /\ \A p \in held : RamPage(p) /\ ~KernelPage(p)

(* No page gets lost: once the map is read, a page that is marked used is  *)
(* held, is reserved for the kernel, or is not available memory.  Page 0   *)
(* is the exception: malloc_mem takes it and returns a null pointer.       *)
NothingLeaks ==
  Booted => \A p \in used \ (held \cup {NULL}) :
              is_memory_reserved(p) \/ ~RamPage(p)

(* A call never returns a page that somebody holds already.                *)
NeverGrantedTwice ==
  [][ret' \notin held]_<<used, held, ret>>

(* All the pages kmalloc_mem looks at are available memory.                *)
ContiguousRam ==
  \A p \in FIRST_PAGE .. MAX_PAGES - 1 : RamPage(p)

(* What callers hold comes from the searched range, and nothing before it  *)
(* is free: pages were given out in order and none has been returned.      *)
HandedOutInOrder ==
  \A p \in held : /\ p \in FIRST_PAGE .. MAX_PAGES - 1
                  /\ \A q \in FIRST_PAGE .. p : q \in used

(* What the kernel can still be given.                                     *)
Supply == [free |-> (FIRST_PAGE .. MAX_PAGES - 1) \ used, failed |-> FALSE]

(* On a machine whose memory has no hole in the searched range, and as     *)
(* long as pages are given out in order, kmalloc_mem returns the lowest    *)
(* free page and marks that one only, says that memory is exhausted only   *)
(* when it is, and pages stay given out in order: the search that mixes    *)
(* byte and page indices and the test that wants the rest of the byte to   *)
(* be free skip no free page.                                              *)
SuppliesTheLowest ==
  [][(kmalloc_mem /\ ContiguousRam /\ HandedOutInOrder) =>
       /\ \/ ret' = Fresh(Supply) /\ Supply'.free = Taken(Supply).free
          \/ ret' = Fault /\ Supply.free = {} /\ UNCHANGED used
       /\ HandedOutInOrder']_vars

(* Available memory above the range kmalloc_mem hands out from.            *)
HighRam ==
  \E p \in Pages : /\ p >= MAX_PAGES
                   /\ p >= FIRST_PAGE * BYTE
                   /\ RamPage(p)
                   /\ ~is_memory_reserved(p)

(* With available memory above page MAX_PAGES the while loop of            *)
(* kmalloc_mem does not leave the bitmap, however many pages it has given  *)
(* out.                                                                    *)
ScanStaysInBitmap ==
  [][(kmalloc_mem /\ HighRam /\ HandedOutInOrder) => UNCHANGED overrun]_vars

(* The bitmap implements the pool of pages: page 0, which callers cannot   *)
(* be given, is outside it, and the pool exists from the moment the map is *)
(* known.                                                                  *)
PoolFree ==
  {p \in Pages \ {NULL} :
     RamPage(p) /\ ~is_memory_reserved(p) /\ (Booted => p \notin used)}

Pool == INSTANCE PagePool WITH Page <- Pages \ {NULL}, free <- PoolFree

ImplementsPool == Pool!PoolSpec

=============================================================================
