------------------------------- MODULE Loader -------------------------------
(***************************************************************************)
(* The loader of sys/tarfs.c and sys/mm.c on top of virtual memory and of  *)
(* the archive: load_elf, called by start() for a report and by            *)
(* add_userproc_to_task_list for a task, and CopyCodeData.  Every          *)
(* allocation is the kmalloc or kmalloc_virtual of Vm.                     *)
(*                                                                         *)
(* Of the file that is found the model keeps the entry point and the       *)
(* program headers.  An address of the program is a number of bytes; what  *)
(* kmalloc returns is the number of a page.                                *)
(***************************************************************************)
EXTENDS Vm, Tarfs

CONSTANTS
  Programs,     \* [entry, phdrs] of the files that may be loaded
  Images,       \* what kernels are linked with: <<archive, program in it>>
  TASK_STRUCT,  \* sizeof(struct task_struct): several pages, with its stack
  MM_STRUCT,    \* sizeof(struct mm_struct)
  VMA_STRUCT,   \* sizeof(struct vm_area_struct)
  SAVED_RSP     \* where stack[45] is in a task_struct

VARIABLES
  program,  \* the file's program
  caller,   \* "start" or "add_userproc"
  pl,       \* where the loader is
  phdr,     \* the program header that is next
  tsk       \* the task_struct of the load under way

loader == <<program, caller, pl, phdr, tsk>>
allVars == <<vars, tarfs, loader>>

Header == [type : {"PT_LOAD", "other"}, vaddr : Nat, memsz : Nat,
           flags : SUBSET {"R", "W", "X"}]

ASSUME LoaderParameters ==
  /\ {TASK_STRUCT, MM_STRUCT, VMA_STRUCT} \subseteq Nat \ {0}
  /\ SAVED_RSP \in Nat
  /\ Images \subseteq Archives \X Programs
  /\ Programs \subseteq [entry : Nat, phdrs : Seq(Header)]

PagesAt(from, size) == {a \div PAGE_SIZE : a \in from .. from + size - 1}
UserPage == {v \in Ordinary : v < VIRT_OFFSET}
Loads(p) == {i \in DOMAIN p.phdrs : p.phdrs[i].type = "PT_LOAD"}

(* A program has something to load.  Its segments do not overlap, and what *)
(* is allocated for them and copied to them lies below the kernel.         *)
ASSUME LoaderPrograms ==
  \A p \in Programs :
    /\ Loads(p) # {}
    /\ \A i \in Loads(p) :
         LET h == p.phdrs[i]
         IN  /\ h.memsz > 0 /\ h.vaddr + h.memsz <= VIRT_OFFSET * PAGE_SIZE
             /\ \A j \in Loads(p) \ {i} : \/ h.vaddr + h.memsz <= p.phdrs[j].vaddr
                                          \/ p.phdrs[j].vaddr + p.phdrs[j].memsz <= h.vaddr
             /\ \A k \in 0 .. h.memsz \div PAGE_SIZE : h.vaddr \div PAGE_SIZE + 8 * k \in UserPage
             /\ PagesAt(h.vaddr, h.memsz) \cup PagesAt(p.entry, h.memsz) \subseteq UserPage

NoTask == [base |-> Unmapped, mm |-> Unmapped, areas |-> <<>>,
           code |-> <<>>, data |-> <<>>]

-----------------------------------------------------------------------------
LoaderInit ==
  /\ Init
  /\ TarfsInit
  /\ program \in {p \in Programs : <<archive, p>> \in Images}
  /\ caller = "start"
  /\ pl = "tables"
  /\ phdr = 1
  /\ tsk = NoTask

Goto(from, to) ==
  /\ pl = from
  /\ pl' = to
  /\ UNCHANGED <<program, caller>>

SetupPageTables ==
  /\ Goto("tables", "search")
  /\ setup_page_tables
  /\ UNCHANGED <<tarfs, phdr, tsk>>

Search ==
  /\ Goto("search", "search")
  /\ readTarfile
  /\ UNCHANGED <<vars, phdr, tsk>>

(* The page kmalloc is about to return, the first of a structure's.        *)
Here == VIRT_OFFSET + kernelfree

AllocateTask ==
  /\ found \notin {Searching, NULL}
  /\ Goto("search", "mm")
  /\ kmalloc(TASK_STRUCT)
  /\ tsk' = [NoTask EXCEPT !.base = Here]
  /\ phdr' = 1
  /\ UNCHANGED tarfs

AllocateMm ==
  /\ Goto("mm", "headers")
  /\ kmalloc(MM_STRUCT)
  /\ tsk' = [tsk EXCEPT !.mm = Here]
  /\ UNCHANGED <<tarfs, phdr>>

Area(start, end, flags) == [vma |-> Here, start |-> start, end |-> end, flags |-> flags]

(* A fault to seed: the new area takes the place of the list.              *)
AppendedOver(areas, area) == <<area>>

(* The walk to the last area of the list.                                  *)
Appended(areas, area) == Append(areas, area)

(* populateTask and populate_vma.  Segments with other flags, such as data *)
(* that is not executable, set neither pair of bounds.                     *)
populateTask ==
  LET h == program.phdrs[phdr]
      bounds == <<h.vaddr, h.vaddr + h.memsz>>
  IN  /\ phdr <= Len(program.phdrs)
      /\ h.type = "PT_LOAD"
      /\ Goto("headers", "headers")
      /\ kmalloc(VMA_STRUCT)
      /\ tsk' = [tsk EXCEPT
                   !.areas = Appended(@, Area(bounds[1], bounds[2], h.flags)),
                   !.code = IF h.flags = {"R", "X"} THEN bounds ELSE @,
                   !.data = IF h.flags = {"R", "W", "X"} THEN bounds ELSE @]
      /\ phdr' = phdr + 1
      /\ UNCHANGED tarfs

SkipHeader ==
  /\ phdr <= Len(program.phdrs)
  /\ program.phdrs[phdr].type # "PT_LOAD"
  /\ Goto("headers", "headers")
  /\ phdr' = phdr + 1
  /\ UNCHANGED <<vars, tarfs, tsk>>

(* The area of the stack ends where the task's rsp points, inside the      *)
(* task_struct.                                                            *)
AllocateStack ==
  LET rsp == tsk.base * PAGE_SIZE + SAVED_RSP
  IN  /\ phdr > Len(program.phdrs)
      /\ Goto("headers", "loaded")
      /\ kmalloc(VMA_STRUCT)
      /\ tsk' = [tsk EXCEPT !.areas = Appended(@, Area(rsp - PAGE_SIZE, rsp, {"R", "W"}))]
      /\ UNCHANGED <<tarfs, phdr>>

(* start() prints the pointer and drops it; setup_processes allocates the  *)
(* task of func1 and calls load_elf again.                                 *)
SecondLoad ==
  /\ caller = "start"
  /\ pl = "loaded" \/ (pl = "search" /\ found = NULL)
  /\ kmalloc(TASK_STRUCT)
  /\ caller' = "add_userproc"
  /\ pl' = "search"
  /\ header' = 1
  /\ found' = Searching
  /\ UNCHANGED <<program, archive, phdr, tsk>>

(* CopyCodeData looks at tsk->mm of a null pointer.                        *)
NoFile ==
  /\ caller = "add_userproc"
  /\ found = NULL
  /\ Goto("search", "fault")
  /\ UNCHANGED <<vars, tarfs, phdr, tsk>>

First == tsk.areas[1]

AllocateArea ==
  /\ caller = "add_userproc"
  /\ Goto("loaded", "copy")
  /\ kmalloc_virtual(First.end - First.start, First.start \div PAGE_SIZE)
  /\ UNCHANGED <<tarfs, phdr, tsk>>

(* A fault to seed: the bytes come from where they go.                     *)
TouchedInPlace(area) == PagesAt(area.start, area.end - area.start)

(* What the copying loop reads, from the entry point on, and writes.       *)
Touched(area) ==
  PagesAt(program.entry, area.end - area.start)
    \cup PagesAt(area.start, area.end - area.start)

(* The loop of CopyCodeData, which leaves after the first area.            *)
CopyCodeData ==
  /\ Goto("copy",
          IF \A v \in Touched(First) : Translate(vm.mem, cr3, v) # Unmapped
          THEN "done" ELSE "fault")
  /\ UNCHANGED <<vars, tarfs, phdr, tsk>>

(* Nothing is loaded after that.                                           *)
Loaded == pl \in {"done", "fault"} /\ UNCHANGED allVars

LoaderNext ==
  \/ SetupPageTables \/ Search
  \/ AllocateTask \/ AllocateMm \/ populateTask \/ SkipHeader \/ AllocateStack
  \/ SecondLoad \/ NoFile \/ AllocateArea \/ CopyCodeData \/ Loaded

(* The loop of readTarfile runs on as long as it may.                      *)
LoaderSpec == LoaderInit /\ [][LoaderNext]_allVars /\ WF_allVars(Search)

(* The fault handler and find_vma: the first area that holds an address.   *)
find_vma(areas, addr) ==
  LET hits == {i \in DOMAIN areas : areas[i].end > addr /\ areas[i].start <= addr}
  IN  IF hits = {} THEN NULL ELSE CHOOSE i \in hits : \A j \in hits : i <= j

-----------------------------------------------------------------------------
(* Properties.                                                             *)

(* The regions that a task's structures are to occupy.                     *)
TaskStruct(t) == [base |-> t.base, size |-> TASK_STRUCT]
MmStruct(t)   == [base |-> t.mm, size |-> MM_STRUCT]
VmaStruct(a)  == [base |-> a.vma, size |-> VMA_STRUCT]

Structures(t) ==
  {TaskStruct(t), MmStruct(t)} \cup {VmaStruct(t.areas[i]) : i \in DOMAIN t.areas}

(* When a task is loaded its list of areas has all the segments and the    *)
(* stack, and find_vma finds each of them at its first byte.  Each of its  *)
(* structures, the task_struct with its several pages among them, is a     *)
(* region of its own, as are those of the first load: no page of it is in  *)
(* another region, and all stay mapped to frames of their own whatever is  *)
(* mapped for the program.                                                 *)
TaskIsWhole ==
  pl \in {"loaded", "copy", "done"} =>
    /\ Len(tsk.areas) = Cardinality(Loads(program)) + 1
    /\ \A i \in DOMAIN tsk.areas :
         find_vma(tsk.areas, tsk.areas[i].start) = i
    /\ Cardinality(Structures(tsk)) = Len(tsk.areas) + 2
    /\ Structures(tsk) \subseteq regions
    /\ RegionsArePrivate

(* Until memory runs out CopyCodeData gets through only if the segment and *)
(* as many bytes from the entry point on lie in pages that kmalloc_virtual *)
(* has mapped, every eighth one from the start of the segment; a segment   *)
(* that begins and ends in one page, and is read from that page, is copied.*)
OnlyOnePageLoads ==
  LET size   == First.end - First.start
      first  == First.start \div PAGE_SIZE
      mapped == {first + 8 * i : i \in 0 .. size \div PAGE_SIZE}
      needed == PagesAt(First.start, size) \cup PagesAt(program.entry, size)
  IN  ~vm.failed =>
        /\ pl = "done" => needed \subseteq mapped
        /\ (pl = "fault" /\ found # NULL) => needed # {first}

(* mmap changes entries without invalidating the translation cache, which  *)
(* holds until cr3 is written what was once translated.  Until memory runs *)
(* out no page that is mapped ever gets another frame, those that show the *)
(* tables among them: nothing cached is stale.  There is one exception:    *)
(* setup_page_tables maps the page behind the bitmap too, which nothing    *)
(* uses before kmalloc hands it out with another frame.                    *)
NothingGoesStale ==
  [][(cr3 # Unmapped /\ ~vm'.failed) =>
       \A v \in Page : \/ FrameOf(v) \in {Unmapped, FrameOf(v)'}
                       \/ v = VIRT_OFFSET + physfree /\ regions = {}]_allVars

(* Whatever the blocks say, a search comes to its end: at the file, or     *)
(* behind the archive.                                                     *)
SearchEnds == (pl = "search" /\ found = Searching) ~> found # Searching

=============================================================================
