# A verified model of the CSE 508 kernel

The repository is a small x86-64 teaching kernel: it boots, sets up its interrupts, takes over the
memory map, sets up page tables, starts a kernel task and a task loaded from an archive, and switches
between them when they yield, while a timer shows the uptime and the keyboard echoes. These TLA+
modules model it, TLC checks them on small instances, and TLAPS proves the most important facts for
every size.

All paths are relative to `src/`.

## Inventory

| Component | Source | State | Operations | Hard part | What makes it correct |
|---|---|---|---|---|---|
| Physical page allocator | `sys/pmap.c`, `sys/main.c` | `free_pages_list`, `kernelbase`, `kernelfree` | `init_freelist`, `set_kernel_in_freelist`, `kmalloc_mem`, `malloc_mem`, `set_page_free`, `set_page_used` | indices that are bytes here and pages there, page 0 = null, any memory map | a page is free or held once; only usable memory is handed out; none is lost |
| Virtual memory | `sys/pagetab.c`, `sys/pmap.c`, `include/pagetab.h` | the tables in physical memory, `cr3`, `kernelfree` | `setup_page_tables`, `getPT`, `mmap`, `kmalloc`, `kmalloc_page`, `kmalloc_virtual` | tables are edited through the recursive window they define | tables are a tree; mapping a page disturbs no other; results are private |
| Scheduler | `sys/process.c`, `sys/isr.s` | list of tasks, each task's stack and `rsp`, registers | `add_proc_to_task_list`, `add_userproc_to_task_list`, `first_switch`, `int 0x80` with `schedule` | contexts live on per-task stacks that interrupts use too | switching is transparent; tasks run in turn; the list is intact |
| Console | `sys/write.c` | `c_x`, `c_y`, screen, cursor registers, `buffer` | `putchar`, `printf`, `itoa`, `puts`, `print_cx_cy`, `clrscr` | no lock: handlers print in the middle of a task's `putchar` or number | text wraps above the status line; the clock stays; the cursor follows; numbers are right |
| Keyboard | `sys/kbc.c`, `sys/kbc_scancodes.c` | `shift` | `kbc_irq`, `kbcsc_tochar` | keys overlap, repeat, and wait to be read | the shift state is that of the keys; the echo tells which key |
| Timer | `sys/timer.c` | `tick`, the status line, the chip | `timer_callback`, `set_timer_phase` | conversion at its borders; text of varying length over older text | shows the time, and nothing else |
| Interrupt dispatch | `sys/irq.c`, `sys/irq.s`, `sys/isr.c`, `sys/isr.s`, `sys/idt.c` | interrupt table, interrupt flag | `init_idt`, `init_isr`, `init_irq`, `reload_idt`, stubs | interrupts are enabled before the table is loaded | every interrupt meets its gate; a handler leaves the interrupted task as it was |
| Interrupt controller | `sys/pic.c` | two chips: mask, base, step of initialisation | `PIC_remap`, `IRQ_clear_mask` | ten port writes in order, requests lost on the way | lines lead to their gates; no line is opened by accident |
| Boot sequence | `sys/main.c` | progress, pointers | `boot`, `start` | order against interrupts | nothing is used before it is set up |
| Loader | `sys/tarfs.c`, `sys/mm.c` | the archive, memory areas of a task | `readTarfile`, `load_elf`, `populateTask`, `CopyCodeData`, `find_vma` | sizes at block boundaries, contents read as headers | finds the file; the task's areas hold its segments |
| Segments and task state | `sys/gdt.c`, `sys/gdt.s` | descriptor table | `reload_gdt`, `setup_tss` | | loaded before the first interrupt |
| Arithmetic and string helpers | `sys/math.c`, `sys/write.c` | | `pow`, `atoi`, `octal_decimal`, `itoa` | numbers that are none | right where the loader and `printf` use them |
| Queue, vendored headers | `sys/queue.c`, `include/linux/*` | | | | unused |

How they interact: `boot()` sets up segments, interrupts and controllers, then `start()` gives the
memory map to the page allocator, which the page tables and `kmalloc` draw on; the loader finds a
file in the archive and allocates a task, its areas and its pages; a task yields by `int 0x80` and
prints by `printf`; the timer and the keyboard interrupt whichever task runs, push on its stack and
print through the same console and the same number buffer. The hazards of this design are listed at
their lines in `PROJECT.json`.

## Modules

A name is the source's name wherever there is one. Operators called a *fault to seed* are used by no
specification: put in place of the definition they stand before, they show that a property can fail.
*History variables* record what properties speak of; no step depends on them.

| Component module | Promises (abstract module) | Composed with | Proofs |
|---|---|---|---|
| `PhysMem` | `PagePool` | with `Vm` by `FrameSupply` | `PhysMem_proofs` |
| `Vm` | `AddressSpace` | | `Vm_proofs` |
| `Sched` | `RoundRobin` | | `Sched_proofs` |
| `Console` | `Teletype` | | `Console_proofs` |
| `Numbers` | | | `Numbers_proofs` |
| `Clock`, `Keyboard` | | by `Handlers` | `Handlers_proofs` |
| `Tarfs` | | with `Vm` by `Loader` | `Loader_proofs` |
| `Boot` | | | `Boot_proofs` |

### PhysMem, implementing PagePool

`used` is the set of pages whose bit of `free_pages_list` is 1, so the array is a set of
`MAX_PAGES * BYTE` page numbers. `SmapEntry` is a round of the loop in `start()`; `kmalloc_mem` and
`malloc_mem` are `Search(528)` and `Search(0)`. A search is kept as odd as the code: the `while`
loop finds a *byte* index at which the byte is not 255 (`OpenBytes`), the `for` loop goes on from
that number as a *page* up to `MAX_PAGES`, and the test `!(x >> n) & 1` asks for all later pages of
the byte to be free as well (`LooksFree`). If every byte is full the loop leaves the array
(`RunsOff`): it meets other memory that is not 255, at an index where the `for` loop gives up, or
an unmapped page. `held` is a history variable: what callers have. Page 0, whose address is the
null pointer, is never held by anyone. `PagePool` is the pool: pages are free or held, `Grant` and
`GiveBack` move one.

### Vm, implementing AddressSpace

Frames and pages are numbers, a page's number the four indices of its address. `vm.mem` gives every
frame the table of entries it would be read as. After `setup_page_tables` has loaded `cr3` the code
reaches a table only through the window of the recursive slot; so does the model: `Ensure` and
`mmap` translate `PML4_BASE`, `PDP_BASE`, `PD_BASE` and `PT_BASE` with `Translate`, the processor's
walk, in the state they are changing, and an unmapped window is a fault. `getPT` works before that
on physical addresses. `kmalloc_mem` appears as `Fresh` and `Taken` of `FrameSupply`: the lowest free
frame, or 0 and `vm.failed`; that the bitmap keeps this promise is `BitmapIsTheSupply` below.
`kmalloc`, `kmalloc_page` and `kmalloc_virtual` go through their pages round by round (`AllBacked`, a
recursive function whose rounds are `Backed`); the stride of `kmalloc_virtual` is the code's, eight
pages. `AddressSpace` is a map from pages to frames in which a page only ever changes
to a frame that was free.

`VmLayout` says what the code assumes of the addresses it is built for: the kernel's pages, from
`VIRT_OFFSET` on, are not in the recursive slot (the kernel is linked at entry 511, the recursive
entry is 510); the image and the bitmap lie in one page table, for `setup_page_tables` asks `getPT`
for one; programs lie below the kernel. `MapRange` itself follows the code where a range is longer
than its table, and wraps around.

### Sched, implementing RoundRobin

A word of memory is a triple that says whose register it came from and in which phase of that
task's computation, so that a word restored to the wrong place or the wrong task is a different
word. `Prepared` is the stack written by `init_process` and by `load_elf`, `Pushed` what the
processor and the stub push on `int 0x80`, `Popped` the pops and the `iretq` shared by the stub and
by `first_switch`. `schedule` is the whole of `int 0x80`: the gate is an interrupt gate, so nothing
interrupts it. `Work` is any computation of the running task, `irq` an interrupt that uses the
task's stack. The walk `while (temp->next_task != NULL)` is `Reach`, what every set closed under
`next_task` contains, and `Ends`; a walk without end is the mode `"hung"`. `RoundRobin` has a queue
and a context for each task; only the head changes its own context, and yielding rotates the queue
and changes no context.

Assumed of the compiler: `schedule` has no prologue that pushes (its first instruction reads the
return address at `(%rsp)`), which the code relies on as well.

### Console, implementing Teletype

The `putchar` of a task takes one step for each load and each store, as C mentions them, of what it
shares with the handlers: `c_x`, `c_y`, the screen, the four port writes of `update_cursor_no_type`.
An increment or decrement is a load (`Step`, `Back`, `Down`) and a store (`StepOn`, `BackOff`,
`Line`); a test is a load of its own (`Edge`, `Backspace`, `Wrap`), before the store that depends on
it; a place on the screen is two loads, in either order (`Locate`), as C leaves that open. A compiler
that merges two of them takes away interleavings and adds none. The handlers run with interrupts off:
`irq_timer` shows some time, `irq_kb` shows a key and echoes it with a whole `putchar` (`Moved`,
`CursorAt`). Tasks do not preempt each other, so one `putchar` at most is in progress. `strayed`,
`undercut` and `crossed` are history variables: whether a character went to a place outside the text,
whether the last key came between a backspace's test and its decrement, and whether it came after the
first load of a task's cursor update and before its last port write. `Teletype` is a sheet of lines with a position; a
character is asked for and then typed, and nothing happens that was not asked for. `Landing`, the
refinement mapping of the position, is where the character in hand will leave it.

### Numbers

`printf` of `%d`, `%x` and `%p`: `itoa` writes digits into the one global `buffer` in reverse
(`Digit`), fills up with zeros (`Pad`), terminates and turns the string round (`Turn` to `ToPtr`),
and `puts` prints it (`Test`, `Putchar`), one step for each access. A tick between any two of them
converts the clock's numbers in the same buffer, one after the other (`irq_timer`, `Overwritten`). An `int` argument is widened to the
`uint64_t` of `itoa` (`Argument`). `puts` reads a character for its test and again to print it; a
compiler may keep it, so `Putchar` prints either. `disturbed` is a history variable.

### Clock, Keyboard and Handlers

`Clock` is `timer_callback`: the counter modulo `WORD`, `Text` with its three branches as they are
written, and `print_cx_cy`, which writes over the older text and erases nothing. `Keyboard` has the
keys that are down, the scan codes that were sent and not read, the bits of `shift` and the rows of
`kbcsc_tochar`. `Handlers` composes the two on the status line.

### Boot

One step of `boot()` for each thing it changes that an interrupt can meet: gates, the three
descriptor tables, the interrupt flag, the port writes of `PIC_remap` and `IRQ_clear_mask`, the two
pointers that lose their target when `cr3` is written, the three writes that program the timer, and
the copy of the program in `setup_processes`, which may fault (`CopyCodeDataFaults`; for which
programs it does is `Loader`'s matter).
Devices raise requests at any time; a chip keeps them, and one that is open is delivered to the
vector that the chip's base says, whatever that leads to. `lost` says where the machine was lost, to
which interrupt or to none. What the 8259 does is modelled from how the code uses it: four
initialisation words in order, the first of which forgets requests and mask, the others kept as the
base, the cascade and the mode. The masks that the boot loader left are a
constant, and any scan code may be waiting from the start.

### Tarfs and Loader

`Tarfs` is `readTarfile`: an archive is a sequence of blocks, any of which can be read as a header,
those of contents as well; a size goes through `atoi` and `octal_decimal` with the digits it has.
`WellFormed` is what `tar` writes. `Loader` composes the search with `Vm`: `load_elf` for the report
in `start()` and again for the task (`SecondLoad`), the areas it builds from program headers, and
`CopyCodeData`, which maps the first area with `kmalloc_virtual` and copies from the entry point;
each address it touches is translated by the tables as they are. A missing file is a fault in
`CopyCodeData` (`NoFile`), as in `Sched`. The three structures have sizes of their own; `task_struct`
holds its stack of 4096 words (`include/sched.h:18` to `35`), so that `kmalloc` goes through nine
pages for it, three in the run. Of a program `LoaderPrograms` assumes what a linker makes
of it: there is something to load, its segments are not empty and do not overlap, and what is
allocated for them and copied, the pages eight apart and as many bytes from the entry point as well,
lies below the kernel and outside the window onto the tables.

## Runs

| Run | Question | Bounds |
|---|---|---|
| `physmem` | Does the bitmap keep its promises under every operation, in any order? Does the mixed-up search miss free pages or leave the bitmap? | 12 pages, 2 to a byte, 29 memory maps (odd ends, overlap, holes, disorder); all pages can be allocated |
| `sched` | Is switching transparent, and in turn? Does the kernel ever hang or jump to a bad frame? | three tasks, memory clear or self-linked, two phases, stack depth 0 or 1 (both alignments) |
| `sched_fair` | Does every task run again and again? | three tasks, one phase |
| `vm` | Do the tables stay a tree with every page at its frame? | 3 entries to a table (a user, the recursive and the kernel slot), 22 frames, a limit on `kernelfree`: enough to need a new table at every level and to run out of frames |
| `console` | Is the screen a teletype with a clock below it? | 3 lines of 3 characters and a status line, clock ticks anywhere |
| `console_keys` | With keys echoed anywhere and tabs: when can the coordinates leave the text, or the cursor the coordinates? | 2 lines of 3 characters; the model stops when a coordinate has left (`X_LIMIT`, `Y_LIMIT`) |
| `numbers` | Which numbers come out right when the clock uses their buffer? | words of 6 bits, ints of 3, bases 3 and 4; four values, two clock times |
| `handlers` | Does the shift state follow the keys, does the echo tell which, what does the clock show? | base 2, minutes of 3 seconds, 2 ticks a second, a print every 3, the counter wraps at 160 (hours of up to four digits); both shifts and the A, two waiting codes; every one of the 256 codes in `EchoTellsTheKey` |
| `boot` | Where can an interrupt lose the machine; do clock and keyboard work afterwards? | timer, keyboard and the real-time clock (a line of the second chip); four loader masks: all open, no cascade, the timer alone, none |
| `loader` | Is the file found, is the task complete, when does the copy get through? Can the processor hold a translation that the tables no longer give? | blocks of 4 bytes; none or two files before the wanted one, of 0 to 13 bytes (every border of one to four blocks); four kinds of contents; 18 programs in pages of 4 bytes, a `task_struct` of three pages |
| `vm_virtual`, `clock_uptime` | Two statements of the source's own text that the code does not keep | as the passing run of the module |

What they show:

* `SuppliesTheLowest` and `ScanStaysInBitmap`: the confusion of bytes and pages is harmless as long
  as memory is contiguous where the search looks and pages are never returned, and as long as there
  is memory above page `MAX_PAGES`: then the search returns the lowest free page and marks that one
  alone. It is so by luck, and both conditions are part of the properties. The kernel returns no
  page, so that it always meets them (`KernelHandsOutInOrder`). `ImplementsPool`, for callers of any
  kind, does not promise that a search finds a free page.
* `RegionsArePrivate`, `KernelStaysMapped` and `TablesAreATree` hold until the first allocation
  fails. `kmalloc` never looks; after that nothing is claimed.
* `ImplementsRoundRobin` covers every register but `rbp`, which the stub does not save.
* `KeepsGoing`: once tasks run no switch stops the kernel, and no walk of the list ever hangs. Before
  that the loader may fault, for a missing file and for others (`OnlyOnePageLoads`).
* `OnlyTheEdgesAreUnsafe`: a key echoed in the middle of a `putchar` does harm to the coordinates
  in four ways only: around the increment of `c_x` and its test at the right edge, around that of
  `c_y` and its test at the bottom, after a tab to the edge, and when it is Return and comes between
  the test of a backspace and its decrement, which leaves `c_x` at -1. Everywhere else they recover.
* `OnlyACrossedUpdateLosesTheCursor`: with no `putchar` under way, the display's cursor differs from
  `c_x`, `c_y` only if a key came after the first load of the last update's position and before its
  last port write.
* `RightUnlessOverwritten`, `NeverLonger`: a tick between the first digit and the moment `puts` is
  past the clock's digits makes `printf` print a wrong number; one at any other time does not, and a
  wrong number is never longer than the right one or the clock's.
* `FirstHourIsRight`, `NothingIsLeftOver`: the clock is right for an hour. After it `clock_uptime`
  has its minutes and seconds wrong; in the tenth hour, whose "9" has no leading zero, the last
  letter of the older text stays on the line.
* `EchoTellsTheKey`: two keys look alike, those of the apostrophe and the tilde, without shift.
* `OnlyTheWindowsAreFatal`: an interrupt is fatal between `sti` in `init_irq` and `reload_idt`,
  between the write of `cr3` and `remap_printf`, and whenever it comes from a line without a gate
  that the boot loader left open. `boot()` opens the timer's line only, so the keyboard works if its
  line was open (`KeysAreRead`), and not if a scan code was waiting at `ICW1`. Of its own doing
  `boot()` is lost only in `setup_processes`, when the loader faults; its prints and allocations
  always find their targets. `ClockRuns` is about the machines that are not lost.
* `TaskIsWhole`: every structure of a task is a region of its own, the several pages of its
  `task_struct` included.
* `ShortArchivesAreSearched`: a file is found if those before it have at most two blocks; a longer
  one may be counted a block short from 1025 bytes on, and its contents are read as a header.
  `SearchEnds` whatever they say: `octal_decimal` of a negative number is not positive.
* `OnlyOnePageLoads`: until memory runs out the copy gets through only if the segment and as many
  bytes from the entry point on lie in pages that `kmalloc_virtual` mapped, in practice one page.
* `NothingGoesStale`: `mmap` never invalidates a translation, and it does no harm, as no page that is
  mapped gets another frame; those behind which a new table appears in the windows were unmapped
  before. The exception is the page behind the bitmap: the loop of `setup_page_tables` goes one page
  too far (`<=`, `sys/pagetab.c:49`), and the first `kmalloc` maps it anew. Nothing touches it in
  between, so that the processor has no translation of it. The property speaks of what may be cached;
  the cache itself is not modelled.

The two violations: `kmalloc_virtual` maps every eighth page of a range it is asked for
(`sys/pmap.c:177`, `199`); and what the clock calls the system's uptime is not, after an hour
(`sys/timer.c:18` to `23`).

Deadlock checking is on where a system that is not at a bound can always step (`console`, `numbers`,
`handlers`, `loader`, whose `Loaded` stutters when nothing is loaded any more) and off where it may
stop: at a fault, when the machine is lost, or at a bound.

Why these bounds are enough: a page table of three entries has every kind of entry and makes each
level's index differ from the next one's; two pages to a byte separate bytes from pages and give
every byte a first and a last page; three tasks are the fewest for which a rotation and an exchange
with the successor differ; three columns and lines have a first, a middle and a last; a base of two
reaches every length a decimal hour can have before the counter wraps. Data the code treats alike is
represented once. The proofs below remove the bounds for the facts they cover.

**Fairness.** `Sched`: weak fairness of `schedule` alone; a task of this kernel is a loop around
`printf`, which returns, and `int 0x80`. Nothing else is assumed to happen; interrupts may or may not
come. Without it the running task may keep the processor, which the code allows. `Numbers`: weak
fairness of the task, as handlers return and leave it time. `Loader`: weak fairness of the search, a
loop with interrupts that return. `Boot`: weak fairness of `boot()` and of the timer chip while it
counts, and strong fairness of each delivery, for an interrupt that is pending again and again is
taken: a handler is far shorter than the time between two ticks.

## Proofs

`PhysMem_proofs` proves, for every page size, number of pages, memory map and kernel position that
satisfies `PhysMemAssumption` and `MemoryMapAssumption` (available memory starts on a page, which the
code never checks, and lies below `MAX_PHY_MEM`; the kernel starts on a page):

* `TypeCorrect`, `HeldPagesAreUsable`, `PagesDoNotLeak`, `NoPageIsGrantedTwice`: the properties
  `TypeOK`, `HeldIsUsableRam`, `NothingLeaks`, `NeverGrantedTwice`;
* `BitmapImplementsPool`: every initial state is one of the pool, every step a step of the pool or a
  stutter;
* `KernelIsSupplied`, `SearchStaysInBitmap`: the properties `SuppliesTheLowest` and
  `ScanStaysInBitmap`, under the conditions they state: no hole in the searched range, memory above
  it, pages given out in order.

And for the calls the kernel makes, `KernelSpec`, which are those of the loop over the memory map and
`kmalloc_mem`:

* `KernelHandsOutInOrder`: in memory without a hole pages are always given out in order, so that the
  last condition is no condition;
* `KernelStaysInBitmap`: with memory above `MAX_PAGES` as well, no search leaves the bitmap, however
  many pages were allocated before;
* `BitmapIsTheSupply` and `SupplyIsApart`: what `Vm` takes from the allocator. Each `kmalloc_mem` is
  the `Fresh` and `Taken` of `FrameSupply` on the pages still free in the searched range, and those
  are available memory above the image and the bitmap, as `VmParameters` has it of `RAM`. The proofs
  of `PhysMem` and those of `Vm` meet here.

The properties are not inductive: `HeldIsUsableRam` says nothing of the pages that are still unused
and will be handed out next. The inductive invariant `IInv` adds `UnusedIsRam` (an unused page is
unreserved and inside an entry handled so far), `UsedIsTaken` (a used page is held, reserved, page 0
or in no entry handled so far), `HeldIsUnreserved`, and that nothing is held before the map is read.
The two lemmas the argument turns on are `SweptIsInside` (the pages a sweep goes through are exactly
those inside an aligned region, which is where a region's odd end is cut off) and
`UnreservedIsOutside` (a page the address test does not reserve shares no byte with the kernel or
the bitmap). Overlapping and unordered entries need no case of their own: a page is unused just when
some entry handled so far holds it and it is not reserved. For the search, `FreeFromThereOn` says
that after a free page everything is free, so that the test of the rest of the byte fails nowhere,
and `FreePageIsCandidate` that the byte index at which the search starts lies before that page.

`Vm_proofs` proves, for tables of any size, any frames, sizes and user pages that satisfy
`VmParameters` and `VmLayout`:

* `TypesHold`: `TypeOK`, whatever memory held at boot: memory, free frames, `cr3` and `kernelfree`
  have their types and the results of the allocators start and end as asked. Whether a call faults is
  the matter of `KernelStaysMapped`;
* `TablesStayATree`, `KernelStays`, `RegionsStayPrivate`: the properties `TablesAreATree`,
  `KernelStaysMapped`, `RegionsArePrivate`;
* `VmImplementsAddressSpace`: `ImplementsAddressSpace`, step by step;
* `KmallocReplacesNothing`: until memory runs out `kmalloc` and `kmalloc_page` change no translation
  that is there, those of the windows included, except that of the page behind the bitmap;
* `HeapNeedsNoClearMemory`: whatever memory held at boot, `KernelStaysMapped` and
  `RegionsArePrivate` hold while `HeapInKernelTable` does: `kmalloc_virtual` has not been called and
  the heap has not outgrown the page table of the kernel.

All but the first and the last are proved under the hypothesis `ClearRam`: what `kmalloc_mem` can
hand out is zero at boot. `mmap` does not clear the tables it allocates, so that the kernel relies on
this as soon as a second page table is needed; the runs start from such memory.

A level function gives every frame its place: 4 is the PML4, 3 to 1 the tables below it, 0 a page,
5 a frame outside the tree. `Tree` says that the free frames are outside and empty (`Levels`,
`Clean`), that every entry but the recursive one leads one level down (`Descends`) and that no two
entries lead to one frame (`Single`). `Grown` is the step that everything else uses: a tree stays one
when an entry is linked to a frame outside of it. `Windows` is the fact that makes the code work: a
walk that starts with the recursive entry goes round once less, so that the page `PT_BASE(v)` is the
page table of `v`. `MmapKeeps` follows `mmap` through the three windows, each translated by the
tables the step before has changed; `LinkedSame` and `PageWritten` say which translations a step
changes: none, when an empty table is linked, and that of one page in the end. `setup_page_tables`
works before the window exists (`Young`); `SetUpBoots` says what it leaves behind. The inductive
invariant `VInv` is: types, `Untouched` (nothing has happened before `cr3` is loaded), `RegionPages`
(the pages of regions lie between the image and `kernelfree`, each in one region), and, until memory
runs out, `Working`: the tables are a tree with a window for some levels, the kernel is where it
was, held pages have frames of RAM. `TablesAreATree` alone is not inductive: it says nothing of what
the free frames hold or of the levels, without which a new table could be met as an older one.

For memory that is not clear the state is compared with a shadow of its own (`Shadowed`): a state
that agrees with it on the tables and has nothing in the free frames. `setup_page_tables` leaves such
a pair, as `getPT` clears every table before it is read (`SetUpSame`), pages translate alike in both
(`ShadowedMap`), and an allocation that needs no new table keeps the pair (`ShadowedBacked`), so that
what is known of the shadow holds of the state (`UncleanInv`).

For `KmallocReplacesNothing` the pages of the windows, of which `AddressSpace` says nothing, are
followed too. A walk that goes round the recursive entry ends at the frame of a table: when an empty
table is linked, `GrownWindows` has the windows' pages keep theirs, and only those behind the new
entry appear; when a page is written, `PageWindows` has them all keep theirs. `Beyond`, that no page
from `kernelfree` on has a frame but the one behind the bitmap, is invariant with `VInv`, and says
why `kmalloc` always maps pages that have none.

Rounds of a loop and other recursive functions need induction over the natural numbers, which the
library's theorem states with an operator as a parameter; `Least` and `ByInduction` are the same
fact about a *set* of numbers, from the well-foundedness of inclusion on finite sets, and
`RoundsExist` shows with them that the recursive function of the loop exists.

`Sched_proofs` proves, for every set of tasks, every number of words used and whatever `kmalloc`'s
memory held:

* `ListIntact`: `ListOK`;
* `TypesHold`: `TypeOK`; the registers and all the stacks hold words (`WordInv`), and `rip` a place
  where a task resumes;
* `SchedulerKeepsGoing`: `KeepsGoing`, so that no switch jumps to a bad frame or walks without end;
* `SchedImplementsRoundRobin`: `ImplementsRoundRobin`, so that switching is transparent and in turn.

The invariant `SInv` has three parts. `LInv` is `ListOK` with the types of the list and that a
running kernel has a task; reachability is by closed sets, so `LinkedListOK` (a task is appended) and
`RotatedListOK` (the head goes to the tail) need no induction: each exhibits a closed set. `QueueInv`
says that every walk along the links ends at the last task and gives each task a place of its own,
which is where `Queue` is read from. `StackInv` says
of each task that does not run that its stack holds, from its `rsp` up, exactly the words that the
pops and the `iretq` expect, and of which phase they are.

`Console_proofs` proves, for a display of any size, any text and any keys that satisfy
`ConsoleParameters`:

* `TypesHold`: `TypeOK`;
* `OnlyEdges`: `OnlyTheEdgesAreUnsafe`, with keys echoed between any two loads and stores and tabs
  printed;
* `ClockIsSafe`: `ClockStays`, if there are no keys and no tabs;
* `CursorIsShown`: `OnlyACrossedUpdateLosesTheCursor`, which compares positions as two registers hold
  them;
* `ConsoleImplementsTeletype`: `ImplementsTeletype`, if there are no keys and no tabs: what the run
  `console` checks, for a display of any size and any other text.

The invariant adds to `OnlyTheEdgesAreUnsafe` what a `putchar` has loaded and is about to use
(`OnTrack`): the cell it writes lies on the text lines, and a column or line it is about to store is
one past the text at most, for keys move the coordinates meanwhile. `Undercuts` says how a column
gets to -1. `OnTheText` turns two bounds on the coordinates into one on the cell; `MovedIsText` says
that a whole `putchar` started on the text ends on it. Without keys and tabs `Steady` adds that what
was loaded is what is still there, and that the column reaches `COL` only on its way to the test.

`Numbers_proofs` proves, for any bases, widths and buffer that satisfy `NumbersParameters` (the
numbers fit, as they do with 2^64 and 64 characters), any values and any numbers of the clock:

* `TypesHold`: `TypeOK`, so that `itoa` and `puts` stay in the buffer whatever ticks write there;
* `NumbersComeOutRight`: `RightUnlessOverwritten`;
* `PutsFindsAnEnd`: `NeverLonger`;
* `PrintfComesToItsEnd`: each step of the task takes the `printf` nearer to its end, by the part of
  the conversion it is in (`Stage`) and what is left of that part (`Left`): the number, the zeros, the
  way between the two pointers, the rest of the buffer. A tick changes neither, whatever it writes.

Each step of `itoa` and `puts` has its part of the invariant `NInv`: the digits still to be written
are the first of the number and those in the buffer the last of it, in reverse (`Converting`); the
zeros come next (`Padding`); outside `low .. ptr` the text is turned (`Turned`); what is left to
print follows what is printed (`Printing`), all that unless `disturbed`. `EndFrom` holds even then: a
NUL stands no earlier than the pointer and no later than the end of the number or of the longest
number of some tick. That the value after the division has the first digits of the value before it
(`DigitsStep`), and that hexadecimal numbers fit in `PAD` because digits grow with the number
(`DigitsGrow`), is shown by induction on the value as above.

`Handlers_proofs` proves of the two handlers side by side, for any keys, any number of waiting codes
and any base, hour, rate of ticks and text of the clock:

* `ShiftIsRight`: `ShiftFollowsKeys`. The invariant `Told` says of each shift key that the last code
  about it on the line tells whether it is down, and the bit does if there is none;
* `EchoIsTold`: `EchoTellsTheKey`. The rows of the table do not overlap (`RowsApart`), so each code
  has the character listed in `Plain` and in `Shifted`;
* `EchoIsOfAKey`: the character shown is one of a key that was hit, as the codes that wait are those
  of keys being hit or released (`EInv`);
* `TheFirstHourIsRight`: `FirstHourIsRight`;
* `NoTextIsLeftOver`: `NothingIsLeftOver`.

For the clock the invariant `OnDisplay` adds to the last text on the line how far any text has
reached: `Reach` of the hour shown. The tenth hour is why it is needed, where the text is shorter
than what was written before it. A step needs that a later hour has no fewer digits (`DecimalGrows`),
that a key's column is none of the clock's, and that the last print stays the same from one multiple
of `EVERY` to the next (`PrintedIs`); the text itself is taken apart by `TextIs`, `TextHas` and
`FirstHourText`. What is said of the digits of every number is shown from the least number that would
lack it (`ByDigits`).

`Loader_proofs` proves, for every size of a block and every well-formed archive:

* `WalkSkipsNoHeader`, and `LoaderSkipsNoHeader` for the two searches of `Loader`: `SkipsNoHeader`.
  `SkippedIsNotHigh` bounds `size / 513 + 1` by the number of blocks a file has;
* `ShortFilesAreSearched`, and `LoaderFindsShortFiles` for the two searches:
  `ShortArchivesAreSearched`. `SkippedIsExact`, that the two agree up to two blocks, makes the walk
  go from header to header until it meets the file;
* `SearchGoesOn`: whatever the blocks hold that it takes for headers, each step of a search ends it
  or goes further behind and not past the end of the archive. Of such blocks only `TarfsSizes` is
  assumed: `octal_decimal` returns an `int`.

and for every program that `LoaderPrograms` admits, any sizes of the three structures, less than a
page or many, and any sizes of `Vm`, under `ClearRam`:

* `TasksAreWhole`: `TaskIsWhole`;
* `OnlyOnePageIsLoaded`: `OnlyOnePageLoads`;
* `NothingIsStale`: `NothingGoesStale`, from the lemmas of `KmallocReplacesNothing` and from `MapInv`
  below, as what `CopyCodeData` allocates was not mapped.

The invariant `LInv` is `VInv` with two parts of its own. `TaskInv`: while `load_elf` walks the
program headers its list has as many areas as there are segments before the next header, each with
the bounds of one (`Lists`), no two areas overlap (`Spaced`), and the structures are as many regions
as calls of `kmalloc` (`Held`), which `VInv` keeps apart; the stack, appended last, ends in a page above the image and so
above every segment. `MapInv`: until memory runs out a page of the
program has a frame just if `CopyCodeData` has allocated it, so none has before, whatever `kmalloc`
maps for the kernel meanwhile (`SameForUsers`), and those of `Strided` have after it; `done` and
`fault` are told apart by the pages that the copy touches.

`Boot_proofs` proves, for any set of masks that the boot loader may leave and any waiting scan code:

* `TypesHold`: `TypeOK`, the type invariant, which no run repeats;
* `ControllersReady`: `ControllersAreSetUp`;
* `OnlyWindows`: `OnlyTheWindowsAreFatal`.

The invariant `BInv` adds `Course` to the two properties that need it: what the step `boot()` has
reached says of the gates, the tables, the interrupt flag and of each chip, in the middle of its four
initialisation words as well. An interrupt can be fatal only where that fails to give it a gate, and
a print or an allocation of `boot()` never, as its pointer reaches wherever it is used
(`BootSurvives`).

Every invariant that a run checks is stated by one of these theorems. Out of the prover's reach, and
left to TLC: `EveryTaskRuns`, `EveryPrintfEnds`, `SearchEnds`, `ClockRuns` and `KeysAreRead`,
liveness properties under fairness. For `EveryPrintfEnds` and `SearchEnds` the measure that falls
with every step is proved (`PrintfComesToItsEnd`, `SearchGoesOn`); that the steps are taken, and are
possible until the end, is what TLC adds.

## Not modelled

* The contents of memory other than page tables and stacks; the translation cache, of which
  `NothingGoesStale` says what it could hold. `mmap` does not clear the tables it allocates, so the
  runs of `Vm` start from clear memory, as the kernel silently does; what it does in any other is
  only known within the bounds of `HeapNeedsNoClearMemory`.
* The run of `clrscr`: `Console` starts from the screen it leaves. `%s` and `%c`, which print without
  the buffer. `fault_handler`, which prints and stops. Of the keyboard, scan codes with the prefix 0xE0
  and what happens when its buffer is full.
* `setup_tss`, which writes a descriptor that nothing loads; `IRQ_set_mask`, `PIC_sendEOI`, `getSize`
  and `sys/queue.c`, which nothing calls; `memcpy`, `memset` and `strlen`.
* `include/linux/list.h` and `poison.h`, vendored and unused, and headers that only declare.

## Plan

That the frames `Vm` draws on are the pool of `PhysMem` is proved. What is left of a composition of
the whole kernel is that the tasks of `Sched` live in what `kmalloc` returns.
