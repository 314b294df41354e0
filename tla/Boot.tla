-------------------------------- MODULE Boot --------------------------------
(***************************************************************************)
(* The way from boot() to the first task (sys/main.c), with the interrupts *)
(* that may arrive on it: the interrupt table of sys/idt.c, sys/isr.c and  *)
(* sys/irq.c, the two interrupt controllers of sys/pic.c, the timer chip   *)
(* of sys/timer.c, and the two pointers that the load of cr3 in            *)
(* sys/pagetab.c leaves without a target until they are remapped.          *)
(*                                                                         *)
(* boot() takes one step for each thing it changes that an interrupt can   *)
(* meet; an interrupt is a step of its own, as its handler runs with       *)
(* interrupts off.  The 8259 is modelled by what the code relies on: four  *)
(* initialisation words in order, the first of which forgets the requests  *)
(* seen so far and the mask, and a base of which the low three bits are 0. *)
(***************************************************************************)
EXTENDS Integers, FiniteSets

CONSTANTS
  Devices,      \* interrupt lines that have a device, of 0 .. 15
  LoaderMasks,  \* masks a boot loader may leave: pairs, one for each chip
  EVERY         \* ticks between two prints of the clock, 18

VARIABLES
  pc,        \* what boot() does next
  gates,     \* the vectors that have a gate in idt_entries
  tables,    \* whose descriptor tables the processor uses: [gdt, idt, cr3]
  on,        \* the interrupt flag
  left,      \* the masks the boot loader left
  pic,       \* the chips: [mask, base, cascade, mode, expects]
  saved,     \* a1 and a2 of PIC_remap
  requests,  \* the lines whose request a chip remembers
  pit,       \* the timer chip: "18 Hz", "stopped" or "100 Hz"
  key,       \* whether a scan code waits in the keyboard's port
  early,     \* whether one waited when the chips were initialised (history)
  tick,      \* tick % EVERY
  pointer,   \* where start_addr_printf and free_pages_list point
  lost       \* where the machine was lost, and to which interrupt

wiring == <<left, early>>
setup  == <<gates, tables, pic, saved, pointer>>
vars   == <<pc, setup, wiring, on, requests, pit, key, tick, lost>>

Chip == 1 .. 2
ChipOf(irq) == irq \div 8 + 1
Bit(irq) == irq % 8
Weight == <<1, 2, 4, 8, 16, 32, 64, 128>>
Masked(mask, bit) == (mask \div Weight[bit + 1]) % 2 = 1
Byte == 0 .. 255
ChipState == [mask : Byte, base : Byte, cascade : Byte, mode : Byte,
              expects : {"base", "cascade", "mode", "mask"}]
Survived == [pc |-> "boot", irq |-> -1]
Nobody == -1

ASSUME BootParameters ==
  /\ {0, 1} \subseteq Devices /\ Devices \subseteq (0 .. 15) \ {2}
  /\ LoaderMasks \subseteq [Chip -> 0 .. 255]
  /\ EVERY \in Nat \ {0}

-----------------------------------------------------------------------------
(* The boot loader leaves interrupts off, tables of its own, and the chips *)
(* cascaded as they are wired, at the vectors sys/pic.h names.             *)
Init ==
  /\ pc = "reload_gdt"
  /\ gates = {}
  /\ tables = [gdt |-> "loader", idt |-> "loader", cr3 |-> "loader"]
  /\ on = FALSE
  /\ left \in LoaderMasks
  /\ pic = [c \in Chip |-> [mask |-> left[c],
                            base |-> IF c = 1 THEN 8 ELSE 112,
                            cascade |-> IF c = 1 THEN 4 ELSE 2,
                            mode |-> 1,
                            expects |-> "mask"]]
  /\ saved = [c \in Chip |-> 0]
  /\ requests \in SUBSET {0, 1}
  /\ pit = "18 Hz"
  /\ key = (1 \in requests)
  /\ early = FALSE
  /\ tick = 0
  /\ pointer = [start_addr_printf |-> "low", free_pages_list |-> "none"]
  /\ lost = Survived

Running == lost = Survived

(* boot() goes on: a step from one place to another.                       *)
Step(from, to) == Running /\ pc = from /\ pc' = to

reload_gdt ==
  /\ Step("reload_gdt", "memset")
  /\ tables' = [tables EXCEPT !.gdt = "kernel"]
  /\ UNCHANGED <<gates, pic, saved, pointer, wiring, on, requests, pit, key, tick, lost>>

(* idt_set_gate, for the vectors in vs.                                    *)
SetGates(from, to, vs) ==
  /\ Step(from, to)
  /\ gates' = gates \cup vs
  /\ UNCHANGED <<tables, pic, saved, pointer, wiring, on, requests, pit, key, tick, lost>>

init_idt ==
  /\ Step("memset", "init_isr")
  /\ gates' = {}
  /\ UNCHANGED <<tables, pic, saved, pointer, wiring, on, requests, pit, key, tick, lost>>

init_isr == SetGates("init_isr", "init_irq", {0, 128})
SetIrqGates == SetGates("init_irq", "cli", {32, 33})

SetFlag(from, to, flag) ==
  /\ Step(from, to)
  /\ on' = flag
  /\ UNCHANGED <<setup, wiring, requests, pit, key, tick, lost>>

cli == SetFlag("cli", "save masks", FALSE)
sti == SetFlag("sti", "lidt", TRUE)

-----------------------------------------------------------------------------
(* PIC_remap.                                                              *)
SaveMasks ==
  /\ Step("save masks", "ICW1 of 1")
  /\ saved' = [c \in Chip |-> pic[c].mask]
  /\ UNCHANGED <<gates, tables, pic, pointer, wiring, on, requests, pit, key, tick, lost>>

(* The command port gets ICW1: the other words are to come, and until they *)
(* come the old ones stay.                                                 *)
Command(c, from, to) ==
  /\ Step(from, to)
  /\ pic' = [pic EXCEPT ![c] = [@ EXCEPT !.mask = 0, !.expects = "base"]]
  /\ requests' = {irq \in requests : ChipOf(irq) # c}
  /\ early' = (early \/ (c = 1 /\ key))
  /\ UNCHANGED <<gates, tables, saved, pointer, left, on, pit, key, tick, lost>>

(* What a value on the data port is depends on what the chip expects.      *)
After == [base |-> "cascade", cascade |-> "mode", mode |-> "mask", mask |-> "mask"]
Takes(chip, value) ==
  [mask    |-> IF chip.expects = "mask" THEN value ELSE chip.mask,
   base    |-> IF chip.expects = "base" THEN 8 * (value \div 8) ELSE chip.base,
   cascade |-> IF chip.expects = "cascade" THEN value ELSE chip.cascade,
   mode    |-> IF chip.expects = "mode" THEN value ELSE chip.mode,
   expects |-> After[chip.expects]]

Data(c, value, from, to) ==
  /\ Step(from, to)
  /\ pic' = [pic EXCEPT ![c] = Takes(@, value)]
  /\ UNCHANGED <<gates, tables, saved, pointer, wiring, on, requests, pit, key, tick, lost>>

(* A fault to seed: the cascade is told before the base.                   *)
RemapSwapped ==
  \/ Command(1, "ICW1 of 1", "ICW1 of 2") \/ Command(2, "ICW1 of 2", "ICW2 of 1")
  \/ Data(1, 4, "ICW2 of 1", "ICW2 of 2") \/ Data(2, 2, "ICW2 of 2", "ICW3 of 1")
  \/ Data(1, 32, "ICW3 of 1", "ICW3 of 2") \/ Data(2, 41, "ICW3 of 2", "ICW4 of 1")
  \/ Data(1, 1, "ICW4 of 1", "ICW4 of 2") \/ Data(2, 1, "ICW4 of 2", "mask of 1")
  \/ Data(1, saved[1], "mask of 1", "mask of 2") \/ Data(2, saved[2], "mask of 2", "unmask")

(* PIC_remap(0x20, 0x29).                                                  *)
PIC_remap ==
  \/ Command(1, "ICW1 of 1", "ICW1 of 2") \/ Command(2, "ICW1 of 2", "ICW2 of 1")
  \/ Data(1, 32, "ICW2 of 1", "ICW2 of 2") \/ Data(2, 41, "ICW2 of 2", "ICW3 of 1")
  \/ Data(1, 4, "ICW3 of 1", "ICW3 of 2") \/ Data(2, 2, "ICW3 of 2", "ICW4 of 1")
  \/ Data(1, 1, "ICW4 of 1", "ICW4 of 2") \/ Data(2, 1, "ICW4 of 2", "mask of 1")
  \/ Data(1, saved[1], "mask of 1", "mask of 2") \/ Data(2, saved[2], "mask of 2", "unmask")

(* IRQ_clear_mask(0): the timer's bit alone is cleared.                    *)
UnmaskTimer ==
  LET m == pic[1].mask
  IN  Data(1, IF Masked(m, 0) THEN m - 1 ELSE m, "unmask", "sti")

-----------------------------------------------------------------------------
lidt ==
  /\ Step("lidt", "init_freelist")
  /\ tables' = [tables EXCEPT !.idt = "kernel"]
  /\ UNCHANGED <<gates, pic, saved, pointer, wiring, on, requests, pit, key, tick, lost>>

(* The loader maps low memory where it is; setup_page_tables maps it at    *)
(* its address plus VIRT_OFFSET only.                                      *)
Reachable(p) == pointer[p] = IF tables.cr3 = "loader" THEN "low" ELSE "high"

Aim(p, target, from, to) ==
  /\ Step(from, to)
  /\ pointer' = [pointer EXCEPT ![p] = target]
  /\ UNCHANGED <<gates, tables, pic, saved, wiring, on, requests, pit, key, tick, lost>>

(* A fault of boot()'s own: nobody has a gate for page faults.             *)
Faulted == [pc |-> pc, irq |-> Nobody]

(* boot() itself prints, or allocates: without a target it faults.         *)
Uses(p, from, to) ==
  /\ Step(from, to)
  /\ lost' = IF Reachable(p) THEN lost ELSE Faulted
  /\ UNCHANGED <<setup, wiring, on, requests, pit, key, tick>>

init_freelist == Aim("free_pages_list", "low", "init_freelist", "clrscr")
clrscr == Uses("start_addr_printf", "clrscr", "memory map")
MemoryMap == Uses("free_pages_list", "memory map", "tables")
Allocate == Uses("free_pages_list", "tables", "print")
Announce == Uses("start_addr_printf", "print", "cr3")

cpu_write_cr3 ==
  /\ Step("cr3", "remap_printf")
  /\ tables' = [tables EXCEPT !.cr3 = "kernel"]
  /\ UNCHANGED <<gates, pic, saved, pointer, wiring, on, requests, pit, key, tick, lost>>

(* A fault to seed: the two pointers in the other order.                   *)
RemapBitmapFirst ==
  \/ Aim("free_pages_list", "high", "remap_printf", "remap_bitmap")
  \/ Aim("start_addr_printf", "high", "remap_bitmap", "done")

Remap ==
  \/ Aim("start_addr_printf", "high", "remap_printf", "remap_bitmap")
  \/ Aim("free_pages_list", "high", "remap_bitmap", "done")

Done == Uses("start_addr_printf", "done", "timer command")

(* set_timer_phase: from the command to the second byte of the divisor the *)
(* chip counts nothing.                                                    *)
Program(from, to, rate) ==
  /\ Step(from, to)
  /\ pit' = rate
  /\ UNCHANGED <<setup, wiring, on, requests, key, tick, lost>>

(* A fault to seed: the divisor's high byte is not sent.                   *)
HalfTimerPhase ==
  \/ Program("timer command", "low byte", "stopped")
  \/ Program("low byte", "high byte", "stopped")
  \/ Program("high byte", "load_elf", "stopped")

set_timer_phase ==
  \/ Program("timer command", "low byte", "stopped")
  \/ Program("low byte", "high byte", "stopped")
  \/ Program("high byte", "load_elf", "100 Hz")

LoadElf == Uses("free_pages_list", "load_elf", "report")
Report == Uses("start_addr_printf", "report", "setup_processes")

(* The copy of the segment of bin/hello faults when there is no such file, *)
(* or when the segment is not within the page that was mapped for it       *)
(* (module Loader): here, either may be.                                   *)
CopyCodeDataFaults ==
  /\ Step("setup_processes", "tasks")
  /\ lost' = Faulted
  /\ UNCHANGED <<setup, wiring, on, requests, pit, key, tick>>

setup_processes ==
  \/ Uses("free_pages_list", "setup_processes", "tasks")
  \/ CopyCodeDataFaults

boot ==
  \/ reload_gdt \/ init_idt \/ init_isr \/ SetIrqGates \/ cli
  \/ SaveMasks \/ PIC_remap \/ UnmaskTimer \/ sti \/ lidt
  \/ init_freelist \/ clrscr \/ MemoryMap \/ Allocate \/ Announce
  \/ cpu_write_cr3 \/ Remap \/ Done \/ set_timer_phase
  \/ LoadElf \/ Report \/ setup_processes

-----------------------------------------------------------------------------
(* The devices: a request is an edge that a chip remembers.                *)
Request(irq) ==
  /\ Running
  /\ irq \in Devices
  /\ requests' = requests \cup {irq}

Tick ==
  /\ pit # "stopped"
  /\ Request(0)
  /\ UNCHANGED <<pc, setup, wiring, on, pit, key, tick, lost>>

(* Scan codes that find another one waiting queue up in the keyboard and   *)
(* cause no request.                                                       *)
Key ==
  /\ ~key
  /\ key' = TRUE
  /\ Request(1)
  /\ UNCHANGED <<pc, setup, wiring, on, pit, tick, lost>>

OtherDevice(irq) ==
  /\ irq \notin {0, 1}
  /\ Request(irq)
  /\ UNCHANGED <<pc, setup, wiring, on, pit, key, tick, lost>>

(* The second chip's requests go through line 2 of the first.              *)
Open(masks, irq) ==
  /\ ~Masked(masks[ChipOf(irq)], Bit(irq))
  /\ irq >= 8 => ~Masked(masks[1], 2)

Priority(irq) == IF irq < 8 THEN 8 * irq ELSE 8 * 2 + Bit(irq)
Ready == {irq \in requests : Open([c \in Chip |-> pic[c].mask], irq)}
First(irq) == irq \in Ready /\ \A other \in Ready : Priority(irq) <= Priority(other)
Vector(irq) == pic[ChipOf(irq)].base + Bit(irq)

Interrupt(irq) ==
  /\ Running
  /\ on
  /\ First(irq)
  /\ requests' = requests \ {irq}
  /\ UNCHANGED <<pc, setup, wiring, on, pit>>

Gated(irq) ==
  /\ tables.gdt = "kernel"
  /\ tables.idt = "kernel"
  /\ Vector(irq) \in gates

(* A handler that prints.                                                  *)
Shows(irq) ==
  lost' = IF Reachable("start_addr_printf") THEN lost ELSE [pc |-> pc, irq |-> irq]

(* The vector leads to no gate, nor does the fault that this causes.       *)
Stray(irq) ==
  /\ Interrupt(irq)
  /\ ~Gated(irq)
  /\ lost' = [pc |-> pc, irq |-> irq]
  /\ UNCHANGED <<key, tick>>

(* The handlers are those of the vectors, whatever the line.               *)
irq_timer(irq) ==
  /\ Interrupt(irq)
  /\ Gated(irq) /\ Vector(irq) = 32
  /\ tick' = (tick + 1) % EVERY
  /\ IF tick' = 0 THEN Shows(irq) ELSE UNCHANGED lost
  /\ UNCHANGED key

(* A fault to seed: the scan code is not read.                             *)
IrqKbUnread(irq) ==
  /\ Interrupt(irq)
  /\ Gated(irq) /\ Vector(irq) = 33
  /\ UNCHANGED <<key, tick, lost>>

(* Some scan codes are shown, some are not.                                *)
irq_kb(irq) ==
  /\ Interrupt(irq)
  /\ Gated(irq) /\ Vector(irq) = 33
  /\ key' = FALSE
  /\ Shows(irq) \/ UNCHANGED lost
  /\ UNCHANGED tick

Deliver(irq) == Stray(irq) \/ irq_timer(irq) \/ irq_kb(irq)

Next ==
  \/ boot
  \/ Tick \/ Key \/ \E irq \in Devices : OtherDevice(irq)
  \/ \E irq \in Devices : Deliver(irq)

Spec == Init /\ [][Next]_vars

(* The processor goes on, the timer chip counts, and between two ticks     *)
(* there is time for the interrupts that are waiting.                      *)
FairSpec ==
  /\ Spec
  /\ WF_vars(boot)
  /\ WF_vars(Tick)
  /\ \A irq \in Devices : SF_vars(Deliver(irq))

-----------------------------------------------------------------------------
(* Properties.                                                             *)

(* What boot() and its interrupts may change keeps its type; of pc, left   *)
(* and lost the other properties speak.                                    *)
TypeOK ==
  /\ gates \subseteq Byte
  /\ tables \in [{"gdt", "idt", "cr3"} -> {"loader", "kernel"}]
  /\ on \in BOOLEAN /\ key \in BOOLEAN /\ early \in BOOLEAN
  /\ pic \in [Chip -> ChipState]
  /\ saved \in [Chip -> Byte]
  /\ pointer \in [{"start_addr_printf", "free_pages_list"} -> {"none", "low", "high"}]
  /\ requests \subseteq Devices
  /\ tick \in 0 .. EVERY - 1
  /\ pit \in {"18 Hz", "stopped", "100 Hz"}

(* The machine is lost by boot() itself in one way only: the loader faults *)
(* in setup_processes.  Its own prints and allocations always find their   *)
(* targets, through the load of cr3 and the remapping too.  An interrupt   *)
(* loses it only before the interrupt table is loaded, before              *)
(* start_addr_printf is remapped, or when it comes from a line other than  *)
(* the timer's and the keyboard's that the boot loader has left open.      *)
LoaderFaulted == lost.pc = "setup_processes" /\ lost.irq = Nobody
InAWindow == lost.pc \in {"lidt", "remap_printf"} \/ lost.irq \notin {0, 1}

OnlyTheWindowsAreFatal ==
  ~Running =>
    \/ LoaderFaulted
    \/ /\ lost.irq = 0 \/ (lost.irq # Nobody /\ Open(left, lost.irq))
       /\ InAWindow

(* With interrupts on, both chips have their four words: they expect       *)
(* masks, the timer and the keyboard lead to their gates, the second       *)
(* chip's vectors follow the first's (although PIC_remap asks for one      *)
(* more), the two agree on the line that joins them, and both are in 8086  *)
(* mode.  No line but the timer's is open that was not open before: the    *)
(* masks that ICW1 clears have been restored.                              *)
Joined == pic[1].cascade = Weight[Bit(pic[2].cascade) + 1]

ControllersAreSetUp ==
  on => /\ \A c \in Chip : pic[c].expects = "mask" /\ pic[c].mode = 1
        /\ Vector(0) \in gates /\ Vector(1) \in gates
        /\ Vector(8) = Vector(7) + 1
        /\ Joined
        /\ \A irq \in (0 .. 15) \ {2} :
             Open([c \in Chip |-> pic[c].mask], irq) <=> irq = 0 \/ Open(left, irq)

(* A machine that is not lost on the way, by the loader's fault or by an   *)
(* interrupt, starts its tasks, and its clock goes on ticking.             *)
ClockRuns == <>(~Running) \/ (<>(pc = "tasks") /\ []<>(tick = 0) /\ []<>(tick # 0))

(* A scan code is read in the end if the boot loader left the keyboard's   *)
(* line open and no scan code was waiting when the chips were initialised: *)
(* the request of that one is forgotten, and there is no other before it   *)
(* is read.                                                                *)
KeysAreRead ==
  (key /\ Open(left, 1) /\ pc = "tasks" /\ ~early) ~> (~key \/ ~Running)

=============================================================================
