---------------------------- MODULE Boot_proofs ----------------------------
(***************************************************************************)
(* Proofs about boot() and the interrupts that meet it, for any devices,   *)
(* any masks a boot loader leaves and any rate of the clock's prints.      *)
(*                                                                         *)
(* All that an interrupt needs to find is fixed by the place boot() has    *)
(* reached: Course says what holds where.  The sets below are the places   *)
(* from one on, the later ones first.                                      *)
(***************************************************************************)
EXTENDS Boot, TLAPS

AfterRemap ==
  {"done", "timer command", "low byte", "high byte", "load_elf", "report",
   "setup_processes", "tasks"}
AfterCr3  == {"remap_printf", "remap_bitmap"} \cup AfterRemap
AfterFree == {"clrscr", "memory map", "tables", "print", "cr3"} \cup AfterCr3
AfterIdt  == {"init_freelist"} \cup AfterFree
AfterSti  == {"lidt"} \cup AfterIdt
AfterUnmask == {"sti"} \cup AfterSti
AfterMasks == {"unmask"} \cup AfterUnmask
AfterWords == {"mask of 1", "mask of 2"} \cup AfterMasks
Words == {"ICW1 of 2", "ICW2 of 1", "ICW2 of 2", "ICW3 of 1", "ICW3 of 2",
          "ICW4 of 1", "ICW4 of 2"}
AfterSave == {"ICW1 of 1"} \cup Words \cup AfterWords
AfterGates == {"cli", "save masks"} \cup AfterSave
Places == {"reload_gdt", "memset", "init_isr", "init_irq"} \cup AfterGates

(* The mask without the timer's bit.                                       *)
Cleared(m) == IF Masked(m, 0) THEN m - 1 ELSE m

(* The gates and the tables.                                               *)
GatesByPlace ==
  /\ pc = "init_isr" => gates = {}
  /\ pc = "init_irq" => gates = {0, 128}
  /\ pc \in AfterGates => gates = {0, 128, 32, 33}

TablesByPlace ==
  /\ tables.gdt = "kernel" <=> pc # "reload_gdt"
  /\ tables.idt = "kernel" <=> pc \in AfterIdt
  /\ tables.cr3 = "kernel" <=> pc \in AfterCr3

(* The pointers reach, except start_addr_printf right after cr3 is loaded  *)
(* and free_pages_list until both are remapped.                            *)
PointersByPlace ==
  /\ pointer["start_addr_printf"] =
       IF pc \in {"remap_bitmap"} \cup AfterRemap THEN "high" ELSE "low"
  /\ pc \in AfterFree =>
       pointer["free_pages_list"] = IF pc \in AfterRemap THEN "high" ELSE "low"

(* What each chip expects, what it has been told, and its mask.            *)
FirstChip ==
  /\ pic[1].expects =
       IF pc \in {"ICW1 of 2", "ICW2 of 1"} THEN "base"
       ELSE IF pc \in {"ICW2 of 2", "ICW3 of 1"} THEN "cascade"
       ELSE IF pc \in {"ICW3 of 2", "ICW4 of 1"} THEN "mode" ELSE "mask"
  /\ pc \in {"ICW2 of 2", "ICW3 of 1", "ICW3 of 2", "ICW4 of 1", "ICW4 of 2"} \cup AfterWords =>
       pic[1].base = 32
  /\ pc \in {"ICW3 of 2", "ICW4 of 1", "ICW4 of 2"} \cup AfterWords => pic[1].cascade = 4
  /\ pc \in {"ICW4 of 2"} \cup AfterWords => pic[1].mode = 1
  /\ pc \in {"mask of 2", "unmask"} \cup (Places \ (Words \cup AfterWords)) =>
       pic[1].mask = left[1]
  /\ pc \in AfterUnmask => pic[1].mask = Cleared(left[1])

SecondChip ==
  /\ pic[2].expects =
       IF pc \in {"ICW2 of 1", "ICW2 of 2"} THEN "base"
       ELSE IF pc \in {"ICW3 of 1", "ICW3 of 2"} THEN "cascade"
       ELSE IF pc \in {"ICW4 of 1", "ICW4 of 2"} THEN "mode" ELSE "mask"
  /\ pc \in {"ICW3 of 1", "ICW3 of 2", "ICW4 of 1", "ICW4 of 2"} \cup AfterWords =>
       pic[2].base = 40
  /\ pc \in {"ICW4 of 1", "ICW4 of 2"} \cup AfterWords => pic[2].cascade = 2
  /\ pc \in AfterWords => pic[2].mode = 1
  /\ pc \in {"ICW1 of 2"} \cup AfterMasks \cup (Places \ (Words \cup AfterWords)) =>
       pic[2].mask = left[2]

(* The flag, and the masks that PIC_remap reads before it writes.          *)
FlagByPlace ==
  /\ pc \in Places
  /\ on <=> pc \in AfterSti
  /\ left \in LoaderMasks
  /\ pc \in AfterSave => saved = left

Course ==
  /\ FlagByPlace /\ GatesByPlace /\ TablesByPlace /\ PointersByPlace
  /\ FirstChip /\ SecondChip

BInv == TypeOK /\ Course /\ OnlyTheWindowsAreFatal

USE DEF ChipState, Byte

-----------------------------------------------------------------------------
(* Without the timer's bit a mask is a mask, and the other bits are as     *)
(* they were.                                                              *)
LEMMA Clearing ==
  ASSUME NEW m \in 0 .. 255
  PROVE  /\ Cleared(m) \in 0 .. 255
         /\ ~Masked(Cleared(m), 0)
         /\ \A b \in 1 .. 7 : Masked(Cleared(m), b) <=> Masked(m, b)
<1>1. Cleared(m) \in 0 .. 255 /\ ~Masked(Cleared(m), 0)
  BY DEF Cleared, Masked, Weight
<1>2. ASSUME NEW b \in 1 .. 7
      PROVE  Masked(Cleared(m), b) <=> Masked(m, b)
  <2>1. CASE b = 1  BY <2>1 DEF Cleared, Masked, Weight
  <2>2. CASE b = 2  BY <2>2 DEF Cleared, Masked, Weight
  <2>3. CASE b = 3  BY <2>3 DEF Cleared, Masked, Weight
  <2>4. CASE b = 4  BY <2>4 DEF Cleared, Masked, Weight
  <2>5. CASE b = 5  BY <2>5 DEF Cleared, Masked, Weight
  <2>6. CASE b = 6  BY <2>6 DEF Cleared, Masked, Weight
  <2>7. CASE b = 7  BY <2>7 DEF Cleared, Masked, Weight
  <2> QED  BY <2>1, <2>2, <2>3, <2>4, <2>5, <2>6, <2>7
<1> QED  BY <1>1, <1>2

(* What the invariant says of the chips once interrupts are on.            *)
LEMMA Setup ==
  BInv => ControllersAreSetUp
<1> SUFFICES ASSUME BInv, on
             PROVE  /\ \A c \in Chip : pic[c].expects = "mask" /\ pic[c].mode = 1
                    /\ Vector(8) = Vector(7) + 1 /\ Joined
                    /\ Vector(0) \in gates /\ Vector(1) \in gates
                    /\ \A irq \in (0 .. 15) \ {2} :
                         Open([c \in Chip |-> pic[c].mask], irq) <=> irq = 0 \/ Open(left, irq)
  BY DEF ControllersAreSetUp
<1>1. pc \in AfterSti
  BY DEF BInv, FlagByPlace, Course
<1>2. /\ pic[1].expects = "mask" /\ pic[1].base = 32 /\ pic[1].cascade = 4 /\ pic[1].mode = 1
      /\ pic[2].expects = "mask" /\ pic[2].base = 40 /\ pic[2].cascade = 2 /\ pic[2].mode = 1
  BY <1>1 DEF BInv, FlagByPlace, Course, FirstChip, SecondChip, AfterSti, AfterIdt, AfterFree, AfterCr3, AfterRemap, Words, AfterWords, AfterMasks, AfterUnmask
<1>3. gates = {0, 128, 32, 33}
  BY <1>1 DEF BInv, FlagByPlace, Course, GatesByPlace, AfterGates, AfterSave, AfterWords, AfterMasks, AfterUnmask
<1>4. pic[1].mask = Cleared(left[1]) /\ pic[2].mask = left[2]
  BY <1>1 DEF BInv, FlagByPlace, Course, FirstChip, SecondChip, AfterMasks, AfterUnmask
<1>5. left[1] \in 0 .. 255
  BY BootParameters DEF BInv, FlagByPlace, Course, Chip
<1> DEFINE masks == [c \in Chip |-> pic[c].mask]
<1>6. masks[1] = Cleared(left[1]) /\ masks[2] = left[2]
  BY <1>4 DEF Chip
<1> HIDE DEF masks
<1>7. /\ ~Masked(masks[1], 0)
      /\ \A b \in 1 .. 7 : Masked(masks[1], b) <=> Masked(left[1], b)
  <2>1. /\ ~Masked(Cleared(left[1]), 0)
        /\ \A b \in 1 .. 7 : Masked(Cleared(left[1]), b) <=> Masked(left[1], b)
    BY <1>5, Clearing
  <2> QED  BY <2>1, <1>6
<1>8. ASSUME NEW irq \in (0 .. 15) \ {2}
      PROVE  Open(masks, irq) <=> irq = 0 \/ Open(left, irq)
  <2>1. CASE irq = 0
    <3>1. ChipOf(irq) = 1 /\ Bit(irq) = 0 /\ ~(irq >= 8)
      BY <2>1 DEF ChipOf, Bit
    <3> QED  BY <3>1, <2>1, <1>7 DEF Open
  <2>2. CASE irq \in 1 .. 7
    <3>1. ChipOf(irq) = 1 /\ Bit(irq) \in 1 .. 7 /\ ~(irq >= 8) /\ irq # 0
      BY <2>2 DEF ChipOf, Bit
    <3> HIDE DEF ChipOf, Bit
    <3> QED  BY <3>1, <1>7 DEF Open
  <2>3. CASE irq \in 8 .. 15
    <3>1. ChipOf(irq) = 2 /\ irq # 0
      BY <2>3 DEF ChipOf
    <3> QED  BY <3>1, <1>6, <1>7 DEF Open
  <2> QED  BY <2>1, <2>2, <2>3
<1>9. \A irq \in (0 .. 15) \ {2} :
        Open([c \in Chip |-> pic[c].mask], irq) <=> irq = 0 \/ Open(left, irq)
  BY <1>8 DEF masks
<1>10. Vector(0) = 32 /\ Vector(1) = 33
  BY <1>2 DEF Vector, ChipOf, Bit
<1>11. Vector(7) = 39 /\ Vector(8) = 40
  BY <1>2 DEF Vector, ChipOf, Bit
<1>12. Joined
  <2>1. Bit(pic[2].cascade) = 2
    BY <1>2 DEF Bit
  <2> QED  BY <1>2, <2>1 DEF Joined, Weight
<1>13. \A c \in Chip : pic[c].expects = "mask" /\ pic[c].mode = 1
  BY <1>2 DEF Chip
<1> QED  BY <1>3, <1>9, <1>10, <1>11, <1>12, <1>13

(* The state in which boot() is entered.                                   *)
LEMMA Boots ==
  Init => BInv
<1> SUFFICES ASSUME Init  PROVE BInv
  OBVIOUS
<1>1. left \in [Chip -> 0 .. 255]
  BY BootParameters DEF Init
<1>2. /\ pic = [c \in Chip |-> [mask |-> left[c],
                                base |-> IF c = 1 THEN 8 ELSE 112,
                                cascade |-> IF c = 1 THEN 4 ELSE 2,
                                mode |-> 1,
                                expects |-> "mask"]]
      /\ saved = [c \in Chip |-> 0]
      /\ tables = [gdt |-> "loader", idt |-> "loader", cr3 |-> "loader"]
      /\ pointer = [start_addr_printf |-> "low", free_pages_list |-> "none"]
      /\ requests \in SUBSET {0, 1} /\ key = (1 \in requests) /\ tick = 0
  BY DEF Init
<1>3. pic \in [Chip -> ChipState]
  <2>1. ASSUME NEW c \in Chip
        PROVE  [mask |-> left[c], base |-> IF c = 1 THEN 8 ELSE 112,
                cascade |-> IF c = 1 THEN 4 ELSE 2, mode |-> 1,
                expects |-> "mask"] \in ChipState
    <3>1. /\ left[c] \in 0 .. 255 /\ 8 \in 0 .. 255 /\ 112 \in 0 .. 255
          /\ 4 \in 0 .. 255 /\ 2 \in 0 .. 255 /\ 1 \in 0 .. 255
      BY <1>1
    <3> QED  BY <3>1
  <2> QED  BY <2>1, <1>2
<1>4. tables \in [{"gdt", "idt", "cr3"} -> {"loader", "kernel"}]
  BY <1>2
<1>5. pointer \in [{"start_addr_printf", "free_pages_list"} -> {"none", "low", "high"}]
  BY <1>2
<1>6. TypeOK
  <2>1. tick \in 0 .. EVERY - 1 /\ saved \in [Chip -> 0 .. 255] /\ requests \subseteq Devices
    BY <1>2, BootParameters
  <2>2. gates \subseteq 0 .. 255 /\ pit \in {"18 Hz", "stopped", "100 Hz"}
    BY DEF Init
  <2>3. on \in BOOLEAN /\ early \in BOOLEAN
    BY DEF Init
  <2>4. key \in BOOLEAN
    BY <1>2
  <2> QED  BY <2>1, <2>2, <2>3, <2>4, <1>3, <1>4, <1>5 DEF TypeOK
<1>7. Course
  <2> USE DEF Words, AfterSave, AfterWords, AfterMasks, AfterUnmask, AfterSti, AfterIdt,
              AfterFree, AfterCr3, AfterRemap, AfterGates, Places
  <2>1. pc = "reload_gdt" /\ on = FALSE /\ left \in LoaderMasks
    BY DEF Init
  <2>2. \A c \in Chip : pic[c].expects = "mask" /\ pic[c].mask = left[c]
    BY <1>2
  <2>3. FirstChip /\ SecondChip
    BY <2>1, <2>2 DEF FirstChip, SecondChip, Chip
  <2>4. GatesByPlace /\ PointersByPlace
    BY <2>1, <1>2 DEF GatesByPlace, PointersByPlace
  <2>5. TablesByPlace
    BY <2>1, <1>2 DEF TablesByPlace
  <2>6. FlagByPlace
    BY <2>1 DEF FlagByPlace
  <2> QED  BY <2>3, <2>4, <2>5, <2>6 DEF Course
<1> QED  BY <1>6, <1>7 DEF BInv, OnlyTheWindowsAreFatal, Running, Init

-----------------------------------------------------------------------------
(* The chips' words.                                                       *)
LEMMA TakesIsChip ==
  ASSUME NEW chip \in ChipState,
         NEW value \in 0 .. 255
  PROVE  Takes(chip, value) \in ChipState
<1>1. After[chip.expects] \in {"base", "cascade", "mode", "mask"}
  BY DEF After
<1>2. 8 * (value \div 8) \in 0 .. 255
  OBVIOUS
<1> QED  BY <1>1, <1>2 DEF Takes

LEMMA TwoChips ==
  \A c \in Chip : c = 1 \/ c = 2
BY DEF Chip

(* What a value on the data port, and ICW1 on the command port, do.        *)
LEMMA DataStep ==
  ASSUME TypeOK, NEW c \in Chip, NEW value \in 0 .. 255, NEW from, NEW to,
         Data(c, value, from, to)
  PROVE  /\ TypeOK'
         /\ pic[c].expects = "base" =>
              /\ pic'[c].mask = pic[c].mask /\ pic'[c].base = 8 * (value \div 8)
              /\ pic'[c].cascade = pic[c].cascade /\ pic'[c].mode = pic[c].mode
              /\ pic'[c].expects = "cascade"
         /\ pic[c].expects = "cascade" =>
              /\ pic'[c].mask = pic[c].mask /\ pic'[c].base = pic[c].base
              /\ pic'[c].cascade = value /\ pic'[c].mode = pic[c].mode
              /\ pic'[c].expects = "mode"
         /\ pic[c].expects = "mode" =>
              /\ pic'[c].mask = pic[c].mask /\ pic'[c].base = pic[c].base
              /\ pic'[c].cascade = pic[c].cascade /\ pic'[c].mode = value
              /\ pic'[c].expects = "mask"
         /\ pic[c].expects = "mask" =>
              /\ pic'[c].mask = value /\ pic'[c].base = pic[c].base
              /\ pic'[c].cascade = pic[c].cascade /\ pic'[c].mode = pic[c].mode
              /\ pic'[c].expects = "mask"
         /\ \A d \in Chip \ {c} : pic'[d] = pic[d]
         /\ pc = from /\ pc' = to /\ left' = left
<1>1. pic \in [Chip -> ChipState]
  BY DEF TypeOK
<1>2. pic' = [pic EXCEPT ![c] = Takes(pic[c], value)]
  BY DEF Data
<1>3. /\ pic' \in [Chip -> ChipState]
      /\ pic'[c] = Takes(pic[c], value) /\ \A d \in Chip \ {c} : pic'[d] = pic[d]
  <2>1. pic[c] \in ChipState
    BY <1>1
  <2>2. PICK new : /\ new = Takes(pic[c], value)
                   /\ new \in ChipState
    BY <2>1, TakesIsChip
  <2> QED  BY <1>1, <1>2, <2>2
<1>4. TypeOK'
  BY <1>3, Zenon DEF Data, wiring, TypeOK
<1>5. pc = from /\ pc' = to /\ left' = left
  BY Zenon DEF Data, Step, wiring
<1>6. /\ pic'[c].mask = IF pic[c].expects = "mask" THEN value ELSE pic[c].mask
      /\ pic'[c].base = IF pic[c].expects = "base" THEN 8 * (value \div 8) ELSE pic[c].base
      /\ pic'[c].cascade = IF pic[c].expects = "cascade" THEN value ELSE pic[c].cascade
      /\ pic'[c].mode = IF pic[c].expects = "mode" THEN value ELSE pic[c].mode
      /\ pic'[c].expects = After[pic[c].expects]
  BY <1>3 DEF Takes
<1> QED  BY <1>3, <1>4, <1>5, <1>6 DEF After

LEMMA CommandStep ==
  ASSUME TypeOK, NEW c \in Chip, NEW from, NEW to, Command(c, from, to)
  PROVE  /\ TypeOK'
         /\ pic'[c].base = pic[c].base /\ pic'[c].expects = "base"
         /\ \A d \in Chip \ {c} : pic'[d] = pic[d]
<1>1. pic \in [Chip -> ChipState]
  BY DEF TypeOK
<1>2. PICK new : /\ new = [pic[c] EXCEPT !.mask = 0, !.expects = "base"]
                 /\ pic' = [pic EXCEPT ![c] = new]
  BY DEF Command
<1>3. /\ pic' \in [Chip -> ChipState]
      /\ pic'[c] = new /\ \A d \in Chip \ {c} : pic'[d] = pic[d]
  <2>1. pic[c] \in ChipState
    BY <1>1
  <2>2. /\ pic[c].base \in 0 .. 255 /\ pic[c].cascade \in 0 .. 255 /\ pic[c].mode \in 0 .. 255
        /\ new = [mask |-> 0, base |-> pic[c].base, cascade |-> pic[c].cascade,
                  mode |-> pic[c].mode, expects |-> "base"]
    BY <1>2, <2>1
  <2>3. new \in ChipState
    BY <2>2
  <2> QED  BY <1>1, <1>2, <2>3
<1>4. requests' \subseteq Devices
  BY DEF Command, TypeOK
<1>5. early' \in BOOLEAN
  BY Zenon DEF Command, TypeOK
<1>6. TypeOK'
  BY <1>3, <1>4, <1>5, Zenon DEF Command, TypeOK
<1> QED  BY <1>2, <1>3, <1>6

(* boot()'s actions by what they change.                                   *)
Using == clrscr \/ MemoryMap \/ Allocate \/ Announce \/ Done \/ LoadElf \/ Report \/ setup_processes
Gating == init_idt \/ init_isr \/ SetIrqGates
Loading == reload_gdt \/ lidt \/ cpu_write_cr3
Aiming == init_freelist \/ Remap
Flagging == cli \/ sti

LEMMA Parts ==
  boot => \/ Using \/ Gating \/ Loading \/ Aiming \/ Flagging
          \/ SaveMasks \/ PIC_remap \/ UnmaskTimer \/ set_timer_phase
BY Zenon DEF boot, Using, Gating, Loading, Aiming, Flagging

(* Types, action by action.                                                *)
LEMMA BootTypes ==
  TypeOK /\ boot => TypeOK'
<1> SUFFICES ASSUME TypeOK, boot
             PROVE  TypeOK'
  OBVIOUS
<1> USE DEF setup, wiring
<1>1. CASE Using
  <2>1. CASE clrscr
    BY <2>1 DEF clrscr, Uses, TypeOK
  <2>2. CASE MemoryMap
    BY <2>2 DEF MemoryMap, Uses, TypeOK
  <2>3. CASE Allocate
    BY <2>3 DEF Allocate, Uses, TypeOK
  <2>4. CASE Announce
    BY <2>4 DEF Announce, Uses, TypeOK
  <2>5. CASE Done
    BY <2>5 DEF Done, Uses, TypeOK
  <2>6. CASE LoadElf
    BY <2>6 DEF LoadElf, Uses, TypeOK
  <2>7. CASE Report
    BY <2>7 DEF Report, Uses, TypeOK
  <2>8. CASE setup_processes
    <3>1. CASE Uses("free_pages_list", "setup_processes", "tasks")
      BY <3>1, Zenon DEF Uses, TypeOK
    <3>2. CASE CopyCodeDataFaults
      BY <3>2, Zenon DEF CopyCodeDataFaults, TypeOK
    <3> QED  BY <2>8, <3>1, <3>2 DEF setup_processes
  <2> QED  BY <1>1, <2>1, <2>2, <2>3, <2>4, <2>5, <2>6, <2>7, <2>8 DEF Using
<1>2. CASE Gating
  <2>1. CASE init_idt
    BY <2>1 DEF init_idt, TypeOK
  <2>2. ASSUME NEW from, NEW to, NEW vs \in SUBSET (0 .. 255), SetGates(from, to, vs)
        PROVE  TypeOK'
    <3>1. gates' \subseteq 0 .. 255
      BY <2>2, Zenon DEF SetGates, TypeOK
    <3> QED  BY <2>2, <3>1, Zenon DEF SetGates, TypeOK
  <2>3. {0, 128} \in SUBSET (0 .. 255) /\ {32, 33} \in SUBSET (0 .. 255)
    OBVIOUS
  <2> QED  BY <1>2, <2>1, <2>2, <2>3, Zenon DEF Gating, init_isr, SetIrqGates
<1>3. CASE Loading
  <2>1. CASE reload_gdt
    BY <2>1 DEF reload_gdt, Step, TypeOK
  <2>2. CASE lidt
    BY <2>2 DEF lidt, Step, TypeOK
  <2>3. CASE cpu_write_cr3
    BY <2>3 DEF cpu_write_cr3, Step, TypeOK
  <2> QED  BY <1>3, <2>1, <2>2, <2>3 DEF Loading
<1>4. CASE Aiming
  <2>1. ASSUME NEW p \in {"start_addr_printf", "free_pages_list"},
               NEW target \in {"low", "high"}, NEW from, NEW to, Aim(p, target, from, to)
        PROVE  TypeOK'
    <3>1. pointer' \in [{"start_addr_printf", "free_pages_list"} -> {"none", "low", "high"}]
      BY <2>1 DEF Aim, TypeOK
    <3> QED  BY <2>1, <3>1, Zenon DEF Aim, TypeOK
  <2> QED  BY <1>4, <2>1, Zenon DEF Aiming, init_freelist, Remap
<1>5. CASE Flagging
  <2>1. CASE cli
    BY <2>1 DEF cli, SetFlag, TypeOK
  <2>2. CASE sti
    BY <2>2 DEF sti, SetFlag, TypeOK
  <2> QED  BY <1>5, <2>1, <2>2 DEF Flagging
<1>6. CASE SaveMasks
  BY <1>6 DEF SaveMasks, TypeOK
<1>7. CASE PIC_remap
  <2>1. saved \in [Chip -> 0 .. 255]
    BY DEF TypeOK
  <2>2. saved[1] \in 0 .. 255 /\ saved[2] \in 0 .. 255 /\ 1 \in Chip /\ 2 \in Chip
    BY <2>1 DEF Chip
  <2>3. /\ 1 \in 0 .. 255 /\ 2 \in 0 .. 255 /\ 4 \in 0 .. 255
        /\ 32 \in 0 .. 255 /\ 41 \in 0 .. 255
    OBVIOUS
  <2> QED  BY <1>7, <2>2, <2>3, DataStep, CommandStep, Zenon DEF PIC_remap
<1>8. CASE UnmaskTimer
  <2>1. pic \in [Chip -> ChipState]
    BY DEF TypeOK
  <2>2. pic[1].mask \in 0 .. 255 /\ 1 \in Chip
    BY <2>1 DEF Chip
  <2>3. Data(1, Cleared(pic[1].mask), "unmask", "sti")
    BY <1>8 DEF UnmaskTimer, Cleared
  <2> QED  BY <2>2, <2>3, DataStep, Clearing
<1>9. CASE set_timer_phase
  <2>1. ASSUME NEW from, NEW to, NEW rate \in {"stopped", "100 Hz"}, Program(from, to, rate)
        PROVE  TypeOK'
    <3>1. pit' \in {"18 Hz", "stopped", "100 Hz"}
      BY <2>1 DEF Program
    <3> QED  BY <2>1, <3>1, Zenon DEF Program, TypeOK
  <2> QED  BY <1>9, <2>1, Zenon DEF set_timer_phase
<1> QED  BY <1>1, <1>2, <1>3, <1>4, <1>5, <1>6, <1>7, <1>8, <1>9, Parts, Zenon

(* What holds at the place a step leaves gives what holds where it leads.  *)
LEMMA BootCourse ==
  TypeOK /\ Course /\ boot => Course'
<1> SUFFICES ASSUME TypeOK, Course, boot
             PROVE  Course'
  OBVIOUS
<1> USE DEF setup, wiring, Step, Words, AfterSave, AfterWords, AfterMasks, AfterUnmask, AfterSti,
            AfterIdt, AfterFree, AfterCr3, AfterRemap, AfterGates, Places
<1>0. FlagByPlace /\ GatesByPlace /\ TablesByPlace /\ PointersByPlace /\ FirstChip /\ SecondChip
  BY DEF Course
<1>1. CASE Using
  <2> USE <1>0, <1>1 DEF Using, clrscr, MemoryMap, Allocate, Announce, Done, LoadElf, Report, setup_processes, Uses, CopyCodeDataFaults, Faulted
  <2>1. GatesByPlace' /\ TablesByPlace'
    BY DEF GatesByPlace, TablesByPlace
  <2>2. PointersByPlace'
    BY DEF PointersByPlace
  <2>3. FirstChip' /\ SecondChip'
    BY DEF FirstChip, SecondChip, Cleared
  <2>4. FlagByPlace'
    BY DEF FlagByPlace
  <2> QED  BY <2>1, <2>2, <2>3, <2>4, Zenon DEF Course
<1>2. CASE Gating
  <2> USE <1>0, <1>2 DEF Gating, init_idt, init_isr, SetIrqGates, SetGates
  <2>1. GatesByPlace'
    BY DEF GatesByPlace
  <2>2. TablesByPlace' /\ PointersByPlace'
    BY DEF TablesByPlace, PointersByPlace
  <2>3. FirstChip' /\ SecondChip'
    BY DEF FirstChip, SecondChip
  <2>4. FlagByPlace'
    <3>1. CASE init_idt
      BY <3>1 DEF FlagByPlace
    <3>2. CASE init_isr
      BY <3>2 DEF FlagByPlace
    <3>3. CASE SetIrqGates
      BY <3>3 DEF FlagByPlace
    <3> QED  BY <3>1, <3>2, <3>3
  <2> QED  BY <2>1, <2>2, <2>3, <2>4, Zenon DEF Course
<1>3. CASE Loading
  <2> USE <1>0, <1>3 DEF Loading, reload_gdt, lidt, cpu_write_cr3
  <2>1. TablesByPlace'
    <3>1. tables \in [{"gdt", "idt", "cr3"} -> {"loader", "kernel"}]
      BY DEF TypeOK
    <3>2. CASE reload_gdt
      BY <3>1, <3>2 DEF TablesByPlace
    <3>3. CASE lidt
      BY <3>1, <3>3 DEF TablesByPlace
    <3>4. CASE cpu_write_cr3
      BY <3>1, <3>4 DEF TablesByPlace
    <3> QED  BY <3>2, <3>3, <3>4
  <2>2. GatesByPlace' /\ PointersByPlace'
    BY DEF GatesByPlace, PointersByPlace
  <2>3. FirstChip' /\ SecondChip'
    BY DEF FirstChip, SecondChip, Cleared
  <2>4. FlagByPlace'
    <3>1. CASE reload_gdt
      BY <3>1 DEF FlagByPlace
    <3>2. CASE lidt
      BY <3>2 DEF FlagByPlace
    <3>3. CASE cpu_write_cr3
      BY <3>3 DEF FlagByPlace
    <3> QED  BY <3>1, <3>2, <3>3
  <2> QED  BY <2>1, <2>2, <2>3, <2>4, Zenon DEF Course
<1>4. CASE Aiming
  <2>1. PointersByPlace'
    <3>1. pointer \in [{"start_addr_printf", "free_pages_list"} -> {"none", "low", "high"}]
      BY DEF TypeOK
    <3>2. CASE init_freelist
      BY <1>0, <3>1, <3>2 DEF init_freelist, Aim, PointersByPlace
    <3>3. CASE Aim("start_addr_printf", "high", "remap_printf", "remap_bitmap")
      BY <1>0, <3>1, <3>3 DEF Aim, PointersByPlace
    <3>4. CASE Aim("free_pages_list", "high", "remap_bitmap", "done")
      BY <1>0, <3>1, <3>4 DEF Aim, PointersByPlace
    <3> QED  BY <1>4, <3>2, <3>3, <3>4 DEF Aiming, Remap
  <2> USE <1>0, <1>4 DEF Aiming, init_freelist, Remap, Aim
  <2>2. GatesByPlace' /\ TablesByPlace'
    BY DEF GatesByPlace, TablesByPlace
  <2>3. FirstChip' /\ SecondChip'
    BY DEF FirstChip, SecondChip, Cleared
  <2>4. FlagByPlace'
    BY DEF FlagByPlace
  <2> QED  BY <2>1, <2>2, <2>3, <2>4, Zenon DEF Course
<1>5. CASE Flagging
  <2> USE <1>0, <1>5 DEF Flagging, cli, sti, SetFlag
  <2>1. GatesByPlace' /\ TablesByPlace' /\ PointersByPlace'
    BY DEF GatesByPlace, TablesByPlace, PointersByPlace
  <2>2. FirstChip' /\ SecondChip'
    BY DEF FirstChip, SecondChip, Cleared
  <2>4. FlagByPlace'
    BY DEF FlagByPlace
  <2> QED  BY <2>1, <2>2, <2>4, Zenon DEF Course
<1>6. CASE SaveMasks
  <2> USE <1>0, <1>6 DEF SaveMasks
  <2>1. GatesByPlace' /\ TablesByPlace' /\ PointersByPlace'
    BY DEF GatesByPlace, TablesByPlace, PointersByPlace
  <2>2. FirstChip' /\ SecondChip'
    BY DEF FirstChip, SecondChip
  <2>3. saved' = left
    <3>1. left \in [Chip -> 0 .. 255]
      BY BootParameters DEF FlagByPlace
    <3>2. pic[1].mask = left[1] /\ pic[2].mask = left[2]
      BY DEF FirstChip, SecondChip
    <3>3. ASSUME NEW c \in Chip  PROVE pic[c].mask = left[c]
      BY <3>2, TwoChips
    <3>4. saved' = [c \in Chip |-> pic[c].mask]
      BY DEF SaveMasks
    <3> HIDE <1>0, <1>6 DEF SaveMasks
    <3> QED  BY <3>1, <3>3, <3>4
  <2>4. FlagByPlace'
    BY <2>3 DEF FlagByPlace
  <2> QED  BY <2>1, <2>2, <2>3, <2>4, Zenon DEF Course
<1>7. CASE PIC_remap
  <2>1. ASSUME NEW from, NEW to, Step(from, to),
               <<from, to>> \in
                 {<<"ICW1 of 1", "ICW1 of 2">>, <<"ICW1 of 2", "ICW2 of 1">>,
                  <<"ICW2 of 1", "ICW2 of 2">>, <<"ICW2 of 2", "ICW3 of 1">>,
                  <<"ICW3 of 1", "ICW3 of 2">>, <<"ICW3 of 2", "ICW4 of 1">>,
                  <<"ICW4 of 1", "ICW4 of 2">>, <<"ICW4 of 2", "mask of 1">>,
                  <<"mask of 1", "mask of 2">>, <<"mask of 2", "unmask">>},
               UNCHANGED <<gates, tables, on, saved, left, pointer>>
        PROVE  FlagByPlace' /\ GatesByPlace' /\ TablesByPlace' /\ PointersByPlace'
    <3>1. FlagByPlace'
      BY <1>0, <2>1 DEF FlagByPlace
    <3>2. GatesByPlace' /\ TablesByPlace'
      BY <1>0, <2>1 DEF GatesByPlace, TablesByPlace
    <3>3. PointersByPlace'
      BY <1>0, <2>1 DEF PointersByPlace
    <3> QED  BY <3>1, <3>2, <3>3
  <2>2. FlagByPlace' /\ GatesByPlace' /\ TablesByPlace' /\ PointersByPlace'
    BY <1>7, <2>1, Zenon DEF PIC_remap, Command, Data
  <2>3. 8 * (32 \div 8) = 32 /\ 8 * (41 \div 8) = 40
    OBVIOUS
  <2>4. ASSUME NEW c \in Chip, NEW from, NEW to, Command(c, from, to)
        PROVE  /\ pic'[c].base = pic[c].base /\ pic'[c].expects = "base"
               /\ \A d \in Chip \ {c} : pic'[d] = pic[d]
               /\ pc = from /\ pc' = to /\ left' = left
    BY <2>4, CommandStep, Zenon DEF Command
  <2>5. 1 \in Chip /\ 2 \in Chip /\ 1 \in Chip \ {2} /\ 2 \in Chip \ {1}
    BY DEF Chip
  <2>6. /\ 1 \in 0 .. 255 /\ 2 \in 0 .. 255 /\ 4 \in 0 .. 255 /\ 32 \in 0 .. 255 /\ 41 \in 0 .. 255
        /\ saved[1] \in 0 .. 255 /\ saved[2] \in 0 .. 255
    <3>1. saved \in [Chip -> 0 .. 255]
      BY DEF TypeOK
    <3> QED  BY <3>1, <2>5
  <2>7. ASSUME Command(1, "ICW1 of 1", "ICW1 of 2")
        PROVE  FirstChip' /\ SecondChip'
    <3>1. /\ pic'[2] = pic[2] /\ pc = "ICW1 of 1" /\ pc' = "ICW1 of 2" /\ left' = left
          /\ pic'[1].base = pic[1].base /\ pic'[1].expects = "base"
      BY <2>4, <2>5, <2>7
    <3> QED  BY <1>0, <3>1 DEF FirstChip, SecondChip, FlagByPlace, After
  <2>8. ASSUME Command(2, "ICW1 of 2", "ICW2 of 1")
        PROVE  FirstChip' /\ SecondChip'
    <3>1. /\ pic'[1] = pic[1] /\ pc = "ICW1 of 2" /\ pc' = "ICW2 of 1" /\ left' = left
          /\ pic'[2].base = pic[2].base /\ pic'[2].expects = "base"
      BY <2>4, <2>5, <2>8
    <3> QED  BY <1>0, <3>1 DEF FirstChip, SecondChip, FlagByPlace, After
  <2>9. ASSUME Data(1, 32, "ICW2 of 1", "ICW2 of 2")
        PROVE  FirstChip' /\ SecondChip'
    <3>1. pc = "ICW2 of 1" /\ pc' = "ICW2 of 2" /\ left' = left
      BY <2>9, Zenon DEF Data
    <3>2. pic'[2] = pic[2]
      BY <2>5, <2>6, <2>9, DataStep, Zenon
    <3>3. pic[1].expects = "base"
      BY <1>0, <3>1 DEF FirstChip, SecondChip
    <3>4. /\ pic'[1].mask = pic[1].mask /\ pic'[1].base = 8 * (32 \div 8)
          /\ pic'[1].cascade = pic[1].cascade /\ pic'[1].mode = pic[1].mode
          /\ pic'[1].expects = "cascade"
      BY <3>3, <2>5, <2>6, <2>9, DataStep, Zenon
    <3> QED  BY <1>0, <2>3, <3>1, <3>2, <3>4 DEF FirstChip, SecondChip, FlagByPlace
  <2>10. ASSUME Data(2, 41, "ICW2 of 2", "ICW3 of 1")
        PROVE  FirstChip' /\ SecondChip'
    <3>1. pc = "ICW2 of 2" /\ pc' = "ICW3 of 1" /\ left' = left
      BY <2>10, Zenon DEF Data
    <3>2. pic'[1] = pic[1]
      BY <2>5, <2>6, <2>10, DataStep, Zenon
    <3>3. pic[2].expects = "base"
      BY <1>0, <3>1 DEF FirstChip, SecondChip
    <3>4. /\ pic'[2].mask = pic[2].mask /\ pic'[2].base = 8 * (41 \div 8)
          /\ pic'[2].cascade = pic[2].cascade /\ pic'[2].mode = pic[2].mode
          /\ pic'[2].expects = "cascade"
      BY <3>3, <2>5, <2>6, <2>10, DataStep, Zenon
    <3> QED  BY <1>0, <2>3, <3>1, <3>2, <3>4 DEF FirstChip, SecondChip, FlagByPlace
  <2>11. ASSUME Data(1, 4, "ICW3 of 1", "ICW3 of 2")
        PROVE  FirstChip' /\ SecondChip'
    <3>1. pc = "ICW3 of 1" /\ pc' = "ICW3 of 2" /\ left' = left
      BY <2>11, Zenon DEF Data
    <3>2. pic'[2] = pic[2]
      BY <2>5, <2>6, <2>11, DataStep, Zenon
    <3>3. pic[1].expects = "cascade"
      BY <1>0, <3>1 DEF FirstChip, SecondChip
    <3>4. /\ pic'[1].mask = pic[1].mask /\ pic'[1].base = pic[1].base
          /\ pic'[1].cascade = 4 /\ pic'[1].mode = pic[1].mode
          /\ pic'[1].expects = "mode"
      BY <3>3, <2>5, <2>6, <2>11, DataStep, Zenon
    <3> QED  BY <1>0, <2>3, <3>1, <3>2, <3>4 DEF FirstChip, SecondChip, FlagByPlace
  <2>12. ASSUME Data(2, 2, "ICW3 of 2", "ICW4 of 1")
        PROVE  FirstChip' /\ SecondChip'
    <3>1. pc = "ICW3 of 2" /\ pc' = "ICW4 of 1" /\ left' = left
      BY <2>12, Zenon DEF Data
    <3>2. pic'[1] = pic[1]
      BY <2>5, <2>6, <2>12, DataStep, Zenon
    <3>3. pic[2].expects = "cascade"
      BY <1>0, <3>1 DEF FirstChip, SecondChip
    <3>4. /\ pic'[2].mask = pic[2].mask /\ pic'[2].base = pic[2].base
          /\ pic'[2].cascade = 2 /\ pic'[2].mode = pic[2].mode
          /\ pic'[2].expects = "mode"
      BY <3>3, <2>5, <2>6, <2>12, DataStep, Zenon
    <3> QED  BY <1>0, <2>3, <3>1, <3>2, <3>4 DEF FirstChip, SecondChip, FlagByPlace
  <2>13. ASSUME Data(1, 1, "ICW4 of 1", "ICW4 of 2")
        PROVE  FirstChip' /\ SecondChip'
    <3>1. pc = "ICW4 of 1" /\ pc' = "ICW4 of 2" /\ left' = left
      BY <2>13, Zenon DEF Data
    <3>2. pic'[2] = pic[2]
      BY <2>5, <2>6, <2>13, DataStep, Zenon
    <3>3. pic[1].expects = "mode"
      BY <1>0, <3>1 DEF FirstChip, SecondChip
    <3>4. /\ pic'[1].mask = pic[1].mask /\ pic'[1].base = pic[1].base
          /\ pic'[1].cascade = pic[1].cascade /\ pic'[1].mode = 1
          /\ pic'[1].expects = "mask"
      BY <3>3, <2>5, <2>6, <2>13, DataStep, Zenon
    <3> QED  BY <1>0, <2>3, <3>1, <3>2, <3>4 DEF FirstChip, SecondChip, FlagByPlace
  <2>14. ASSUME Data(2, 1, "ICW4 of 2", "mask of 1")
        PROVE  FirstChip' /\ SecondChip'
    <3>1. pc = "ICW4 of 2" /\ pc' = "mask of 1" /\ left' = left
      BY <2>14, Zenon DEF Data
    <3>2. pic'[1] = pic[1]
      BY <2>5, <2>6, <2>14, DataStep, Zenon
    <3>3. pic[2].expects = "mode"
      BY <1>0, <3>1 DEF FirstChip, SecondChip
    <3>4. /\ pic'[2].mask = pic[2].mask /\ pic'[2].base = pic[2].base
          /\ pic'[2].cascade = pic[2].cascade /\ pic'[2].mode = 1
          /\ pic'[2].expects = "mask"
      BY <3>3, <2>5, <2>6, <2>14, DataStep, Zenon
    <3> QED  BY <1>0, <2>3, <3>1, <3>2, <3>4 DEF FirstChip, SecondChip, FlagByPlace
  <2>15. ASSUME Data(1, saved[1], "mask of 1", "mask of 2")
        PROVE  FirstChip' /\ SecondChip'
    <3>1. pc = "mask of 1" /\ pc' = "mask of 2" /\ left' = left
      BY <2>15, Zenon DEF Data
    <3>2. pic'[2] = pic[2]
      BY <2>5, <2>6, <2>15, DataStep, Zenon
    <3>3. pic[1].expects = "mask"
      BY <1>0, <3>1 DEF FirstChip, SecondChip
    <3>4. /\ pic'[1].mask = saved[1] /\ pic'[1].base = pic[1].base
          /\ pic'[1].cascade = pic[1].cascade /\ pic'[1].mode = pic[1].mode
          /\ pic'[1].expects = "mask"
      BY <3>3, <2>5, <2>6, <2>15, DataStep, Zenon
    <3> QED  BY <1>0, <2>3, <3>1, <3>2, <3>4 DEF FirstChip, SecondChip, FlagByPlace
  <2>16. ASSUME Data(2, saved[2], "mask of 2", "unmask")
        PROVE  FirstChip' /\ SecondChip'
    <3>1. pc = "mask of 2" /\ pc' = "unmask" /\ left' = left
      BY <2>16, Zenon DEF Data
    <3>2. pic'[1] = pic[1]
      BY <2>5, <2>6, <2>16, DataStep, Zenon
    <3>3. pic[2].expects = "mask"
      BY <1>0, <3>1 DEF FirstChip, SecondChip
    <3>4. /\ pic'[2].mask = saved[2] /\ pic'[2].base = pic[2].base
          /\ pic'[2].cascade = pic[2].cascade /\ pic'[2].mode = pic[2].mode
          /\ pic'[2].expects = "mask"
      BY <3>3, <2>5, <2>6, <2>16, DataStep, Zenon
    <3> QED  BY <1>0, <2>3, <3>1, <3>2, <3>4 DEF FirstChip, SecondChip, FlagByPlace
  <2> QED  BY <1>0, <1>7, <2>2, <2>7, <2>8, <2>9, <2>10, <2>11, <2>12, <2>13, <2>14, <2>15, <2>16 DEF PIC_remap, Course
<1>9. CASE set_timer_phase
  <2> USE <1>0, <1>9 DEF set_timer_phase, Program
  <2>1. GatesByPlace' /\ TablesByPlace' /\ PointersByPlace'
    BY DEF GatesByPlace, TablesByPlace, PointersByPlace
  <2>2. FirstChip' /\ SecondChip'
    BY DEF FirstChip, SecondChip, Cleared
  <2>4. FlagByPlace'
    BY DEF FlagByPlace
  <2> QED  BY <2>1, <2>2, <2>4, Zenon DEF Course
<1>8. CASE UnmaskTimer
  <2>1. FlagByPlace' /\ GatesByPlace' /\ TablesByPlace' /\ PointersByPlace'
    <3> USE <1>0, <1>8 DEF UnmaskTimer, Data
    <3>1. FlagByPlace'
      BY DEF FlagByPlace
    <3>2. GatesByPlace' /\ TablesByPlace'
      BY DEF GatesByPlace, TablesByPlace
    <3>3. PointersByPlace'
      BY DEF PointersByPlace
    <3> QED  BY <3>1, <3>2, <3>3
  <2>2. Data(1, Cleared(pic[1].mask), "unmask", "sti")
    BY <1>8 DEF UnmaskTimer, Cleared
  <2>3. pic[1].mask \in 0 .. 255 /\ 1 \in Chip /\ 2 \in Chip \ {1}
    <3>1. pic \in [Chip -> ChipState]
      BY DEF TypeOK
    <3> QED  BY <3>1 DEF Chip
  <2>4. Cleared(pic[1].mask) \in 0 .. 255
    BY <2>3, Clearing
  <2>5. pc = "unmask" /\ pc' = "sti" /\ left' = left
    BY <2>2, Zenon DEF Data
  <2>6. pic'[2] = pic[2]
    BY <2>2, <2>3, <2>4, DataStep, Zenon
  <2>7. pic[1].expects = "mask" /\ pic[1].mask = left[1]
    BY <1>0, <2>5 DEF FirstChip
  <2>8. /\ pic'[1].mask = Cleared(left[1]) /\ pic'[1].base = pic[1].base
        /\ pic'[1].cascade = pic[1].cascade /\ pic'[1].mode = pic[1].mode
        /\ pic'[1].expects = "mask"
    BY <2>2, <2>3, <2>4, <2>7, DataStep, Zenon
  <2>9. FirstChip' /\ SecondChip'
    <3> HIDE DEF Cleared
    <3> QED  BY <1>0, <2>5, <2>8, <2>6 DEF FirstChip, SecondChip
  <2> QED  BY <2>1, <2>9 DEF Course
<1> QED  BY <1>1, <1>2, <1>3, <1>4, <1>5, <1>6, <1>7, <1>8, <1>9, Parts, Zenon

(* boot() itself always finds its pointers' targets: of its own doing it   *)
(* is lost only by the loader's fault.                                     *)
LEMMA BootSurvives ==
  TypeOK /\ Course /\ boot =>
    Running /\ (UNCHANGED lost \/ (CopyCodeDataFaults /\ LoaderFaulted'))
<1> SUFFICES ASSUME TypeOK, Course, boot
             PROVE  Running /\ (UNCHANGED lost \/ (CopyCodeDataFaults /\ LoaderFaulted'))
  OBVIOUS
<1> USE DEF setup, wiring, Step
<1>1. CASE Using
  <2>1. ASSUME pc \in {"clrscr", "print", "done", "report"}
        PROVE  Reachable("start_addr_printf")
    BY <2>1 DEF Reachable, TypeOK, Course, TablesByPlace, PointersByPlace, FlagByPlace,
                Places, AfterGates, AfterCr3, AfterRemap
  <2>2. ASSUME pc \in {"memory map", "tables", "load_elf", "setup_processes"}
        PROVE  Reachable("free_pages_list")
    BY <2>2 DEF Reachable, TypeOK, Course, TablesByPlace, PointersByPlace,
                AfterFree, AfterCr3, AfterRemap
  <2>3. CASE clrscr \/ Announce \/ Done \/ Report
    BY <2>1, <2>3 DEF clrscr, Announce, Done, Report, Uses
  <2>4. CASE MemoryMap \/ Allocate \/ LoadElf
    BY <2>2, <2>4 DEF MemoryMap, Allocate, LoadElf, Uses
  <2>5. CASE Uses("free_pages_list", "setup_processes", "tasks")
    BY <2>2, <2>5 DEF Uses
  <2>6. CASE CopyCodeDataFaults
    BY <2>6 DEF CopyCodeDataFaults, Faulted, LoaderFaulted
  <2> QED  BY <1>1, <2>3, <2>4, <2>5, <2>6, Zenon DEF Using, setup_processes
<1>2. CASE Gating
  BY <1>2, Zenon DEF Gating, init_idt, init_isr, SetIrqGates, SetGates
<1>3. CASE Loading
  BY <1>3, Zenon DEF Loading, reload_gdt, lidt, cpu_write_cr3
<1>4. CASE Aiming
  BY <1>4, Zenon DEF Aiming, init_freelist, Remap, Aim
<1>5. CASE Flagging
  BY <1>5, Zenon DEF Flagging, cli, sti, SetFlag
<1>6. CASE SaveMasks
  BY <1>6, Zenon DEF SaveMasks
<1>7. CASE PIC_remap
  BY <1>7, Zenon DEF PIC_remap, Command, Data
<1>8. CASE UnmaskTimer
  BY <1>8, Zenon DEF UnmaskTimer, Data
<1>9. CASE set_timer_phase
  BY <1>9, Zenon DEF set_timer_phase, Program
<1> QED  BY <1>1, <1>2, <1>3, <1>4, <1>5, <1>6, <1>7, <1>8, <1>9, Parts, Zenon

(* A request and an interrupt leave to boot() what is its own.             *)
LEMMA CourseStays ==
  Course /\ UNCHANGED <<pc, setup, left, on>> => Course'
<1> SUFFICES ASSUME Course, UNCHANGED <<pc, setup, left, on>>
             PROVE  Course'
  OBVIOUS
<1>1. FlagByPlace' /\ GatesByPlace' /\ TablesByPlace' /\ PointersByPlace'
  BY Zenon DEF Course, FlagByPlace, GatesByPlace, TablesByPlace, PointersByPlace, setup
<1>2. FirstChip' /\ SecondChip'
  BY Zenon DEF Course, FirstChip, SecondChip, setup
<1> QED  BY <1>1, <1>2 DEF Course

(* The devices' requests.                                                  *)
LEMMA RequestStep ==
  ASSUME TypeOK, Tick \/ Key \/ \E irq \in Devices : OtherDevice(irq)
  PROVE  TypeOK' /\ UNCHANGED <<pc, setup, left, on, lost>>
<1>1. ASSUME NEW irq \in Devices, Request(irq)
      PROVE  requests' \subseteq Devices
  BY <1>1, Zenon DEF Request, TypeOK
<1>2. 0 \in Devices /\ 1 \in Devices
  BY BootParameters
<1>3. CASE Tick
  BY <1>1, <1>2, <1>3, Zenon DEF Tick, TypeOK, setup, wiring
<1>4. CASE Key
  BY <1>1, <1>2, <1>4, Zenon DEF Key, TypeOK, setup, wiring
<1>5. CASE \E irq \in Devices : OtherDevice(irq)
  <2>1. PICK irq \in Devices : OtherDevice(irq)
    BY <1>5
  <2>2. requests' \subseteq Devices
    BY <1>1, <2>1, Zenon DEF OtherDevice
  <2> QED  BY <2>1, <2>2, Zenon DEF OtherDevice, TypeOK, setup, wiring
<1> QED  BY <1>3, <1>4, <1>5

(* The handlers.                                                           *)
LEMMA InterruptTypes ==
  ASSUME TypeOK, NEW irq \in Devices, Deliver(irq)
  PROVE  TypeOK' /\ UNCHANGED <<pc, setup, left, on>>
<1>1. Interrupt(irq)
  BY Zenon DEF Deliver, Stray, irq_timer, irq_kb
<1>2. UNCHANGED <<pc, setup, left, on>> /\ early' = early /\ pit' = pit
  BY <1>1, Zenon DEF Interrupt, wiring
<1>3. requests' \subseteq Devices
  BY <1>1, Zenon DEF Interrupt, TypeOK
<1>4. key' \in BOOLEAN
  BY Zenon DEF Deliver, Stray, irq_timer, irq_kb, TypeOK
<1>5. tick' \in 0 .. EVERY - 1
  <2>1. tick \in 0 .. EVERY - 1
    BY Zenon DEF TypeOK
  <2>2. (tick + 1) % EVERY \in 0 .. EVERY - 1
    <3>1. tick + 1 \in Int /\ EVERY \in Nat /\ EVERY > 0
      BY <2>1, BootParameters
    <3> QED  BY <3>1
  <2> QED  BY <2>1, <2>2, Zenon DEF Deliver, Stray, irq_timer, irq_kb
<1>6. TypeOK'
  BY <1>2, <1>3, <1>4, <1>5, Zenon DEF TypeOK, setup
<1> QED  BY <1>2, <1>6

(* Whatever the interrupt, the machine survives it or was in one of the    *)
(* windows, and the line was the timer's or had been left open.            *)
LEMMA InterruptSurvives ==
  ASSUME BInv, NEW irq \in Devices, Deliver(irq)
  PROVE  OnlyTheWindowsAreFatal'
<1>1. Running /\ on /\ irq \in Ready /\ UNCHANGED <<pc, left>>
  BY Zenon DEF Deliver, Stray, irq_timer, irq_kb, Interrupt, First, wiring
<1>2. irq \in (0 .. 15) \ {2}
  BY BootParameters
<1>3. irq = 0 \/ Open(left, irq)
  BY <1>1, <1>2, Setup, Zenon DEF ControllersAreSetUp, Ready
<1>4. pc \in AfterSti
  BY <1>1 DEF BInv, Course, FlagByPlace
<1>5. ASSUME ~Gated(irq), pc # "lidt"
      PROVE  irq \notin {0, 1}
  <2>1. tables.gdt = "kernel" /\ tables.idt = "kernel"
    BY <1>4, <1>5 DEF BInv, Course, TablesByPlace, AfterSti, AfterIdt, AfterFree, AfterCr3, AfterRemap
  <2>2. Vector(0) \in gates /\ Vector(1) \in gates
    BY <1>1, Setup DEF ControllersAreSetUp
  <2> QED  BY <1>5, <2>1, <2>2 DEF Gated
<1>6. Reachable("start_addr_printf") \/ pc = "remap_printf"
  BY <1>4 DEF BInv, TypeOK, Course, TablesByPlace, PointersByPlace, Reachable,
              AfterSti, AfterIdt, AfterFree, AfterCr3, AfterRemap
<1>7. lost' = lost \/ (lost' = [pc |-> pc, irq |-> irq] /\ (~Gated(irq) \/ pc = "remap_printf"))
  BY <1>6, Zenon DEF Deliver, Stray, irq_timer, irq_kb, Shows
<1>8. CASE lost' = lost
  BY <1>1, <1>8 DEF Running, OnlyTheWindowsAreFatal, Survived
<1>9. CASE lost' = [pc |-> pc, irq |-> irq] /\ (~Gated(irq) \/ pc = "remap_printf")
  <2>1. lost'.pc = pc /\ lost'.irq = irq
    BY <1>9
  <2>2. irq # Nobody
    BY <1>2 DEF Nobody
  <2>3. pc \in {"lidt", "remap_printf"} \/ irq \notin {0, 1}
    BY <1>5, <1>9
  <2>4. Open(left, irq)' <=> Open(left, irq)
    BY <1>1 DEF Open
  <2> QED  BY <1>1, <1>3, <2>1, <2>2, <2>3, <2>4 DEF OnlyTheWindowsAreFatal, InAWindow, Open
<1> QED  BY <1>7, <1>8, <1>9

LEMMA NextBInv ==
  BInv /\ [Next]_vars => BInv'
<1> SUFFICES ASSUME BInv, [Next]_vars
             PROVE  BInv'
  OBVIOUS
<1>0. TypeOK /\ Course /\ OnlyTheWindowsAreFatal
  BY DEF BInv
<1>1. CASE boot
  <2>1. TypeOK' /\ Course' /\ Running /\ (lost' = lost \/ LoaderFaulted')
    BY <1>0, <1>1, BootTypes, BootCourse, BootSurvives
  <2>2. CASE lost' = lost
    BY <2>1, <2>2 DEF BInv, OnlyTheWindowsAreFatal, Running, Survived
  <2>3. CASE LoaderFaulted'
    BY <2>1, <2>3 DEF BInv, OnlyTheWindowsAreFatal
  <2> QED  BY <2>1, <2>2, <2>3
<1>2. CASE Tick \/ Key \/ \E irq \in Devices : OtherDevice(irq)
  <2>1. TypeOK' /\ UNCHANGED <<pc, setup, left, on, lost>>
    BY <1>0, <1>2, RequestStep
  <2>2. Running
    BY <1>2, Zenon DEF Tick, Key, OtherDevice, Request
  <2> QED  BY <1>0, <2>1, <2>2, CourseStays DEF BInv, OnlyTheWindowsAreFatal, LoaderFaulted, InAWindow, Running, Survived
<1>3. CASE \E irq \in Devices : Deliver(irq)
  <2>1. PICK irq \in Devices : Deliver(irq)
    BY <1>3
  <2>2. TypeOK' /\ UNCHANGED <<pc, setup, left, on>>
    BY <1>0, <2>1, InterruptTypes
  <2>3. OnlyTheWindowsAreFatal'
    BY <2>1, InterruptSurvives
  <2> QED  BY <1>0, <2>2, <2>3, CourseStays DEF BInv
<1>4. CASE UNCHANGED vars
  <2>1. TypeOK'
    BY <1>0, <1>4, Zenon DEF vars, setup, wiring, TypeOK
  <2>2. Course'
    BY <1>0, <1>4, CourseStays, Zenon DEF vars, wiring
  <2>3. OnlyTheWindowsAreFatal'
    BY <1>0, <1>4, Zenon DEF vars, wiring, OnlyTheWindowsAreFatal, LoaderFaulted, InAWindow, Running, Open
  <2> QED  BY <2>1, <2>2, <2>3 DEF BInv
<1> QED  BY <1>1, <1>2, <1>3, <1>4 DEF Next

LEMMA Invariant ==
  Spec => []BInv
<1>1. Init => BInv
  BY Boots
<1>2. BInv /\ [Next]_vars => BInv'
  BY NextBInv
<1> QED  BY <1>1, <1>2, PTL DEF Spec

(* The masks stay masks: IRQ_clear_mask never writes a value out of range, *)
(* and the other variables keep their types.                               *)
THEOREM TypesHold ==
  Spec => []TypeOK
<1>1. BInv => TypeOK
  BY DEF BInv
<1> QED  BY <1>1, Invariant, PTL

(* For any mask the boot loader left and any devices: interrupts are       *)
(* enabled only when both chips have taken their four words as they were   *)
(* meant, at vectors of which the timer's and the keyboard's have their    *)
(* gates and the second chip's follow the first's, joined on one line and  *)
(* in 8086 mode, and no line is open but the timer's and those that were   *)
(* open.                                                                   *)
THEOREM ControllersReady ==
  Spec => []ControllersAreSetUp
<1> QED  BY Setup, Invariant, PTL

(* The prints and allocations of boot() always find their targets: of its  *)
(* own doing it is lost only when the loader faults, in setup_processes.   *)
(* An interrupt loses it only in the two windows before lidt and after the *)
(* load of cr3, or from another line that the loader left open.            *)
THEOREM OnlyWindows ==
  Spec => []OnlyTheWindowsAreFatal
<1>1. BInv => OnlyTheWindowsAreFatal
  BY DEF BInv
<1> QED  BY <1>1, Invariant, PTL

=============================================================================
