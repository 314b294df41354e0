------------------------------- MODULE Sched --------------------------------
(***************************************************************************)
(* The cooperative scheduler of sys/process.c with the int 0x80 stub of    *)
(* sys/isr.s and the part of load_elf (sys/tarfs.c) that prepares a task.  *)
(*                                                                         *)
(* A task yields with int 0x80.  The processor and the stub push the       *)
(* task's registers on the task's own stack, schedule() stores the stack   *)
(* pointer in the task, moves the task to the tail of the list, takes the  *)
(* stack pointer of the new head and jumps back into the stub, which pops  *)
(* whatever that stack holds.  The gate is an interrupt gate, so all of it *)
(* runs with interrupts off and is one step here.  Interrupts arrive       *)
(* between steps and run on the stack of the task they interrupt.          *)
(*                                                                         *)
(* A word of memory is <<what, owner, k>>: the value task "owner" keeps in *)
(* register "what" in phase k of its computation, a pointer to word k of   *)
(* the stack of "owner", or a constant.                                    *)
(***************************************************************************)
EXTENDS Integers, Sequences, FiniteSets

CONSTANTS
  Task,        \* the memory kmalloc can return for a task_struct
  NULL,        \* the null pointer
  GarbageLinks,  \* what the next_task fields of that memory may hold at first
  PHASES,      \* phases of a task's computation that are told apart
  TASK_DEPTH,  \* words of its stack a task uses when it yields
  IRQ_DEPTH    \* words an interrupt handler pushes

(* The words of task_struct.stack that are used: init_process starts the   *)
(* stack at its 64th word.                                                 *)
TOP == 63

ASSUME SchedParameters ==
  /\ NULL \notin Task
  /\ GarbageLinks \subseteq [Task -> Task \cup {NULL}]
  /\ PHASES \in Nat \ {0}
  /\ TASK_DEPTH \in 0 .. 40
  /\ IRQ_DEPTH \in 0 .. TOP - TASK_DEPTH

VARIABLES
  current_task,  \* the head of the list of tasks
  next_task,     \* task_struct.next_task
  stack,         \* task_struct.stack
  saved_rsp,     \* task_struct.rsp, a pointer word
  regs, rip, rsp,  \* the processor
  rip1,          \* where schedule() jumps to
  mode,          \* "boot", "running", or why the kernel stopped
  tasks          \* the tasks that have been added

list == <<current_task, next_task, tasks>>
cpu  == <<regs, rip, rsp>>
vars == <<list, stack, saved_rsp, cpu, rip1, mode>>

(* The registers in the order the stub and first_switch pop them.          *)
PopOrder == <<"r15", "r14", "r13", "r12", "r11", "r10", "r9", "r8",
              "rdi", "rsi", "rdx", "rcx", "rbx", "rax">>
Register == {PopOrder[i] : i \in DOMAIN PopOrder} \cup {"rbp"}

(* A fault to seed: isr_common_stub does not save rbx either.              *)
SavedWithoutRbx == Register \ {"rbp", "rbx"}

(* The registers the stub restores.                                        *)
Saved == Register \ {"rbp"}

Junk == <<"junk", NULL, 0>>
Selector(s) == <<s, NULL, 0>>
StackPtr(t, i) == <<"rsp", t, i>>
Resume(t, k) == <<"rip", t, k>>
StubReturn == <<"stub", NULL, 0>>   \* the instruction after callq schedule

-----------------------------------------------------------------------------
(* The list of tasks.                                                      *)

(* The nodes a walk along nxt from s visits: those without which no set    *)
(* that holds s is closed under nxt.                                       *)
Reach(nxt, s) ==
  {x \in Task : \A S \in SUBSET (Task \ {x}) :
     s \in S => \E y \in S : nxt[y] \notin S \cup {NULL}}

(* while(temp->next_task != NULL) temp = temp->next_task: the node it      *)
(* stops at, if it stops.                                                  *)
Ends(nxt, s) == {x \in Reach(nxt, s) : nxt[x] = NULL}
LastOf(nxt, s) == CHOOSE x \in Ends(nxt, s) : TRUE

(* Append task t to the list: both add_ functions.                         *)
Linked(t) ==
  /\ tasks' = tasks \cup {t}
  /\ IF current_task = NULL
     THEN /\ current_task' = t
          /\ next_task' = [next_task EXCEPT ![t] = NULL]
     ELSE /\ next_task' = [next_task EXCEPT ![LastOf(next_task, current_task)] = t,
                                            ![t] = NULL]
          /\ UNCHANGED current_task

(* Faults to seed: schedule() without its last assignment, and a head that *)
(* goes behind its successor instead of to the tail.                       *)
RotatedIntoCycle ==
  /\ current_task' = IF next_task[current_task] = NULL
                     THEN current_task ELSE next_task[current_task]
  /\ next_task' = [next_task EXCEPT ![LastOf(next_task, current_task)] = current_task]
  /\ UNCHANGED tasks

RotatedByOne ==
  LET second == next_task[current_task]
  IN  IF second = NULL THEN UNCHANGED list
      ELSE /\ current_task' = second
           /\ next_task' = [next_task EXCEPT ![second] = current_task,
                                             ![current_task] = next_task[second]]
           /\ UNCHANGED tasks

(* The five assignments of schedule() that move the head to the tail.      *)
Rotated ==
  LET linked == [next_task EXCEPT ![LastOf(next_task, current_task)] = current_task]
  IN  /\ current_task' = linked[current_task]
      /\ next_task' = [linked EXCEPT ![current_task] = NULL]
      /\ UNCHANGED tasks

-----------------------------------------------------------------------------
(* The stacks.                                                             *)

(* Words ws stored from word i of stack t upwards.                         *)
Store(stk, t, i, ws) ==
  [stk EXCEPT ![t] = [j \in DOMAIN @ |->
     IF j \in i .. i + Len(ws) - 1 THEN ws[j - i + 1] ELSE @[j]]]

IretFrame(ip, sp) ==
  <<ip, Selector("cs"), Selector("rflags"), sp, Selector("ss")>>

(* Faults to seed: a first stack pointer one word too high, or past the    *)
(* end of the stack.                                                       *)
PreparedTooHigh(t) ==
  /\ stack' = Store(stack, t, TOP - 4, IretFrame(Resume(t, 0), StackPtr(t, TOP)))
  /\ saved_rsp' = [saved_rsp EXCEPT ![t] = StackPtr(t, TOP - 17)]

PreparedOutside(t) ==
  /\ stack' = Store(stack, t, TOP - 4, IretFrame(Resume(t, 0), StackPtr(t, TOP)))
  /\ saved_rsp' = [saved_rsp EXCEPT ![t] = StackPtr(t, TOP + 1)]

(* The stack of a task that has never run, in init_process and load_elf:   *)
(* the frame iretq pops, under 14 words nobody has written.                *)
Prepared(t) ==
  /\ stack' = Store(stack, t, TOP - 4, IretFrame(Resume(t, 0), StackPtr(t, TOP)))
  /\ saved_rsp' = [saved_rsp EXCEPT ![t] = StackPtr(t, TOP - 18)]

(* The processor aligns the stack to 16 bytes before it pushes a frame;    *)
(* the odd words of a task_struct's stack are aligned.                     *)
Align(i) == IF i % 2 = 1 THEN i ELSE i - 1

(* The stack of the interrupted task when the stub has called schedule():  *)
(* the processor pushes the frame, the stub the registers, the call the    *)
(* return address.                                                         *)
FrameStart == Align(rsp[3]) - 5 - Len(PopOrder)
Pushed ==
  LET frame == Store(stack, rsp[2], FrameStart + Len(PopOrder), IretFrame(rip, rsp))
      saved == Store(frame, rsp[2], FrameStart,
                     [i \in DOMAIN PopOrder |-> regs[PopOrder[i]]])
  IN  Store(saved, rsp[2], FrameStart - 1, <<StubReturn>>)

(* The pops and the iretq of a frame at pointer p, for words stk.  rbp is  *)
(* not among the registers popped.                                         *)
Popped(stk, p) ==
  LET word(i) == stk[p[2]][p[3] + i]
      n == Len(PopOrder)
  IN  /\ regs' = [r \in Register |->
                    IF r \in Saved
                    THEN word((CHOOSE i \in DOMAIN PopOrder : PopOrder[i] = r) - 1)
                    ELSE regs[r]]
      /\ rip' = word(n)
      /\ rsp' = word(n + 3)
      /\ mode' = IF word(n + 1) = Selector("cs") /\ word(n + 4) = Selector("ss")
                 THEN "running" ELSE "fault"

-----------------------------------------------------------------------------
(* kmalloc returns memory with whatever was in it.                         *)
Init ==
  /\ current_task = NULL
  /\ next_task \in GarbageLinks
  /\ tasks = {}
  /\ stack = [t \in Task |-> [i \in 0 .. TOP |-> Junk]]
  /\ saved_rsp = [t \in Task |-> Junk]
  /\ regs = [r \in Register |-> Junk]
  /\ rip = Junk
  /\ rsp = Junk
  /\ rip1 = Junk
  /\ mode = "boot"

CanAdd(t) ==
  /\ mode = "boot"
  /\ t \notin tasks
  /\ current_task # NULL => Ends(next_task, current_task) # {}

add_proc_to_task_list(t) ==
  /\ CanAdd(t)
  /\ Prepared(t)
  /\ Linked(t)
  /\ UNCHANGED <<cpu, rip1, mode>>

(* load_elf returns NULL when the file is not in the archive, and          *)
(* CopyCodeData dereferences what it is given.                             *)
add_userproc_to_task_list(t) ==
  /\ CanAdd(t)
  /\ UNCHANGED <<cpu, rip1>>
  /\ \/ Prepared(t) /\ Linked(t) /\ UNCHANGED mode
     \/ mode' = "fault" /\ UNCHANGED <<list, stack, saved_rsp>>

first_switch ==
  /\ mode = "boot"
  /\ current_task # NULL
  /\ Popped(stack, saved_rsp[current_task])
  /\ UNCHANGED <<list, stack, saved_rsp, rip1>>

(* The running program enters phase k of its computation: new values in    *)
(* its registers and in d words of its stack, before it yields.            *)
Work(k, d) ==
  /\ mode = "running"
  /\ LET t == rip[2] IN
       /\ regs' = [r \in Register |-> <<r, t, k>>]
       /\ rip' = Resume(t, k)
       /\ rsp' = StackPtr(rsp[2], TOP - d)
       /\ stack' = Store(stack, rsp[2], TOP - d, [i \in 1 .. d |-> <<"local", t, k>>])
  /\ UNCHANGED <<list, saved_rsp, rip1, mode>>

(* int 0x80, the stub and schedule().                                      *)
schedule ==
  /\ mode = "running"
  /\ stack' = Pushed
  /\ rip1' = Pushed[rsp[2]][FrameStart - 1]
  /\ saved_rsp' = [saved_rsp EXCEPT ![current_task] = StackPtr(rsp[2], FrameStart)]
  /\ IF Ends(next_task, current_task) = {}
     THEN mode' = "hung" /\ UNCHANGED <<list, cpu>>
     ELSE /\ Rotated
          /\ IF rip1' = StubReturn
             THEN Popped(Pushed, saved_rsp'[current_task'])
             ELSE mode' = "fault" /\ UNCHANGED cpu

(* A timer or keyboard interrupt: its stub restores what it pushed, and    *)
(* the words below the stack pointer are gone.                             *)
irq ==
  /\ mode = "running"
  /\ stack' = Store(stack, rsp[2], rsp[3] - IRQ_DEPTH, [i \in 1 .. IRQ_DEPTH |-> Junk])
  /\ UNCHANGED <<list, saved_rsp, cpu, rip1, mode>>

setup_processes ==
  \/ \E t \in Task : add_proc_to_task_list(t) \/ add_userproc_to_task_list(t)
  \/ first_switch

Next ==
  \/ setup_processes
  \/ \E k \in 1 .. PHASES, d \in 0 .. TASK_DEPTH : Work(k, d)
  \/ schedule
  \/ irq

Spec == Init /\ [][Next]_vars

(* A task is a loop around printf, which returns, and int 0x80: every      *)
(* running task yields again.                                              *)
FairSpec == Spec /\ WF_vars(schedule)

-----------------------------------------------------------------------------
(* Properties.                                                             *)

Pointers == {StackPtr(t, i) : t \in Task, i \in 0 .. TOP}
Resumes  == {Resume(t, k) : t \in Task, k \in 0 .. PHASES}
Word ==
  {<<r, t, k>> : r \in Register \cup {"local"}, t \in Task, k \in 1 .. PHASES}
    \cup Pointers \cup Resumes
    \cup {Junk, StubReturn, Selector("cs"), Selector("rflags"), Selector("ss")}

(* Every variable has its type: registers and stacks hold words, the       *)
(* program counter is one of a task's, and no stack pointer, in the        *)
(* processor or in a task, leaves the stacks.                              *)
TypeOK ==
  /\ current_task \in Task \cup {NULL}
  /\ next_task \in [Task -> Task \cup {NULL}]
  /\ tasks \in SUBSET Task
  /\ stack \in [Task -> [0 .. TOP -> Word]]
  /\ saved_rsp \in [Task -> Pointers \cup {Junk}]
  /\ regs \in [Register -> Word]
  /\ rip \in Resumes \cup {Junk}
  /\ rsp \in Pointers \cup {Junk}
  /\ rip1 \in {Junk, StubReturn}
  /\ mode \in {"boot", "running", "fault", "hung"}

(* Every task that was added, and no other, is on the list, once: the walk *)
(* of schedule() from current_task meets them all and comes to an end.     *)
ListOK ==
  /\ (current_task = NULL) <=> (tasks = {})
  /\ current_task # NULL =>
       /\ Reach(next_task, current_task) = tasks
       /\ \E last \in tasks : Ends(next_task, current_task) = {last}
       /\ \A x \in tasks : next_task[x] # current_task
       /\ \A x, y \in tasks :
            next_task[x] # NULL /\ next_task[x] = next_task[y] => x = y

(* No walk of the list is without end, and from the first switch on the    *)
(* scheduler never stops the kernel: no jump to an address that is not the *)
(* stub's, no iretq from words that are not a frame.  Of the time before   *)
(* the first switch, when the loader may fault, it says only that schedule *)
(* and the add_ functions do not hang.                                     *)
KeepsGoing == mode # "hung" /\ (rsp # Junk => mode = "running")

(* The list as a sequence.  The tasks ahead of x are those a walk from x    *)
(* does not meet.                                                          *)
Ahead(x) == tasks \ Reach(next_task, x)
Place == [x \in tasks |-> Cardinality(Ahead(x)) + 1]
Queue ==
  LET place == Place
  IN  [i \in 1 .. Cardinality(tasks) |-> CHOOSE x \in tasks : place[x] = i]

(* What task t sees of the machine, or will see when it runs next.         *)
View(r, ip, sp, stk) ==
  <<r, ip, sp, [i \in sp[3] .. TOP |-> stk[i]]>>

Context(t) ==
  IF t \notin tasks THEN NULL
  ELSE IF mode = "running" /\ t = current_task
  THEN View([i \in DOMAIN PopOrder |-> regs[PopOrder[i]]], rip, rsp, stack[rsp[2]])
  ELSE LET p == saved_rsp[t]
           word(i) == stack[p[2]][p[3] + i]
           n == Len(PopOrder)
       IN  View([i \in DOMAIN PopOrder |-> word(i - 1)], word(n), word(n + 3), stack[t])

(* Switching is transparent: whatever the order in which tasks yield and   *)
(* interrupts arrive, a task resumes with the registers (rbp apart, which  *)
(* the stub does not save), the program counter, the stack pointer and the *)
(* stack it yielded with, and tasks run strictly in turn.                  *)
RR == INSTANCE RoundRobin WITH
        queue <- Queue, running <- mode = "running",
        context <- [t \in Task |-> Context(t)]

ImplementsRoundRobin == RR!RRSpec

(* Every task of the list runs again and again.                            *)
EveryTaskRuns ==
  \A t \in Task : [](mode = "running" /\ t \in tasks => <>(rip[2] = t))

=============================================================================
