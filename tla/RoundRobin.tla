----------------------------- MODULE RoundRobin -----------------------------
(***************************************************************************)
(* What a cooperative scheduler promises: tasks take the processor in      *)
(* turn, and each sees a machine nobody else touches.  A task's context is *)
(* its registers, its program counter and its stack; only the task at the  *)
(* head of the queue changes its context, and yielding changes none.       *)
(* Sched, the code of sys/process.c and sys/isr.s, implements it.          *)
(***************************************************************************)
EXTENDS Sequences

CONSTANT Task
VARIABLES
  queue,     \* the tasks in the order they run; the head is next or running
  context,   \* what each task sees of the machine
  running    \* whether the scheduler has started

rrvars == <<queue, context, running>>

OnlyContextOf(t) == \A u \in Task \ {t} : context'[u] = context[u]

RRInit ==
  /\ queue = <<>>
  /\ running = FALSE

Enter(t) ==
  /\ ~running
  /\ \A i \in DOMAIN queue : queue[i] # t
  /\ queue' = Append(queue, t)
  /\ OnlyContextOf(t)
  /\ UNCHANGED running

Start ==
  /\ ~running
  /\ queue # <<>>
  /\ running' = TRUE
  /\ UNCHANGED <<queue, context>>

Compute ==
  /\ running
  /\ OnlyContextOf(Head(queue))
  /\ UNCHANGED <<queue, running>>

Yield ==
  /\ running
  /\ queue' = Append(Tail(queue), Head(queue))
  /\ UNCHANGED <<context, running>>

RRNext == Start \/ Compute \/ Yield \/ \E t \in Task : Enter(t)

RRSpec == RRInit /\ [][RRNext]_rrvars

=============================================================================
