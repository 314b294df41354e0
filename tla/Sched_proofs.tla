---------------------------- MODULE Sched_proofs ----------------------------
(***************************************************************************)
(* Proofs about Sched for every number of tasks, every depth of their      *)
(* stacks and whatever kmalloc's memory held: the list of tasks stays a    *)
(* list of exactly the tasks that were added, the scheduler never stops    *)
(* the kernel, and it implements RoundRobin.                               *)
(*                                                                         *)
(* The invariant has a part for each kind of state:                        *)
(*   LInv      the list is what ListOK says;                               *)
(*   QueueInv  its tasks have a first, a second, ... up to the last place, *)
(*             so that Queue is a sequence of them;                        *)
(*   StackInv  the processor runs the head of the list on its own stack,   *)
(*             and every other task has a frame iretq accepts.             *)
(* Reach(n, s) is defined by the sets closed under n, so the proofs about  *)
(* the list exhibit closed sets and use no induction.                      *)
(***************************************************************************)
EXTENDS Sched, FiniteSetTheorems, TLAPS

Closed(n, S) == \A y \in S : n[y] # NULL => n[y] \in S

ListType ==
  /\ current_task \in Task \cup {NULL}
  /\ next_task \in [Task -> Task \cup {NULL}]
  /\ tasks \in SUBSET Task

(* The part of the inductive invariant about the list.                     *)
LInv ==
  /\ ListType
  /\ ListOK
  /\ mode = "running" => current_task # NULL

-----------------------------------------------------------------------------
(* Reachability.                                                           *)

(* A node is reached from itself.                                          *)
LEMMA ReachStart ==
  ASSUME NEW n, NEW s \in Task
  PROVE  s \in Reach(n, s)
BY DEF Reach

(* What is reached stays within every closed set around the start.         *)
LEMMA ReachWithin ==
  ASSUME NEW n, NEW s, NEW S \in SUBSET Task, s \in S, Closed(n, S)
  PROVE  Reach(n, s) \subseteq S
<1> SUFFICES ASSUME NEW x \in Reach(n, s), x \notin S PROVE FALSE
  OBVIOUS
<1>1. S \in SUBSET (Task \ {x})
  OBVIOUS
<1>2. QED
  BY <1>1 DEF Reach, Closed

(* A set is reached if every closed set around the start contains it.      *)
LEMMA ReachContains ==
  ASSUME NEW n, NEW s, NEW X \in SUBSET Task,
         \A S \in SUBSET Task : s \in S /\ Closed(n, S) => X \subseteq S
  PROVE  X \subseteq Reach(n, s)
<1> SUFFICES ASSUME NEW x \in X, NEW S \in SUBSET (Task \ {x}), s \in S,
                    \A y \in S : n[y] \in S \cup {NULL}
             PROVE  FALSE
  BY DEF Reach
<1>1. Closed(n, S) /\ S \in SUBSET Task
  BY DEF Closed
<1>2. QED
  BY <1>1

(* What is reached is closed.                                              *)
LEMMA ReachClosed ==
  ASSUME NEW n \in [Task -> Task \cup {NULL}], NEW s
  PROVE  Closed(n, Reach(n, s))
<1> SUFFICES ASSUME NEW y \in Reach(n, s), n[y] # NULL
             PROVE  n[y] \in Reach(n, s)
  BY DEF Closed
<1>1. n[y] \in Task
  BY DEF Reach
<1>2. ASSUME NEW S \in SUBSET (Task \ {n[y]}), s \in S,
             \A z \in S : n[z] \in S \cup {NULL}
      PROVE  FALSE
  <2>1. y \notin S
    BY <1>2
  <2>2. S \in SUBSET (Task \ {y})
    BY <1>2, <2>1
  <2>3. QED
    BY <1>2, <2>2 DEF Reach
<1>3. QED
  BY <1>1, <1>2 DEF Reach

-----------------------------------------------------------------------------
(* The two changes of the list.                                            *)

(* Appending a new task leaves a list with that task at its end.           *)
LEMMA LinkedListOK ==
  ASSUME ListType, ListOK, NEW t \in Task, t \notin tasks, Linked(t)
  PROVE  ListType' /\ ListOK' /\ current_task' # NULL
<1> USE SchedParameters DEF ListType
<1>1. CASE current_task = NULL
  <2>1. tasks' = {t} /\ current_task' = t /\ next_task' = [next_task EXCEPT ![t] = NULL]
    BY <1>1 DEF Linked, ListOK
  <2>2. next_task' \in [Task -> Task \cup {NULL}] /\ next_task'[t] = NULL
    BY <2>1
  <2>3. Reach(next_task', t) = {t}
    <3>1. Closed(next_task', {t})
      BY <2>2 DEF Closed
    <3>2. QED
      BY <3>1, ReachStart, ReachWithin
  <2>4. Ends(next_task', t) = {t}
    BY <2>2, <2>3 DEF Ends
  <2>5. t # NULL /\ next_task'[t] # t
    BY <2>2
  <2>6. /\ Reach(next_task', current_task') = tasks'
        /\ \E last \in tasks' : Ends(next_task', current_task') = {last}
    BY <2>1, <2>3, <2>4
  <2>7. /\ \A x \in tasks' : next_task'[x] # current_task'
        /\ \A x, y \in tasks' :
             next_task'[x] # NULL /\ next_task'[x] = next_task'[y] => x = y
    BY <2>1, <2>2, <2>5
  <2>8. (current_task' = NULL) <=> (tasks' = {})
    BY <2>1, <2>5
  <2>9. ListOK'
    BY <2>6, <2>7, <2>8 DEF ListOK
  <2>10. QED
    BY <2>1, <2>2, <2>5, <2>9
<1>2. CASE current_task # NULL
  <2>1. PICK last \in tasks : Ends(next_task, current_task) = {last}
    BY <1>2 DEF ListOK
  <2>2. LastOf(next_task, current_task) = last
    BY <2>1 DEF LastOf
  <2>3. /\ tasks' = tasks \cup {t} /\ current_task' = current_task
        /\ next_task' = [next_task EXCEPT ![last] = t, ![t] = NULL]
    BY <1>2, <2>2 DEF Linked
  <2>4. last \in Task /\ last # t /\ next_task[last] = NULL
    BY <2>1 DEF Ends
  <2>5. /\ next_task' \in [Task -> Task \cup {NULL}]
        /\ next_task'[last] = t /\ next_task'[t] = NULL
        /\ \A y \in tasks \ {last} : next_task'[y] = next_task[y]
    BY <2>3, <2>4
  <2>6. /\ current_task \in tasks
        /\ Closed(next_task, tasks)
    BY <1>2, ReachStart, ReachClosed DEF ListOK
  <2>7. Reach(next_task', current_task) = tasks \cup {t}
    <3>1. Closed(next_task', tasks \cup {t})
      BY <2>5, <2>6 DEF Closed
    <3>2. Reach(next_task', current_task) \subseteq tasks \cup {t}
      BY <2>6, <3>1, ReachWithin
    <3>3. ASSUME NEW S \in SUBSET Task, current_task \in S, Closed(next_task', S)
          PROVE  tasks \cup {t} \subseteq S
      <4>1. Closed(next_task, S \cap tasks)
        BY <2>1, <2>4, <2>5, <2>6, <3>3 DEF Closed
      <4>2. Reach(next_task, current_task) \subseteq S \cap tasks
        BY <2>6, <3>3, <4>1, ReachWithin
      <4>3. tasks \subseteq S
        BY <1>2, <4>2 DEF ListOK
      <4>4. t \in S
        BY <2>1, <2>5, <3>3, <4>3 DEF Closed
      <4>5. QED
        BY <4>3, <4>4
    <3>4. tasks \cup {t} \subseteq Reach(next_task', current_task)
      BY <3>3, ReachContains
    <3>5. QED
      BY <3>2, <3>4
  <2>8. Ends(next_task', current_task) = {t}
    <3>1. \A y \in tasks \ {last} : next_task[y] # NULL
      BY <1>2, <2>1 DEF ListOK, Ends
    <3>2. QED
      BY <2>5, <2>7, <3>1 DEF Ends
  <2>9. \A x \in tasks' : next_task'[x] # current_task'
    BY <1>2, <2>3, <2>5, <2>6 DEF ListOK
  <2>10. ASSUME NEW x \in tasks', NEW y \in tasks',
                next_task'[x] # NULL, next_task'[x] = next_task'[y]
         PROVE  x = y
    <3>1. \A z \in tasks \ {last} : next_task'[z] # t
      BY <2>5, <2>6 DEF Closed
    <3>2. x # t /\ y # t
      BY <2>5, <2>10
    <3>3. CASE x = last \/ y = last
      BY <2>3, <2>5, <2>10, <3>1, <3>2, <3>3
    <3>4. CASE x # last /\ y # last
      BY <1>2, <2>3, <2>5, <2>10, <3>2, <3>4 DEF ListOK
    <3>5. QED
      BY <3>3, <3>4
  <2>11. current_task' # NULL /\ tasks' # {}
    BY <1>2, <2>3
  <2>12. /\ Reach(next_task', current_task') = tasks'
         /\ \E z \in tasks' : Ends(next_task', current_task') = {z}
    BY <2>3, <2>7, <2>8
  <2>13. ListOK'
    BY <2>9, <2>10, <2>11, <2>12 DEF ListOK
  <2>14. QED
    BY <2>3, <2>5, <2>11, <2>13
<1>3. QED
  BY <1>1, <1>2

(* Rotating the list keeps its tasks; the old head is its new end.         *)
LEMMA RotatedListOK ==
  ASSUME ListType, ListOK, current_task # NULL, Rotated
  PROVE  ListType' /\ ListOK' /\ current_task' # NULL
<1> USE SchedParameters DEF ListType
<1>1. PICK last \in tasks : Ends(next_task, current_task) = {last}
  BY DEF ListOK
<1>2. LastOf(next_task, current_task) = last
  BY <1>1 DEF LastOf
<1> DEFINE linked == [next_task EXCEPT ![last] = current_task]
<1>3. /\ current_task' = linked[current_task]
      /\ next_task' = [linked EXCEPT ![current_task] = NULL]
      /\ tasks' = tasks
  BY <1>2 DEF Rotated
<1>4. last \in Task /\ current_task \in Task /\ next_task[last] = NULL
  BY <1>1 DEF Ends
<1>5. current_task \in tasks /\ Closed(next_task, tasks)
  BY <1>4, ReachStart, ReachClosed DEF ListOK
<1>6. CASE current_task = last
  <2>1. current_task' = current_task
    BY <1>3, <1>4, <1>6
  <2>2. next_task' = next_task
    BY <1>3, <1>4, <1>6
  <2>3. QED
    BY <1>3, <2>1, <2>2 DEF ListOK
<1>7. CASE current_task # last
  <2>1. /\ next_task' \in [Task -> Task \cup {NULL}]
        /\ next_task'[last] = current_task /\ next_task'[current_task] = NULL
        /\ \A y \in tasks \ {last, current_task} : next_task'[y] = next_task[y]
        /\ current_task' = next_task[current_task]
    BY <1>3, <1>4, <1>7
  <2>2. \A y \in tasks \ {last} : next_task[y] # NULL
    BY <1>1 DEF ListOK, Ends
  <2>3. current_task' \in tasks
    BY <1>5, <1>7, <2>1, <2>2 DEF Closed
  <2>4. Reach(next_task', current_task') = tasks
    <3>1. Closed(next_task', tasks)
      BY <1>5, <2>1 DEF Closed
    <3>2. Reach(next_task', current_task') \subseteq tasks
      BY <2>3, <3>1, ReachWithin
    <3>3. ASSUME NEW S \in SUBSET Task, current_task' \in S, Closed(next_task', S)
          PROVE  tasks \subseteq S
      <4> DEFINE S2 == (S \cap tasks) \cup {current_task}
      <4>1. Closed(next_task, S2)
        <5>1. ASSUME NEW y \in S2, next_task[y] # NULL PROVE next_task[y] \in S2
          <6>1. y \in tasks /\ next_task[y] \in tasks
            BY <1>5, <5>1 DEF Closed
          <6>2. CASE y = current_task
            BY <2>1, <2>3, <3>3, <6>2
          <6>3. CASE y # current_task
            <7>1. y # last /\ y \in S
              BY <1>4, <5>1, <6>3
            <7>2. next_task'[y] = next_task[y]
              BY <2>1, <6>1, <6>3, <7>1
            <7>3. next_task[y] \in S
              BY <3>3, <5>1, <7>1, <7>2 DEF Closed
            <7>4. QED
              BY <6>1, <7>3
          <6>4. QED
            BY <6>2, <6>3
        <5>2. QED
          BY <5>1 DEF Closed
      <4>2. Reach(next_task, current_task) \subseteq S2
        BY <1>4, <4>1, ReachWithin
      <4>3. tasks \ {current_task} \subseteq S
        BY <4>2 DEF ListOK
      <4>4. current_task \in S
        BY <1>1, <1>4, <1>7, <2>1, <3>3, <4>3 DEF Closed
      <4>5. QED
        BY <4>3, <4>4
    <3>4. QED
      BY <3>2, <3>3, ReachContains
  <2>5. Ends(next_task', current_task') = {current_task}
    BY <1>4, <1>5, <2>1, <2>2, <2>4 DEF Ends
  <2>6. \A x \in tasks : next_task[x] # current_task
    BY DEF ListOK
  <2>7. ASSUME NEW x \in tasks PROVE next_task'[x] # current_task'
    <3>1. next_task[current_task] # NULL /\ next_task[current_task] # current_task
      BY <1>5, <1>7, <2>2, <2>6
    <3>2. CASE x = current_task \/ x = last
      BY <2>1, <3>1, <3>2
    <3>3. CASE x # current_task /\ x # last
      BY <1>5, <2>1, <3>1, <3>3 DEF ListOK
    <3>4. QED
      BY <3>2, <3>3
  <2>8. ASSUME NEW x \in tasks, NEW y \in tasks,
               next_task'[x] # NULL, next_task'[x] = next_task'[y]
        PROVE  x = y
    <3>1. x # current_task /\ y # current_task
      BY <2>1, <2>8
    <3>2. CASE x = last \/ y = last
      BY <2>1, <2>6, <2>8, <3>1, <3>2
    <3>3. CASE x # last /\ y # last
      BY <2>1, <2>8, <3>1, <3>3 DEF ListOK
    <3>4. QED
      BY <3>2, <3>3
  <2>9. \E z \in tasks' : Ends(next_task', current_task') = {z}
    BY <1>3, <1>5, <2>5
  <2>10. current_task' # NULL /\ tasks' # {}
    BY <1>3, <2>3
  <2>11. ListOK'
    BY <1>3, <2>4, <2>7, <2>8, <2>9, <2>10 DEF ListOK
  <2>12. QED
    BY <1>3, <2>1, <2>3, <2>10, <2>11
<1>8. QED
  BY <1>6, <1>7

-----------------------------------------------------------------------------
(* The queue.                                                              *)

(* Every task is before the last one, tasks have different numbers of      *)
(* tasks ahead of them, and the numbers have no hole: Queue is what its    *)
(* name says.                                                              *)
QueueInv ==
  /\ IsFiniteSet(tasks)
  /\ \A x, y \in tasks : next_task[y] = NULL => y \in Reach(next_task, x)
  /\ \A x, y \in tasks : Cardinality(Ahead(x)) = Cardinality(Ahead(y)) => x = y
  /\ \A i \in 1 .. Cardinality(tasks) : \E x \in tasks : Cardinality(Ahead(x)) = i - 1

(* A task that is appended is met by every walk that met the last task.    *)
LEMMA ReachLinked ==
  ASSUME NEW n \in [Task -> Task \cup {NULL}], NEW T \in SUBSET Task,
         NEW last \in T, NEW t \in Task \ T, n[last] = NULL, Closed(n, T),
         NEW n2, n2[last] = t, n2[t] = NULL,
         \A y \in T \ {last} : n2[y] = n[y],
         NEW x \in T, last \in Reach(n, x)
  PROVE  Reach(n2, x) = Reach(n, x) \cup {t}
<1>1. Reach(n, x) \subseteq T /\ x \in Reach(n, x) /\ Closed(n, Reach(n, x))
  BY ReachWithin, ReachStart, ReachClosed
<1>2. Closed(n2, Reach(n, x) \cup {t})
  BY <1>1 DEF Closed
<1>3. Reach(n2, x) \subseteq Reach(n, x) \cup {t}
  BY <1>1, <1>2, ReachWithin
<1>4. ASSUME NEW S \in SUBSET Task, x \in S, Closed(n2, S)
      PROVE  Reach(n, x) \cup {t} \subseteq S
  <2>1. Closed(n, S \cap Reach(n, x))
    BY <1>1, <1>4 DEF Closed
  <2>2. Reach(n, x) \subseteq S
    BY <1>1, <1>4, <2>1, ReachWithin
  <2>3. t \in S
    BY <1>4, <2>2, SchedParameters DEF Closed
  <2>4. QED
    BY <2>2, <2>3
<1>5. Reach(n, x) \cup {t} \subseteq Reach(n2, x)
  <2>1. Reach(n, x) \cup {t} \in SUBSET Task
    BY <1>1
  <2>2. QED
    BY <1>4, <2>1, ReachContains
<1>6. QED
  BY <1>3, <1>5

(* The walk from the last task meets no other.                             *)
LEMMA ReachFromLast ==
  ASSUME NEW n, NEW t \in Task, n[t] = NULL
  PROVE  Reach(n, t) = {t}
<1>1. Closed(n, {t})
  BY DEF Closed
<1>2. QED
  BY <1>1, ReachStart, ReachWithin

(* No walk but its own meets the head; once it is last, every walk does.   *)
LEMMA ReachRotated ==
  ASSUME NEW n \in [Task -> Task \cup {NULL}], NEW T \in SUBSET Task,
         NEW last \in T, NEW h \in T, n[last] = NULL, Closed(n, T),
         \A y \in T : n[y] # h,
         NEW n2, n2[last] = h, n2[h] = NULL,
         \A y \in T \ {last, h} : n2[y] = n[y],
         NEW x \in T \ {h}, last \in Reach(n, x)
  PROVE  /\ h \notin Reach(n, x)
         /\ Reach(n2, x) = Reach(n, x) \cup {h}
<1>1. Reach(n, x) \subseteq T /\ x \in Reach(n, x) /\ Closed(n, Reach(n, x))
  BY ReachWithin, ReachStart, ReachClosed
<1>2. h \notin Reach(n, x)
  <2>1. Closed(n, Reach(n, x) \ {h})
    BY <1>1 DEF Closed
  <2>2. QED
    BY <1>1, <2>1, ReachWithin
<1>3. Closed(n2, Reach(n, x) \cup {h})
  BY <1>1 DEF Closed
<1>4. Reach(n2, x) \subseteq Reach(n, x) \cup {h}
  BY <1>1, <1>3, ReachWithin
<1>5. ASSUME NEW S \in SUBSET Task, x \in S, Closed(n2, S)
      PROVE  Reach(n, x) \cup {h} \subseteq S
  <2>1. Closed(n, S \cap Reach(n, x))
    BY <1>1, <1>2, <1>5 DEF Closed
  <2>2. Reach(n, x) \subseteq S
    BY <1>1, <1>5, <2>1, ReachWithin
  <2>3. h \in S
    BY <1>5, <2>2, SchedParameters DEF Closed
  <2>4. QED
    BY <2>2, <2>3
<1>6. Reach(n, x) \cup {h} \subseteq Reach(n2, x)
  <2>1. Reach(n, x) \cup {h} \in SUBSET Task
    BY <1>1
  <2>2. QED
    BY <1>5, <2>1, ReachContains
<1>7. QED
  BY <1>2, <1>4, <1>6

(* The number of tasks ahead of a task.                                    *)
LEMMA AheadSize ==
  ASSUME ListType, IsFiniteSet(tasks), NEW x \in tasks
  PROVE  /\ IsFiniteSet(Ahead(x)) /\ Cardinality(tasks) \in Nat
         /\ Cardinality(Ahead(x)) \in 0 .. Cardinality(tasks) - 1
<1>1. x \in Reach(next_task, x)
  BY ReachStart DEF ListType
<1>2. Ahead(x) \in SUBSET tasks /\ Ahead(x) # tasks
  BY <1>1 DEF Ahead
<1>3. IsFiniteSet(Ahead(x)) /\ Cardinality(Ahead(x)) <= Cardinality(tasks)
      /\ Cardinality(Ahead(x)) # Cardinality(tasks)
  BY <1>2, FS_Subset
<1>4. QED
  BY <1>3, FS_CardinalityType

(* The task with i - 1 tasks ahead of it is the i-th of the queue.         *)
QueueByPlace ==
  \A i \in 1 .. Cardinality(tasks), x \in tasks :
    Cardinality(Ahead(x)) = i - 1 => Queue[i] = x

LEMMA QueueAt == ListType /\ QueueInv => QueueByPlace
<1> SUFFICES ASSUME ListType, QueueInv, NEW i \in 1 .. Cardinality(tasks),
                    NEW x \in tasks, Cardinality(Ahead(x)) = i - 1
             PROVE  Queue[i] = x
  BY DEF QueueByPlace
<1>1. \A y \in tasks : Cardinality(Ahead(y)) + 1 = i <=> y = x
  BY AheadSize DEF QueueInv
<1>2. \A y \in tasks : Place[y] = i <=> y = x
  BY <1>1 DEF Place
<1>3. (CHOOSE y \in tasks : Place[y] = i) = x
  BY <1>2
<1>4. QED
  BY <1>3 DEF Queue

(* The queue is a sequence of the tasks.                                   *)
LEMMA QueueIsSeq ==
  ListType /\ QueueInv =>
    /\ Queue \in Seq(tasks) /\ Len(Queue) = Cardinality(tasks)
    /\ Cardinality(tasks) \in Nat
<1> SUFFICES ASSUME ListType, QueueInv
             PROVE  /\ Queue \in Seq(tasks) /\ Len(Queue) = Cardinality(tasks)
                    /\ Cardinality(tasks) \in Nat
  OBVIOUS
<1>1. Cardinality(tasks) \in Nat
  BY FS_CardinalityType DEF QueueInv
<1>2. ASSUME NEW i \in 1 .. Cardinality(tasks)
      PROVE  (CHOOSE x \in tasks : Place[x] = i) \in tasks
  <2>1. PICK x \in tasks : Cardinality(Ahead(x)) = i - 1
    BY DEF QueueInv
  <2>2. Place[x] = i
    BY <2>1 DEF Place
  <2>3. QED
    BY <2>2
<1>3. Queue \in [1 .. Cardinality(tasks) -> tasks]
  BY <1>2 DEF Queue
<1>4. QED
  BY <1>1, <1>3

(* The head is the first of the queue.                                     *)
LEMMA QueueHead ==
  ASSUME ListType, ListOK, QueueInv, current_task # NULL
  PROVE  Queue # <<>> /\ Head(Queue) = current_task
<1>1. current_task \in tasks
  BY ReachStart DEF ListOK, ListType
<1>2. Ahead(current_task) = {}
  BY DEF Ahead, ListOK
<1>3. Cardinality(Ahead(current_task)) = 1 - 1
  BY <1>2, FS_EmptySet
<1>4. 1 \in 1 .. Cardinality(tasks)
  BY <1>1, <1>3, AheadSize DEF QueueInv
<1>5. Queue[1] = current_task
  BY <1>1, <1>3, <1>4, QueueAt DEF QueueByPlace
<1>6. QED
  BY <1>4, <1>5, QueueIsSeq

(* A task that is added goes behind the others.                            *)
LEMMA LinkedQueue ==
  ASSUME ListType, ListOK, QueueInv, NEW t \in Task, t \notin tasks, Linked(t)
  PROVE  QueueInv' /\ Queue' = Append(Queue, t)
<1> USE SchedParameters
<1> DEFINE size == Cardinality(tasks)
<1>1. ListType' /\ ListOK' /\ current_task' # NULL
  BY LinkedListOK
<1>2. tasks' = tasks \cup {t} /\ size \in Nat /\ IsFiniteSet(tasks')
      /\ Cardinality(tasks') = size + 1
  BY FS_AddElement, FS_CardinalityType DEF QueueInv, Linked
<1>3. /\ \A x \in tasks : Reach(next_task', x) = Reach(next_task, x) \cup {t}
      /\ Reach(next_task', t) = {t}
      /\ \A x \in tasks : next_task'[x] # NULL
  <2>1. CASE current_task = NULL
    <3>1. tasks = {} /\ next_task' = [next_task EXCEPT ![t] = NULL]
      BY <2>1 DEF ListOK, Linked
    <3>2. next_task'[t] = NULL
      BY <3>1 DEF ListType
    <3>3. QED
      BY <3>1, <3>2, ReachFromLast
  <2>2. CASE current_task # NULL
    <3>1. PICK last \in tasks : Ends(next_task, current_task) = {last}
      BY <2>2 DEF ListOK
    <3>2. last \in Task /\ next_task[last] = NULL
      BY <3>1 DEF Ends, ListType
    <3>3. next_task' = [next_task EXCEPT ![last] = t, ![t] = NULL]
      BY <2>2, <3>1 DEF Linked, LastOf
    <3>4. current_task \in Task /\ Closed(next_task, tasks)
      BY <2>2, ReachClosed DEF ListOK, ListType
    <3>5. \A x \in tasks : last \in Reach(next_task, x)
      BY <3>2 DEF QueueInv
    <3>6. next_task'[t] = NULL /\ next_task'[last] = t
          /\ \A x \in tasks \ {last} : next_task'[x] = next_task[x]
      BY <3>2, <3>3 DEF ListType
    <3>7. ASSUME NEW x \in tasks
          PROVE  Reach(next_task', x) = Reach(next_task, x) \cup {t}
      BY <3>1, <3>2, <3>4, <3>5, <3>6, ReachLinked DEF ListType
    <3>8. Reach(next_task', t) = {t}
      BY <3>6, ReachFromLast
    <3>9. \A x \in tasks \ {last} : next_task[x] # NULL
      BY <2>2, <3>1 DEF ListOK, Ends
    <3>10. QED
      BY <3>6, <3>7, <3>8, <3>9
  <2>3. QED
    BY <2>1, <2>2
<1>4. /\ \A x \in tasks : Ahead(x)' = Ahead(x)
      /\ Ahead(t)' = tasks
  BY <1>2, <1>3 DEF Ahead
<1>5. \A x \in tasks : Cardinality(Ahead(x)) \in 0 .. size - 1
  BY AheadSize DEF QueueInv
<1>6. QueueInv'
  <2>1. \A x, y \in tasks' : next_task'[y] = NULL => y \in Reach(next_task', x)
    BY <1>2, <1>3
  <2>2. ASSUME NEW x \in tasks', NEW y \in tasks',
               Cardinality(Ahead(x)') = Cardinality(Ahead(y)')
        PROVE  x = y
    BY <1>2, <1>4, <1>5, <2>2 DEF QueueInv
  <2>3. ASSUME NEW i \in 1 .. Cardinality(tasks')
        PROVE  \E x \in tasks' : Cardinality(Ahead(x)') = i - 1
    <3>1. CASE i = size + 1
      BY <1>2, <1>4, <3>1
    <3>2. CASE i \in 1 .. size
      <4>1. PICK x \in tasks : Cardinality(Ahead(x)) = i - 1
        BY <3>2 DEF QueueInv
      <4>2. QED
        BY <1>2, <1>4, <4>1
    <3>3. QED
      BY <1>2, <3>1, <3>2
  <2>4. QED
    BY <1>2, <2>1, <2>2, <2>3 DEF QueueInv
<1>7. /\ Queue' \in Seq(tasks') /\ Len(Queue') = size + 1
      /\ Queue \in Seq(tasks) /\ Len(Queue) = size
  <2>1. (ListType /\ QueueInv =>
           /\ Queue \in Seq(tasks) /\ Len(Queue) = Cardinality(tasks)
           /\ Cardinality(tasks) \in Nat)'
    BY QueueIsSeq, PTL
  <2>2. QED
    BY <1>1, <1>2, <1>6, <2>1, QueueIsSeq
<1>8. ASSUME NEW i \in 1 .. size + 1
      PROVE  Queue'[i] = Append(Queue, t)[i]
  <2>1. QueueByPlace'
    BY <1>1, <1>6, QueueAt, PTL
  <2>2. CASE i = size + 1
    <3>1. t \in tasks' /\ i \in 1 .. Cardinality(tasks') /\ Cardinality(Ahead(t)') = i - 1
      BY <1>2, <1>4, <2>2
    <3>2. Queue'[i] = t
      BY <2>1, <3>1 DEF QueueByPlace
    <3>3. Append(Queue, t)[i] = t
      BY <1>7, <2>2
    <3>4. QED
      BY <3>2, <3>3
  <2>3. CASE i \in 1 .. size
    <3>1. PICK x \in tasks : Cardinality(Ahead(x)) = i - 1
      BY <2>3 DEF QueueInv
    <3>2. Queue[i] = x
      BY <2>3, <3>1, QueueAt DEF QueueByPlace
    <3>3. Queue'[i] = x
      BY <1>2, <1>4, <2>1, <2>3, <3>1 DEF QueueByPlace
    <3>4. QED
      BY <1>7, <2>3, <3>2, <3>3
  <2>4. i = size + 1 \/ i \in 1 .. size
    BY <1>2
  <2>5. QED
    BY <2>2, <2>3, <2>4
<1>9. QED
  BY <1>2, <1>6, <1>7, <1>8

(* schedule() moves the first of the queue to its end.                     *)
LEMMA RotatedQueue ==
  ASSUME ListType, ListOK, QueueInv, current_task # NULL, Rotated
  PROVE  QueueInv' /\ Queue' = Append(Tail(Queue), Head(Queue))
<1> DEFINE size == Cardinality(tasks)
<1>0. PICK head \in tasks : head = current_task
  BY ReachStart DEF ListOK, ListType
<1>1. ListType' /\ ListOK' /\ current_task' # NULL
  BY RotatedListOK
<1>2. PICK last \in tasks : Ends(next_task, head) = {last}
  BY <1>0 DEF ListOK
<1>3. /\ head \in Task /\ head \in tasks /\ last \in Task /\ next_task[last] = NULL
      /\ Closed(next_task, tasks) /\ tasks' = tasks
      /\ \A y \in tasks : next_task[y] # head
      /\ \A y \in tasks \ {last} : next_task[y] # NULL
  BY <1>0, <1>2, ReachStart, ReachClosed DEF ListOK, ListType, Ends, Rotated
<1>4. next_task' = [[next_task EXCEPT ![last] = head] EXCEPT ![head] = NULL]
  BY <1>0, <1>2 DEF Rotated, LastOf
<1>5. /\ next_task'[head] = NULL /\ (last # head => next_task'[last] = head)
      /\ \A y \in tasks \ {last, head} : next_task'[y] = next_task[y]
  BY <1>3, <1>4 DEF ListType
<1>6. Reach(next_task', head) = {head}
  BY <1>3, <1>5, ReachFromLast
<1>7. ASSUME NEW x \in tasks \ {head}
      PROVE  /\ head \notin Reach(next_task, x)
             /\ Reach(next_task', x) = Reach(next_task, x) \cup {head}
  <2>1. last \in Reach(next_task, x)
    BY <1>2, <1>3 DEF QueueInv
  <2>2. last # head
    <3>1. CASE last = head
      <4>1. Reach(next_task, head) = {head}
        BY <1>3, <3>1, ReachFromLast
      <4>2. QED
        BY <1>0, <1>7, <4>1 DEF ListOK
    <3>2. QED
      BY <3>1
  <2>3. next_task'[last] = head
    BY <1>5, <2>2
  <2>4. next_task \in [Task -> Task \cup {NULL}] /\ tasks \in SUBSET Task
    BY DEF ListType
  <2>5. QED
    BY <1>2, <1>3, <1>5, <2>1, <2>3, <2>4, ReachRotated
<1>8. /\ Ahead(head)' = tasks \ {head} /\ Ahead(head) = {}
      /\ \A x \in tasks \ {head} : head \in Ahead(x) /\ Ahead(x)' = Ahead(x) \ {head}
  BY <1>0, <1>3, <1>6, <1>7 DEF Ahead, ListOK
<1>9. /\ IsFiniteSet(tasks) /\ size \in Nat
      /\ \A x \in tasks : IsFiniteSet(Ahead(x)) /\ Cardinality(Ahead(x)) \in 0 .. size - 1
  BY AheadSize, FS_CardinalityType DEF QueueInv
<1>10. /\ Cardinality(Ahead(head)') = size - 1 /\ Cardinality(Ahead(head)) = 0
       /\ \A x \in tasks \ {head} : Cardinality(Ahead(x)') = Cardinality(Ahead(x)) - 1
  <2>1. Cardinality(tasks \ {head}) = size - 1
    BY <1>0, <1>9, FS_RemoveElement
  <2>2. ASSUME NEW x \in tasks \ {head}
        PROVE  Cardinality(Ahead(x)') = Cardinality(Ahead(x)) - 1
    <3>1. Cardinality(Ahead(x) \ {head}) = Cardinality(Ahead(x)) - 1
      BY <1>8, <1>9, FS_RemoveElement
    <3>2. QED
      BY <1>8, <3>1
  <2>3. QED
    BY <1>8, <2>1, <2>2, FS_EmptySet
<1>11. \A x \in tasks \ {head} : Cardinality(Ahead(x)) \in 1 .. size - 1
  BY <1>3, <1>9, <1>10 DEF QueueInv
<1>12. QueueInv'
  <2>1. \A x, y \in tasks' : next_task'[y] = NULL => y \in Reach(next_task', x)
    <3>1. \A y \in tasks : next_task'[y] = NULL => y = head
      BY <1>3, <1>5, SchedParameters
    <3>2. \A x \in tasks : head \in Reach(next_task', x)
      BY <1>6, <1>7
    <3>3. QED
      BY <1>3, <3>1, <3>2
  <2>2. ASSUME NEW x \in tasks', NEW y \in tasks',
               Cardinality(Ahead(x)') = Cardinality(Ahead(y)')
        PROVE  x = y
    BY <1>3, <1>9, <1>10, <1>11, <2>2 DEF QueueInv
  <2>3. ASSUME NEW i \in 1 .. Cardinality(tasks')
        PROVE  \E x \in tasks' : Cardinality(Ahead(x)') = i - 1
    <3>1. CASE i = size
      BY <1>3, <1>10, <3>1
    <3>2. CASE i # size
      <4>1. PICK x \in tasks : Cardinality(Ahead(x)) = (i + 1) - 1
        BY <1>3, <1>9, <3>2 DEF QueueInv
      <4>2. x # head
        BY <1>10, <4>1
      <4>3. QED
        BY <1>3, <1>10, <4>1, <4>2
    <3>3. QED
      BY <3>1, <3>2
  <2>4. QED
    BY <1>3, <2>1, <2>2, <2>3 DEF QueueInv
<1>13. /\ Queue' \in Seq(tasks) /\ Len(Queue') = size
       /\ Queue \in Seq(tasks) /\ Len(Queue) = size
       /\ Queue # <<>> /\ Head(Queue) = head
  <2>1. (ListType /\ QueueInv =>
           /\ Queue \in Seq(tasks) /\ Len(Queue) = Cardinality(tasks)
           /\ Cardinality(tasks) \in Nat)'
    BY QueueIsSeq, PTL
  <2>2. QED
    BY <1>0, <1>1, <1>3, <1>12, <2>1, QueueIsSeq, QueueHead
<1>14. QueueByPlace /\ QueueByPlace'
  BY <1>1, <1>12, QueueAt, PTL
<1>15. ASSUME NEW i \in 1 .. size
       PROVE  Queue'[i] = Append(Tail(Queue), head)[i]
  <2>1. CASE i = size
    <3>1. Queue'[i] = head
      BY <1>3, <1>10, <1>14, <2>1 DEF QueueByPlace
    <3>2. Append(Tail(Queue), head)[i] = head
      BY <1>3, <1>13, <2>1
    <3>3. QED
      BY <3>1, <3>2
  <2>2. CASE i # size
    <3>1. PICK x \in tasks : Cardinality(Ahead(x)) = (i + 1) - 1
      BY <1>9, <2>2 DEF QueueInv
    <3>2. Queue[i + 1] = x
      BY <1>9, <1>14, <2>2, <3>1 DEF QueueByPlace
    <3>3. x # head /\ Cardinality(Ahead(x)') = i - 1
      BY <1>10, <3>1
    <3>4. Queue'[i] = x
      BY <1>3, <1>14, <3>3 DEF QueueByPlace
    <3>5. Append(Tail(Queue), head)[i] = Queue[i + 1]
      BY <1>3, <1>9, <1>13, <2>2
    <3>6. QED
      BY <3>2, <3>4, <3>5
  <2>3. QED
    BY <2>1, <2>2
<1>16. /\ Append(Tail(Queue), head) \in Seq(tasks)
       /\ Len(Append(Tail(Queue), head)) = size
  BY <1>3, <1>13
<1>17. QED
  BY <1>0, <1>12, <1>13, <1>15, <1>16

-----------------------------------------------------------------------------
(* The stacks.                                                             *)

(* The 19 words from word i of the stack of t take t back to where it      *)
(* yielded: its program counter, selectors iretq accepts, and a pointer    *)
(* into its own stack above the frame.  The last word may lie under that   *)
(* pointer: that of the first frame of a task does.                        *)
Frame(stk, t, i) ==
  /\ \E k \in 0 .. PHASES : stk[t][i + 14] = Resume(t, k)
  /\ stk[t][i + 15] = Selector("cs")
  /\ \E j \in TOP - TASK_DEPTH .. TOP : j >= i + 18 /\ stk[t][i + 17] = StackPtr(t, j)
  /\ stk[t][i + 18] = Selector("ss")

Asleep(t) ==
  \E i \in 4 .. TOP - 18 : saved_rsp[t] = StackPtr(t, i) /\ Frame(stack, t, i)

Awake(t) ==
  /\ \E j \in TOP - TASK_DEPTH .. TOP : rsp = StackPtr(t, j)
  /\ \E k \in 0 .. PHASES : rip = Resume(t, k)

(* The processor runs the head of the list, on its stack and at its        *)
(* program counter; every other task has a frame to resume from.           *)
StackInv ==
  /\ DOMAIN stack = Task
  /\ \A t \in Task : DOMAIN stack[t] = 0 .. TOP
  /\ saved_rsp \in [Task -> Pointers \cup {Junk}]
  /\ DOMAIN regs = Register
  /\ rip1 \in {Junk, StubReturn}
  /\ mode \in {"boot", "running", "fault"}
  /\ mode # "running" => rsp = Junk
  /\ mode = "running" => Awake(current_task)
  /\ \A t \in tasks : (mode = "running" /\ t = current_task) \/ Asleep(t)

(* What the store of n words ws at word i of stack t leaves in memory.     *)
Stored(new, stk, t, i, ws, n) ==
  /\ DOMAIN new = Task /\ DOMAIN new[t] = 0 .. TOP
  /\ \A u \in Task \ {t} : new[u] = stk[u]
  /\ \A x \in 0 .. TOP : x < i \/ x >= i + n => new[t][x] = stk[t][x]
  /\ \A k \in 1 .. n : new[t][i + (k - 1)] = ws[k]

LEMMA StoreAt ==
  ASSUME NEW stk, DOMAIN stk = Task, NEW t \in Task, DOMAIN stk[t] = 0 .. TOP,
         NEW i \in Nat, NEW ws, NEW n \in Nat, Len(ws) = n, i + n <= TOP + 1
  PROVE  Stored(Store(stk, t, i, ws), stk, t, i, ws, n)
<1> DEFINE new == [j \in DOMAIN stk[t] |->
                     IF j \in i .. i + Len(ws) - 1 THEN ws[j - i + 1] ELSE stk[t][j]]
<1>1. Store(stk, t, i, ws) = [stk EXCEPT ![t] = new]
  BY DEF Store
<1>2. DOMAIN new = 0 .. TOP
  OBVIOUS
<1>3. ASSUME NEW x \in 0 .. TOP, x < i \/ x >= i + n
      PROVE  new[x] = stk[t][x]
  <2>1. x \in DOMAIN stk[t] /\ x \notin i .. i + Len(ws) - 1
    BY <1>3 DEF TOP
  <2>2. QED
    BY <2>1, Zenon
<1>4. ASSUME NEW k \in 1 .. n
      PROVE  new[i + (k - 1)] = ws[k]
  <2>1. /\ i + (k - 1) \in 0 .. TOP /\ i + (k - 1) \in i .. i + Len(ws) - 1
        /\ (i + (k - 1)) - i + 1 = k
    BY DEF TOP
  <2>2. QED
    BY <2>1, Zenon
<1> HIDE DEF new
<1>5. QED
  BY <1>1, <1>2, <1>3, <1>4 DEF Stored

(* The order in which registers are popped names 14 registers, each once.  *)
LEMMA PopOrderIsSound ==
  /\ DOMAIN PopOrder = 1 .. 14 /\ Len(PopOrder) = 14
  /\ \A i \in 1 .. 14 : PopOrder[i] \in Saved /\ PopOrder[i] \in Register
  /\ \A i, j \in 1 .. 14 : PopOrder[i] = PopOrder[j] => i = j
<1>1. DOMAIN PopOrder = 1 .. 14 /\ Len(PopOrder) = 14
  BY DEF PopOrder
<1>2. \A i \in 1 .. 14 : PopOrder[i] # "rbp"
  BY DEF PopOrder
<1>3. \A i, j \in 1 .. 14 : PopOrder[i] = PopOrder[j] => i = j
  BY DEF PopOrder
<1>4. QED
  BY <1>1, <1>2, <1>3 DEF Saved, Register

(* The words the processor and the stub push.                              *)
LEMMA PushedWords ==
  ASSUME StackInv, NEW c \in Task, NEW j \in TOP - TASK_DEPTH .. TOP,
         rsp = StackPtr(c, j)
  PROVE  /\ FrameStart \in 4 .. TOP - 19 /\ FrameStart + 18 < j
         /\ DOMAIN Pushed = Task /\ DOMAIN Pushed[c] = 0 .. TOP
         /\ \A u \in Task \ {c} : Pushed[u] = stack[u]
         /\ \A x \in j .. TOP : Pushed[c][x] = stack[c][x]
         /\ Pushed[c][FrameStart - 1] = StubReturn
         /\ \A x \in 1 .. 14 : Pushed[c][FrameStart + (x - 1)] = regs[PopOrder[x]]
         /\ Pushed[c][FrameStart + 14] = rip
         /\ Pushed[c][FrameStart + 15] = Selector("cs")
         /\ Pushed[c][FrameStart + 17] = rsp
         /\ Pushed[c][FrameStart + 18] = Selector("ss")
<1>1. rsp[2] = c /\ rsp[3] = j /\ j \in 23 .. TOP
  BY SchedParameters DEF StackPtr, TOP
<1>2. FrameStart \in 4 .. TOP - 19 /\ FrameStart + 18 < j
  BY <1>1, PopOrderIsSound DEF FrameStart, Align, TOP
<1> DEFINE F == FrameStart
           words == [i \in DOMAIN PopOrder |-> regs[PopOrder[i]]]
           framed == Store(stack, c, F + 14, IretFrame(rip, rsp))
           saved == Store(framed, c, F, words)
<1>3. /\ DOMAIN framed = Task /\ DOMAIN framed[c] = 0 .. TOP
      /\ \A u \in Task \ {c} : framed[u] = stack[u]
      /\ \A x \in j .. TOP : framed[c][x] = stack[c][x]
      /\ framed[c][F + 14] = rip /\ framed[c][F + 15] = Selector("cs")
      /\ framed[c][F + 17] = rsp /\ framed[c][F + 18] = Selector("ss")
  <2>1. Len(IretFrame(rip, rsp)) = 5
    BY DEF IretFrame
  <2>2. F + 14 \in Nat /\ (F + 14) + 5 <= TOP + 1
    BY <1>2 DEF TOP
  <2>3. DOMAIN stack = Task /\ DOMAIN stack[c] = 0 .. TOP
    BY DEF StackInv
  <2>4. Stored(framed, stack, c, F + 14, IretFrame(rip, rsp), 5)
    BY <2>1, <2>2, <2>3, StoreAt
  <2>5. /\ framed[c][(F + 14) + (1 - 1)] = rip
        /\ framed[c][(F + 14) + (2 - 1)] = Selector("cs")
        /\ framed[c][(F + 14) + (4 - 1)] = rsp
        /\ framed[c][(F + 14) + (5 - 1)] = Selector("ss")
    BY <2>4 DEF IretFrame, Stored
  <2> HIDE DEF framed, F
  <2>6. QED
    BY <1>1, <1>2, <2>4, <2>5 DEF F, TOP, Stored
<1> HIDE DEF framed
<1>4. /\ Len(words) = 14
      /\ \A k \in 1 .. 14 : words[k] = regs[PopOrder[k]]
  BY PopOrderIsSound
<1> HIDE DEF words
<1>5. Stored(saved, framed, c, F, words, 14)
  <2>1. F \in Nat /\ F + 14 <= TOP + 1
    BY <1>2 DEF TOP
  <2>2. QED
    BY <1>3, <1>4, <2>1, StoreAt
<1> HIDE DEF saved
<1>6. Stored(Pushed, saved, c, F - 1, <<StubReturn>>, 1)
  <2>1. Len(<<StubReturn>>) = 1 /\ F - 1 \in Nat /\ (F - 1) + 1 <= TOP + 1
    BY <1>2 DEF TOP
  <2>2. Stored(Store(saved, c, F - 1, <<StubReturn>>), saved, c, F - 1, <<StubReturn>>, 1)
    <3>1. DOMAIN saved = Task /\ DOMAIN saved[c] = 0 .. TOP
      BY <1>5 DEF Stored
    <3> DEFINE call == <<StubReturn>>
               start == F - 1
    <3>2. Len(call) = 1 /\ start \in Nat /\ start + 1 <= TOP + 1
      BY <2>1
    <3> HIDE DEF call, start
    <3>3. Stored(Store(saved, c, start, call), saved, c, start, call, 1)
      BY <3>1, <3>2, StoreAt
    <3>4. QED
      BY <3>3 DEF call, start
  <2>3. Pushed = Store(saved, c, F - 1, <<StubReturn>>)
    BY <1>1, PopOrderIsSound DEF Pushed, saved, framed, words
  <2>4. QED
    BY <2>2, <2>3
<1>7. Pushed[c][FrameStart - 1] = StubReturn
  <2>1. Pushed[c][(F - 1) + (1 - 1)] = <<StubReturn>>[1]
    BY <1>6 DEF Stored
  <2>2. QED
    BY <1>2, <2>1
<1>8. \A x \in 1 .. 14 : Pushed[c][FrameStart + (x - 1)] = regs[PopOrder[x]]
  <2>1. ASSUME NEW x \in 1 .. 14
        PROVE  Pushed[c][F + (x - 1)] = regs[PopOrder[x]]
    <3>1. F + (x - 1) \in 0 .. TOP /\ F + (x - 1) >= (F - 1) + 1
      BY <1>2 DEF TOP
    <3>2. Pushed[c][F + (x - 1)] = saved[c][F + (x - 1)]
      BY <1>6, <3>1 DEF Stored
    <3>3. saved[c][F + (x - 1)] = words[x]
      BY <1>5 DEF Stored
    <3>4. QED
      BY <1>4, <3>2, <3>3
  <2>2. QED
    BY <2>1
<1>9. \A x \in FrameStart + 14 .. TOP : Pushed[c][x] = framed[c][x]
  BY <1>2, <1>5, <1>6 DEF TOP, Stored
<1>10. QED
  <2>1. \A u \in Task \ {c} : Pushed[u] = stack[u]
    BY <1>3, <1>5, <1>6 DEF Stored
  <2>2. DOMAIN Pushed = Task /\ DOMAIN Pushed[c] = 0 .. TOP
    BY <1>6 DEF Stored
  <2> HIDE DEF F
  <2>3. /\ \A x \in j .. TOP : Pushed[c][x] = stack[c][x]
        /\ Pushed[c][FrameStart + 14] = rip
        /\ Pushed[c][FrameStart + 15] = Selector("cs")
        /\ Pushed[c][FrameStart + 17] = rsp
        /\ Pushed[c][FrameStart + 18] = Selector("ss")
    BY <1>1, <1>2, <1>3, <1>9 DEF TOP, F
  <2>4. QED
    BY <1>2, <1>7, <1>8, <2>1, <2>2, <2>3

(* What is popped from a frame.                                            *)
LEMMA PoppedWords ==
  ASSUME NEW stk, NEW t, NEW i \in 4 .. TOP - 18, Frame(stk, t, i),
         Popped(stk, StackPtr(t, i))
  PROVE  /\ mode' = "running" /\ DOMAIN regs' = Register
         /\ \A x \in 1 .. 14 : regs'[PopOrder[x]] = stk[t][i + (x - 1)]
         /\ rip' = stk[t][i + 14] /\ rsp' = stk[t][i + 17]
<1>1. StackPtr(t, i)[2] = t /\ StackPtr(t, i)[3] = i
  BY DEF StackPtr
<1>2. /\ regs' = [r \in Register |->
                    IF r \in Saved
                    THEN stk[t][i + ((CHOOSE x \in DOMAIN PopOrder : PopOrder[x] = r) - 1)]
                    ELSE regs[r]]
      /\ rip' = stk[t][i + Len(PopOrder)]
      /\ rsp' = stk[t][i + (Len(PopOrder) + 3)]
      /\ mode' = IF /\ stk[t][i + (Len(PopOrder) + 1)] = Selector("cs")
                    /\ stk[t][i + (Len(PopOrder) + 4)] = Selector("ss")
                 THEN "running" ELSE "fault"
  BY <1>1 DEF Popped
<1>3. ASSUME NEW x \in 1 .. 14
      PROVE  regs'[PopOrder[x]] = stk[t][i + (x - 1)]
  <2>1. (CHOOSE y \in DOMAIN PopOrder : PopOrder[y] = PopOrder[x]) = x
    BY PopOrderIsSound
  <2>2. QED
    BY <1>2, <2>1, PopOrderIsSound
<1>4. /\ rip' = stk[t][i + 14] /\ rsp' = stk[t][i + 17]
      /\ mode' = IF stk[t][i + 15] = Selector("cs") /\ stk[t][i + 18] = Selector("ss")
                 THEN "running" ELSE "fault"
  <2>1. Len(PopOrder) + 3 = 17 /\ Len(PopOrder) + 1 = 15 /\ Len(PopOrder) + 4 = 18
    BY PopOrderIsSound
  <2>2. QED
    BY <1>2, <2>1, PopOrderIsSound
<1>5. mode' = "running" /\ DOMAIN regs' = Register
  BY <1>2, <1>4 DEF Frame
<1>6. QED
  BY <1>3, <1>4, <1>5

(* What a task sees, read off its frame or off the processor.              *)
FrameContext ==
  \A t \in tasks, i \in 4 .. TOP - 18, j \in TOP - TASK_DEPTH .. TOP :
    /\ ~(mode = "running" /\ t = current_task)
    /\ saved_rsp[t] = StackPtr(t, i) /\ stack[t][i + 17] = StackPtr(t, j)
    => Context(t) = << [x \in 1 .. 14 |-> stack[t][i + (x - 1)]], stack[t][i + 14],
                       stack[t][i + 17], [x \in j .. TOP |-> stack[t][x]] >>

CpuContext ==
  \A t \in tasks, j \in TOP - TASK_DEPTH .. TOP :
    mode = "running" /\ t = current_task /\ rsp = StackPtr(t, j)
    => Context(t) = << [x \in 1 .. 14 |-> regs[PopOrder[x]]], rip, rsp,
                       [x \in j .. TOP |-> stack[t][x]] >>

LEMMA Contexts == FrameContext /\ CpuContext
<1>1. FrameContext
  <2> SUFFICES ASSUME NEW t \in tasks, NEW i \in 4 .. TOP - 18,
                      NEW j \in TOP - TASK_DEPTH .. TOP,
                      ~(mode = "running" /\ t = current_task),
                      saved_rsp[t] = StackPtr(t, i), stack[t][i + 17] = StackPtr(t, j)
               PROVE  Context(t) = << [x \in 1 .. 14 |-> stack[t][i + (x - 1)]],
                                      stack[t][i + 14], stack[t][i + 17],
                                      [x \in j .. TOP |-> stack[t][x]] >>
    BY DEF FrameContext
  <2>1. saved_rsp[t][2] = t /\ saved_rsp[t][3] = i /\ stack[t][i + 17][3] = j
    BY DEF StackPtr
  <2>2. Len(PopOrder) = 14 /\ DOMAIN PopOrder = 1 .. 14 /\ 14 + 3 = 17
    BY PopOrderIsSound
  <2>3. Context(t) = View([x \in 1 .. 14 |-> stack[t][i + (x - 1)]], stack[t][i + 14],
                          stack[t][i + 17], stack[t])
    BY <2>1, <2>2, Zenon DEF Context
  <2>4. QED
    BY <2>1, <2>3, Zenon DEF View
<1>2. CpuContext
  <2> SUFFICES ASSUME NEW t \in tasks, NEW j \in TOP - TASK_DEPTH .. TOP,
                      mode = "running", t = current_task, rsp = StackPtr(t, j)
               PROVE  Context(t) = << [x \in 1 .. 14 |-> regs[PopOrder[x]]], rip, rsp,
                                      [x \in j .. TOP |-> stack[t][x]] >>
    BY DEF CpuContext
  <2>1. rsp[2] = t /\ rsp[3] = j
    BY DEF StackPtr
  <2>2. DOMAIN PopOrder = 1 .. 14
    BY PopOrderIsSound
  <2>3. Context(t) = View([x \in 1 .. 14 |-> regs[PopOrder[x]]], rip, rsp, stack[t])
    BY <2>1, <2>2, Zenon DEF Context
  <2>4. QED
    BY <2>1, <2>3, Zenon DEF View
<1>3. QED
  BY <1>1, <1>2

(* Nothing happens to a task that sleeps while others run.                 *)
LEMMA SleepsOn ==
  ASSUME NEW u \in tasks, Asleep(u), u \in tasks',
         ~(mode = "running" /\ u = current_task),
         ~(mode' = "running" /\ u = current_task'),
         stack'[u] = stack[u], saved_rsp'[u] = saved_rsp[u]
  PROVE  Asleep(u)' /\ Context(u)' = Context(u)
<1>1. PICK i \in 4 .. TOP - 18 : saved_rsp[u] = StackPtr(u, i) /\ Frame(stack, u, i)
  BY DEF Asleep
<1>2. saved_rsp'[u] = StackPtr(u, i) /\ Frame(stack', u, i)
  BY <1>1 DEF Frame
<1>3. PICK j \in TOP - TASK_DEPTH .. TOP : stack[u][i + 17] = StackPtr(u, j)
  BY <1>1 DEF Frame
<1>4. FrameContext /\ FrameContext'
  BY Contexts, PTL
<1>5. Context(u) = << [x \in 1 .. 14 |-> stack[u][i + (x - 1)]], stack[u][i + 14],
                      stack[u][i + 17], [x \in j .. TOP |-> stack[u][x]] >>
  BY <1>1, <1>3, <1>4 DEF FrameContext
<1>6. Context(u)' = << [x \in 1 .. 14 |-> stack'[u][i + (x - 1)]], stack'[u][i + 14],
                       stack'[u][i + 17], [x \in j .. TOP |-> stack'[u][x]] >>
  BY <1>2, <1>3, <1>4 DEF FrameContext
<1>7. Asleep(u)'
  BY <1>2 DEF Asleep
<1>8. QED
  BY <1>5, <1>6, <1>7, Zenon

-----------------------------------------------------------------------------
(* The steps.                                                              *)

Same(u) == Context(u)' = Context(u)

(* A task that is added gets a frame; nobody else notices.                 *)
LEMMA AddStep ==
  ASSUME LInv, StackInv, NEW t \in Task, CanAdd(t), Prepared(t), Linked(t),
         UNCHANGED <<cpu, rip1, mode>>
  PROVE  StackInv' /\ \A u \in Task \ {t} : Same(u)
<1> DEFINE frame == IretFrame(Resume(t, 0), StackPtr(t, TOP))
<1>1. /\ mode = "boot" /\ mode' = "boot" /\ t \notin tasks /\ tasks' = tasks \cup {t}
      /\ rsp' = rsp /\ regs' = regs /\ rip1' = rip1
      /\ stack' = Store(stack, t, TOP - 4, frame)
      /\ saved_rsp' = [saved_rsp EXCEPT ![t] = StackPtr(t, TOP - 18)]
  BY DEF CanAdd, Prepared, Linked, cpu
<1>2. Stored(stack', stack, t, TOP - 4, frame, 5)
  <2>1. DOMAIN stack = Task /\ DOMAIN stack[t] = 0 .. TOP
    BY DEF StackInv
  <2>2. Len(frame) = 5 /\ TOP - 4 \in Nat /\ (TOP - 4) + 5 <= TOP + 1
    BY DEF IretFrame, TOP
  <2> HIDE DEF frame
  <2>3. QED
    BY <1>1, <2>1, <2>2, StoreAt
<1>3. /\ DOMAIN stack' = Task /\ \A u \in Task : DOMAIN stack'[u] = 0 .. TOP
      /\ \A u \in Task \ {t} : stack'[u] = stack[u]
  BY <1>2 DEF Stored, StackInv
<1>4. /\ saved_rsp' \in [Task -> Pointers \cup {Junk}]
      /\ saved_rsp'[t] = StackPtr(t, TOP - 18)
      /\ \A u \in Task \ {t} : saved_rsp'[u] = saved_rsp[u]
  <2>1. StackPtr(t, TOP - 18) \in Pointers /\ saved_rsp \in [Task -> Pointers \cup {Junk}]
    BY DEF Pointers, StackInv, TOP
  <2>2. QED
    BY <1>1, <2>1
<1>5. Asleep(t)'
  <2>1. \A k \in 1 .. 5 : stack'[t][(TOP - 4) + (k - 1)] = frame[k]
    BY <1>2 DEF Stored
  <2>2. /\ frame[1] = Resume(t, 0) /\ frame[2] = Selector("cs")
        /\ frame[4] = StackPtr(t, TOP) /\ frame[5] = Selector("ss")
    BY DEF IretFrame
  <2> HIDE DEF frame
  <2>3. /\ stack'[t][(TOP - 18) + 14] = Resume(t, 0)
        /\ stack'[t][(TOP - 18) + 15] = Selector("cs")
        /\ stack'[t][(TOP - 18) + 17] = StackPtr(t, TOP)
        /\ stack'[t][(TOP - 18) + 18] = Selector("ss")
    <3>1. /\ stack'[t][(TOP - 4) + (1 - 1)] = frame[1]
          /\ stack'[t][(TOP - 4) + (2 - 1)] = frame[2]
          /\ stack'[t][(TOP - 4) + (4 - 1)] = frame[4]
          /\ stack'[t][(TOP - 4) + (5 - 1)] = frame[5]
      BY <2>1
    <3>2. QED
      BY <2>2, <3>1 DEF TOP
  <2>4. TOP \in TOP - TASK_DEPTH .. TOP /\ TOP >= (TOP - 18) + 18 /\ 0 \in 0 .. PHASES
        /\ TOP - 18 \in 4 .. TOP - 18
    BY SchedParameters DEF TOP
  <2>5. Frame(stack', t, TOP - 18)
    BY <2>3, <2>4, Zenon DEF Frame
  <2>6. QED
    BY <1>4, <2>4, <2>5, Zenon DEF Asleep
<1>6. \A u \in tasks : Asleep(u)' /\ Same(u)
  <2>1. ASSUME NEW u \in tasks PROVE Asleep(u)' /\ Same(u)
    <3>1. u \in Task \ {t} /\ u \in tasks'
      BY <1>1 DEF LInv, ListType
    <3>2. Asleep(u)
      BY <1>1 DEF StackInv
    <3>3. QED
      BY <1>1, <1>3, <1>4, <3>1, <3>2, SleepsOn DEF Same
  <2>2. QED
    BY <2>1
<1>7. \A u \in Task \ {t} : Same(u)
  <2>1. ASSUME NEW u \in Task \ {t}, u \notin tasks PROVE Same(u)
    BY <1>1, <2>1 DEF Same, Context
  <2>2. QED
    BY <1>6, <2>1
<1>8. StackInv'
  BY <1>1, <1>3, <1>4, <1>5, <1>6 DEF StackInv
<1>9. QED
  BY <1>7, <1>8

(* What resumes from a frame is on its own stack, and sees what it will    *)
(* have seen.                                                              *)
LEMMA ResumeStep ==
  ASSUME NEW c \in Task, NEW i \in 4 .. TOP - 18, Frame(stack', c, i),
         Popped(stack', StackPtr(c, i)), current_task' = c, c \in tasks'
  PROVE  /\ mode' = "running" /\ DOMAIN regs' = Register /\ Awake(c)'
         /\ Context(c)' = << [x \in 1 .. 14 |-> stack'[c][i + (x - 1)]],
                             stack'[c][i + 14], stack'[c][i + 17],
                             [x \in stack'[c][i + 17][3] .. TOP |-> stack'[c][x]] >>
<1>1. /\ mode' = "running" /\ DOMAIN regs' = Register
      /\ \A x \in 1 .. 14 : regs'[PopOrder[x]] = stack'[c][i + (x - 1)]
      /\ rip' = stack'[c][i + 14] /\ rsp' = stack'[c][i + 17]
  BY PoppedWords
<1>2. PICK j \in TOP - TASK_DEPTH .. TOP : stack'[c][i + 17] = StackPtr(c, j)
  BY DEF Frame
<1>3. Awake(c)'
  BY <1>1, <1>2 DEF Awake, Frame
<1>4. CpuContext'
  BY Contexts, PTL
<1>5. Context(c)' = << [x \in 1 .. 14 |-> regs'[PopOrder[x]]], rip', rsp',
                       [x \in j .. TOP |-> stack'[c][x]] >>
  BY <1>1, <1>2, <1>4 DEF CpuContext
<1>6. [x \in 1 .. 14 |-> regs'[PopOrder[x]]] = [x \in 1 .. 14 |-> stack'[c][i + (x - 1)]]
  BY <1>1, Zenon
<1>7. stack'[c][i + 17][3] = j
  BY <1>2 DEF StackPtr
<1>8. QED
  BY <1>1, <1>3, <1>5, <1>6, <1>7, Zenon

(* What resumes is popped from a frame.                                    *)
FramePopped ==
  \E t \in Task, i \in 4 .. TOP - 18 : Frame(stack', t, i) /\ Popped(stack', StackPtr(t, i))

(* The first switch starts the head of the list.                           *)
LEMMA StartStep ==
  ASSUME LInv, StackInv, first_switch
  PROVE  /\ StackInv' /\ mode' = "running" /\ UNCHANGED list /\ \A u \in Task : Same(u)
         /\ FramePopped
<1>1. /\ mode = "boot" /\ current_task # NULL /\ Popped(stack, saved_rsp[current_task])
      /\ UNCHANGED <<current_task, next_task, tasks, stack, saved_rsp, rip1>>
  BY DEF first_switch, list
<1>2. PICK c \in tasks : c = current_task
  BY <1>1, ReachStart DEF LInv, ListOK, ListType
<1>3. c \in Task /\ tasks \subseteq Task
  BY DEF LInv, ListType
<1>4. PICK i \in 4 .. TOP - 18 : saved_rsp[c] = StackPtr(c, i) /\ Frame(stack, c, i)
  BY <1>1 DEF StackInv, Asleep
<1>5. PICK j \in TOP - TASK_DEPTH .. TOP : stack[c][i + 17] = StackPtr(c, j)
  BY <1>4 DEF Frame
<1>6. Frame(stack', c, i) /\ Popped(stack', StackPtr(c, i)) /\ current_task' = c /\ c \in tasks'
  BY <1>1, <1>2, <1>4
<1>7. /\ mode' = "running" /\ DOMAIN regs' = Register /\ Awake(c)'
      /\ Context(c)' = << [x \in 1 .. 14 |-> stack'[c][i + (x - 1)]],
                          stack'[c][i + 14], stack'[c][i + 17],
                          [x \in stack'[c][i + 17][3] .. TOP |-> stack'[c][x]] >>
  BY <1>3, <1>6, ResumeStep
<1>8. Context(c) = << [x \in 1 .. 14 |-> stack[c][i + (x - 1)]], stack[c][i + 14],
                      stack[c][i + 17], [x \in j .. TOP |-> stack[c][x]] >>
  BY <1>1, <1>4, <1>5, Contexts DEF FrameContext
<1>9. Same(c)
  <2>1. stack[c][i + 17][3] = j
    BY <1>5 DEF StackPtr
  <2>2. QED
    BY <1>1, <1>7, <1>8, <2>1, Zenon DEF Same
<1>10. ASSUME NEW u \in tasks \ {c} PROVE Asleep(u)' /\ Same(u)
  <2>1. Asleep(u)
    BY <1>1 DEF StackInv
  <2>2. QED
    BY <1>1, <1>2, <2>1, SleepsOn DEF Same
<1>11. ASSUME NEW u \in Task \ tasks PROVE Same(u)
  BY <1>1 DEF Same, Context
<1>12. StackInv'
  BY <1>1, <1>2, <1>6, <1>7, <1>10 DEF StackInv
<1>13. UNCHANGED list
  BY DEF first_switch
<1>14. FramePopped
  BY <1>3, <1>6 DEF FramePopped
<1>15. QED
  BY <1>7, <1>9, <1>10, <1>11, <1>12, <1>13, <1>14

(* What runs between two yields, a task or an interrupt handler on its     *)
(* stack, leaves the other tasks alone.                                    *)
LEMMA OwnStep ==
  ASSUME LInv, StackInv, mode = "running", UNCHANGED <<list, saved_rsp, rip1, mode>>,
         NEW c \in Task, c = current_task, DOMAIN regs' = Register, Awake(c)',
         DOMAIN stack' = Task, DOMAIN stack'[c] = 0 .. TOP,
         \A u \in Task \ {c} : stack'[u] = stack[u]
  PROVE  StackInv' /\ \A u \in Task \ {c} : Same(u)
<1>1. /\ mode' = mode /\ UNCHANGED <<current_task, next_task, tasks, saved_rsp, rip1>>
      /\ tasks \subseteq Task
  BY DEF list, LInv, ListType
<1>2. ASSUME NEW u \in tasks \ {c} PROVE Asleep(u)' /\ Same(u)
  <2>1. Asleep(u)
    BY DEF StackInv
  <2>2. QED
    BY <1>1, <2>1, SleepsOn DEF Same
<1>3. ASSUME NEW u \in Task \ tasks PROVE Same(u)
  BY <1>1 DEF Same, Context
<1>4. StackInv'
  BY <1>1, <1>2 DEF StackInv
<1>5. QED
  BY <1>2, <1>3, <1>4

(* The running task is the head, and its stack pointer is in its stack.    *)
LEMMA RunningTask ==
  ASSUME LInv, StackInv, mode = "running"
  PROVE  \E c \in tasks : /\ c = current_task /\ c \in Task
                          /\ \E j \in TOP - TASK_DEPTH .. TOP : rsp = StackPtr(c, j)
BY ReachStart DEF LInv, ListOK, ListType, StackInv, Awake

LEMMA WorkStep ==
  ASSUME LInv, StackInv, NEW k \in 1 .. PHASES, NEW d \in 0 .. TASK_DEPTH, Work(k, d)
  PROVE  StackInv' /\ \A u \in Task \ {current_task} : Same(u)
<1>1. mode = "running"
  BY DEF Work
<1>2. PICK c \in tasks : /\ c = current_task /\ c \in Task
                         /\ \E j \in TOP - TASK_DEPTH .. TOP : rsp = StackPtr(c, j)
  BY <1>1, RunningTask
<1>3. rsp[2] = c /\ rip[2] = c
  BY <1>1, <1>2 DEF StackInv, Awake, StackPtr, Resume
<1> DEFINE local == [i \in 1 .. d |-> <<"local", c, k>>]
<1>4. /\ regs' = [r \in Register |-> <<r, c, k>>]
      /\ rip' = Resume(c, k) /\ rsp' = StackPtr(c, TOP - d)
      /\ stack' = Store(stack, c, TOP - d, local)
      /\ UNCHANGED <<list, saved_rsp, rip1, mode>>
  BY <1>3 DEF Work
<1>5. Stored(stack', stack, c, TOP - d, local, d)
  <2>1. d \in Nat /\ Len(local) = d /\ TOP - d \in Nat /\ (TOP - d) + d <= TOP + 1
    BY SchedParameters DEF TOP
  <2>2. DOMAIN stack = Task /\ DOMAIN stack[c] = 0 .. TOP
    BY <1>2 DEF StackInv
  <2> HIDE DEF local
  <2>3. QED
    BY <1>2, <1>4, <2>1, <2>2, StoreAt
<1>6. Awake(c)'
  <2>1. TOP - d \in TOP - TASK_DEPTH .. TOP /\ k \in 0 .. PHASES
    BY SchedParameters DEF TOP
  <2>2. QED
    BY <1>4, <2>1 DEF Awake
<1>7. DOMAIN regs' = Register
  BY <1>4
<1>8. QED
  BY <1>1, <1>2, <1>4, <1>5, <1>6, <1>7, OwnStep DEF Stored

LEMMA IrqStep ==
  ASSUME LInv, StackInv, irq
  PROVE  StackInv' /\ \A u \in Task \ {current_task} : Same(u)
<1>1. mode = "running" /\ UNCHANGED <<list, saved_rsp, cpu, rip1, mode>>
  BY DEF irq
<1>2. PICK c \in tasks : /\ c = current_task /\ c \in Task
                         /\ \E j \in TOP - TASK_DEPTH .. TOP : rsp = StackPtr(c, j)
  BY <1>1, RunningTask
<1>3. PICK j \in TOP - TASK_DEPTH .. TOP : rsp = StackPtr(c, j)
  BY <1>2
<1> DEFINE junk == [i \in 1 .. IRQ_DEPTH |-> Junk]
<1>4. rsp[2] = c /\ rsp[3] = j /\ stack' = Store(stack, c, j - IRQ_DEPTH, junk)
  BY <1>3 DEF irq, StackPtr
<1>5. Stored(stack', stack, c, j - IRQ_DEPTH, junk, IRQ_DEPTH)
  <2>1. /\ IRQ_DEPTH \in Nat /\ Len(junk) = IRQ_DEPTH /\ j - IRQ_DEPTH \in Nat
        /\ (j - IRQ_DEPTH) + IRQ_DEPTH <= TOP + 1
    BY SchedParameters DEF TOP
  <2>2. DOMAIN stack = Task /\ DOMAIN stack[c] = 0 .. TOP
    BY <1>2 DEF StackInv
  <2> HIDE DEF junk
  <2>3. QED
    BY <1>2, <1>4, <2>1, <2>2, StoreAt
<1>6. Awake(c)' /\ DOMAIN regs' = Register
  BY <1>1, <1>2 DEF StackInv, Awake, cpu
<1>7. QED
  BY <1>1, <1>2, <1>5, <1>6, OwnStep DEF Stored

(* A yield leaves a frame behind, takes the next one up, and no task sees  *)
(* a difference.                                                           *)
LEMMA YieldStep ==
  ASSUME LInv, StackInv, schedule
  PROVE  /\ StackInv' /\ Rotated /\ mode' = "running" /\ \A u \in Task : Same(u)
         /\ FramePopped
<1>1. mode = "running"
  BY DEF schedule
<1>2. PICK c \in tasks : /\ c = current_task /\ c \in Task
                         /\ \E j \in TOP - TASK_DEPTH .. TOP : rsp = StackPtr(c, j)
  BY <1>1, RunningTask
<1>3. PICK j \in TOP - TASK_DEPTH .. TOP : rsp = StackPtr(c, j)
  BY <1>2
<1>4. rsp[2] = c /\ rsp[3] = j
  BY <1>3 DEF StackPtr
<1> DEFINE F == FrameStart
<1>5. PICK i0 \in 4 .. TOP - 18 : i0 = F
  BY <1>2, <1>3, PushedWords DEF TOP
<1>6. /\ i0 + 18 < j
      /\ DOMAIN Pushed = Task /\ DOMAIN Pushed[c] = 0 .. TOP
      /\ \A u \in Task \ {c} : Pushed[u] = stack[u]
      /\ \A x \in j .. TOP : Pushed[c][x] = stack[c][x]
      /\ Pushed[c][FrameStart - 1] = StubReturn
      /\ \A x \in 1 .. 14 : Pushed[c][i0 + (x - 1)] = regs[PopOrder[x]]
      /\ Pushed[c][i0 + 14] = rip
      /\ Pushed[c][i0 + 15] = Selector("cs")
      /\ Pushed[c][i0 + 17] = rsp
      /\ Pushed[c][i0 + 18] = Selector("ss")
  BY <1>2, <1>3, <1>5, PushedWords
<1>7. /\ stack' = Pushed /\ rip1' = StubReturn
      /\ saved_rsp' = [saved_rsp EXCEPT ![c] = StackPtr(c, i0)]
  BY <1>2, <1>4, <1>5, <1>6 DEF schedule
<1>8. Ends(next_task, current_task) # {}
  BY <1>2, SchedParameters DEF LInv, ListOK
<1>9. Rotated /\ Popped(stack', saved_rsp'[current_task'])
  BY <1>7, <1>8 DEF schedule
<1>10. tasks' = tasks /\ tasks \subseteq Task
  BY <1>9 DEF Rotated, LInv, ListType
<1>11. PICK c2 \in tasks : c2 = current_task'
  <2>1. ListType' /\ ListOK' /\ current_task' # NULL
    BY <1>2, <1>9, SchedParameters, RotatedListOK DEF LInv
  <2>2. current_task' \in Reach(next_task', current_task')
    BY <2>1, ReachStart DEF ListType
  <2>3. QED
    BY <1>10, <2>1, <2>2 DEF ListOK
<1>12. /\ saved_rsp' \in [Task -> Pointers \cup {Junk}]
       /\ saved_rsp'[c] = StackPtr(c, i0)
       /\ \A u \in Task \ {c} : saved_rsp'[u] = saved_rsp[u]
  <2>1. StackPtr(c, i0) \in Pointers /\ saved_rsp \in [Task -> Pointers \cup {Junk}]
    BY <1>2 DEF Pointers, StackInv, TOP
  <2>2. QED
    BY <1>2, <1>7, <2>1
<1>13. Frame(stack', c, i0)
  <2>1. PICK k \in 0 .. PHASES : rip = Resume(c, k)
    BY <1>1, <1>2 DEF StackInv, Awake
  <2>2. j >= i0 + 18
    BY <1>6 DEF TOP
  <2>3. QED
    BY <1>3, <1>6, <1>7, <2>1, <2>2, Zenon DEF Frame
<1> DEFINE Resumed(u, i) ==
             << [x \in 1 .. 14 |-> stack'[u][i + (x - 1)]], stack'[u][i + 14],
                stack'[u][i + 17], [x \in stack'[u][i + 17][3] .. TOP |-> stack'[u][x]] >>
<1>14. Context(c) = Resumed(c, i0)
  <2>1. Context(c) = << [x \in 1 .. 14 |-> regs[PopOrder[x]]], rip, rsp,
                        [x \in j .. TOP |-> stack[c][x]] >>
    BY <1>1, <1>2, <1>3, Contexts DEF CpuContext
  <2>2. [x \in 1 .. 14 |-> stack'[c][i0 + (x - 1)]] = [x \in 1 .. 14 |-> regs[PopOrder[x]]]
    BY <1>6, <1>7, Zenon
  <2>3. stack'[c][i0 + 14] = rip /\ stack'[c][i0 + 17] = rsp /\ stack'[c][i0 + 17][3] = j
    BY <1>4, <1>6, <1>7
  <2>4. [x \in j .. TOP |-> stack'[c][x]] = [x \in j .. TOP |-> stack[c][x]]
    BY <1>6, <1>7, Zenon
  <2>5. QED
    BY <2>1, <2>2, <2>3, <2>4, Zenon
<1>15. ASSUME NEW u \in tasks
       PROVE  \E i \in 4 .. TOP - 18 : /\ saved_rsp'[u] = StackPtr(u, i)
                                       /\ Frame(stack', u, i)
                                       /\ Context(u) = Resumed(u, i)
  <2>1. CASE u = c
    BY <1>12, <1>13, <1>14, <2>1, Zenon
  <2>2. CASE u # c
    <3>1. PICK i \in 4 .. TOP - 18 : saved_rsp[u] = StackPtr(u, i) /\ Frame(stack, u, i)
      BY <1>2, <2>2 DEF StackInv, Asleep
    <3>2. stack'[u] = stack[u] /\ saved_rsp'[u] = saved_rsp[u]
      BY <1>6, <1>7, <1>10, <1>12, <2>2
    <3>3. Frame(stack', u, i)
      BY <3>1, <3>2 DEF Frame
    <3>4. PICK ju \in TOP - TASK_DEPTH .. TOP : stack[u][i + 17] = StackPtr(u, ju)
      BY <3>1 DEF Frame
    <3>5. Context(u) = << [x \in 1 .. 14 |-> stack[u][i + (x - 1)]], stack[u][i + 14],
                          stack[u][i + 17], [x \in ju .. TOP |-> stack[u][x]] >>
      BY <1>2, <2>2, <3>1, <3>4, Contexts DEF FrameContext
    <3>6. stack[u][i + 17][3] = ju
      BY <3>4 DEF StackPtr
    <3>7. Context(u) = Resumed(u, i)
      BY <3>2, <3>5, <3>6, Zenon
    <3>8. QED
      BY <3>1, <3>2, <3>3, <3>7, Zenon
  <2>3. QED
    BY <2>1, <2>2
<1>16. PICK i2 \in 4 .. TOP - 18 : /\ saved_rsp'[c2] = StackPtr(c2, i2)
                                   /\ Frame(stack', c2, i2)
                                   /\ Context(c2) = Resumed(c2, i2)
  BY <1>15
<1>17. /\ mode' = "running" /\ DOMAIN regs' = Register /\ Awake(c2)'
       /\ Context(c2)' = Resumed(c2, i2)
  <2>1. /\ Popped(stack', StackPtr(c2, i2)) /\ current_task' = c2 /\ c2 \in tasks'
        /\ c2 \in Task
    BY <1>9, <1>10, <1>11, <1>16
  <2>2. QED
    BY <1>16, <2>1, ResumeStep
<1>18. ASSUME NEW u \in tasks \ {c2} PROVE Asleep(u)' /\ Same(u)
  <2>1. PICK i \in 4 .. TOP - 18 : /\ saved_rsp'[u] = StackPtr(u, i)
                                   /\ Frame(stack', u, i)
                                   /\ Context(u) = Resumed(u, i)
    BY <1>15
  <2>2. Asleep(u)'
    BY <2>1 DEF Asleep
  <2>3. PICK ju \in TOP - TASK_DEPTH .. TOP : stack'[u][i + 17] = StackPtr(u, ju)
    BY <2>1 DEF Frame
  <2>4. FrameContext'
    BY Contexts, PTL
  <2>5. Context(u)' = << [x \in 1 .. 14 |-> stack'[u][i + (x - 1)]], stack'[u][i + 14],
                         stack'[u][i + 17], [x \in ju .. TOP |-> stack'[u][x]] >>
    BY <1>10, <1>11, <2>1, <2>3, <2>4 DEF FrameContext
  <2>6. stack'[u][i + 17][3] = ju
    BY <2>3 DEF StackPtr
  <2>7. QED
    BY <2>1, <2>2, <2>5, <2>6, Zenon DEF Same
<1>19. Same(c2)
  BY <1>16, <1>17, Zenon DEF Same
<1>20. ASSUME NEW u \in Task \ tasks PROVE Same(u)
  BY <1>10 DEF Same, Context
<1>21. StackInv'
  <2>1. DOMAIN stack' = Task /\ \A u \in Task : DOMAIN stack'[u] = 0 .. TOP
    BY <1>6, <1>7 DEF StackInv
  <2>2. QED
    BY <1>7, <1>10, <1>11, <1>12, <1>17, <1>18, <2>1 DEF StackInv
<1>22. FramePopped
  <2>1. Popped(stack', StackPtr(c2, i2)) /\ c2 \in Task
    BY <1>9, <1>10, <1>11, <1>16
  <2>2. QED
    BY <1>16, <2>1, Zenon DEF FramePopped
<1>23. QED
  BY <1>9, <1>17, <1>18, <1>19, <1>20, <1>21, <1>22

-----------------------------------------------------------------------------
(* The list.                                                               *)

(* No task has been added at first.                                       *)
LEMMA InitLInv == Init => LInv
BY SchedParameters DEF Init, LInv, ListType, ListOK

(* Only setup_processes and schedule touch the list; both keep it a list.  *)
LEMMA NextLInv == LInv /\ [Next]_vars => LInv'
<1> SUFFICES ASSUME LInv, [Next]_vars PROVE LInv'
  OBVIOUS
<1> USE DEF LInv
<1>1. ASSUME UNCHANGED list, mode' = "running" => mode = "running" PROVE LInv'
  <2>1. ListType'
    BY <1>1 DEF list, ListType
  <2>2. ListOK'
    BY <1>1 DEF list, ListOK
  <2>3. QED
    BY <1>1, <2>1, <2>2 DEF list
<1>2. ASSUME NEW t \in Task, add_proc_to_task_list(t) PROVE LInv'
  BY <1>2, LinkedListOK DEF add_proc_to_task_list, CanAdd
<1>3. ASSUME NEW t \in Task, add_userproc_to_task_list(t) PROVE LInv'
  <2>1. CASE Linked(t)
    BY <1>3, <2>1, LinkedListOK DEF add_userproc_to_task_list, CanAdd
  <2>2. CASE mode' = "fault" /\ UNCHANGED list
    BY <1>1, <2>2
  <2>3. QED
    BY <1>3, <2>1, <2>2 DEF add_userproc_to_task_list
<1>4. CASE first_switch
  <2>1. UNCHANGED list /\ current_task # NULL
    BY <1>4 DEF first_switch
  <2>2. ListType'
    BY <2>1 DEF list, ListType
  <2>3. ListOK'
    BY <2>1 DEF list, ListOK
  <2>4. QED
    BY <2>1, <2>2, <2>3 DEF list
<1>5. ASSUME NEW k, NEW d, Work(k, d) PROVE LInv'
  BY <1>1, <1>5 DEF Work
<1>6. CASE schedule
  <2>1. CASE Ends(next_task, current_task) = {}
    BY <1>1, <1>6, <2>1 DEF schedule
  <2>2. CASE Ends(next_task, current_task) # {}
    BY <1>6, <2>2, RotatedListOK DEF schedule
  <2>3. QED
    BY <2>1, <2>2
<1>7. CASE irq
  BY <1>1, <1>7 DEF irq
<1>8. CASE UNCHANGED vars
  BY <1>1, <1>8 DEF vars
<1>9. QED
  BY <1>2, <1>3, <1>4, <1>5, <1>6, <1>7, <1>8 DEF Next, setup_processes

(* The list is intact in every reachable state.                            *)
THEOREM ListIntact == Spec => []ListOK
<1>1. LInv => ListOK
  BY DEF LInv
<1>2. QED
  BY <1>1, InitLInv, NextLInv, PTL DEF Spec

-----------------------------------------------------------------------------
(* The inductive invariant and the refinement.                             *)

SInv == LInv /\ QueueInv /\ StackInv

(* The variables of RoundRobin and what its actions say of them.           *)
ContextOf == [t \in Task |-> Context(t)]

LEMMA MappedSteps ==
  /\ RR!RRInit <=> Queue = <<>> /\ (mode = "running") = FALSE
  /\ \A t \in Task :
       (/\ mode # "running" /\ mode' # "running" /\ t \notin tasks
        /\ ListType /\ QueueInv /\ Queue' = Append(Queue, t)
        /\ \A u \in Task \ {t} : Same(u)) => RR!RRNext
  /\ (/\ mode # "running" /\ mode' = "running" /\ Queue # <<>> /\ Queue' = Queue
      /\ \A u \in Task : Same(u)) => RR!RRNext
  /\ (/\ mode = "running" /\ mode' = "running" /\ Queue' = Queue
      /\ \A u \in Task \ {Head(Queue)} : Same(u)) => RR!RRNext
  /\ (/\ mode = "running" /\ mode' = "running"
      /\ Queue' = Append(Tail(Queue), Head(Queue))
      /\ \A u \in Task : Same(u)) => RR!RRNext
  /\ (/\ Queue' = Queue /\ (mode = "running") = (mode' = "running")
      /\ \A u \in Task : Same(u)) => UNCHANGED RR!rrvars
<1>1. RR!RRInit <=> Queue = <<>> /\ (mode = "running") = FALSE
  BY DEF RR!RRInit
<1>2. ASSUME NEW t \in Task, mode # "running", mode' # "running", t \notin tasks,
             ListType, QueueInv, Queue' = Append(Queue, t), \A u \in Task \ {t} : Same(u)
      PROVE  RR!RRNext
  <2>1. \A i \in DOMAIN Queue : Queue[i] # t
    BY <1>2, QueueIsSeq
  <2>2. RR!OnlyContextOf(t)
    BY <1>2 DEF RR!OnlyContextOf, Same
  <2>3. (mode = "running") = FALSE /\ (mode' = "running") = FALSE
    BY <1>2
  <2>4. RR!Enter(t)
    BY <1>2, <2>1, <2>2, <2>3, Zenon DEF RR!Enter
  <2>5. QED
    BY <2>4 DEF RR!RRNext
<1>3. ASSUME mode # "running", mode' = "running", Queue # <<>>, Queue' = Queue,
             \A u \in Task : Same(u)
      PROVE  RR!RRNext
  <2>1. ContextOf' = ContextOf
    BY <1>3 DEF ContextOf, Same
  <2>2. RR!Start
    BY <1>3, <2>1, Zenon DEF RR!Start, ContextOf
  <2>3. QED
    BY <2>2 DEF RR!RRNext
<1>4. ASSUME mode = "running", mode' = "running", Queue' = Queue,
             \A u \in Task \ {Head(Queue)} : Same(u)
      PROVE  RR!RRNext
  <2>1. RR!OnlyContextOf(Head(Queue))
    BY <1>4 DEF RR!OnlyContextOf, Same
  <2>2. RR!Compute
    BY <1>4, <2>1, Zenon DEF RR!Compute
  <2>3. QED
    BY <2>2 DEF RR!RRNext
<1>5. ASSUME mode = "running", mode' = "running",
             Queue' = Append(Tail(Queue), Head(Queue)), \A u \in Task : Same(u)
      PROVE  RR!RRNext
  <2>1. ContextOf' = ContextOf
    BY <1>5 DEF ContextOf, Same
  <2>2. RR!Yield
    BY <1>5, <2>1, Zenon DEF RR!Yield, ContextOf
  <2>3. QED
    BY <2>2 DEF RR!RRNext
<1>6. ASSUME Queue' = Queue, (mode = "running") = (mode' = "running"),
             \A u \in Task : Same(u)
      PROVE  UNCHANGED RR!rrvars
  <2>1. ContextOf' = ContextOf
    BY <1>6 DEF ContextOf, Same
  <2>2. QED
    BY <1>6, <2>1, Zenon DEF RR!rrvars, ContextOf
<1>7. QED
  BY <1>1, <1>2, <1>3, <1>4, <1>5, <1>6, Zenon

(* The list does not change: neither does the queue.                       *)
LEMMA QueueStays ==
  ASSUME UNCHANGED list
  PROVE  Queue' = Queue /\ (QueueInv => QueueInv')
<1>1. tasks' = tasks /\ next_task' = next_task /\ current_task' = current_task
  BY DEF list
<1>2. \A x \in tasks : Ahead(x)' = Ahead(x)
  BY <1>1 DEF Ahead
<1>3. Place' = Place
  BY <1>1, <1>2, Zenon DEF Place
<1>4. Queue' = Queue
  BY <1>1, <1>3 DEF Queue
<1>5. QueueInv => QueueInv'
  BY <1>1, <1>2 DEF QueueInv
<1>6. QED
  BY <1>4, <1>5

(* A kernel without tasks satisfies the invariant and has an empty queue.  *)
LEMMA InitSInv == Init => SInv /\ RR!RRInit
<1> SUFFICES ASSUME Init PROVE SInv /\ RR!RRInit
  OBVIOUS
<1>1. LInv
  BY InitLInv
<1>2. tasks = {} /\ Cardinality(tasks) = 0 /\ IsFiniteSet(tasks)
  BY FS_EmptySet DEF Init
<1>3. QueueInv
  BY <1>2 DEF QueueInv
<1>4. StackInv
  BY <1>2 DEF Init, StackInv, Pointers
<1>5. Queue = <<>>
  <2>1. Queue \in Seq(tasks) /\ Len(Queue) = 0
    BY <1>1, <1>2, <1>3, QueueIsSeq DEF LInv
  <2>2. QED
    BY <2>1
<1>6. (mode = "running") = FALSE
  BY DEF Init
<1>7. QED
  BY <1>1, <1>3, <1>4, <1>5, <1>6, MappedSteps DEF SInv

(* Every step keeps the invariant and is a step of RoundRobin or none.     *)
LEMMA NextSInv == SInv /\ [Next]_vars => SInv' /\ [RR!RRNext]_(RR!rrvars)
<1> SUFFICES ASSUME SInv, [Next]_vars
             PROVE  SInv' /\ (RR!RRNext \/ UNCHANGED RR!rrvars)
  OBVIOUS
<1>1. LInv /\ QueueInv /\ StackInv /\ ListType /\ ListOK /\ LInv'
  BY NextLInv DEF SInv, LInv
<1>2. ASSUME NEW t \in Task, CanAdd(t), Prepared(t), Linked(t), UNCHANGED <<cpu, rip1, mode>>
      PROVE  SInv' /\ RR!RRNext
  <2>1. StackInv' /\ \A u \in Task \ {t} : Same(u)
    BY <1>1, <1>2, AddStep
  <2>2. t \notin tasks /\ mode # "running" /\ mode' # "running"
    BY <1>2 DEF CanAdd
  <2>3. QueueInv' /\ Queue' = Append(Queue, t)
    BY <1>1, <1>2, <2>2, LinkedQueue
  <2>4. RR!RRNext
    BY <1>1, <2>1, <2>2, <2>3, MappedSteps
  <2>5. QED
    BY <1>1, <2>1, <2>3, <2>4 DEF SInv
<1>3. ASSUME NEW t \in Task, CanAdd(t), mode' = "fault",
             UNCHANGED <<list, stack, saved_rsp, cpu, rip1>>
      PROVE  SInv' /\ UNCHANGED RR!rrvars
  <2>1. /\ mode = "boot" /\ UNCHANGED <<current_task, next_task, tasks, stack, saved_rsp>>
        /\ UNCHANGED <<regs, rip, rsp, rip1>>
    BY <1>3 DEF CanAdd, list, cpu
  <2>2. ASSUME NEW u \in Task PROVE Same(u)
    <3>1. mode # "running" /\ mode' # "running"
      BY <1>3, <2>1
    <3>2. QED
      BY <2>1, <3>1 DEF Same, Context
  <2>3. \A u \in tasks : Asleep(u)'
    <3>1. ASSUME NEW u \in tasks PROVE Asleep(u)'
      BY <1>1, <2>1 DEF StackInv, Asleep, Frame
    <3>2. QED
      BY <3>1
  <2>4. StackInv'
    BY <1>1, <1>3, <2>1, <2>3 DEF StackInv
  <2>5. QueueInv' /\ Queue' = Queue
    BY <1>1, <1>3, QueueStays
  <2>6. UNCHANGED RR!rrvars
    BY <1>3, <2>1, <2>2, <2>5, MappedSteps
  <2>7. QED
    BY <1>1, <2>4, <2>5, <2>6 DEF SInv
<1>4. CASE first_switch
  <2>1. /\ StackInv' /\ mode # "running" /\ mode' = "running" /\ UNCHANGED list
        /\ current_task # NULL /\ \A u \in Task : Same(u)
    BY <1>1, <1>4, StartStep DEF first_switch
  <2>2. QueueInv' /\ Queue' = Queue
    BY <1>1, <2>1, QueueStays
  <2>3. Queue # <<>>
    BY <1>1, <2>1, QueueHead
  <2>4. RR!RRNext
    BY <2>1, <2>2, <2>3, MappedSteps
  <2>5. QED
    BY <1>1, <2>1, <2>2, <2>4 DEF SInv
<1>5. ASSUME mode = "running", mode' = "running", UNCHANGED list, StackInv',
             \A u \in Task \ {current_task} : Same(u)
      PROVE  SInv' /\ RR!RRNext
  <2>1. QueueInv' /\ Queue' = Queue
    BY <1>1, <1>5, QueueStays
  <2>2. Head(Queue) = current_task
    BY <1>1, <1>5, QueueHead DEF LInv
  <2>3. RR!RRNext
    BY <1>5, <2>1, <2>2, MappedSteps
  <2>4. QED
    BY <1>1, <1>5, <2>1, <2>3 DEF SInv
<1>6. ASSUME NEW k \in 1 .. PHASES, NEW d \in 0 .. TASK_DEPTH, Work(k, d)
      PROVE  SInv' /\ RR!RRNext
  <2>1. StackInv' /\ \A u \in Task \ {current_task} : Same(u)
    BY <1>1, <1>6, WorkStep
  <2>2. mode = "running" /\ mode' = "running" /\ UNCHANGED list
    BY <1>6 DEF Work
  <2>3. QED
    BY <1>5, <2>1, <2>2
<1>7. ASSUME irq PROVE SInv' /\ RR!RRNext
  <2>1. StackInv' /\ \A u \in Task \ {current_task} : Same(u)
    BY <1>1, <1>7, IrqStep
  <2>2. mode = "running" /\ mode' = "running" /\ UNCHANGED list
    BY <1>7 DEF irq
  <2>3. QED
    BY <1>5, <2>1, <2>2
<1>8. CASE schedule
  <2>1. StackInv' /\ Rotated /\ mode' = "running" /\ \A u \in Task : Same(u)
    BY <1>1, <1>8, YieldStep
  <2>2. mode = "running" /\ current_task # NULL
    BY <1>1, <1>8 DEF schedule, LInv
  <2>3. QueueInv' /\ Queue' = Append(Tail(Queue), Head(Queue))
    BY <1>1, <2>1, <2>2, RotatedQueue
  <2>4. RR!RRNext
    BY <2>1, <2>2, <2>3, MappedSteps
  <2>5. QED
    BY <1>1, <2>1, <2>3, <2>4 DEF SInv
<1>9. CASE UNCHANGED vars
  <2>1. /\ UNCHANGED <<current_task, next_task, tasks, stack, saved_rsp>>
        /\ UNCHANGED <<regs, rip, rsp, rip1, mode>> /\ UNCHANGED list
    BY <1>9 DEF vars, list, cpu
  <2>2. \A u \in Task : Same(u)
    BY <2>1 DEF Same, Context
  <2>3. StackInv'
    <3>1. \A u \in Task : Asleep(u) => Asleep(u)'
      BY <2>1 DEF Asleep, Frame
    <3>2. Awake(current_task) => Awake(current_task)'
      BY <2>1 DEF Awake
    <3>3. QED
      BY <1>1, <2>1, <3>1, <3>2 DEF StackInv, ListType
  <2>4. QueueInv' /\ Queue' = Queue
    BY <1>1, <2>1, QueueStays
  <2>5. UNCHANGED RR!rrvars
    BY <2>1, <2>2, <2>4, MappedSteps
  <2>6. QED
    BY <1>1, <2>3, <2>4, <2>5 DEF SInv
<1>10. ASSUME NEW t \in Task, add_proc_to_task_list(t) PROVE SInv' /\ RR!RRNext
  BY <1>2, <1>10 DEF add_proc_to_task_list
<1>11. ASSUME NEW t \in Task, add_userproc_to_task_list(t)
       PROVE  SInv' /\ (RR!RRNext \/ UNCHANGED RR!rrvars)
  <2>1. CASE Prepared(t) /\ Linked(t) /\ UNCHANGED mode
    BY <1>2, <1>11, <2>1 DEF add_userproc_to_task_list
  <2>2. CASE mode' = "fault" /\ UNCHANGED <<list, stack, saved_rsp>>
    BY <1>3, <1>11, <2>2 DEF add_userproc_to_task_list
  <2>3. QED
    BY <1>11, <2>1, <2>2 DEF add_userproc_to_task_list
<1>12. QED
  BY <1>4, <1>6, <1>7, <1>8, <1>9, <1>10, <1>11 DEF Next, setup_processes

-----------------------------------------------------------------------------
(* What registers and stacks hold.                                         *)

WordInv ==
  /\ stack \in [Task -> [0 .. TOP -> Word]]
  /\ regs \in [Register -> Word]
  /\ mode # "running" => rip = Junk

(* The words that are stored.                                              *)
LEMMA WordsAre ==
  /\ {Junk, StubReturn, Selector("cs"), Selector("rflags"), Selector("ss")} \subseteq Word
  /\ \A t \in Task, i \in 0 .. TOP : StackPtr(t, i) \in Word
  /\ \A t \in Task, k \in 0 .. PHASES : Resume(t, k) \in Word
  /\ \A t \in Task, k \in 1 .. PHASES : <<"local", t, k>> \in Word
  /\ \A r \in Register, t \in Task, k \in 1 .. PHASES : <<r, t, k>> \in Word
<1>1. Pointers \subseteq Word /\ Resumes \subseteq Word
  BY DEF Word
<1>2. ASSUME NEW r \in Register \cup {"local"}, NEW t \in Task, NEW k \in 1 .. PHASES
      PROVE  <<r, t, k>> \in Word
  BY DEF Word
<1>3. {Junk, StubReturn, Selector("cs"), Selector("rflags"), Selector("ss")} \subseteq Word
  BY DEF Word
<1>4. ASSUME NEW t \in Task, NEW i \in 0 .. TOP PROVE StackPtr(t, i) \in Pointers
  BY DEF Pointers
<1>5. ASSUME NEW t \in Task, NEW k \in 0 .. PHASES PROVE Resume(t, k) \in Resumes
  BY DEF Resumes
<1>6. QED
  BY <1>1, <1>2, <1>3, <1>4, <1>5

(* A store of words leaves words.                                          *)
LEMMA StoreOfWords ==
  ASSUME NEW stk \in [Task -> [0 .. TOP -> Word]], NEW t \in Task, NEW i \in Int,
         NEW ws, NEW n \in Nat, Len(ws) = n, \A k \in 1 .. n : ws[k] \in Word
  PROVE  Store(stk, t, i, ws) \in [Task -> [0 .. TOP -> Word]]
<1> DEFINE new == [j \in DOMAIN stk[t] |->
                     IF j \in i .. i + Len(ws) - 1 THEN ws[j - i + 1] ELSE stk[t][j]]
<1>1. Store(stk, t, i, ws) = [stk EXCEPT ![t] = new]
  BY DEF Store
<1>2. DOMAIN stk[t] = 0 .. TOP /\ \A j \in 0 .. TOP : stk[t][j] \in Word
  OBVIOUS
<1>3. ASSUME NEW j \in 0 .. TOP, j \in i .. i + Len(ws) - 1
      PROVE  ws[j - i + 1] \in Word
  <2>1. j - i + 1 \in 1 .. n
    BY <1>3 DEF TOP
  <2>2. QED
    BY <2>1
<1>4. new \in [0 .. TOP -> Word]
  BY <1>2, <1>3
<1> HIDE DEF new
<1>5. QED
  BY <1>1, <1>4

(* The stack prepared for a task.                                          *)
LEMMA PreparedOfWords ==
  ASSUME WordInv, NEW t \in Task, Prepared(t)
  PROVE  stack' \in [Task -> [0 .. TOP -> Word]]
<1> DEFINE frame == IretFrame(Resume(t, 0), StackPtr(t, TOP))
<1>1. stack' = Store(stack, t, TOP - 4, frame)
  BY DEF Prepared
<1>2. Len(frame) = 5 /\ \A k \in 1 .. 5 : frame[k] \in Word
  <2>1. Resume(t, 0) \in Word /\ StackPtr(t, TOP) \in Word
    BY WordsAre, SchedParameters DEF TOP
  <2>2. QED
    BY <2>1, WordsAre DEF IretFrame
<1> HIDE DEF frame
<1>3. TOP - 4 \in Int
  BY DEF TOP
<1>4. QED
  BY <1>1, <1>2, <1>3, StoreOfWords DEF WordInv

(* The stack with what the processor and the stub push.                    *)
LEMMA PushedOfWords ==
  ASSUME WordInv, SInv, mode = "running"
  PROVE  Pushed \in [Task -> [0 .. TOP -> Word]]
<1>1. PICK c \in Task : c = current_task
  BY DEF SInv, LInv, ListType
<1>2. PICK j \in TOP - TASK_DEPTH .. TOP, k \in 0 .. PHASES :
        rsp = StackPtr(c, j) /\ rip = Resume(c, k)
  BY <1>1 DEF SInv, StackInv, Awake
<1>3. rsp[2] = c /\ rsp[3] = j /\ rsp \in Word /\ rip \in Word
  <2>1. rsp[2] = c /\ rsp[3] = j /\ j \in 0 .. TOP
    BY <1>2, SchedParameters DEF StackPtr, TOP
  <2>2. QED
    BY <1>2, <2>1, WordsAre
<1>4. FrameStart \in 4 .. TOP - 19
  BY <1>2, PushedWords DEF SInv
<1> DEFINE words == [i \in DOMAIN PopOrder |-> regs[PopOrder[i]]]
           iret  == IretFrame(rip, rsp)
           frame == Store(stack, c, FrameStart + Len(PopOrder), iret)
           saved == Store(frame, c, FrameStart, words)
           call  == <<StubReturn>>
<1>5. Len(iret) = 5 /\ \A x \in 1 .. 5 : iret[x] \in Word
  BY <1>3, WordsAre DEF IretFrame
<1>6. Len(words) = 14 /\ \A x \in 1 .. 14 : words[x] \in Word
  BY PopOrderIsSound DEF WordInv
<1>7. Len(call) = 1 /\ \A x \in 1 .. 1 : call[x] \in Word
  BY WordsAre
<1>8. Pushed = Store(saved, c, FrameStart - 1, call)
  BY <1>3, Zenon DEF Pushed
<1>9. FrameStart \in Int /\ FrameStart - 1 \in Int /\ FrameStart + Len(PopOrder) \in Int
  BY <1>4, PopOrderIsSound DEF TOP
<1> HIDE DEF iret, words, call
<1>10. frame \in [Task -> [0 .. TOP -> Word]]
  BY <1>5, <1>9, StoreOfWords DEF WordInv
<1> HIDE DEF frame
<1>11. saved \in [Task -> [0 .. TOP -> Word]]
  BY <1>6, <1>9, <1>10, StoreOfWords
<1> HIDE DEF saved
<1>12. QED
  BY <1>7, <1>8, <1>9, <1>11, StoreOfWords

(* The registers popped from a frame.                                      *)
LEMMA PoppedOfWords ==
  ASSUME WordInv, NEW stk \in [Task -> [0 .. TOP -> Word]], NEW t \in Task,
         NEW i \in 4 .. TOP - 18, Frame(stk, t, i), Popped(stk, StackPtr(t, i))
  PROVE  regs' \in [Register -> Word]
<1>1. /\ mode' = "running" /\ DOMAIN regs' = Register
      /\ \A x \in 1 .. 14 : regs'[PopOrder[x]] = stk[t][i + (x - 1)]
      /\ rip' = stk[t][i + 14] /\ rsp' = stk[t][i + 17]
  BY PoppedWords
<1>2. ASSUME NEW x \in 1 .. 14 PROVE regs'[PopOrder[x]] \in Word
  <2>1. PICK y \in 0 .. TOP : y = i + (x - 1)
    BY DEF TOP
  <2>2. stk[t][y] \in Word
    OBVIOUS
  <2>3. QED
    BY <1>1, <2>1, <2>2
<1>3. regs'["rbp"] = regs["rbp"] /\ regs' = [r \in Register |-> regs'[r]]
  <2>1. regs' = [r \in Register |->
                   IF r \in Saved
                   THEN stk[StackPtr(t, i)[2]][StackPtr(t, i)[3]
                          + ((CHOOSE x \in DOMAIN PopOrder : PopOrder[x] = r) - 1)]
                   ELSE regs[r]]
    BY DEF Popped
  <2>2. "rbp" \in Register /\ "rbp" \notin Saved
    BY DEF Register, Saved
  <2>3. regs'["rbp"] = regs["rbp"]
    BY <2>1, <2>2, Zenon
  <2>4. regs' = [r \in Register |-> regs'[r]]
    BY <2>1
  <2>5. QED
    BY <2>3, <2>4
<1>4. ASSUME NEW r \in Register PROVE regs'[r] \in Word
  <2>1. CASE r = "rbp"
    BY <1>3, <2>1 DEF WordInv
  <2>2. CASE r # "rbp"
    <3>1. PICK x \in 1 .. 14 : r = PopOrder[x]
      BY <2>2, PopOrderIsSound DEF Register
    <3>2. QED
      BY <1>2, <3>1
  <2>3. QED
    BY <2>1, <2>2
<1>5. QED
  BY <1>3, <1>4

(* Every step leaves words.                                                *)
LEMMA NextWords ==
  ASSUME SInv, WordInv, [Next]_vars
  PROVE  WordInv'
<1>0. SInv' /\ LInv /\ StackInv
  BY NextSInv DEF SInv
<1>1. ASSUME NEW t \in Task, Prepared(t), UNCHANGED <<cpu, mode>> PROVE WordInv'
  <2>1. stack' \in [Task -> [0 .. TOP -> Word]] /\ regs' = regs /\ rip' = rip /\ mode' = mode
    BY <1>1, PreparedOfWords DEF cpu
  <2>2. QED
    BY <2>1 DEF WordInv
<1>2. ASSUME mode' = "fault", UNCHANGED <<stack, cpu>>, mode = "boot" PROVE WordInv'
  BY <1>2 DEF WordInv, cpu
<1>3. ASSUME stack' \in [Task -> [0 .. TOP -> Word]], mode' = "running", FramePopped
      PROVE  WordInv'
  <2>1. PICK t \in Task, i \in 4 .. TOP - 18 : Frame(stack', t, i) /\ Popped(stack', StackPtr(t, i))
    BY <1>3 DEF FramePopped
  <2>2. regs' \in [Register -> Word]
    BY <1>3, <2>1, PoppedOfWords
  <2>3. QED
    BY <1>3, <2>2 DEF WordInv
<1>4. CASE first_switch
  <2>1. FramePopped /\ mode' = "running" /\ stack' = stack
    BY <1>0, <1>4, StartStep DEF first_switch
  <2>2. QED
    BY <1>3, <2>1 DEF WordInv
<1>5. CASE schedule
  <2>1. FramePopped /\ mode' = "running" /\ stack' = Pushed /\ mode = "running"
    BY <1>0, <1>5, YieldStep DEF schedule
  <2>2. QED
    BY <1>3, <2>1, PushedOfWords
<1>6. ASSUME NEW k \in 1 .. PHASES, NEW d \in 0 .. TASK_DEPTH, Work(k, d) PROVE WordInv'
  <2>1. PICK c \in tasks : /\ c = current_task /\ c \in Task
                           /\ \E j \in TOP - TASK_DEPTH .. TOP : rsp = StackPtr(c, j)
    BY <1>0, <1>6, RunningTask DEF Work
  <2>2. rsp[2] = c /\ rip[2] = c /\ mode = "running"
    BY <1>0, <1>6, <2>1 DEF Work, StackInv, Awake, StackPtr, Resume
  <2> DEFINE local == [i \in 1 .. d |-> <<"local", c, k>>]
  <2>3. /\ regs' = [r \in Register |-> <<r, c, k>>] /\ mode' = "running"
        /\ stack' = Store(stack, c, TOP - d, local)
    BY <1>6, <2>2 DEF Work
  <2>4. regs' \in [Register -> Word]
    BY <2>1, <2>3, WordsAre
  <2>5. stack' \in [Task -> [0 .. TOP -> Word]]
    <3>1. d \in Nat /\ Len(local) = d /\ TOP - d \in Int
      BY SchedParameters DEF TOP
    <3>2. \A i \in 1 .. d : local[i] \in Word
      BY <2>1, WordsAre
    <3> HIDE DEF local
    <3>3. QED
      BY <2>1, <2>3, <3>1, <3>2, StoreOfWords DEF WordInv
  <2>6. QED
    BY <2>3, <2>4, <2>5 DEF WordInv
<1>7. CASE irq
  <2>1. PICK c \in Task, j \in TOP - TASK_DEPTH .. TOP : rsp = StackPtr(c, j)
    BY <1>0, <1>7, RunningTask DEF irq
  <2> DEFINE junk == [i \in 1 .. IRQ_DEPTH |-> Junk]
  <2>2. /\ stack' = Store(stack, c, j - IRQ_DEPTH, junk)
        /\ regs' = regs /\ mode' = "running"
    BY <1>7, <2>1 DEF irq, StackPtr, cpu
  <2>3. stack' \in [Task -> [0 .. TOP -> Word]]
    <3>1. IRQ_DEPTH \in Nat /\ Len(junk) = IRQ_DEPTH /\ j - IRQ_DEPTH \in Int
      BY SchedParameters DEF TOP
    <3>2. \A i \in 1 .. IRQ_DEPTH : junk[i] \in Word
      BY WordsAre
    <3> HIDE DEF junk
    <3>3. QED
      BY <2>2, <3>1, <3>2, StoreOfWords DEF WordInv
  <2>4. QED
    BY <2>2, <2>3 DEF WordInv
<1>8. CASE UNCHANGED vars
  BY <1>8 DEF vars, cpu, WordInv
<1>9. ASSUME NEW t \in Task, add_proc_to_task_list(t) PROVE WordInv'
  BY <1>1, <1>9 DEF add_proc_to_task_list
<1>10. ASSUME NEW t \in Task, add_userproc_to_task_list(t) PROVE WordInv'
  <2>1. mode = "boot" /\ UNCHANGED cpu
    BY <1>10 DEF add_userproc_to_task_list, CanAdd
  <2>2. CASE Prepared(t) /\ UNCHANGED mode
    BY <1>1, <2>1, <2>2
  <2>3. CASE mode' = "fault" /\ UNCHANGED stack
    BY <1>2, <2>1, <2>3
  <2>4. QED
    BY <1>10, <2>2, <2>3 DEF add_userproc_to_task_list
<1>11. QED
  BY <1>4, <1>5, <1>6, <1>7, <1>8, <1>9, <1>10 DEF Next, setup_processes

(* Registers and stacks always hold words, no stack pointer leaves the     *)
(* stacks and no program counter the tasks, for every number of tasks.     *)
THEOREM TypesHold == Spec => []TypeOK
<1>1. SInv /\ WordInv => TypeOK
  <2> SUFFICES ASSUME SInv, WordInv PROVE TypeOK
    OBVIOUS
  <2>1. ListType /\ StackInv /\ LInv
    BY DEF SInv, LInv
  <2>2. rsp \in Pointers \cup {Junk} /\ rip \in Resumes \cup {Junk}
    <3>1. CASE mode = "running"
      <4>1. current_task \in Task
        BY <2>1, <3>1 DEF LInv, ListType
      <4>2. PICK j \in TOP - TASK_DEPTH .. TOP, k \in 0 .. PHASES :
              rsp = StackPtr(current_task, j) /\ rip = Resume(current_task, k)
        BY <2>1, <3>1 DEF StackInv, Awake
      <4>3. j \in 0 .. TOP
        BY <4>2, SchedParameters DEF TOP
      <4>4. QED
        BY <4>1, <4>2, <4>3 DEF Pointers, Resumes
    <3>2. CASE mode # "running"
      BY <2>1, <3>2 DEF StackInv, WordInv
    <3>3. QED
      BY <3>1, <3>2
  <2>3. QED
    BY <2>1, <2>2 DEF TypeOK, ListType, StackInv, WordInv
<1>2. Init => WordInv
  <2> SUFFICES ASSUME Init PROVE WordInv
    OBVIOUS
  <2>1. Junk \in Word
    BY WordsAre
  <2>2. QED
    BY <2>1 DEF Init, WordInv
<1>3. QED
  BY <1>1, <1>2, InitSInv, NextSInv, NextWords, PTL DEF Spec

(* The scheduler never hangs, and stops the kernel in no state after the   *)
(* first switch.                                                           *)
THEOREM SchedulerKeepsGoing == Spec => []KeepsGoing
<1>1. SInv => KeepsGoing
  BY DEF SInv, StackInv, KeepsGoing
<1>2. QED
  BY <1>1, InitSInv, NextSInv, PTL DEF Spec

(* Tasks run in turn and switching is transparent, for every number of     *)
(* tasks, every depth of their stacks and whatever memory held.            *)
THEOREM SchedImplementsRoundRobin == Spec => ImplementsRoundRobin
  BY InitSInv, NextSInv, PTL DEF Spec, ImplementsRoundRobin, RR!RRSpec

=============================================================================
