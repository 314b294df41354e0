------------------------------ MODULE MCSched -------------------------------
(* Three tasks in memory that was clear, or in which each next_task points *)
(* to the task itself.                                                     *)
EXTENDS Sched

MCGarbageLinks == {[t \in Task |-> NULL], [t \in Task |-> t]}

=============================================================================
