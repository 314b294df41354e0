------------------------------ MODULE PagePool ------------------------------
(***************************************************************************)
(* What a physical page allocator promises its callers: a page is either   *)
(* free or held by exactly one caller, and only a free page is granted.    *)
(* PhysMem, the bitmap of sys/pmap.c, is shown to implement it.            *)
(***************************************************************************)
CONSTANT Page
VARIABLES free, held

poolvars == <<free, held>>

PoolInit ==
  /\ free \subseteq Page
  /\ held = {}

Grant(p) ==
  /\ p \in free
  /\ free' = free \ {p}
  /\ held' = held \cup {p}

GiveBack(p) ==
  /\ p \in held
  /\ free' = free \cup {p}
  /\ held' = held \ {p}

PoolNext == \E p \in Page : Grant(p) \/ GiveBack(p)

PoolSpec == PoolInit /\ [][PoolNext]_poolvars

=============================================================================
