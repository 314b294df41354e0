---------------------------- MODULE AddressSpace ----------------------------
(***************************************************************************)
(* What virtual memory promises: a map from pages to frames in which a     *)
(* page changes its frame only for a fresh one, a frame nobody else has.   *)
(* Vm, the page tables of sys/pagetab.c under the kmalloc functions of     *)
(* sys/pmap.c, implements it until memory runs out.                        *)
(***************************************************************************)
CONSTANT Page
VARIABLES
  map,    \* the frame of each page
  free,   \* frames not given to anyone
  broken  \* whether the promise is over

asvars == <<map, free, broken>>

Changed == {v \in Page : map'[v] # map[v]}

Map ==
  /\ ~broken
  /\ free' \subseteq free
  /\ \A v \in Changed : map'[v] \in free \ free'
  /\ \A v, w \in Changed : map'[v] = map'[w] => v = w
  /\ UNCHANGED broken

(* When memory has run out nothing is promised any more.                   *)
Over == broken'

ASSpec == ~broken /\ [][Map \/ Over]_asvars

=============================================================================
