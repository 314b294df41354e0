----------------------------- MODULE MCPhysMem ------------------------------
(* Small machines for PhysMem: 12 pages of 4 bytes, 2 pages to a byte of   *)
(* the bitmap, kernel and bitmap in pages 1 and 2.                         *)
EXTENDS PhysMem

Ram(b, l) == [base |-> b, length |-> l, type |-> 1]
Hole(b, l) == [base |-> b, length |-> l, type |-> 2]

(* Low memory ends at an odd byte; high memory overlaps it, follows it or  *)
(* leaves a hole; entries are empty, out of order, or reserved, and those  *)
(* neither start on a page nor end within the bitmap.                      *)
MCMaps ==
  {<<Ram(0, l), Ram(b, m)>> : l \in {0, 9, 24}, b \in {16, 24, 32}, m \in {6, 16}}
    \cup {<<Ram(b, m), Hole(13, 90), Ram(0, l)>> :
            l \in {9, 24}, b \in {16, 32}, m \in {6, 16}}
    \cup {<<Ram(0, 48)>>, <<Ram(0, 24)>>, <<Ram(0, 9), Ram(16, 6), Ram(36, 12)>>}


=============================================================================
