------------------------------ MODULE BestFit ------------------------------
(***************************************************************************)
(* The group ext4_allocate_best_fit_partial picks, said without the scan:  *)
(* the smallest group that holds all of len, else the largest one; the     *)
(* first of equals.  ScanBestFit checks the loop of the C code against it. *)
(***************************************************************************)
EXTENDS Integers

CONSTANT NumGroups       \* aux_info->groups
ASSUME NumGroupsAssumption == NumGroups \in Nat \ {0}

Groups == 0 .. NumGroups - 1

\* h is a better choice than g for len blocks, when free gives the free_blocks.
Better(free, len, h, g) ==
  \/ free[h] >= len /\ (free[g] < len \/ free[h] < free[g])
  \/ free[h] < len /\ free[g] < free[h]
  \/ free[h] = free[g] /\ h < g

\* Mutant: the first group with a free block, whatever it holds.
IsFirstFit(free, len, g) ==
  /\ free[g] > 0
  /\ \A h \in Groups : h < g => free[h] = 0

IsBestFit(free, len, g) ==
  /\ free[g] > 0
  /\ \A h \in Groups : ~Better(free, len, h, g)
=============================================================================
