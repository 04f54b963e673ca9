---------------------------- MODULE ScanBestFit ----------------------------
(***************************************************************************)
(* The loop of ext4_allocate_best_fit_partial over every content the block *)
(* groups can have: one state per iteration.                               *)
(***************************************************************************)
EXTENDS BestFit

CONSTANTS
  MaxFree,   \* bound on free_blocks of a group
  MaxLen     \* bound on the length asked for

VARIABLES
  bg_free,                \* bgs[].free_blocks
  len,                    \* the length asked for
  scanned,                \* the loop's i
  found_bg, found_bg_len  \* the best group so far, and what it has
scanVars == <<bg_free, len, scanned, found_bg, found_bg_len>>

ScanInit ==
  /\ bg_free \in [Groups -> 0 .. MaxFree]
  /\ len \in 1 .. MaxLen
  /\ scanned = 0 /\ found_bg = 0 /\ found_bg_len = 0

\* Mutant: a fitting group is taken although a smaller one was found.
TakesAnyFit(bg_len) ==
  \/ len <= bg_len
  \/ len > found_bg_len /\ bg_len > found_bg_len

\* The condition of the if inside the loop.
Takes(bg_len) ==
  \/ len <= bg_len /\ (found_bg_len = 0 \/ bg_len < found_bg_len)
  \/ len > found_bg_len /\ bg_len > found_bg_len

ScanGroup ==
  /\ scanned < NumGroups
  /\ IF Takes(bg_free[scanned])
     THEN found_bg' = scanned /\ found_bg_len' = bg_free[scanned]
     ELSE UNCHANGED <<found_bg, found_bg_len>>
  /\ scanned' = scanned + 1
  /\ UNCHANGED <<bg_free, len>>

ScanDone == scanned = NumGroups /\ UNCHANGED scanVars

ScanNext == ScanGroup \/ ScanDone
ScanSpec == ScanInit /\ [][ScanNext]_scanVars

-----------------------------------------------------------------------------
\* The scan ends on the best fit, and reports "out of space?" (found_bg_len
\* still zero) only when no group has a free block.  The comment above
\* allocate_blocks states the same algorithm in words.
ScanFindsBestFit ==
  scanned = NumGroups =>
    IF found_bg_len = 0
    THEN \A g \in Groups : bg_free[g] = 0
    ELSE IsBestFit(bg_free, len, found_bg) /\ found_bg_len = bg_free[found_bg]
=============================================================================
