----------------------------- MODULE BlockPool -----------------------------
(***************************************************************************)
(* What the block allocator promises its callers, with the bitmaps, the    *)
(* regions and the best-fit search left out: a pool of blocks, a request   *)
(* that gathers some of them, and owners that keep what they were given.   *)
(* A block is in one place at a time.                                      *)
(***************************************************************************)
CONSTANT
  Pool        \* the blocks of the image that are not file system metadata

VARIABLES
  available,  \* blocks nobody holds
  gathered,   \* blocks the request in progress has been given
  owned,      \* blocks finished requests hold
  stranded    \* blocks of failed requests: neither usable nor in use

poolVars == <<available, gathered, owned, stranded>>

PoolInit ==
  /\ available = Pool
  /\ gathered = {} /\ owned = {} /\ stranded = {}

\* A request is given some more blocks.
Gather(S) ==
  /\ available' = available \ S
  /\ gathered' = gathered \cup S
  /\ UNCHANGED <<owned, stranded>>

\* A block goes straight to its owner.
Take(b) ==
  /\ available' = available \ {b}
  /\ owned' = owned \cup {b}
  /\ UNCHANGED <<gathered, stranded>>

\* A request ends: it may hand some blocks back and the rest have an owner.
Keep(S) ==
  /\ available' = available \cup S
  /\ owned' = owned \cup (gathered \ S)
  /\ gathered' = {}
  /\ UNCHANGED stranded

\* A request fails: what it keeps marked is of no use to anyone.
Strand(S) ==
  /\ available' = available \cup S
  /\ stranded' = stranded \cup (gathered \ S)
  /\ gathered' = {}
  /\ UNCHANGED owned

PoolNext ==
  \/ \E S \in SUBSET available : Gather(S)
  \/ \E b \in available : Take(b)
  \/ \E S \in SUBSET gathered : Keep(S) \/ Strand(S)

PoolSpec == PoolInit /\ [][PoolNext]_poolVars

=============================================================================
