----------------------------- MODULE FixupProofs -----------------------------
(***************************************************************************)
(* What holds of ext4fixup for every image, every number of groups and     *)
(* however often it is stopped.                                            *)
(***************************************************************************)
EXTENDS Fixup, Arithmetic, TLAPS

Phases == {"unset", "marking", "updating", "sb"}

\* The phases each part of the program runs in.
ControlInv ==
  /\ magic \in Phases /\ dry_state \in Phases /\ no_write \in BOOLEAN
  /\ pc \in {"down", "dispatch", "bit", "walk", "padding", "super", "gdt", "done", "failed", "undefined"}
  /\ crashes \in Nat
  /\ no_write => pc # "bit" /\ magic = "unset"
  /\ pc = "walk" => State # "sb"
  /\ pc \in {"padding", "super", "gdt"} => State = "sb"

\* The free inode counts of the groups, without and with the new inodes.
Counted == [g \in Groups |-> FreeInodes[g] + (Renumbered - OldPerGroup)]
\* What Start read is still what is on the disk.
AsRead == pc \in {"dispatch", "walk"} \/ (pc = "bit" /\ magic # "unset")
AllCounted == \A h \in SuperGroups : gdt[h] = Counted

\* The order of the writes that change group size, counts and bitmaps.
CountInv ==
  /\ super = [h \in SuperGroups |-> super[h]]
  /\ super[0].per \in {OldPerGroup, Renumbered} /\ ipg \in {OldPerGroup, Renumbered}
  /\ ipg = Renumbered => super[0].per = Renumbered
  /\ gdt \in [SuperGroups -> {FreeInodes, Counted}] /\ desc \in {FreeInodes, Counted}
  /\ \A h \in SuperGroups : gdt[h] = Counted => super[0].per = Renumbered
  /\ AsRead => ipg = super[0].per /\ (desc = Counted => super[0].per = Renumbered)
  /\ pc = "padding" => at \in 0 .. NumGroups
  /\ pc \in {"super", "gdt"} => at \in SuperGroups /\ sb.per = Renumbered

\* Only a tool that writes gets anywhere.
WriteInv ==
  /\ padding \subseteq Groups
  /\ BitmapsClearedFirst
  /\ ~no_write =>
       /\ pc = "padding" /\ ipg # Renumbered => \A g \in padding : g >= at
       /\ pc \in {"super", "gdt"} /\ Renumbered # OldPerGroup => padding = {}
       /\ pc = "gdt" \/ (pc = "super" /\ at # 0) => super[0].per = Renumbered

\* A run that was not stopped.
UninterruptedInv ==
  crashes = 0 /\ ~no_write =>
    /\ AsRead \/ pc = "down" =>
         super[0].per = OldPerGroup /\ gdt[0] = FreeInodes /\ (AsRead => desc = FreeInodes)
    /\ pc \in {"padding", "super", "gdt"} => desc = Counted
    /\ pc \in {"super", "gdt"} => \A h \in SuperGroups : h < at => gdt[h] = Counted
    /\ pc = "done" \/ (pc = "bit" /\ magic = "unset") => AllCounted

-----------------------------------------------------------------------------
(* Arithmetic of the inode numbers.                                        *)

LEMMA SlotOfInum ==
  ASSUME NEW slot \in Slot, NEW per \in Nat \ {0}, slot[2] < per
  PROVE  /\ SlotOf(InumOf(slot, per), per) = slot
         /\ InumOf(slot, per) \in Nat \ {0}
<1>1. slot[1] \in Nat /\ slot[2] \in 0 .. per - 1 /\ slot = <<slot[1], slot[2]>>
  BY FixupAssumption DEF Slot, Groups
<1>2. slot[1] * per \in Nat
  BY <1>1
<1>3. InumOf(slot, per) - 1 = slot[1] * per + slot[2] /\ InumOf(slot, per) \in Nat \ {0}
  BY <1>1, <1>2 DEF InumOf
<1> QED BY <1>1, <1>3, Division DEF SlotOf

LEMMA NewSize ==
  /\ Renumbered \in Nat \ {0} /\ OldPerGroup <= Renumbered
  /\ NewPerGroup(OldPerGroup) = Renumbered /\ NewPerGroup(Renumbered) = Renumbered
<1> DEFINE n == InodesPerBlock
           q == (OldPerGroup + n - 1) \div n
<1>1. n \in Nat \ {0} /\ OldPerGroup \in Nat \ {0}
  BY FixupAssumption
<1>2. q \in Nat /\ q * n <= OldPerGroup + n - 1 /\ OldPerGroup + n - 1 < q * n + n
  BY <1>1
<1>3. Renumbered = q * n
  BY DEF Renumbered, NewPerGroup
<1>4. q * n \in Nat /\ OldPerGroup <= q * n
  BY <1>1, <1>2
<1>5. (q * n + n - 1) \div n = q
  <2>1. ASSUME NEW r \in 0 .. n - 1 PROVE (q * n + r) \div n = q
    <3>1. n \in Nat \ {0} /\ q \in Int
      BY <1>1, <1>2
    <3> HIDE DEF n, q
    <3> QED BY <3>1, Division
  <2>2. n - 1 \in 0 .. n - 1 /\ q * n + (n - 1) = q * n + n - 1
    BY <1>1, <1>4
  <2> HIDE DEF q, n
  <2> QED BY <2>1, <2>2
<1>6. NewPerGroup(Renumbered) = Renumbered
  BY <1>1, <1>3, <1>4, <1>5 DEF NewPerGroup
<1> QED BY <1>1, <1>3, <1>4, <1>6 DEF Renumbered
-----------------------------------------------------------------------------
(* Control.                                                                *)

\* The phases.
THEOREM ControlInvariance == FixupSpec => []ControlInv
<1>1. FixupInit => ControlInv
  BY DEF FixupInit, ControlInv, Phases
<1>2. ASSUME ControlInv, [FixupNext]_fixupVars PROVE ControlInv'
  <2> USE <1>2 DEF ControlInv, Phases, State
  <2>1. CASE Start
    BY <2>1 DEF Start, disk
  <2>2. CASE BeginWalk
    BY <2>2 DEF BeginWalk, Open, disk
  <2>3. CASE Descend
    BY <2>3 DEF Descend, Open, Scanning, disk
  <2>4. CASE ProcessEntry \/ EndScan
    BY <2>4 DEF ProcessEntry, EndScan, Scanning, disk
  <2>5. CASE WriteBlock \/ Return
    BY <2>5 DEF WriteBlock, Return, Written, disk
  <2>6. CASE EndWalk
    BY <2>6 DEF EndWalk, Written, SetState, After, NextState
  <2>7. CASE WriteBit
    BY <2>7 DEF WriteBit, After, memory
  <2>8. CASE BeginSuper \/ CheckInodeBitmap \/ UpdateSuper
    BY <2>8 DEF BeginSuper, CheckInodeBitmap, UpdateSuper, disk
  <2>9. CASE WriteSuper
    BY <2>9 DEF WriteSuper, memory
  <2>10. CASE WriteGdt
    BY <2>10 DEF WriteGdt, SetState, After
  <2>11. CASE Crash
    BY <2>11 DEF Crash, disk
  <2>12. CASE UNCHANGED fixupVars
    BY <2>12 DEF fixupVars, disk, memory
  <2> QED BY <2>1, <2>2, <2>3, <2>4, <2>5, <2>6, <2>7, <2>8, <2>9, <2>10, <2>11, <2>12
          DEF FixupNext, FixupStep, Ended
<1> QED BY <1>1, <1>2, PTL DEF FixupSpec

LEMMA DryStep ==
  ASSUME ControlInv, no_write, [FixupNext]_fixupVars
  PROVE  UNCHANGED <<disk, no_write>>
<1> USE DEF ControlInv, disk
<1>1. CASE Start \/ BeginWalk \/ Descend \/ ProcessEntry \/ EndScan \/ Return
  BY <1>1 DEF Start, BeginWalk, Descend, ProcessEntry, EndScan, Return
<1>2. CASE WriteBlock \/ EndWalk
  BY <1>2 DEF WriteBlock, EndWalk, SetState
<1>3. CASE WriteBit
  BY <1>3 DEF WriteBit
<1>4. CASE BeginSuper \/ CheckInodeBitmap \/ UpdateSuper \/ WriteSuper \/ WriteGdt
  BY <1>4 DEF BeginSuper, CheckInodeBitmap, UpdateSuper, WriteSuper, WriteGdt, SetState
<1>5. CASE Crash
  BY <1>5 DEF Crash
<1>6. CASE UNCHANGED fixupVars
  BY <1>6 DEF fixupVars
<1> QED BY <1>1, <1>2, <1>3, <1>4, <1>5, <1>6 DEF FixupNext, FixupStep, Ended

\* With -n nothing on the disk changes, whatever the passes would do.
THEOREM DryRunWritesNothing == FixupSpec => NoWriteKeepsDisk
<1>1. ControlInv /\ [FixupNext]_fixupVars => [no_write => UNCHANGED disk]_fixupVars
  BY DryStep
<1> QED BY <1>1, ControlInvariance, PTL DEF FixupSpec, NoWriteKeepsDisk

-----------------------------------------------------------------------------
(* Counts and bitmaps.                                                     *)

\* The two free counts of a group differ by what BeginSuper adds.
LEMMA AddExtra ==
  ASSUME CountInv, AsRead
  PROVE  [g \in Groups |-> desc[g] + Extra] =
           IF super[0].per = Renumbered THEN desc ELSE Counted
<1>1. FreeInodes \in [Groups -> Int] /\ Counted \in [Groups -> Int]
  BY FixupAssumption, NewSize DEF Counted
<1>2. desc \in [Groups -> Int] /\ ipg = super[0].per
  BY <1>1 DEF CountInv
<1>3. Extra = Renumbered - super[0].per
  BY <1>2, NewSize DEF CountInv, Extra
<1>4. CASE super[0].per = Renumbered
  <2>1. Extra = 0
    BY <1>3, <1>4, NewSize
  <2> QED BY <1>2, <1>4, <2>1
<1>5. CASE super[0].per # Renumbered
  <2>1. desc = FreeInodes /\ Extra = Renumbered - OldPerGroup
    BY <1>2, <1>3, <1>5 DEF CountInv
  <2> QED BY <1>5, <2>1 DEF Counted
<1> QED BY <1>4, <1>5

\* A step that leaves the group size, counts and bitmaps alone.
LEMMA WalkKeepsCounts ==
  ASSUME ControlInv, CountInv, WriteInv, UninterruptedInv,
         UNCHANGED <<super, gdt, padding, ipg, desc, sb, at, no_write, crashes>>,
         AsRead, AsRead' \/ pc' \in {"failed", "undefined"}
  PROVE  CountInv' /\ WriteInv' /\ UninterruptedInv'
BY DEF ControlInv, CountInv, WriteInv, UninterruptedInv, AsRead, AllCounted, BitmapsClearedFirst

THEOREM CountInvariance == FixupSpec => [](CountInv /\ WriteInv /\ UninterruptedInv)
<1> USE FixupAssumption, NewSize
<1>1. FixupInit => CountInv /\ WriteInv /\ UninterruptedInv
  <2> SUFFICES ASSUME FixupInit PROVE CountInv /\ WriteInv /\ UninterruptedInv
    OBVIOUS
  <2>1. super[0].per = OldPerGroup /\ super = [h \in SuperGroups |-> super[h]]
    BY DEF FixupInit, SuperOf
  <2>2. OldPerGroup = Renumbered => Counted = FreeInodes
    BY DEF Counted
  <2>3. \A h \in SuperGroups : gdt[h] = Counted => OldPerGroup = Renumbered
    BY DEF FixupInit, Counted, Groups
  <2> QED BY <2>1, <2>2, <2>3
          DEF FixupInit, CountInv, WriteInv, UninterruptedInv, AsRead, BitmapsClearedFirst
<1>2. ASSUME ControlInv, CountInv, WriteInv, UninterruptedInv, [FixupNext]_fixupVars
      PROVE  CountInv' /\ WriteInv' /\ UninterruptedInv'
  <2> USE <1>2
  <2>1. CASE Start
    BY <2>1 DEF Start, disk, ControlInv, CountInv, WriteInv, UninterruptedInv, AsRead,
                AllCounted, BitmapsClearedFirst
  <2>2. CASE BeginWalk \/ Descend \/ ProcessEntry \/ EndScan \/ WriteBlock \/ Return
    <3>1. AsRead /\ (AsRead' \/ pc' \in {"failed", "undefined"})
      BY <2>2 DEF BeginWalk, Descend, Open, ProcessEntry, EndScan, Scanning, WriteBlock, Return, Written, AsRead
    <3>2. UNCHANGED <<super, gdt, padding, ipg, desc, sb, at, no_write, crashes>>
      BY <2>2 DEF BeginWalk, Descend, ProcessEntry, EndScan, WriteBlock, Return, disk
    <3> QED BY <3>1, <3>2, WalkKeepsCounts
  <2>3. CASE EndWalk
    <3>1. AsRead /\ (AsRead' \/ pc' = "failed")
      BY <2>3 DEF EndWalk, Written, SetState, After, NextState, AsRead, ControlInv, Phases, State
    <3>2. UNCHANGED <<super, gdt, padding, ipg, desc, sb, at, no_write, crashes>>
      BY <2>3 DEF EndWalk, SetState
    <3> QED BY <3>1, <3>2, WalkKeepsCounts
  <2>4. CASE WriteBit
    BY <2>4 DEF WriteBit, After, memory, ControlInv, CountInv, WriteInv, UninterruptedInv, AsRead,
                AllCounted, BitmapsClearedFirst
  <2>5. CASE BeginSuper
    <3>1. AsRead /\ pc' = "padding" /\ at' = 0 /\ ~AsRead'
      BY <2>5 DEF BeginSuper, AsRead
    <3>2. desc' = IF super[0].per = Renumbered THEN desc ELSE Counted
      BY <2>5, <3>1, AddExtra DEF BeginSuper
    <3>3. UNCHANGED <<super, gdt, padding, ipg, no_write, crashes>>
      BY <2>5 DEF BeginSuper, disk
    <3>4. super[0].per = Renumbered /\ super[0].per = OldPerGroup => Counted = FreeInodes
      BY DEF Counted
    <3>5. CountInv'
      BY <3>1, <3>2, <3>3 DEF CountInv, AsRead
    <3>6. WriteInv'
      BY <3>1, <3>3 DEF WriteInv, BitmapsClearedFirst, Groups
    <3>7. UninterruptedInv'
      BY <3>1, <3>2, <3>3, <3>4 DEF UninterruptedInv, AsRead
    <3> QED BY <3>5, <3>6, <3>7
  <2>6. CASE CheckInodeBitmap
    <3> USE <2>6 DEF CheckInodeBitmap
    <3>1. CountInv'
      BY DEF CountInv, AsRead, LastBitmap
    <3>2. WriteInv'
      BY DEF CountInv, WriteInv, BitmapsClearedFirst, Groups, LastBitmap
    <3>3. UninterruptedInv'
      BY DEF UninterruptedInv, AsRead
    <3> QED BY <3>1, <3>2, <3>3
  <2>7. CASE UpdateSuper
    <3> USE <2>7 DEF UpdateSuper, disk
    <3>1. CountInv'
      BY DEF CountInv, AsRead
    <3>2. WriteInv'
      <4>1. ~no_write /\ Renumbered # OldPerGroup => padding = {}
        BY DEF CountInv, WriteInv, BitmapsClearedFirst, Groups, LastBitmap
      <4> QED BY <4>1 DEF WriteInv, BitmapsClearedFirst
    <3>3. UninterruptedInv'
      BY DEF UninterruptedInv, AsRead, Groups
    <3> QED BY <3>1, <3>2, <3>3
  <2>8. CASE WriteSuper
    <3> USE <2>8 DEF WriteSuper, memory
    <3>1. super'[0].per = IF ~no_write /\ at = 0 THEN Renumbered ELSE super[0].per
      BY DEF CountInv, OnTarget
    <3>2. CountInv'
      BY <3>1 DEF CountInv, AsRead
    <3>3. WriteInv'
      BY <3>1 DEF CountInv, WriteInv, BitmapsClearedFirst
    <3>4. UninterruptedInv'
      BY DEF UninterruptedInv, AsRead
    <3> QED BY <3>2, <3>3, <3>4
  <2>9. CASE WriteGdt
    <3> USE <2>9 DEF WriteGdt
    <3>1. gdt' = IF no_write THEN gdt ELSE [gdt EXCEPT ![at] = desc]
      OBVIOUS
    <3>2. UNCHANGED <<super, padding, ipg, desc, sb, no_write, crashes>> /\ ~AsRead'
      BY DEF SetState, After, AsRead, ControlInv, Phases, State
    <3>3. \/ pc' = "super" /\ at' \in SuperGroups /\ at' > at /\ \A h \in SuperGroups : h < at' => h <= at
          \/ at' = at /\ pc' \in {"bit", "done"} /\ \A h \in SuperGroups : h <= at
      <4>1. at \in SuperGroups /\ SuperGroups \subseteq Int
        BY DEF CountInv, Groups
      <4>2. CASE /\ \E g \in Later(at) : at' = g /\ \A h \in Later(at) : g <= h
                 /\ pc' = "super"
        <5>1. at' \in Later(at) /\ \A h \in Later(at) : at' <= h
          BY <4>2
        <5>2. at' \in SuperGroups /\ at' > at
          BY <5>1 DEF Later
        <5>3. \A h \in SuperGroups : h < at' => h <= at
          BY <4>1, <5>1, <5>2 DEF Later
        <5> QED BY <4>2, <5>2, <5>3
      <4>3. CASE Later(at) = {} /\ SetState("unset") /\ at' = at
        <5>1. \A h \in SuperGroups : h <= at
          BY <4>1, <4>3 DEF Later
        <5> QED BY <4>3, <5>1 DEF SetState, After
      <4> QED BY <4>2, <4>3
    <3>4. CountInv'
      BY <3>1, <3>2, <3>3 DEF CountInv, WriteInv
    <3>5. WriteInv'
      BY <3>2, <3>3 DEF WriteInv, BitmapsClearedFirst
    <3>6. UninterruptedInv'
      <4>1. SUFFICES ASSUME crashes = 0, ~no_write PROVE UninterruptedInv'
        BY <3>2 DEF UninterruptedInv
      <4>2. desc = Counted /\ \A h \in SuperGroups : h < at => gdt[h] = Counted
        BY <4>1 DEF UninterruptedInv
      <4>3. at \in SuperGroups /\ at \in Int /\ SuperGroups \subseteq Int
        BY DEF CountInv, Groups
      <4>4. \A h \in SuperGroups : h <= at => gdt'[h] = Counted
        BY <3>1, <4>1, <4>2, <4>3 DEF CountInv
      <4> QED BY <3>2, <3>3, <4>1, <4>2, <4>4 DEF UninterruptedInv, AllCounted
    <3> QED BY <3>4, <3>5, <3>6
  <2>10. CASE Crash
    BY <2>10 DEF Crash, disk, ControlInv, CountInv, WriteInv, UninterruptedInv, AsRead, BitmapsClearedFirst
  <2>11. CASE UNCHANGED fixupVars
    BY <2>11 DEF fixupVars, disk, memory, CountInv, WriteInv, UninterruptedInv, AsRead, AllCounted,
                 BitmapsClearedFirst
  <2> QED BY <2>1, <2>2, <2>3, <2>4, <2>5, <2>6, <2>7, <2>8, <2>9, <2>10, <2>11
          DEF FixupNext, FixupStep, Ended
<1> QED BY <1>1, <1>2, ControlInvariance, PTL DEF FixupSpec

\* The bitmaps are clean before the superblock counts the inodes they hold,
\* wherever the tool is stopped.
THEOREM BitmapsAreClean == FixupSpec => []BitmapsClearedFirst
<1>1. WriteInv => BitmapsClearedFirst
  BY DEF WriteInv
<1> QED BY <1>1, CountInvariance, PTL

\* No restart counts the new inodes of a group twice, and a run that was not
\* stopped counts them once.
THEOREM FreeInodesCountedOnce == FixupSpec => []CountedOnce
<1>1. ASSUME ControlInv, CountInv, UninterruptedInv PROVE CountedOnce
  <2>1. \A g \in Groups : Counted[g] = FreeInodes[g] + Renumbered - OldPerGroup
    BY FixupAssumption, NewSize DEF Counted
  <2>2. pc = "done" /\ ~no_write /\ crashes = 0 => AllCounted
    BY <1>1 DEF UninterruptedInv
  <2>3. \A h \in SuperGroups : gdt[h] \in {FreeInodes, Counted}
    BY <1>1 DEF CountInv
  <2> QED BY <2>1, <2>2, <2>3 DEF CountedOnce, AllCounted
<1> QED BY <1>1, ControlInvariance, CountInvariance, PTL

-----------------------------------------------------------------------------
(* The walk.                                                               *)

\* The directory an entry leads to, and those that can be reached from one.
Child(d, k) == DirAt(Entries[d][k].slot)
Below(d) == {x \in Dirs : \A S \in SUBSET Dirs : d \in S /\ Closed(S) => x \in S}

\* The entry has what the pass is to leave it with, and a whole directory has;
\* the first pass is to leave no short rec_len.
Finished(e) == (magic = "marking" => e.marked) /\ (magic = "updating" => ~e.marked)
Over(x) ==
  /\ \A k \in DOMAIN Entries[x] : Entries[x][k].live => Finished(entry[x][k])
  /\ magic = "unset" => x \notin short
AllBelowOver(d, k) == \A x \in Below(Child(d, k)) : Over(x)

\* What holds of the entries of a directory, on the disk and in a buffer: a
\* number counts with the size its mark and the phase imply, and while numbers
\* are updated an entry is unmarked only when all below it is.
Number == [inum : Int, marked : BOOLEAN]
SizeOf(e) == IF ~e.marked /\ magic \in {"updating", "sb"} THEN Renumbered ELSE super[0].per
Right(buf, d, k) ==
  IF Entries[d][k].live THEN buf[k].inum = InumOf(Entries[d][k].slot, SizeOf(buf[k]))
  ELSE buf[k].inum = 0
Consistent(buf, d) ==
  /\ buf \in [DOMAIN Entries[d] -> Number]
  /\ \A k \in DOMAIN Entries[d] : Right(buf, d, k)
  /\ magic \in {"unset", "sb"} =>
       \A k \in DOMAIN Entries[d] : Entries[d][k].live => ~buf[k].marked
  /\ magic = "updating" =>
       \A k \in DOMAIN Entries[d] : IsSub(d, k) /\ ~buf[k].marked => AllBelowOver(d, k)

DiskInv ==
  /\ entry = [d \in Dirs |-> entry[d]]
  /\ \A d \in Dirs : Consistent(entry[d], d)
  /\ short \subseteq ShortRecLen
  /\ magic # "unset" => short = {}

\* Entries the activation has passed, and blocks it has written, are finished.
Activation ==
  [dir : Dirs, buf : UNION {[DOMAIN Entries[d] -> Number] : d \in Dirs}, short : BOOLEAN,
   pos : Nat \ {0}, write : Nat]
Passed(f, k) == Finished(f.buf[k]) /\ (IsSub(f.dir, k) => AllBelowOver(f.dir, k))
FrameInv(f) ==
  /\ f \in Activation
  /\ Consistent(f.buf, f.dir)
  /\ \A k \in DOMAIN Entries[f.dir] : Entries[f.dir][k].live =>
       /\ k < f.pos \/ f.write > 0 => Passed(f, k)
       /\ Entries[f.dir][k].block < f.write => Finished(entry[f.dir][k])
  /\ f.short => f.dir \in ShortRecLen
  /\ magic = "unset" /\ f.write > 0 =>
       ~f.short /\ (f.write \notin Blocks(f.dir) => f.dir \notin short)

\* An activation below another works on the directory that one is at.
Awaits(f, g) ==
  /\ f.write = 0 /\ f.pos \in DOMAIN Entries[f.dir] /\ IsSub(f.dir, f.pos)
  /\ g.dir = Child(f.dir, f.pos)
Shape(s, F) ==
  /\ s \in Seq(F) /\ s # <<>> /\ s[Len(s)].dir = Root
  /\ \A i \in 1 .. Len(s) - 1 : Awaits(s[i + 1], s[i])
Good == {f \in Activation : FrameInv(f)}
StackInv == pc = "walk" /\ ~no_write => Shape(stack, Good)

\* What can be reached from a directory is the directory and what can be
\* reached from those it has entries for.
LEMMA BelowStep ==
  ASSUME NEW d \in Dirs, NEW M, d \in M,
         \A k \in DOMAIN Entries[d] : IsSub(d, k) => Below(Child(d, k)) \subseteq M
  PROVE  Below(d) \subseteq M
<1> DEFINE Subs == {k \in DOMAIN Entries[d] : IsSub(d, k)}
           S == {d} \cup UNION {Below(Child(d, k)) : k \in Subs}
<1>1. S \in SUBSET Dirs /\ d \in S /\ S \subseteq M
  BY DEF Below
<1>2. ASSUME NEW x \in S, NEW k \in DOMAIN Entries[x], IsSub(x, k)
      PROVE  Child(x, k) \in S
  <2>1. \E c \in Dirs : Home[c] = Entries[x][k].slot
    BY <1>2 DEF IsSub, IsDirSlot
  <2>2. Child(x, k) \in Dirs
    BY <2>1 DEF Child, DirAt
  <2>3. CASE x = d
    <3>1. Child(d, k) \in Below(Child(d, k))
      BY <2>2, <2>3 DEF Below
    <3> QED BY <1>2, <2>3, <3>1
  <2>4. CASE x # d
    <3>1. PICK j \in Subs : x \in Below(Child(d, j))
      BY <2>4
    <3>2. ASSUME NEW T \in SUBSET Dirs, Child(d, j) \in T, Closed(T) PROVE Child(x, k) \in T
      <4>1. x \in T
        BY <3>1, <3>2 DEF Below
      <4> QED BY <1>2, <3>2, <4>1 DEF Closed, Child
    <3>3. Child(x, k) \in Below(Child(d, j))
      BY <2>2, <3>2 DEF Below
    <3> QED BY <3>1, <3>3
  <2> QED BY <2>3, <2>4
<1>3. Closed(S)
  BY <1>2 DEF Closed, Child
<1> HIDE DEF S
<1> QED BY <1>1, <1>3 DEF Below

LEMMA SubIsLive ==
  ASSUME NEW d \in Dirs, NEW k \in DOMAIN Entries[d], IsSub(d, k)
  PROVE  Entries[d][k].live /\ Child(d, k) \in Dirs
<1>1. \E c \in Dirs : Home[c] = Entries[d][k].slot
  BY DEF IsSub, IsDirSlot
<1> QED BY <1>1 DEF IsSub, Child, DirAt

\* The entries of a directory, as the assumptions give them.
LEMMA EntryOf ==
  ASSUME NEW d \in Dirs, NEW k \in DOMAIN Entries[d]
  PROVE  /\ Entries[d][k] \in Entry /\ k \in Nat \ {0} /\ Entries[d][k].block \in Nat \ {0}
         /\ Entries[d][k].live => /\ Entries[d][k].slot \in Slot
                                 /\ Entries[d][k].slot[2] < OldPerGroup
                                 /\ \A j \in 1 .. k : Entries[d][j].live
         /\ 1 .. Entries[d][k].block \subseteq Blocks(d)
         /\ DOMAIN Entries[d] = 1 .. Len(Entries[d])
<1>1. Entries[d] \in Seq(Entry)
  BY FixupAssumption
<1>2. Entries[d][k] \in Entry /\ k \in Nat \ {0} /\ DOMAIN Entries[d] = 1 .. Len(Entries[d])
  BY <1>1
<1>3. Entries[d][k].block \in Nat \ {0} /\ Entries[d][k].slot \in Slot
  BY <1>2 DEF Entry
<1> QED BY <1>2, <1>3, ImageAssumption

\* A number of a live entry is not 0, and with its size names its slot.
LEMMA LiveNumber ==
  ASSUME CountInv, NEW d \in Dirs, NEW buf, Consistent(buf, d),
         NEW k \in DOMAIN Entries[d], Entries[d][k].live
  PROVE  /\ buf[k].inum # 0
         /\ SlotOf(buf[k].inum, SizeOf(buf[k])) = Entries[d][k].slot
         /\ SizeOf(buf[k]) \in {OldPerGroup, Renumbered}
<1>1. buf[k].inum = InumOf(Entries[d][k].slot, SizeOf(buf[k]))
  BY DEF Consistent, Right
<1>2. SizeOf(buf[k]) \in {OldPerGroup, Renumbered}
  BY DEF CountInv, SizeOf
<1>3. Entries[d][k].slot \in Slot /\ Entries[d][k].slot[2] < SizeOf(buf[k])
      /\ SizeOf(buf[k]) \in Nat \ {0}
  <2>1. Entries[d][k].slot \in Slot /\ Entries[d][k].slot[2] < OldPerGroup
    BY EntryOf
  <2>2. Entries[d][k].slot[2] \in Nat
    BY <2>1 DEF Slot
  <2> QED BY <1>2, <2>1, <2>2, NewSize, FixupAssumption
<1> QED BY <1>1, <1>2, <1>3, SlotOfInum

\* An activation that is not at the end is at a live entry, and where it
\* processes it reads the slot the entry was made for.
LEMMA AtEntry ==
  ASSUME ControlInv, CountInv, pc = "walk", ~no_write,
         NEW f, FrameInv(f), ~AtEnd(f)
  PROVE  /\ f.pos \in DOMAIN Entries[f.dir] /\ Entries[f.dir][f.pos].live
         /\ ToProcess(f) => SlotOf(Now(f).inum, ipg) = Entries[f.dir][f.pos].slot
<1>1. f \in Activation /\ f.dir \in Dirs /\ Consistent(f.buf, f.dir)
  BY DEF FrameInv, Activation
<1>2. f.pos \in DOMAIN Entries[f.dir] /\ Now(f).inum # 0
  <2>1. DOMAIN f.buf = DOMAIN Entries[f.dir]
    BY <1>1 DEF Consistent
  <2> QED BY <2>1 DEF AtEnd, Now
<1>3. Entries[f.dir][f.pos].live
  BY <1>1, <1>2 DEF Consistent, Right, Now
<1>4. SlotOf(Now(f).inum, SizeOf(Now(f))) = Entries[f.dir][f.pos].slot
  BY <1>1, <1>2, <1>3, LiveNumber DEF Now
<1>5. ToProcess(f) => SizeOf(Now(f)) = ipg
  BY DEF ToProcess, SizeOf, CountInv, AsRead, ControlInv, Phases, State
<1> QED BY <1>2, <1>3, <1>4, <1>5

\* Processing the entry an activation is at, when all below it is over.
LEMMA ProcessPasses ==
  ASSUME ControlInv, CountInv, pc = "walk", ~no_write,
         NEW f, FrameInv(f), f.write = 0,
         f.pos \in DOMAIN Entries[f.dir], Entries[f.dir][f.pos].live,
         ToProcess(f) => SlotOf(Now(f).inum, ipg) = Entries[f.dir][f.pos].slot,
         IsSub(f.dir, f.pos) => AllBelowOver(f.dir, f.pos)
  PROVE  FrameInv(Process(f)) /\ Process(f).dir = f.dir
<1> DEFINE d == f.dir
           p == f.pos
           b == Process(f).buf
           new == IF State = "marking" THEN [Now(f) EXCEPT !.marked = TRUE]
                  ELSE IF State = "updating" /\ ToProcess(f)
                       THEN [inum |-> ComputeNewInum(Now(f).inum), marked |-> FALSE]
                       ELSE Now(f)
<1>1. /\ f \in Activation /\ d \in Dirs /\ p \in Nat \ {0}
      /\ f.buf \in [DOMAIN Entries[d] -> Number] /\ f.buf[p] \in Number
      /\ Consistent(f.buf, d) /\ magic \in {"unset", "marking", "updating"} /\ State = magic
  BY DEF FrameInv, Activation, Consistent, ControlInv, Phases, State
<1>2. Process(f) = [f EXCEPT !.pos = p + 1, !.buf = [f.buf EXCEPT ![p] = new]]
  BY <1>1 DEF Process, Now, Activation
<1>3. /\ Process(f).dir = d /\ Process(f).pos = p + 1 /\ Process(f).write = 0
      /\ Process(f).short = f.short /\ b = [f.buf EXCEPT ![p] = new]
  BY <1>1, <1>2 DEF Activation
<1>4. /\ new \in Number /\ Finished(new)
      /\ new.inum = InumOf(Entries[d][p].slot, SizeOf(new))
      /\ magic = "unset" => ~new.marked
  <2>1. Now(f) = f.buf[p] /\ Now(f).inum = InumOf(Entries[d][p].slot, SizeOf(Now(f)))
    BY <1>1 DEF Consistent, Right, Now
  <2>2. CASE magic = "unset"
    BY <1>1, <2>1, <2>2 DEF Finished, Consistent
  <2>3. CASE magic = "marking"
    BY <1>1, <2>1, <2>3 DEF Finished, SizeOf, Number
  <2>4. CASE magic = "updating" /\ ToProcess(f)
    <3>1. NewPerGroup(ipg) = Renumbered
      BY NewSize DEF CountInv
    <3>2. ComputeNewInum(Now(f).inum) = InumOf(Entries[d][p].slot, Renumbered)
      BY <2>4, <3>1 DEF ComputeNewInum
    <3>3. InumOf(Entries[d][p].slot, Renumbered) \in Int
      <4>1. Entries[d][p].slot \in Slot /\ Entries[d][p].slot[2] < Renumbered
        <5>1. d \in Dirs /\ p \in DOMAIN Entries[d] /\ Entries[d][p].live
          BY <1>1
        <5> HIDE DEF d, p, b, new
        <5>2. Entries[d][p].slot \in Slot /\ Entries[d][p].slot[2] < OldPerGroup
          BY <5>1, EntryOf
        <5>3. Entries[d][p].slot[2] \in Int
          BY <5>2 DEF Slot
        <5> QED BY <5>2, <5>3, NewSize, FixupAssumption
      <4> QED BY <4>1, SlotOfInum, NewSize
    <3> QED BY <1>1, <2>4, <3>2, <3>3 DEF Finished, SizeOf, Number
  <2>5. CASE magic = "updating" /\ ~ToProcess(f)
    BY <1>1, <2>1, <2>5 DEF Finished, ToProcess, Now
  <2> QED BY <1>1, <2>2, <2>3, <2>4, <2>5
<1> HIDE DEF new, b
<1>5. b \in [DOMAIN Entries[d] -> Number] /\ b[p] = new
      /\ \A k \in DOMAIN Entries[d] : k # p => b[k] = f.buf[k]
  BY <1>1, <1>3, <1>4
<1>6. Process(f) \in Activation
  <2>1. Process(f) = [dir |-> d, buf |-> b, short |-> f.short, pos |-> p + 1, write |-> f.write]
    BY <1>1, <1>2, <1>3 DEF Activation
  <2>2. b \in UNION {[DOMAIN Entries[x] -> Number] : x \in Dirs}
    BY <1>1, <1>5
  <2> QED BY <1>1, <2>1, <2>2 DEF Activation
<1>7. Consistent(b, d)
  BY <1>1, <1>4, <1>5 DEF Consistent, Right
<1>8. ASSUME NEW k \in DOMAIN Entries[d], Entries[d][k].live, k < p + 1
      PROVE  Finished(b[k]) /\ (IsSub(d, k) => AllBelowOver(d, k))
  <2>1. k \in Nat
    BY <1>1, EntryOf
  <2>2. CASE k = p
    BY <1>4, <1>5, <2>2
  <2>3. CASE k < p
    <3>1. k # p /\ Passed(f, k)
      BY <1>1, <1>8, <2>1, <2>3 DEF FrameInv
    <3> QED BY <1>5, <3>1 DEF Passed
  <2> QED BY <1>1, <1>8, <2>1, <2>2, <2>3
<1>9. \A k \in DOMAIN Entries[d] : Entries[d][k].live =>
         (Entries[d][k].block < f.write => Finished(entry[d][k]))
  BY DEF FrameInv
<1>10. FrameInv(Process(f))
  BY <1>3, <1>6, <1>7, <1>8, <1>9 DEF FrameInv, Passed, b
<1> QED BY <1>3, <1>10

\* The stack under the changes the steps make to it.
LEMMA Replaced ==
  ASSUME NEW F, NEW s, Shape(s, F), NEW g \in F, g.dir = Head(s).dir
  PROVE  Shape(<<g>> \o Tail(s), F)
<1> DEFINE t == <<g>> \o Tail(s)
<1>1. s \in Seq(F) /\ s # <<>>
  BY DEF Shape
<1>2. /\ t \in Seq(F) /\ t # <<>> /\ Len(t) = Len(s) /\ t[1] = g
      /\ \A i \in 2 .. Len(s) : t[i] = s[i]
  BY <1>1
<1> HIDE DEF t
<1>3. \A i \in 1 .. Len(s) : t[i].dir = s[i].dir
  BY <1>1, <1>2
<1>4. \A i \in 1 .. Len(s) - 1 : Awaits(t[i + 1], t[i])
  BY <1>1, <1>2, <1>3 DEF Shape, Awaits
<1> QED BY <1>1, <1>2, <1>3, <1>4 DEF Shape, t

LEMMA Popped ==
  ASSUME NEW F, NEW s, Shape(s, F), Len(s) > 1
  PROVE  Shape(Tail(s), F) /\ Head(Tail(s)) = s[2]
<1> DEFINE t == Tail(s)
<1>1. s \in Seq(F) /\ s # <<>>
  BY DEF Shape
<1>2. /\ Len(s) \in Nat /\ t \in Seq(F) /\ Len(t) = Len(s) - 1
      /\ \A i \in 1 .. Len(s) - 1 : t[i] = s[i + 1]
  BY <1>1
<1>3. t # <<>>
  <2>1. Len(<<>>) = 0
    OBVIOUS
  <2>2. Len(t) # 0
    BY <1>2
  <2> QED BY <2>1, <2>2
<1>4. Head(t) = s[2]
  BY <1>2, <1>3
<1> HIDE DEF t
<1>5. t[Len(t)] = s[Len(s)]
  BY <1>2
<1>6. \A i \in 1 .. Len(t) - 1 : Awaits(t[i + 1], t[i])
  <2> SUFFICES ASSUME NEW i \in 1 .. Len(t) - 1 PROVE Awaits(t[i + 1], t[i])
    OBVIOUS
  <2>1. t[i] = s[i + 1] /\ t[i + 1] = s[(i + 1) + 1] /\ i + 1 \in 1 .. Len(s) - 1
    BY <1>2
  <2> QED BY <2>1 DEF Shape
<1> QED BY <1>2, <1>3, <1>4, <1>5, <1>6 DEF Shape, t

LEMMA Pushed ==
  ASSUME NEW F, NEW s, Shape(s, F), NEW g \in F, Awaits(Head(s), g)
  PROVE  Shape(<<g>> \o s, F)
<1> DEFINE t == <<g>> \o s
<1>1. s \in Seq(F) /\ s # <<>>
  BY DEF Shape
<1>2. /\ t \in Seq(F) /\ t # <<>> /\ Len(t) = Len(s) + 1 /\ t[1] = g
      /\ \A i \in 1 .. Len(s) : t[i + 1] = s[i]
      /\ Head(s) = s[1]
  BY <1>1
<1> HIDE DEF t
<1>3. \A i \in 1 .. Len(t) - 1 : Awaits(t[i + 1], t[i])
  <2> SUFFICES ASSUME NEW i \in 1 .. Len(t) - 1 PROVE Awaits(t[i + 1], t[i])
    OBVIOUS
  <2>1. i = 1 \/ (i - 1 \in 1 .. Len(s) - 1 /\ t[i] = s[i - 1])
    BY <1>1, <1>2
  <2>2. t[i + 1] = s[i] /\ (i # 1 => s[(i - 1) + 1] = s[i])
    BY <1>1, <1>2
  <2> QED BY <1>2, <2>1, <2>2 DEF Shape
<1>4. t[Len(t)] = s[Len(s)]
  BY <1>1, <1>2
<1> QED BY <1>2, <1>3, <1>4 DEF Shape, t

LEMMA Widened ==
  ASSUME NEW F, NEW G, F \subseteq G, NEW s, Shape(s, F)
  PROVE  Shape(s, G)
<1>1. s \in Seq(G)
  BY DEF Shape
<1> QED BY <1>1 DEF Shape

\* What is finished stays so within a phase, and with it what the activations
\* rely on.
LEMMA FramesStay ==
  ASSUME UNCHANGED magic, super'[0].per = super[0].per, short' \subseteq short,
         \A x \in Dirs : \A k \in DOMAIN Entries[x] :
           Entries[x][k].live /\ Finished(entry[x][k]) => Finished(entry[x][k])'
  PROVE  /\ \A x \in Dirs : Over(x) => Over(x)'
         /\ \A d \in Dirs : \A buf : Consistent(buf, d) => Consistent(buf, d)'
         /\ Good \subseteq Good'
<1>1. \A x \in Dirs : Over(x) => Over(x)'
  BY DEF Over
<1>2. \A d, k : AllBelowOver(d, k) => AllBelowOver(d, k)'
  BY <1>1 DEF AllBelowOver, Below
<1>3. ASSUME NEW d \in Dirs, NEW buf, Consistent(buf, d) PROVE Consistent(buf, d)'
  BY <1>2, <1>3 DEF Consistent, Right, SizeOf
<1>4. ASSUME NEW f, FrameInv(f) PROVE FrameInv(f)'
  <2>1. f \in Activation /\ f.dir \in Dirs
    BY <1>4 DEF FrameInv, Activation
  <2>2. Consistent(f.buf, f.dir)'
    BY <1>3, <1>4, <2>1 DEF FrameInv
  <2>3. \A k \in DOMAIN Entries[f.dir] : Passed(f, k) => Passed(f, k)'
    BY <1>2 DEF Passed, Finished
  <2> QED BY <1>4, <2>1, <2>2, <2>3 DEF FrameInv
<1>5. Good \subseteq Good'
  BY <1>4 DEF Good
<1> QED BY <1>1, <1>3, <1>5

\* An activation that has written every block leaves everything below its
\* directory finished.
LEMMA SubtreeOver ==
  ASSUME NEW f, FrameInv(f), f.write > 0, f.write \notin Blocks(f.dir)
  PROVE  \A x \in Below(f.dir) : Over(x)
<1> DEFINE d == f.dir
           M == {x \in Dirs : Over(x)}
<1>1. d \in Dirs /\ f.write \in Nat
  BY DEF FrameInv, Activation
<1>2. ASSUME NEW k \in DOMAIN Entries[d] PROVE Entries[d][k].block < f.write
  <2>1. Entries[d][k].block \in Nat \ {0} /\ 1 .. Entries[d][k].block \subseteq Blocks(d)
    BY <1>1, EntryOf
  <2> QED BY <1>1, <2>1
<1>3. d \in M
  BY <1>1, <1>2 DEF FrameInv, Over
<1>4. ASSUME NEW k \in DOMAIN Entries[d], IsSub(d, k) PROVE Below(Child(d, k)) \subseteq M
  <2>1. Passed(f, k)
    BY <1>1, <1>4, SubIsLive DEF FrameInv
  <2> QED BY <1>4, <2>1 DEF Passed, AllBelowOver, Below
<1> HIDE DEF M
<1>5. Below(d) \subseteq M
  BY <1>1, <1>3, <1>4, BelowStep
<1> QED BY <1>5 DEF M

LEMMA BelowRoot == Below(Root) = Dirs
BY ImageAssumption, FixupAssumption DEF Below

\* At the end of the entries all are passed: behind one that is not live
\* there is none.
LEMMA ScanPasses ==
  ASSUME CountInv, NEW f, FrameInv(f), f.write = 0, AtEnd(f),
         NEW k \in DOMAIN Entries[f.dir], Entries[f.dir][k].live
  PROVE  k < f.pos
<1>1. /\ f \in Activation /\ f.dir \in Dirs /\ f.pos \in Nat \ {0} /\ Consistent(f.buf, f.dir)
      /\ DOMAIN f.buf = DOMAIN Entries[f.dir]
  BY DEF FrameInv, Activation, Consistent
<1>2. k \in Nat \ {0} /\ DOMAIN Entries[f.dir] = 1 .. Len(Entries[f.dir])
      /\ \A j \in 1 .. k : Entries[f.dir][j].live
  BY <1>1, EntryOf
<1>3. SUFFICES ASSUME f.pos <= k PROVE FALSE
  BY <1>1, <1>2
<1>4. f.pos \in DOMAIN Entries[f.dir] /\ Entries[f.dir][f.pos].live
  BY <1>1, <1>2, <1>3
<1>5. f.buf[f.pos].inum # 0
  BY <1>1, <1>4, LiveNumber
<1> QED BY <1>1, <1>4, <1>5 DEF AtEnd

LEMMA FixupInitWalk ==
  ASSUME FixupInit
  PROVE  DiskInv /\ StackInv
<1>1. magic = "unset" /\ pc = "down" /\ super[0].per = OldPerGroup
  BY FixupAssumption DEF FixupInit, SuperOf
<1>2. entry = [d \in Dirs |-> entry[d]] /\ short = ShortRecLen
  BY DEF FixupInit
<1>3. ASSUME NEW d \in Dirs PROVE Consistent(entry[d], d)
  <2>1. \A k \in DOMAIN Entries[d] : Entries[d][k].live => InumOf(Entries[d][k].slot, OldPerGroup) \in Nat
    BY EntryOf, SlotOfInum, FixupAssumption
  <2>2. entry[d] = [k \in DOMAIN Entries[d] |->
          [inum |-> IF Entries[d][k].live THEN InumOf(Entries[d][k].slot, OldPerGroup) ELSE 0,
           marked |-> FALSE]]
    BY DEF FixupInit
  <2>3. entry[d] \in [DOMAIN Entries[d] -> Number]
    BY <2>1, <2>2 DEF Number
  <2> QED BY <1>1, <2>2, <2>3 DEF Consistent, Right, SizeOf
<1> QED BY <1>1, <1>2, <1>3 DEF DiskInv, StackInv

\* The running activation.
LEMMA TopIsGood ==
  ASSUME StackInv, pc = "walk", ~no_write
  PROVE  /\ Shape(stack, Good) /\ Top \in Good /\ FrameInv(Top) /\ Top = stack[1]
         /\ Top \in Activation /\ Top.dir \in Dirs /\ Consistent(Top.buf, Top.dir)
<1>1. Shape(stack, Good)
  BY DEF StackInv
<1>2. Top \in Good /\ Top = stack[1]
  BY <1>1 DEF Shape, Top
<1> QED BY <1>1, <1>2 DEF Good, FrameInv, Activation

\* WriteBlock, the one step of the walk that changes the disk.
LEMMA WriteBlockWalk ==
  ASSUME ControlInv, CountInv, DiskInv, StackInv, ~no_write, WriteBlock
  PROVE  DiskInv' /\ StackInv'
<1>0. PICK f : f = Top
  OBVIOUS
<1> DEFINE d == f.dir
           w == f.write
           g == [f EXCEPT !.write = @ + 1]
<1>1. /\ Shape(stack, Good) /\ FrameInv(f) /\ f \in Activation /\ d \in Dirs /\ Consistent(f.buf, d)
      /\ w \in Nat /\ w > 0
  <2>1. /\ Shape(stack, Good) /\ FrameInv(f) /\ f \in Activation /\ d \in Dirs
        /\ Consistent(f.buf, d) /\ w \in Nat /\ w \in Blocks(d)
    BY <1>0, TopIsGood DEF WriteBlock, Activation
  <2> QED BY <2>1, EntryOf DEF Blocks
<1>2. ASSUME NEW x \in Dirs, NEW k \in DOMAIN Entries[x]
      PROVE  entry'[x][k] = IF x = d /\ Entries[x][k].block = w THEN f.buf[k] ELSE entry[x][k]
  <2>1. DOMAIN entry[d] = DOMAIN Entries[d] /\ DOMAIN entry = Dirs
    BY <1>1 DEF DiskInv, Consistent
  <2> QED BY <1>0, <1>1, <2>1 DEF WriteBlock
<1>3. /\ entry' = [x \in Dirs |-> entry'[x]]
      /\ \A x \in Dirs : entry'[x] = [k \in DOMAIN Entries[x] |-> entry'[x][k]]
  BY <1>0, <1>1 DEF DiskInv, Consistent, WriteBlock
<1>4. /\ UNCHANGED <<magic, super, pc, no_write>> /\ stack' = <<g>> \o Tail(stack)
      /\ short' = IF w + 1 \notin Blocks(d) /\ ~f.short THEN short \ {d} ELSE short
  BY <1>0 DEF WriteBlock
<1>5. \A k \in DOMAIN Entries[d] : Entries[d][k].live => Finished(f.buf[k])
  BY <1>1 DEF FrameInv, Passed
<1>6. \A x \in Dirs : \A k \in DOMAIN Entries[x] :
        Entries[x][k].live /\ Finished(entry[x][k]) => Finished(entry[x][k])'
  BY <1>2, <1>4, <1>5 DEF Finished
<1>7. /\ \A x \in Dirs : \A buf : Consistent(buf, x) => Consistent(buf, x)'
      /\ Good \subseteq Good'
  BY <1>4, <1>6, FramesStay
<1>8. DiskInv'
  <2>1. ASSUME NEW x \in Dirs PROVE Consistent(entry[x], x)'
    <3>1. PICK old : old = entry[x]
      OBVIOUS
    <3>2. Consistent(old, x)' /\ (x = d => Consistent(f.buf, x)')
      BY <1>1, <1>7, <3>1 DEF DiskInv
    <3>3. \A k \in DOMAIN Entries[x] : entry'[x][k] = old[k] \/ (x = d /\ entry'[x][k] = f.buf[k])
      BY <1>2, <3>1
    <3>4. entry'[x] \in [DOMAIN Entries[x] -> Number]
      BY <1>3, <3>2, <3>3 DEF Consistent
    <3> QED BY <3>2, <3>3, <3>4 DEF Consistent, Right, SizeOf
  <2> QED BY <1>3, <1>4, <2>1 DEF DiskInv
<1>9. g \in Good'
  <2>1. /\ g \in Activation /\ g.dir = d /\ g.buf = f.buf /\ g.pos = f.pos /\ g.write = w + 1
        /\ g.short = f.short
    BY <1>1 DEF Activation
  <2>2. FrameInv(f)'
    BY <1>1, <1>7 DEF Good
  <2>3. ASSUME NEW k \in DOMAIN Entries[d], Entries[d][k].live, Entries[d][k].block < w + 1
        PROVE  Finished(entry[d][k])'
    <3>1. Entries[d][k].block \in Nat
      BY <1>1, EntryOf
    <3>2. CASE Entries[d][k].block = w
      BY <1>1, <1>2, <1>4, <1>5, <2>3, <3>2 DEF Finished
    <3>3. CASE Entries[d][k].block < w
      BY <1>1, <1>6, <2>3, <3>3 DEF FrameInv
    <3> QED BY <1>1, <2>3, <3>1, <3>2, <3>3
  <2>4. /\ f.short => d \in ShortRecLen
        /\ magic' = "unset" => ~f.short /\ (w + 1 \notin Blocks(d) => d \notin short')
    BY <1>1, <1>4 DEF FrameInv
  <2> HIDE DEF g
  <2> QED BY <1>1, <2>1, <2>2, <2>3, <2>4 DEF FrameInv, Passed, Good
<1>10. Shape(stack', Good')
  <2>1. Shape(stack, Good')
    BY <1>1, <1>7, Widened
  <2>2. Head(stack).dir = d /\ g.dir = d
    BY <1>0, <1>1 DEF Top, Activation
  <2> HIDE DEF g
  <2> QED BY <1>4, <1>9, <2>1, <2>2, Replaced
<1> QED BY <1>8, <1>10 DEF StackInv

\* A step that leaves numbers, phase and group size alone.
LEMMA DiskStays ==
  ASSUME DiskInv, UNCHANGED <<magic, super, entry, short>>
  PROVE  DiskInv' /\ Good \subseteq Good'
<1>1. /\ \A d \in Dirs : \A buf : Consistent(buf, d) => Consistent(buf, d)'
      /\ Good \subseteq Good'
  BY FramesStay DEF Finished
<1>2. PICK old : old = entry
  OBVIOUS
<1>3. \A d \in Dirs : Consistent(old[d], d)'
  BY <1>1, <1>2 DEF DiskInv
<1>4. DiskInv'
  BY <1>2, <1>3 DEF DiskInv
<1> QED BY <1>1, <1>4

\* A step of the walk that only changes the running activation.
LEMMA TopTurns ==
  ASSUME DiskInv, StackInv, pc = "walk", ~no_write, UNCHANGED <<magic, super, entry, short, pc, no_write>>,
         NEW g \in Good, g.dir = Top.dir, stack' = <<g>> \o Tail(stack)
  PROVE  DiskInv' /\ StackInv'
<1>1. DiskInv' /\ Good \subseteq Good'
  BY DiskStays
<1>2. Shape(<<g>> \o Tail(stack), Good)
  BY TopIsGood, Replaced DEF Top
<1>3. Shape(<<g>> \o Tail(stack), Good')
  BY <1>1, <1>2, Widened
<1> QED BY <1>1, <1>3 DEF StackInv

\* An activation that begins.
LEMMA FrameIsGood ==
  ASSUME DiskInv, NEW d \in Dirs
  PROVE  Frame(d) \in Good /\ Frame(d).dir = d
<1>1. Consistent(entry[d], d) /\ entry[d] \in [DOMAIN Entries[d] -> Number]
  BY DEF DiskInv, Consistent
<1>2. Frame(d) \in Activation
  BY <1>1 DEF Frame, Activation
<1>3. ASSUME NEW k \in DOMAIN Entries[d] PROVE ~(k < 1) /\ ~(Entries[d][k].block < 0)
  BY EntryOf
<1>4. Frame(d).short => d \in ShortRecLen
  BY DEF DiskInv, Frame
<1>5. Frame(d).dir = d /\ Frame(d).buf = entry[d] /\ Frame(d).pos = 1 /\ Frame(d).write = 0
  BY DEF Frame
<1> QED BY <1>1, <1>2, <1>3, <1>4, <1>5 DEF FrameInv, Good

LEMMA BeginWalkWalk ==
  ASSUME DiskInv, BeginWalk
  PROVE  DiskInv' /\ StackInv'
<1>1. DiskInv' /\ Good \subseteq Good' /\ (pc' = "walk" => stack' = <<Frame(Root)>>)
  BY DiskStays DEF BeginWalk, Open, disk
<1>2. Frame(Root) \in Good /\ Frame(Root).dir = Root
  BY FrameIsGood, FixupAssumption
<1>3. Shape(<<Frame(Root)>>, Good)
  BY <1>2 DEF Shape
<1>4. Shape(<<Frame(Root)>>, Good')
  BY <1>1, <1>3, Widened
<1> QED BY <1>1, <1>4 DEF StackInv

\* At an entry of a directory the tool descends unless the entry is not to be
\* processed.
LEMMA SubDescends ==
  ASSUME ControlInv, CountInv, pc = "walk", ~no_write,
         NEW f, FrameInv(f), ~AtEnd(f)
  PROVE  /\ Descends(f) /\ IsDirSlot(SlotOf(Now(f).inum, ipg)) => IsSub(f.dir, f.pos)
         /\ IsSub(f.dir, f.pos) /\ ~Descends(f) => ~ToProcess(f)
<1>1. /\ Entries[f.dir][f.pos].live
      /\ ToProcess(f) => SlotOf(Now(f).inum, ipg) = Entries[f.dir][f.pos].slot
  BY AtEntry
<1>2. Entries[f.dir][f.pos].typed \in BOOLEAN /\ Entries[f.dir][f.pos].dir \in BOOLEAN
      /\ Entries[f.dir][f.pos].dot \in BOOLEAN
  BY AtEntry, EntryOf DEF FrameInv, Activation, Entry
<1> QED BY <1>1, <1>2 DEF Descends, LooksLikeDir, IsSub, Is

LEMMA DescendWalk ==
  ASSUME ControlInv, CountInv, DiskInv, StackInv, ~no_write, Descend
  PROVE  DiskInv' /\ StackInv'
<1>1. PICK f : f = Top
  OBVIOUS
<1>2. /\ Shape(stack, Good) /\ FrameInv(f) /\ f.dir \in Dirs /\ f = Head(stack)
      /\ pc = "walk" /\ f.write = 0 /\ ~AtEnd(f) /\ Descends(f)
  BY <1>1, TopIsGood DEF Descend, Scanning, Top
<1>3. DiskInv' /\ Good \subseteq Good'
  BY DiskStays DEF Descend, disk
<1>4. CASE IsDirSlot(SlotOf(Now(f).inum, ipg))
  <2>1. /\ f.pos \in DOMAIN Entries[f.dir] /\ IsSub(f.dir, f.pos)
        /\ DirAt(SlotOf(Now(f).inum, ipg)) = Child(f.dir, f.pos)
    BY <1>2, <1>4, AtEntry, SubDescends DEF Child, Descends
  <2>2. Child(f.dir, f.pos) \in Dirs
    BY <1>2, <2>1, SubIsLive
  <2>3. PICK g : g = Frame(Child(f.dir, f.pos))
    OBVIOUS
  <2>4. g \in Good /\ g.dir = Child(f.dir, f.pos)
    BY <2>2, <2>3, FrameIsGood
  <2>5. Shape(<<g>> \o stack, Good)
    BY <1>2, <2>1, <2>4, Pushed DEF Awaits
  <2>6. pc' = "walk" => stack' = <<g>> \o stack
    BY <1>1, <1>4, <2>1, <2>3 DEF Descend, Open
  <2> QED BY <1>3, <2>5, <2>6, Widened DEF StackInv
<1>5. CASE ~IsDirSlot(SlotOf(Now(f).inum, ipg))
  BY <1>1, <1>3, <1>5 DEF Descend, StackInv
<1> QED BY <1>4, <1>5

LEMMA ProcessEntryWalk ==
  ASSUME ControlInv, CountInv, DiskInv, StackInv, ~no_write, ProcessEntry
  PROVE  DiskInv' /\ StackInv'
<1>1. PICK f : f = Top
  OBVIOUS
<1>2. /\ FrameInv(f) /\ f.dir \in Dirs /\ Consistent(f.buf, f.dir)
      /\ pc = "walk" /\ f.write = 0 /\ ~AtEnd(f) /\ ~Descends(f)
  BY <1>1, TopIsGood DEF ProcessEntry, Scanning
<1>3. /\ f.pos \in DOMAIN Entries[f.dir] /\ Entries[f.dir][f.pos].live
      /\ ToProcess(f) => SlotOf(Now(f).inum, ipg) = Entries[f.dir][f.pos].slot
  BY <1>2, AtEntry
<1>4. IsSub(f.dir, f.pos) => AllBelowOver(f.dir, f.pos)
  <2>1. SUFFICES ASSUME IsSub(f.dir, f.pos) PROVE AllBelowOver(f.dir, f.pos)
    OBVIOUS
  <2>2. ~ToProcess(f)
    BY <1>2, <2>1, SubDescends
  <2>3. magic = "updating" /\ ~f.buf[f.pos].marked
    BY <2>2 DEF ToProcess, State, Now
  <2> QED BY <1>2, <1>3, <2>1, <2>3 DEF Consistent
<1>5. PICK g : g = Process(f)
  OBVIOUS
<1>6. FrameInv(g) /\ g.dir = f.dir
  BY <1>2, <1>3, <1>4, <1>5, ProcessPasses
<1>7. g \in Good
  BY <1>6 DEF Good, FrameInv
<1> QED BY <1>1, <1>2, <1>5, <1>6, <1>7, TopTurns DEF ProcessEntry, disk

LEMMA EndScanWalk ==
  ASSUME ControlInv, CountInv, DiskInv, StackInv, ~no_write, EndScan
  PROVE  DiskInv' /\ StackInv'
<1>1. PICK f : f = Top
  OBVIOUS
<1>2. /\ FrameInv(f) /\ f \in Activation /\ f.dir \in Dirs
      /\ pc = "walk" /\ f.write = 0 /\ AtEnd(f)
  BY <1>1, TopIsGood DEF EndScan, Scanning
<1>3. PICK g : g = [f EXCEPT !.write = 1,
                      !.short = @ /\ ~(f.pos > Len(f.buf) /\ State # "marking")]
  OBVIOUS
<1>4. /\ g \in Activation /\ g.dir = f.dir /\ g.buf = f.buf /\ g.pos = f.pos /\ g.write = 1
      /\ g.short = (f.short /\ ~(f.pos > Len(f.buf) /\ State # "marking"))
  BY <1>2, <1>3 DEF Activation
<1>5. ASSUME NEW k \in DOMAIN Entries[f.dir], Entries[f.dir][k].live
      PROVE  Passed(f, k) /\ ~(Entries[f.dir][k].block < 1)
  <2>1. k < f.pos
    BY <1>2, <1>5, ScanPasses
  <2>2. Entries[f.dir][k].block \in Nat \ {0}
    BY <1>2, EntryOf
  <2> QED BY <1>2, <1>5, <2>1, <2>2 DEF FrameInv
<1>6. g.short => f.dir \in ShortRecLen
  BY <1>2, <1>4 DEF FrameInv
<1>7. f.dir \in ShortRecLen => f.pos > Len(f.buf) /\ 1 \in Blocks(f.dir)
  <2>1. /\ Entries[f.dir] \in Seq(Entry) /\ f.pos \in Nat \ {0}
        /\ f.buf \in [DOMAIN Entries[f.dir] -> Number]
    BY <1>2, FixupAssumption DEF FrameInv, Activation, Consistent
  <2>2. Len(Entries[f.dir]) \in Nat /\ DOMAIN Entries[f.dir] = 1 .. Len(Entries[f.dir])
    BY <2>1
  <2>3. Len(f.buf) = Len(Entries[f.dir])
    BY <2>1, <2>2
  <2>4. SUFFICES ASSUME f.dir \in ShortRecLen PROVE f.pos > Len(f.buf) /\ 1 \in Blocks(f.dir)
    OBVIOUS
  <2>5. Entries[f.dir] # <<>> /\ \A k \in DOMAIN Entries[f.dir] : Entries[f.dir][k].live
    BY <2>4, ImageAssumption
  <2>6. Len(Entries[f.dir]) # 0
    BY <2>1, <2>5
  <2>7. Len(Entries[f.dir]) \in DOMAIN Entries[f.dir] /\ 1 \in DOMAIN Entries[f.dir]
    BY <2>2, <2>6
  <2>8. Len(Entries[f.dir]) < f.pos
    BY <1>2, <2>5, <2>7, ScanPasses
  <2>9. 1 \in 1 .. Entries[f.dir][1].block
    BY <1>2, <2>7, EntryOf
  <2>10. 1 \in Blocks(f.dir)
    BY <1>2, <2>7, <2>9, EntryOf
  <2> QED BY <2>1, <2>2, <2>3, <2>8, <2>10
<1>8. magic = "unset" => ~g.short /\ (1 \notin Blocks(f.dir) => f.dir \notin short)
  BY <1>4, <1>6, <1>7, <1>2 DEF DiskInv, State
<1>9. g \in Good
  BY <1>2, <1>4, <1>5, <1>6, <1>8 DEF FrameInv, Passed, Good
<1> QED BY <1>1, <1>2, <1>3, <1>4, <1>9, TopTurns DEF EndScan, disk

LEMMA ReturnWalk ==
  ASSUME ControlInv, CountInv, DiskInv, StackInv, ~no_write, Return
  PROVE  DiskInv' /\ StackInv'
<1>1. PICK f : f = Top
  OBVIOUS
<1>2. PICK p : p = stack[2]
  OBVIOUS
<1>3. PICK rest : rest = Tail(stack)
  OBVIOUS
<1>4. /\ Shape(stack, Good) /\ FrameInv(f) /\ f.dir \in Dirs /\ f = stack[1]
      /\ pc = "walk" /\ f.write > 0 /\ f.write \notin Blocks(f.dir) /\ Len(stack) > 1
  BY <1>1, TopIsGood DEF Return, Written
<1>5. Shape(rest, Good) /\ Head(rest) = p
  BY <1>2, <1>3, <1>4, Popped
<1>6. Awaits(p, f)
  BY <1>2, <1>4 DEF Shape
<1>7. p \in Good /\ FrameInv(p) /\ p.dir \in Dirs /\ Consistent(p.buf, p.dir)
  <2>1. p \in Good
    BY <1>5 DEF Shape
  <2> QED BY <2>1 DEF Good, FrameInv, Activation
<1>8. /\ p.write = 0 /\ p.pos \in DOMAIN Entries[p.dir] /\ IsSub(p.dir, p.pos)
      /\ f.dir = Child(p.dir, p.pos) /\ Entries[p.dir][p.pos].live
  BY <1>6, <1>7, SubIsLive DEF Awaits
<1>9. AllBelowOver(p.dir, p.pos)
  BY <1>4, <1>8, SubtreeOver DEF AllBelowOver
<1>10. ~AtEnd(p)
  BY <1>7, <1>8, LiveNumber DEF AtEnd, Consistent
<1>11. PICK g : g = Process(p)
  OBVIOUS
<1>12. FrameInv(g) /\ g.dir = p.dir
  BY <1>4, <1>7, <1>8, <1>9, <1>10, <1>11, AtEntry, ProcessPasses
<1>13. g \in Good
  BY <1>12 DEF Good, FrameInv
<1>14. Shape(<<g>> \o Tail(rest), Good)
  BY <1>5, <1>12, <1>13, Replaced
<1>15. DiskInv' /\ Good \subseteq Good'
  BY DiskStays DEF Return, disk
<1>16. stack' = <<g>> \o Tail(rest)
  BY <1>2, <1>3, <1>11 DEF Return
<1> QED BY <1>14, <1>15, <1>16, Widened DEF StackInv

\* When the walk is over, it is over for every directory.
LEMMA WalkOver ==
  ASSUME StackInv, ~no_write, EndWalk
  PROVE  \A x \in Dirs : Over(x)
<1>1. PICK f : f = Top
  OBVIOUS
<1>2. /\ Shape(stack, Good) /\ FrameInv(f) /\ f = stack[1] /\ Len(stack) = 1
      /\ f.write > 0 /\ f.write \notin Blocks(f.dir)
  BY <1>1, TopIsGood DEF EndWalk, Written
<1>3. f.dir = Root
  BY <1>2 DEF Shape
<1> QED BY <1>2, <1>3, SubtreeOver, BelowRoot

LEMMA EndWalkWalk ==
  ASSUME ControlInv, CountInv, DiskInv, StackInv, ~no_write, EndWalk
  PROVE  DiskInv' /\ StackInv'
<1>1. \A x \in Dirs : Over(x)
  BY WalkOver
<1>2. CASE UNCHANGED magic
  BY <1>2, DiskStays DEF EndWalk, StackInv, SetState, ControlInv
<1>3. CASE magic' # magic
  <2>1. /\ magic' = NextState(magic) /\ pc' = "bit" /\ UNCHANGED <<super, entry, short>>
        /\ magic \in {"unset", "marking", "updating"}
    BY <1>3 DEF EndWalk, SetState, State, ControlInv, Written, Phases
  <2>2. PICK old : old = entry
    OBVIOUS
  <2>3. ASSUME NEW d \in Dirs PROVE Consistent(old[d], d)'
    <3>1. /\ Consistent(old[d], d)
          /\ \A k \in DOMAIN Entries[d] : Entries[d][k].live => Finished(old[d][k])
      BY <1>1, <2>2 DEF DiskInv, Over
    <3>2. \A k \in DOMAIN Entries[d] : IsSub(d, k) => Entries[d][k].live
      BY DEF IsSub
    <3>3. CASE magic = "unset"
      BY <2>1, <3>1, <3>3 DEF Consistent, Right, SizeOf, NextState
    <3>4. CASE magic = "marking"
      BY <2>1, <3>1, <3>2, <3>4 DEF Consistent, Right, SizeOf, NextState, Finished
    <3>5. CASE magic = "updating"
      BY <2>1, <3>1, <3>5 DEF Consistent, Right, SizeOf, NextState, Finished
    <3> QED BY <2>1, <3>3, <3>4, <3>5
  <2>4. short \subseteq ShortRecLen /\ short = {}
    BY <1>1, <2>1, FixupAssumption DEF DiskInv, Over
  <2> QED BY <2>1, <2>2, <2>3, <2>4 DEF DiskInv, StackInv
<1> QED BY <1>2, <1>3

\* The superblock takes the new size when every number already counts with it.
LEMMA WriteSuperWalk ==
  ASSUME ControlInv, CountInv, DiskInv, ~no_write, WriteSuper
  PROVE  DiskInv' /\ StackInv'
<1>1. magic = "sb" /\ UNCHANGED <<magic, entry, short>> /\ pc' = "gdt"
  BY DEF WriteSuper, ControlInv, State
<1>2. PICK old : old = entry
  OBVIOUS
<1>3. \A d \in Dirs : Consistent(old[d], d)'
  BY <1>1, <1>2 DEF DiskInv, Consistent, Right, SizeOf
<1> QED BY <1>1, <1>2, <1>3 DEF DiskInv, StackInv

LEMMA WriteGdtWalk ==
  ASSUME ControlInv, CountInv, WriteInv, DiskInv, ~no_write, WriteGdt
  PROVE  DiskInv' /\ StackInv'
<1>1. magic = "sb" /\ super[0].per = Renumbered /\ UNCHANGED <<super, entry, short>>
      /\ magic' \in {"sb", "unset"} /\ pc' # "walk"
  BY DEF WriteGdt, ControlInv, State, WriteInv, SetState
<1>2. PICK old : old = entry
  OBVIOUS
<1>3. \A d \in Dirs : Consistent(old[d], d)'
  BY <1>1, <1>2 DEF DiskInv, Consistent, Right, SizeOf
<1> QED BY <1>1, <1>2, <1>3 DEF DiskInv, StackInv

\* The numbers on the disk and the activations of recurse_dir.
THEOREM WalkInvariance == FixupSpec => [](DiskInv /\ StackInv)
<1>1. FixupInit => DiskInv /\ StackInv
  BY FixupInitWalk
<1>2. ASSUME ControlInv, CountInv, WriteInv, DiskInv, StackInv, [FixupNext]_fixupVars
      PROVE  DiskInv' /\ StackInv'
  <2> USE <1>2
  <2>1. CASE no_write
    <3>1. UNCHANGED <<magic, super, entry, short, no_write>>
      BY <2>1, DryStep DEF disk
    <3> QED BY <2>1, <3>1, DiskStays DEF StackInv
  <2>2. CASE ~no_write /\ BeginWalk
    BY <2>2, BeginWalkWalk
  <2>3. CASE ~no_write /\ Descend
    BY <2>3, DescendWalk
  <2>4. CASE ~no_write /\ ProcessEntry
    BY <2>4, ProcessEntryWalk
  <2>5. CASE ~no_write /\ EndScan
    BY <2>5, EndScanWalk
  <2>6. CASE ~no_write /\ WriteBlock
    BY <2>6, WriteBlockWalk
  <2>7. CASE ~no_write /\ Return
    BY <2>7, ReturnWalk
  <2>8. CASE ~no_write /\ EndWalk
    BY <2>8, EndWalkWalk
  <2>9. CASE ~no_write /\ WriteSuper
    BY <2>9, WriteSuperWalk
  <2>10. CASE ~no_write /\ WriteGdt
    BY <2>10, WriteGdtWalk
  <2>11. CASE Start \/ WriteBit \/ BeginSuper \/ CheckInodeBitmap \/ UpdateSuper \/ Crash
    <3>1. UNCHANGED <<magic, super, entry, short>> /\ pc' # "walk"
      BY <2>11 DEF Start, WriteBit, After, BeginSuper, CheckInodeBitmap, UpdateSuper, Crash, disk
    <3> QED BY <3>1, DiskStays DEF StackInv
  <2>12. CASE UNCHANGED fixupVars
    <3>1. UNCHANGED <<magic, super, entry, short, pc, no_write, stack>>
      BY <2>12 DEF fixupVars, disk, memory
    <3>2. DiskInv' /\ Good \subseteq Good'
      BY <3>1, DiskStays
    <3> QED BY <3>1, <3>2, Widened DEF StackInv
  <2> QED BY <2>1, <2>2, <2>3, <2>4, <2>5, <2>6, <2>7, <2>8, <2>9, <2>10, <2>11, <2>12
          DEF FixupNext, FixupStep, Ended
<1> QED BY <1>1, <1>2, ControlInvariance, CountInvariance, PTL DEF FixupSpec

\* However often the tool was stopped, each entry names the inode it was made
\* for.
THEOREM EntriesAlwaysResolve == FixupSpec => []EntriesResolve
<1>1. ASSUME CountInv, DiskInv PROVE EntriesResolve
  <2> SUFFICES ASSUME NEW p \in Live
               PROVE  SlotOf(OnDisk(p).inum, SizeOf(OnDisk(p))) = Entries[p[1]][p[2]].slot
    BY DEF EntriesResolve, SizeOf
  <2>1. p[1] \in Dirs /\ p[2] \in DOMAIN Entries[p[1]] /\ Entries[p[1]][p[2]].live
    BY DEF Live, Named
  <2> QED BY <1>1, <2>1, LiveNumber DEF DiskInv, OnDisk
<1> QED BY <1>1, CountInvariance, WalkInvariance, PTL

\* No mark is on the disk outside the two phases that expect it.
THEOREM MarksOnlyWhileExpected == FixupSpec => []MarksMatchState
<1>1. ASSUME ControlInv, DiskInv PROVE MarksMatchState
  <2>1. ASSUME NEW p \in Live PROVE magic \in {"unset", "sb"} => ~OnDisk(p).marked
    <3>1. p[1] \in Dirs /\ p[2] \in DOMAIN Entries[p[1]] /\ Entries[p[1]][p[2]].live
      BY DEF Live, Named
    <3> QED BY <1>1, <3>1 DEF DiskInv, Consistent, OnDisk
  <2> QED BY <1>1, <2>1 DEF ControlInv, Phases, MarksMatchState
<1> QED BY <1>1, ControlInvariance, WalkInvariance, PTL

\* The marking pass leaves no entry without a mark, also when it was stopped
\* halfway and began again.
THEOREM MarkingIsComplete == FixupSpec => MarkPassComplete
<1>1. ASSUME ControlInv, StackInv, [FixupNext]_fixupVars, magic = "marking", magic' = "updating"
      PROVE  \A p \in Live : OnDisk(p).marked
  <2>1. ~no_write
    BY <1>1 DEF ControlInv
  <2>2. EndWalk
    BY <1>1, <2>1 DEF FixupNext, FixupStep, Start, BeginWalk, Descend, ProcessEntry, EndScan,
       WriteBlock, Return, WriteBit, BeginSuper, CheckInodeBitmap, UpdateSuper, WriteSuper, WriteGdt,
       SetState, Crash, Ended, fixupVars, disk
  <2>3. ASSUME NEW p \in Live PROVE OnDisk(p).marked
    <3>1. p[1] \in Dirs /\ p[2] \in DOMAIN Entries[p[1]] /\ Entries[p[1]][p[2]].live
      BY DEF Live, Named
    <3> QED BY <1>1, <2>1, <2>2, <3>1, WalkOver DEF Over, Finished, OnDisk
  <2> QED BY <2>3
<1>2. ControlInv /\ StackInv /\ [FixupNext]_fixupVars =>
        [magic = "marking" /\ magic' = "updating" => \A p \in Live : OnDisk(p).marked]_fixupVars
  BY <1>1
<1> QED BY <1>2, ControlInvariance, WalkInvariance, PTL DEF FixupSpec, MarkPassComplete

-----------------------------------------------------------------------------
(* What is on the disk when the tool is done.                              *)

\* The superblock as it was and as it is to be; there are no others, and one
\* the tool does not hit stays as it was.
OldSuper == SuperOf(OldPerGroup, TotalFree)
NewSuper == SuperOf(Renumbered, TotalFree + NumGroups * (Renumbered - OldPerGroup))
IsReplaced(h) == IF OnTarget(h) THEN super[h] = NewSuper ELSE super[h] = OldSuper
AllNew == \A h \in SuperGroups : IsReplaced(h)

\* The superblocks are replaced one after the other, and only with all of
\* them replaced and the directories repaired is the state reset.
RepairInv ==
  /\ super \in [SuperGroups -> {OldSuper, NewSuper}]
  /\ \A h \in SuperGroups : ~OnTarget(h) => super[h] = OldSuper
  /\ pc = "padding" => sb = super[0]
  /\ pc \in {"super", "gdt"} => sb = NewSuper
  /\ ~no_write =>
       /\ pc \in {"super", "gdt"} => \A h \in SuperGroups :
            h < at \/ (h = at /\ pc = "gdt") => IsReplaced(h)
       /\ pc = "done" \/ (pc = "bit" /\ magic = "unset") =>
            magic = "unset" /\ AllNew /\ short = {}
       /\ pc = "done" => ~odd

\* The free inodes of the groups have a sum.
LEMMA TotalIsNat == TotalFree \in Nat
<1> DEFINE N == NumGroups
           Totals(f, n) == \A g \in 0 .. n : f[g] = IF g = 0 THEN 0 ELSE f[g - 1] + FreeInodes[g - 1]
           Summed(n) == \E f \in [0 .. n -> Nat] : Totals(f, n)
           S == {n \in 0 .. N : Summed(n)}
<1>1. N \in Nat /\ \A g \in 0 .. N - 1 : FreeInodes[g] \in Nat
  BY FixupAssumption DEF Groups
<1>2. Summed(0)
  <2>1. PICK f : f = [g \in 0 .. 0 |-> 0]
    OBVIOUS
  <2>2. f \in [0 .. 0 -> Nat] /\ Totals(f, 0)
    BY <2>1
  <2> QED BY <2>2
<1>3. ASSUME NEW k \in 0 .. N - 1, Summed(k) PROVE Summed(k + 1)
  <2>1. PICK f \in [0 .. k -> Nat] : Totals(f, k)
    BY <1>3
  <2>2. PICK h : h = [g \in 0 .. k + 1 |-> IF g = k + 1 THEN f[k] + FreeInodes[k] ELSE f[g]]
    OBVIOUS
  <2>3. h \in [0 .. k + 1 -> Nat]
    BY <1>1, <1>3, <2>1, <2>2
  <2>4. Totals(h, k + 1)
    <3> SUFFICES ASSUME NEW g \in 0 .. k + 1
                 PROVE  h[g] = IF g = 0 THEN 0 ELSE h[g - 1] + FreeInodes[g - 1]
      OBVIOUS
    <3>1. CASE g = k + 1
      BY <2>1, <2>2, <3>1, <1>1, <1>3
    <3>2. CASE g # k + 1
      BY <2>1, <2>2, <3>2, <1>1, <1>3
    <3> QED BY <3>1, <3>2
  <2> HIDE DEF Totals
  <2> QED BY <2>3, <2>4
<1>4. Summed(N)
  <2> HIDE DEF Summed
  <2>1. 0 \in S /\ \A k \in 0 .. N - 1 : k \in S => k + 1 \in S
    BY <1>1, <1>2, <1>3
  <2> HIDE DEF S
  <2>2. 0 .. N \subseteq S
    BY <1>1, <2>1, NatSetInduction
  <2> QED BY <1>1, <2>2 DEF S
<1> DEFINE Eq(u) == u = [g \in 0 .. N |-> IF g = 0 THEN 0 ELSE u[g - 1] + FreeInodes[g - 1]]
           up == CHOOSE u : Eq(u)
<1>5. TotalFree = up[N]
  BY DEF TotalFree
<1>6. \E f : Eq(f)
  BY <1>4
<1>7. Eq(up)
  BY <1>6
<1> HIDE DEF up
<1> DEFINE R == {n \in 0 .. N : up[n] \in Nat}
<1>8. 0 \in R /\ \A k \in 0 .. N - 1 : k \in R => k + 1 \in R
  BY <1>1, <1>7
<1>9. 0 .. N \subseteq R
  <2> HIDE DEF R
  <2> QED BY <1>1, <1>8, NatSetInduction
<1> QED BY <1>1, <1>5, <1>9

\* Whichever of the two superblocks is read, the new one is computed from it.
LEMMA UpdatedSuper ==
  ASSUME CountInv, RepairInv, pc = "padding", UpdateSuper, pc' = "super"
  PROVE  sb' = NewSuper
<1>1. /\ sb' = [per |-> NewPerGroup(ipg), count |-> sb.count + NumGroups * Extra,
                free |-> sb.free + NumGroups * Extra]
      /\ sb = super[0] /\ super[0] \in {OldSuper, NewSuper}
  BY FixupAssumption DEF UpdateSuper, RepairInv
<1>2. NewPerGroup(ipg) = Renumbered /\ Extra = Renumbered - sb.per
  BY <1>1, NewSize DEF CountInv, Extra
<1>3. /\ NumGroups \in Nat /\ OldPerGroup \in Nat /\ Renumbered \in Nat /\ TotalFree \in Nat
      /\ NumGroups * (Renumbered - OldPerGroup) \in Int
  BY FixupAssumption, NewSize, TotalIsNat
<1>4. CASE sb = OldSuper
  <2>1. OldPerGroup * NumGroups + NumGroups * (Renumbered - OldPerGroup) = Renumbered * NumGroups
    BY <1>3
  <2> QED BY <1>1, <1>2, <1>4, <2>1 DEF OldSuper, NewSuper, SuperOf
<1>5. CASE sb = NewSuper
  <2>1. Extra = 0 /\ NumGroups * Extra = 0
    BY <1>2, <1>3, <1>5 DEF NewSuper, SuperOf
  <2> QED BY <1>1, <1>2, <1>3, <1>5, <2>1 DEF NewSuper, SuperOf
<1> QED BY <1>1, <1>4, <1>5

\* A step that changes neither a superblock nor what comes after the last.
LEMMA RepairStays ==
  ASSUME RepairInv, UNCHANGED <<super, no_write, first_data_block>>,
         pc' \notin {"padding", "super", "gdt"},
         pc' = "done" \/ (pc' = "bit" /\ magic' = "unset") => no_write
  PROVE  RepairInv'
BY DEF RepairInv, AllNew, IsReplaced, OnTarget

THEOREM RepairInvariance == FixupSpec => []RepairInv
<1>1. ASSUME FixupInit PROVE RepairInv
  <2>1. /\ super \in [SuperGroups -> {OldSuper, NewSuper}] /\ pc = "down"
        /\ \A h \in SuperGroups : super[h] = OldSuper
    BY <1>1 DEF FixupInit, OldSuper
  <2> QED BY <2>1 DEF RepairInv
<1>2. ASSUME ControlInv, CountInv, DiskInv, RepairInv, [FixupNext]_fixupVars PROVE RepairInv'
  <2> USE <1>2
  <2>1. CASE Start \/ BeginWalk \/ Descend \/ ProcessEntry \/ EndScan \/ WriteBlock \/ Return \/ Crash
    BY <2>1, RepairStays DEF Start, BeginWalk, Descend, Open, ProcessEntry, EndScan, Scanning, WriteBlock,
       Return, Written, Crash, disk
  <2>2. CASE EndWalk
    <3>1. UNCHANGED <<super, no_write, first_data_block>> /\ pc' \in {"failed", "dispatch", "bit", "done"}
      BY <2>2 DEF EndWalk, SetState, After
    <3>2. pc' = "done" \/ (pc' = "bit" /\ magic' = "unset") => no_write
      BY <2>2 DEF EndWalk, Written, SetState, After, NextState, ControlInv, Phases, State
    <3> QED BY <3>1, <3>2, RepairStays
  <2>3. CASE WriteBit
    BY <2>3 DEF WriteBit, After, memory, RepairInv, AllNew, IsReplaced, OnTarget
  <2>4. CASE BeginSuper
    BY <2>4 DEF BeginSuper, disk, RepairInv, AllNew, IsReplaced, OnTarget
  <2>5. CASE CheckInodeBitmap
    BY <2>5 DEF CheckInodeBitmap, RepairInv, AllNew, IsReplaced, OnTarget
  <2>6. CASE UpdateSuper
    <3>1. /\ UNCHANGED <<super, no_write, first_data_block>>
          /\ pc = "padding" /\ at' = 0 /\ pc' \in {"super", "failed"}
      BY <2>6 DEF UpdateSuper, disk
    <3>2. CASE pc' = "super"
      <4>1. \A h \in SuperGroups : ~(h < 0)
        BY FixupAssumption DEF Groups
      <4> QED BY <2>6, <3>1, <3>2, <4>1, UpdatedSuper DEF RepairInv, OnTarget
    <3> QED BY <3>1, <3>2, RepairStays
  <2>7. CASE WriteSuper
    BY <2>7 DEF WriteSuper, memory, RepairInv, CountInv, IsReplaced, OnTarget
  <2>8. CASE WriteGdt
    <3> USE <2>8 DEF WriteGdt
    <3>1. UNCHANGED <<super, sb, short, no_write, first_data_block>> /\ pc = "gdt" /\ at \in SuperGroups
          /\ SuperGroups \subseteq Int
      BY FixupAssumption DEF CountInv, Groups
    <3>2. ~no_write => short = {} /\ \A h \in SuperGroups : h <= at => IsReplaced(h)
      BY <3>1 DEF RepairInv, ControlInv, State, DiskInv
    <3>3. CASE /\ \E g \in Later(at) : at' = g /\ \A h \in Later(at) : g <= h
               /\ pc' = "super"
      <4>1. \A h \in SuperGroups : h < at' => h <= at
        BY <3>1, <3>3 DEF Later
      <4> QED BY <3>1, <3>2, <3>3, <4>1 DEF RepairInv, IsReplaced, OnTarget
    <3>4. CASE Later(at) = {} /\ SetState("unset")
      <4>1. \A h \in SuperGroups : h <= at
        BY <3>1, <3>4 DEF Later
      <4>2. pc' = (IF no_write THEN "done" ELSE "bit") /\ (~no_write => magic' = "unset")
        BY <3>4 DEF SetState, After
      <4> QED BY <3>1, <3>2, <4>1, <4>2 DEF RepairInv, AllNew, IsReplaced, OnTarget
    <3> QED BY <3>3, <3>4
  <2>9. CASE UNCHANGED fixupVars
    BY <2>9 DEF fixupVars, disk, memory, RepairInv, AllNew, IsReplaced, OnTarget
  <2> QED BY <2>1, <2>2, <2>3, <2>4, <2>5, <2>6, <2>7, <2>8, <2>9
          DEF FixupNext, FixupStep, Ended
<1> QED BY <1>1, <1>2, ControlInvariance, CountInvariance, WalkInvariance, PTL DEF FixupSpec

\* When the tool reports success, after however many restarts, the image is
\* mountable, no directory entry is marked and no rec_len short; the
\* superblocks the tool hits count with the new group size, the backups it
\* misses with the old one.
THEOREM DoneIsRepaired == FixupSpec => []DoneMeansRepaired
<1>1. ASSUME CountInv, DiskInv, RepairInv PROVE DoneMeansRepaired
  <2> SUFFICES ASSUME pc = "done", ~no_write
               PROVE  /\ magic = "unset" /\ ~odd /\ short = {} /\ AllNew
                      /\ \A p \in Live : ~OnDisk(p).marked
    BY DEF DoneMeansRepaired, AllNew, IsReplaced, NewSuper, OldSuper
  <2>1. magic = "unset" /\ ~odd /\ short = {} /\ AllNew
    BY <1>1 DEF RepairInv
  <2>2. ASSUME NEW p \in Live PROVE ~OnDisk(p).marked
    <3>1. p[1] \in Dirs /\ p[2] \in DOMAIN Entries[p[1]] /\ Entries[p[1]][p[2]].live
      BY DEF Live, Named
    <3> QED BY <1>1, <2>1, <3>1 DEF DiskInv, Consistent, OnDisk
  <2> QED BY <2>1, <2>2
<1> QED BY <1>1, CountInvariance, WalkInvariance, RepairInvariance, PTL
=============================================================================
