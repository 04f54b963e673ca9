------------------------------- MODULE Fixup -------------------------------
(***************************************************************************)
(* ext4fixup.c: renumbering the inodes of an image in place, so that the   *)
(* inodes of a group fill whole blocks.  The tool may be stopped between   *)
(* any two of its write() calls and started again; what it must know is on *)
(* the disk: a magic number in the boot block, and a mark (the high bit)   *)
(* on each inode number that still counts with the old group size.         *)
(***************************************************************************)
EXTENDS Integers, Sequences, FiniteSets

CONSTANTS
  NumGroups,       \* num_block_groups
  SuperGroups,     \* groups for which ext4_bg_has_super_block holds
  OldPerGroup,     \* s_inodes_per_group of the image
  InodesPerBlock,  \* block_size / inode_size
  Dirs, Root,      \* the directories of the image, and EXT4_ROOT_INO
  Home,            \* directory |-> slot of the inode tables its inode is in
  Entries,         \* directory |-> sequence of its entries
  LastBlock,       \* group |-> the <<directory, block>> in its last block
  FreeInodes,      \* group |-> bg_free_inodes_count of the image
  DirtyPadding,    \* groups whose inode bitmap has bits set past the old size
  ShortRecLen,     \* directories whose last rec_len stops short of the block
  MaxCrashes       \* how often the tool is stopped

Groups == 0 .. NumGroups - 1
Slot == Groups \X Nat

\* An entry as the directory has it: the slot of the inode it names, whether
\* it is "." or "..", whether that inode is a directory, whether file_type
\* says so (it may be EXT4_FT_UNKNOWN), whether it is a live entry, and the
\* block of the directory it lies in.
Entry == [slot : Slot, dot : BOOLEAN, dir : BOOLEAN, typed : BOOLEAN,
          live : BOOLEAN, block : Nat \ {0}]

IsDirSlot(slot) == \E d \in Dirs : Home[d] = slot
DirAt(slot) == CHOOSE d \in Dirs : Home[d] = slot

Blocks(d) == {Entries[d][k].block : k \in DOMAIN Entries[d]}

\* The entries the tool descends into, and sets of directories with all they
\* lead to.
IsSub(d, k) ==
  LET e == Entries[d][k]
  IN  e.live /\ ~e.dot /\ (e.typed => e.dir) /\ IsDirSlot(e.slot)
Closed(S) ==
  \A d \in S : \A k \in DOMAIN Entries[d] : IsSub(d, k) => DirAt(Entries[d][k].slot) \in S

ASSUME FixupAssumption ==
  /\ LastBlock \in [Groups -> SUBSET UNION {{d} \X Blocks(d) : d \in Dirs}]
  /\ NumGroups \in Nat \ {0} /\ OldPerGroup \in Nat \ {0} /\ InodesPerBlock \in Nat \ {0}
  /\ 0 \in SuperGroups /\ SuperGroups \subseteq Groups
  /\ Root \in Dirs /\ Home \in [Dirs -> Slot]
  /\ Entries \in [Dirs -> Seq(Entry)]
  /\ FreeInodes \in [Groups -> Nat] /\ DirtyPadding \subseteq Groups
  /\ ShortRecLen \subseteq Dirs /\ MaxCrashes \in Nat

\* An image make_ext4fs made: entries name inodes of the tables, the live ones
\* of a directory come first, its blocks follow each other, and every
\* directory can be reached from the root.  A last rec_len that stops short is
\* the mistake of an older make_ext4fs, which deletes no entry.
ASSUME ImageAssumption ==
  /\ \A d \in Dirs : \A k \in DOMAIN Entries[d] :
       /\ Entries[d][k].live =>
            /\ Entries[d][k].slot[2] < OldPerGroup
            /\ \A j \in 1 .. k : Entries[d][j].live
       /\ 1 .. Entries[d][k].block \subseteq Blocks(d)
  /\ \A d \in ShortRecLen : Entries[d] # <<>> /\ \A k \in DOMAIN Entries[d] : Entries[d][k].live
  /\ \A S \in SUBSET Dirs : Root \in S /\ Closed(S) => S = Dirs

VARIABLES
  magic,      \* disk: the state number at offset 0 of the boot block
  odd,        \* disk: low bit of s_desc_size of the primary superblock
  super,      \* disk: the superblock of each group that has one
  gdt,        \* disk: the free inode counts next to each superblock
  padding,    \* disk: groups with inode bitmap bits set past the old size
  entry,      \* disk: the inode number of each directory entry, and its mark
  short,      \* disk: directories with a short last rec_len
  overwritten,\* disk: groups with a superblock in their last block
  pc, no_write,
  first_data_block, \* of aux_info: 1 with blocks of 1 KiB
  dry_state,  \* no_write_fixup_state
  stack,      \* activations of recurse_dir, the running one first
  ipg, desc,  \* info->inodes_per_group; the counts in aux_info->bg_desc
  sb, at,     \* locals sb and i of update_superblocks_and_bg_desc
  crashes     \* history: how often the tool was stopped

disk == <<magic, odd, super, gdt, padding, entry, short, overwritten>>
memory == <<dry_state, stack, ipg, desc, sb, at>>
fixupVars == <<disk, memory, pc, no_write, first_data_block, crashes>>

-----------------------------------------------------------------------------
(* Inode numbers.                                                          *)

SlotOf(inum, per) == <<(inum - 1) \div per, (inum - 1) % per>>
InumOf(slot, per) == slot[1] * per + slot[2] + 1

\* EXT4_ALIGN(info->inodes_per_group, block_size / inode_size).
NewPerGroup(per) == ((per + InodesPerBlock - 1) \div InodesPerBlock) * InodesPerBlock
Renumbered == NewPerGroup(OldPerGroup)

\* Mutant: the group is computed with the new size.
ComputeNewInumWrongGroup(inum) ==
  InumOf(SlotOf(inum, NewPerGroup(ipg)), NewPerGroup(ipg))
ComputeNewInum(inum) == InumOf(SlotOf(inum, ipg), NewPerGroup(ipg))

-----------------------------------------------------------------------------
SuperOf(per, free) == [per |-> per, count |-> per * NumGroups, free |-> free]
TotalFree == LET upTo[g \in 0 .. NumGroups] ==
                   IF g = 0 THEN 0 ELSE upTo[g - 1] + FreeInodes[g - 1]
             IN  upTo[NumGroups]

FixupInit ==
  /\ magic = "unset" /\ odd = FALSE
  /\ super = [g \in SuperGroups |-> SuperOf(OldPerGroup, TotalFree)]
  /\ gdt = [g \in SuperGroups |-> FreeInodes]
  /\ padding = DirtyPadding
  /\ entry = [d \in Dirs |-> [k \in DOMAIN Entries[d] |->
       [inum |-> IF Entries[d][k].live THEN InumOf(Entries[d][k].slot, OldPerGroup) ELSE 0,
        marked |-> FALSE]]]
  /\ short = ShortRecLen /\ overwritten = {}
  /\ pc = "down" /\ no_write \in BOOLEAN /\ first_data_block \in {0, 1}
  /\ dry_state = "unset" /\ stack = <<>>
  /\ ipg = OldPerGroup /\ desc = FreeInodes /\ sb = super[0] /\ at = 0
  /\ crashes = 0

\* ext4fixup_internal up to the first phase: read_ext.
Start ==
  /\ pc = "down"
  /\ pc' = "dispatch"
  /\ dry_state' = "unset" /\ stack' = <<>>
  /\ ipg' = super[0].per /\ desc' = gdt[0]
  /\ UNCHANGED <<disk, sb, at, no_write, first_data_block, crashes>>

\* get_fs_fixup_state.
State == IF no_write THEN dry_state ELSE magic

\* Mutant: the loop over the phases does not end.
AfterAlways(goal) == "dispatch"
\* Where set_fs_fixup_state leaves the program.
After(goal) == IF goal = "unset" THEN "done" ELSE "dispatch"

\* Mutant: the state is written although nothing may be.
SetStateAlways(goal) ==
  /\ magic' = goal /\ dry_state' = goal /\ pc' = "bit"

\* set_fs_fixup_state: the magic number is one write, the low bit of
\* s_desc_size another.
SetState(goal) ==
  IF no_write
  THEN dry_state' = goal /\ pc' = After(goal) /\ UNCHANGED magic
  ELSE magic' = goal /\ pc' = "bit" /\ UNCHANGED dry_state

\* Mutant: the bit is never cleared again.
WriteBitSticky ==
  /\ pc = "bit"
  /\ odd' = TRUE
  /\ pc' = After(magic)
  /\ UNCHANGED <<magic, super, gdt, padding, entry, short, overwritten, memory, no_write,
                 first_data_block, crashes>>
WriteBit ==
  /\ pc = "bit"
  /\ odd' = (magic # "unset")
  /\ pc' = After(magic)
  /\ UNCHANGED <<magic, super, gdt, padding, entry, short, overwritten, memory, no_write,
                 first_data_block, crashes>>

-----------------------------------------------------------------------------
(* recurse_dir.  The three passes differ by State: "unset" is the sanity   *)
(* pass, "marking" and "updating" the two that change inode numbers.       *)

\* An activation: the directory as read into dirbuf, the entry dirp points
\* at, and the next block to write back (0 while entries are processed).
Frame(d) == [dir |-> d, buf |-> entry[d], short |-> d \in short, pos |-> 1, write |-> 0]

\* What was overwritten is read as a directory all the same.
Lost(d, block) == \E g \in overwritten : <<d, block>> \in LastBlock[g]
Intact(d) == \A b \in Blocks(d) : ~Lost(d, b)
Open(d, opened) ==
  IF Intact(d) THEN pc' = "walk" /\ stack' = opened ELSE pc' = "undefined" /\ stack' = <<>>

BeginWalk ==
  /\ pc = "dispatch" /\ State # "sb"
  /\ Open(Root, <<Frame(Root)>>)
  /\ UNCHANGED <<disk, dry_state, ipg, desc, sb, at, no_write, first_data_block, crashes>>

Top == Head(stack)
Now(f) == f.buf[f.pos]
Is(f) == Entries[f.dir][f.pos]

\* "Only recurse on pass UPDATE_INODE_NUMS if the high bit is set."
ToProcess(f) == State # "updating" \/ Now(f).marked

LooksLikeDir(f) ==
  IF Is(f).typed THEN Is(f).dir
  ELSE ToProcess(f) /\ IsDirSlot(SlotOf(Now(f).inum, ipg))

Descends(f) == ~Is(f).dot /\ LooksLikeDir(f) /\ ToProcess(f)

Process(f) ==
  [f EXCEPT !.pos = @ + 1, !.buf[f.pos] =
     IF State = "marking" THEN [@ EXCEPT !.marked = TRUE]
     ELSE IF State = "updating" /\ ToProcess(f)
          THEN [inum |-> ComputeNewInum(@.inum), marked |-> FALSE]
          ELSE @]

\* Mutant: the last entry is not looked at.
AtEndEarly(f) == \A k \in {f.pos} \cap DOMAIN f.buf : k = Len(f.buf) \/ f.buf[k].inum = 0
\* "This is the last entry in the directory" for an inode number of 0.
AtEnd(f) == \A k \in {f.pos} \cap DOMAIN f.buf : f.buf[k].inum = 0

Scanning == pc = "walk" /\ Top.write = 0
Descend ==
  /\ Scanning /\ ~AtEnd(Top) /\ Descends(Top)
  /\ LET slot == SlotOf(Now(Top).inum, ipg)
     IN  IF IsDirSlot(slot)
         THEN Open(DirAt(slot), <<Frame(DirAt(slot))>> \o stack)
         ELSE pc' = "failed" /\ stack' = stack
  /\ UNCHANGED <<disk, dry_state, ipg, desc, sb, at, no_write, first_data_block, crashes>>

ProcessEntry ==
  /\ Scanning /\ ~AtEnd(Top) /\ ~Descends(Top)
  /\ stack' = <<Process(Top)>> \o Tail(stack)
  /\ UNCHANGED <<disk, dry_state, ipg, desc, sb, at, pc, no_write, first_data_block, crashes>>

\* The marking pass leaves a short rec_len alone.
EndScan ==
  /\ Scanning /\ AtEnd(Top)
  /\ stack' = <<[Top EXCEPT !.write = 1,
       !.short = @ /\ ~(Top.pos > Len(Top.buf) /\ State # "marking")]>> \o Tail(stack)
  /\ UNCHANGED <<disk, dry_state, ipg, desc, sb, at, pc, no_write, first_data_block, crashes>>

\* One iteration of the loop that writes the directory back.
WriteBlock ==
  /\ pc = "walk" /\ Top.write \in Blocks(Top.dir)
  /\ IF no_write THEN UNCHANGED <<entry, short>>
     ELSE /\ entry' = [entry EXCEPT ![Top.dir] = [k \in DOMAIN @ |->
               IF Entries[Top.dir][k].block = Top.write THEN Top.buf[k] ELSE @[k]]]
          /\ short' = IF Top.write + 1 \notin Blocks(Top.dir) /\ ~Top.short
                      THEN short \ {Top.dir} ELSE short
  /\ stack' = <<[Top EXCEPT !.write = @ + 1]>> \o Tail(stack)
  /\ UNCHANGED <<magic, odd, super, gdt, padding, overwritten, dry_state, ipg, desc, sb,
                 at, pc, no_write, first_data_block, crashes>>

Written == pc = "walk" /\ Top.write > 0 /\ Top.write \notin Blocks(Top.dir)

\* Back in the activation of the parent, which then processes its entry.
Return ==
  /\ Written /\ Len(stack) > 1
  /\ stack' = <<Process(stack[2])>> \o Tail(Tail(stack))
  /\ UNCHANGED <<disk, dry_state, ipg, desc, sb, at, pc, no_write, first_data_block, crashes>>

\* "Failed sanity check on new inode count" and "... per group alignment".
Sane(s) ==
  /\ s.count + NumGroups * (NewPerGroup(ipg) - s.per) = NewPerGroup(ipg) * NumGroups
  /\ NewPerGroup(ipg) % InodesPerBlock = 0

\* Mutants: the numbers are never updated; the marking pass is never left.
NextStateSkips(s) == IF s = "unset" THEN "marking" ELSE "sb"
NextStateStuck(s) == IF s = "unset" THEN "marking" ELSE s
NextState(s) ==
  CASE s = "unset" -> "marking" [] s = "marking" -> "updating" [] s = "updating" -> "sb"

\* The walk is over.  After the sanity pass update_superblocks_and_bg_desc
\* runs once without writing, for its checks.
EndWalk ==
  /\ Written /\ Len(stack) = 1
  /\ stack' = <<>>
  /\ IF State = "unset" /\ ~Sane(super[0])
     THEN pc' = "failed" /\ UNCHANGED <<magic, dry_state>>
     ELSE SetState(NextState(State))
  /\ UNCHANGED <<odd, super, gdt, padding, entry, short, overwritten, ipg, desc, sb, at,
                 no_write, first_data_block, crashes>>

-----------------------------------------------------------------------------
(* update_superblocks_and_bg_desc in state STATE_UPDATING_SB.              *)

\* Mutant: the counts grow whatever the superblock says was already done.
ExtraAgain == Renumbered - OldPerGroup
Extra == NewPerGroup(ipg) - super[0].per

BeginSuper ==
  /\ pc = "dispatch" /\ State = "sb"
  /\ desc' = [g \in Groups |-> desc[g] + Extra]
  /\ sb' = super[0]
  /\ at' = 0
  /\ pc' = "padding"
  /\ UNCHANGED <<disk, dry_state, stack, ipg, no_write, first_data_block, crashes>>

\* Mutant: the bitmap of the last group is forgotten.
LastBitmapMissed == NumGroups - 1
LastBitmap == NumGroups

\* check_inode_bitmap(at): the bits from the old size on are cleared.
CheckInodeBitmap ==
  /\ pc = "padding" /\ at < LastBitmap
  /\ at' = at + 1
  /\ padding' = IF no_write \/ NewPerGroup(ipg) = ipg THEN padding ELSE padding \ {at}
  /\ UNCHANGED <<magic, odd, super, gdt, entry, short, overwritten, dry_state, stack,
                 ipg, desc, sb, pc, no_write, first_data_block, crashes>>

\* The new superblock, in memory.
UpdateSuper ==
  /\ pc = "padding" /\ at = LastBitmap
  /\ at' = 0
  /\ IF Sane(sb)
     THEN /\ pc' = "super"
          /\ sb' = [per |-> NewPerGroup(ipg), count |-> sb.count + NumGroups * Extra,
                    free |-> sb.free + NumGroups * Extra]
     ELSE pc' = "failed" /\ sb' = sb
  /\ UNCHANGED <<disk, dry_state, stack, ipg, desc, no_write, first_data_block, crashes>>

\* The copy of group g is written at g * blocks_per_group, without the
\* first_data_block the image has in front of its groups: of the copies only
\* the primary, at 1024, is where it should be when there is one.
OnTarget(g) == g = 0 \/ first_data_block = 0

WriteSuper ==
  /\ pc = "super"
  /\ \/ no_write /\ UNCHANGED <<super, overwritten>>
     \/ /\ ~no_write /\ OnTarget(at)
        /\ super' = [super EXCEPT ![at] = sb] /\ UNCHANGED overwritten
     \/ /\ ~no_write /\ ~OnTarget(at)
        /\ overwritten' = overwritten \cup {at - 1} /\ UNCHANGED super
  /\ pc' = "gdt"
  /\ UNCHANGED <<magic, odd, gdt, padding, entry, short, memory, no_write,
                 first_data_block, crashes>>

Later(g) == {h \in SuperGroups : h > g}

\* The descriptors of the same group, where first_data_block is added.
WriteGdt ==
  /\ pc = "gdt"
  /\ gdt' = IF no_write THEN gdt ELSE [gdt EXCEPT ![at] = desc]
  /\ \/ /\ \E g \in Later(at) : at' = g /\ \A h \in Later(at) : g <= h
        /\ pc' = "super" /\ UNCHANGED <<magic, dry_state>>
     \/ Later(at) = {} /\ SetState("unset") /\ at' = at
  /\ UNCHANGED <<odd, super, padding, entry, short, overwritten, stack, ipg, desc, sb,
                 no_write, first_data_block, crashes>>

-----------------------------------------------------------------------------
Running == pc \notin {"down", "done", "failed", "undefined"}

\* The process is killed, or a write fails: everything in memory is gone.
Crash ==
  /\ Running /\ crashes < MaxCrashes
  /\ crashes' = crashes + 1
  /\ pc' = "down"
  /\ stack' = <<>> /\ dry_state' = "unset"
  /\ UNCHANGED <<disk, ipg, desc, sb, at, no_write, first_data_block>>

Ended == pc \in {"done", "failed", "undefined"} /\ UNCHANGED fixupVars

FixupStep ==
  \/ Start \/ BeginWalk \/ Descend \/ ProcessEntry \/ EndScan \/ WriteBlock
  \/ Return \/ EndWalk \/ WriteBit
  \/ BeginSuper \/ CheckInodeBitmap \/ UpdateSuper \/ WriteSuper \/ WriteGdt

FixupNext == FixupStep \/ Crash \/ Ended

\* The tool runs until it ends or is stopped, and is started again each time
\* it was stopped.
FixupSpec == FixupInit /\ [][FixupNext]_fixupVars
FairFixupSpec == FixupSpec /\ WF_fixupVars(FixupStep)

-----------------------------------------------------------------------------
(* Properties.                                                             *)

Named == {p \in UNION {{d} \X (DOMAIN Entries[d]) : d \in Dirs} : Entries[p[1]][p[2]].live}
\* The entries of directory blocks that still are directory blocks.
Live == {p \in Named : ~Lost(p[1], Entries[p[1]][p[2]].block)}
OnDisk(p) == entry[p[1]][p[2]]

\* However often the tool was stopped, the number in every directory entry
\* still names the inode it named at first: a marked one counts with the group
\* size of the superblock, an unmarked one with the size the state implies.
EntriesResolve ==
  \A p \in Live :
    LET per == IF ~OnDisk(p).marked /\ magic \in {"updating", "sb"}
               THEN Renumbered ELSE super[0].per
    IN  SlotOf(OnDisk(p).inum, per) = Entries[p[1]][p[2]].slot

\* Marks are on the disk only while a state that expects them is: a restart
\* never takes a marked number for a plain one.
MarksMatchState == (\E p \in Live : OnDisk(p).marked) => magic \in {"marking", "updating"}

\* The state moves from marking to updating only with every entry marked:
\* nothing the walk skipped is left behind with an old number.
MarkPassComplete ==
  [][magic = "marking" /\ magic' = "updating" => \A p \in Live : OnDisk(p).marked]_fixupVars

\* The inode bitmaps are cleared past the old size before the superblock
\* starts to count those inodes, also across a restart.
BitmapsClearedFirst == super[0].per = Renumbered /\ Renumbered # OldPerGroup => padding = {}

\* update_superblocks_and_bg_desc may run twice, but the free inodes of a
\* group are never counted twice, and a run that was never stopped counts
\* them once.
CountedOnce ==
  \A h \in SuperGroups, g \in Groups :
    \/ gdt[h][g] = FreeInodes[g] + Renumbered - OldPerGroup
    \/ gdt[h][g] = FreeInodes[g] /\ ~(pc = "done" /\ ~no_write /\ crashes = 0)

\* When the tool says it is done the image is mountable, no mark or short
\* rec_len is left, and every superblock the tool hits has the new group size
\* and counts; with a first data block that is the primary alone, and the
\* backups still count with the old size.
DoneMeansRepaired ==
  pc = "done" /\ ~no_write =>
    /\ magic = "unset" /\ ~odd
    /\ \A g \in SuperGroups :
         super[g] = IF OnTarget(g)
                    THEN SuperOf(Renumbered, TotalFree + NumGroups * (Renumbered - OldPerGroup))
                    ELSE SuperOf(OldPerGroup, TotalFree)
    /\ \A p \in Live : ~OnDisk(p).marked
    /\ short = {}

\* With no_write set the three passes run and the disk stays as it was.
NoWriteKeepsDisk == [][no_write => UNCHANGED disk]_fixupVars

\* A tool that is stopped finitely often and always started again ends with
\* the work done: no entry leads it to an inode that is not a directory, no
\* sanity check fails, no phase is repeated for ever.  Only the superblocks
\* that missed their groups can keep it from that.
RepairCompletes == <>(pc = "done" \/ (pc = "undefined" /\ overwritten # {}))

\* A directory block that was overwritten is met again only by a tool that
\* was stopped after the state was reset and before the bit was: no other
\* walk comes after the superblocks.
LostReadOnlyAfterStop == pc = "undefined" => odd /\ crashes > 0 /\ ~no_write

-----------------------------------------------------------------------------
(* What comments of ext4fixup.c say and its code does not do.              *)

\* "The low bit is set to make the filesystem unmountable while it is being
\* fixed up": entries with the high bit set must not be mountable.
UnmountableWhileFixed == (\E p \in Live : OnDisk(p).marked) => odd
=============================================================================
