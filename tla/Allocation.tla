----------------------------- MODULE Allocation -----------------------------
(***************************************************************************)
(* The allocators of TeensyEXT4: ext4_balloc.c and ext4_ialloc.c with the  *)
(* bitmap search of ext4_bitmap.c, and ext4_fs_get_block_group_ref, which  *)
(* initialises the bitmaps of a group the first time it is touched.        *)
(*                                                                         *)
(* A bitmap is the set of its bits that are set. mapped and files are what *)
(* the callers make of the results: the blocks that the extents of an      *)
(* inode map, and the inodes that have a name.                             *)
(*                                                                         *)
(* Any read of a descriptor or a bitmap may fail, and so may the           *)
(* initialisation of a bitmap, half way. ext4_block_set cannot fail while  *)
(* the file system is mounted: it ignores failed writes (see BlockCache).  *)
(* ext4_balloc_try_alloc_block, which nobody calls, is left out.           *)
(***************************************************************************)
EXTENDS Integers, FiniteSets, FiniteSetsExt

CONSTANTS
    BlockCount,     \* blocks_count
    BlocksPerGroup, \* blocks_per_group, which is also the number of bits in a bitmap block
    InodesPerGroup, \* inodes_per_group
    Meta,           \* blocks of superblocks, descriptors, bitmaps and inode tables
    Reserved,       \* inodes that are never given out
    LeftBehind,     \* what last_inode_bg_id may hold when the file system is mounted
    Owner,          \* bound: the inodes that are given blocks
    Byte,           \* bits the bitmap search handles at a time, in the code 8
    Window          \* reach of the search near the goal, in the code 64

Groups == (BlockCount + BlocksPerGroup - 1) \div BlocksPerGroup
Group == 0 .. Groups - 1
Block == 0 .. BlockCount - 1
Bit == 0 .. BlocksPerGroup - 1
Inode == 0 .. Groups * InodesPerGroup - 1
InodeBit == 0 .. InodesPerGroup - 1

ASSUME GeometryAssumption ==
    /\ BlockCount \in Nat \ {0} /\ BlocksPerGroup \in Nat \ {0}
    /\ InodesPerGroup \in Nat \ {0}
    /\ Byte \in Nat \ {0} /\ Window \in Nat \ {0} /\ Window % Byte = 0
    /\ Meta \subseteq Block /\ Reserved \subseteq Inode /\ Owner \subseteq Inode
    /\ LeftBehind \subseteq Nat

VARIABLES
    bitmap,         \* the block bitmap of each group
    freeBlocks,     \* free_blocks_count of each group
    sbFreeBlocks,   \* free_blocks_count of the superblock
    blockUninit,    \* groups flagged BLOCK_UNINIT
    mapped,         \* the blocks each inode maps
    inodeBitmap,    \* the inode bitmap of each group
    freeInodes,     \* free_inodes_count of each group
    sbFreeInodes,   \* free_inodes_count of the superblock
    inodeUninit,    \* groups flagged INODE_UNINIT
    tableUnused,    \* itable_unused of each group
    lastGroup,      \* last_inode_bg_id
    files,          \* inodes in use
    readFailed      \* history: whether an operation failed half way

blockVars == <<freeBlocks, sbFreeBlocks, mapped>>
inodeVars == <<freeInodes, sbFreeInodes, tableUnused, lastGroup, files>>
vars == <<blockVars, inodeVars, bitmap, inodeBitmap, blockUninit, inodeUninit, readFailed>>

-----------------------------------------------------------------------------
(***************************************************************************)
(* Groups and their bitmaps.                                               *)
(***************************************************************************)

GroupOf(b) == b \div BlocksPerGroup
IndexOf(b) == b % BlocksPerGroup
AddressOf(g, k) == BlocksPerGroup * g + k

InodeGroup(i) == i \div InodesPerGroup
InodeIndex(i) == i % InodesPerGroup
InodeOf(g, k) == InodesPerGroup * g + k

\* The last group may be short.
BlocksIn(g) == IF g = Groups - 1 THEN BlockCount - BlocksPerGroup * g ELSE BlocksPerGroup

\* The bits a new bitmap has set: metadata, and what is no block of the group.
Own(g) == {k \in Bit : k >= BlocksIn(g) \/ AddressOf(g, k) \in Meta}

\* The bitmaps after ext4_fs_init_block_bitmap and ext4_fs_init_inode_bitmap
\* for the groups G.
NewBitmaps(G) == [g \in Group |-> IF g \in G THEN Own(g) ELSE bitmap[g]]
NewInodeBitmaps(G) == [g \in Group |-> IF g \in G THEN {} ELSE inodeBitmap[g]]

\* The bitmaps as the allocators see them.
Seen == NewBitmaps(blockUninit)
SeenInodes == NewInodeBitmaps(inodeUninit)

\* Mutant: the flag of the inode bitmap is not cleared.
RefsFlagKept(G) == blockUninit' = blockUninit \ G /\ inodeUninit' = inodeUninit

\* ext4_fs_get_block_group_ref for the groups G.
Refs(G) ==
    /\ blockUninit' = blockUninit \ G
    /\ inodeUninit' = inodeUninit \ G

\* After the groups G, that of g fails: its descriptor or one of its bitmaps
\* cannot be read, or the block bitmap is all that was initialised.
RefFails(G, g) ==
    /\ readFailed' = TRUE
    /\ \/ Refs(G)
       \/ Refs(G \cup {g})
       \/ g \in inodeUninit \ G
          /\ blockUninit' = blockUninit \ (G \cup {g}) /\ inodeUninit' = inodeUninit \ G

\* The bitmaps that it leaves, for a caller that changes nothing more.
OnlyRefs ==
    /\ bitmap' = NewBitmaps(blockUninit \ blockUninit')
    /\ inodeBitmap' = NewInodeBitmaps(inodeUninit \ inodeUninit')

TypeOK ==
    /\ bitmap \in [Group -> SUBSET Bit]
    /\ freeBlocks \in [Group -> Nat] /\ sbFreeBlocks \in Nat
    /\ mapped \in [Inode -> SUBSET Block]
    /\ inodeBitmap \in [Group -> SUBSET InodeBit]
    /\ freeInodes \in [Group -> Nat] /\ sbFreeInodes \in Nat
    /\ blockUninit \subseteq Group /\ inodeUninit \subseteq Group
    /\ tableUnused \in [Group -> 0 .. InodesPerGroup]
    /\ lastGroup \in Nat
    /\ files \subseteq Inode
    /\ readFailed \in BOOLEAN

\* An empty file system. Nothing is known of a bitmap that is not initialised.
Init ==
    /\ blockUninit \in SUBSET (Group \ {0})
    /\ inodeUninit \in SUBSET (Group \ {0})
    /\ bitmap \in {[g \in Group |-> IF g \in blockUninit THEN junk ELSE Own(g)] :
                       junk \in {{}, Bit}}
    /\ inodeBitmap \in {[g \in Group |-> IF g \in inodeUninit THEN junk ELSE
                            {InodeIndex(i) : i \in {j \in Reserved : InodeGroup(j) = g}}] :
                       junk \in {{}, InodeBit}}
    /\ Reserved \cap {i \in Inode : InodeGroup(i) \in inodeUninit} = {}
    /\ freeBlocks = [g \in Group |-> Cardinality(Bit \ Own(g))]
    /\ sbFreeBlocks = BlockCount - Cardinality(Meta)
    /\ freeInodes = [g \in Group |->
                        Cardinality({i \in Inode \ Reserved : InodeGroup(i) = g})]
    /\ sbFreeInodes = Cardinality(Inode \ Reserved)
    /\ tableUnused = [g \in Group |->
                        Min({InodesPerGroup} \cup
                            {InodesPerGroup - 1 - InodeIndex(i) :
                                i \in {j \in Reserved : InodeGroup(j) = g}})]
    /\ mapped = [i \in Inode |-> {}]
    /\ lastGroup \in LeftBehind
    /\ files = Reserved
    /\ readFailed = FALSE

-----------------------------------------------------------------------------
(***************************************************************************)
(* Searching a bitmap.                                                     *)
(***************************************************************************)

None == -1
FirstOf(S) == IF S = {} THEN None ELSE Min(S)
RoundUp(i, n) == ((i + n - 1) \div n) * n
ClearIn(S, from, end) == {k \in Bit : from <= k /\ k < end} \ S

\* ext4_bmap_bit_find_clr in the bitmap S from bit from to bit end. A clear bit
\* before the next byte boundary is reported as the start of the search.
FindClr(S, from, end) ==
    IF ClearIn(S, from, end) \cap ClearIn(S, from, RoundUp(from, Byte)) # {} THEN from
    ELSE FirstOf(ClearIn(S, from, end))

\* Mutant: no search near the goal.
FindNearGoalSkipped(S, i, end) == IF i \notin S THEN i ELSE FindClr(S, i, end)

\* The goal, a bit near it, or any bit behind it.
FindNearGoal(S, i, end) ==
    LET near == ClearIn(S, i + 1, end) \cap ClearIn(S, i + 1, RoundUp(i, Window))
    IN  IF i \notin S THEN i ELSE IF near # {} THEN Min(near) ELSE FindClr(S, i, end)

-----------------------------------------------------------------------------
(***************************************************************************)
(* ext4_balloc_alloc_block. The k-th group it looks at is Tried(goal, k):  *)
(* that of the goal, and then every group, that one again at last. A goal  *)
(* just behind the last block may be in no group at all: the descriptor    *)
(* read for it is empty.                                                   *)
(***************************************************************************)

Goal == 0 .. BlockCount

Tried(goal, k) == IF k = 0 THEN GroupOf(goal) ELSE (GroupOf(goal) + k) % Groups

\* The bit found in that group.
BitTried(goal, k) ==
    LET g == Tried(goal, k)
    IN  IF g \notin Group THEN None
        ELSE IF freeBlocks[g] = 0 THEN None
        ELSE IF k = 0 THEN FindNearGoal(Seen[g], IndexOf(goal), BlocksIn(g))
        ELSE FindClr(Seen[g], 0, BlocksIn(g))

\* Mutant: the last group is not looked at.
HitsTooFew(goal) == {k \in 0 .. Groups - 1 : BitTried(goal, k) # None}

\* The tries that find a block; the first of them is made.
Hits(goal) == {k \in 0 .. Groups : BitTried(goal, k) # None}

TriedBefore(goal, k) == {Tried(goal, j) : j \in 0 .. k - 1} \cap Group

\* Mutant: the address is computed with the group of the goal.
AllocBlockGoalGroup(i, goal) ==
    /\ i \in files
    /\ Hits(goal) # {}
    /\ LET k == Min(Hits(goal))
           g == Tried(goal, k)
       IN  /\ Refs(TriedBefore(goal, k + 1))
           /\ bitmap' = [NewBitmaps(blockUninit \ blockUninit') EXCEPT
                            ![g] = @ \cup {BitTried(goal, k)}]
           /\ freeBlocks' = [freeBlocks EXCEPT ![g] = @ - 1]
           /\ mapped' = [mapped EXCEPT
                            ![i] = @ \cup {AddressOf(GroupOf(goal), BitTried(goal, k))}]
    /\ sbFreeBlocks' = sbFreeBlocks - 1
    /\ inodeBitmap' = NewInodeBitmaps(inodeUninit \ inodeUninit')
    /\ UNCHANGED <<inodeVars, readFailed>>

AllocBlock(i, goal) ==
    /\ i \in files
    /\ Hits(goal) # {}
    /\ LET k == Min(Hits(goal))
           g == Tried(goal, k)
       IN  /\ Refs(TriedBefore(goal, k + 1))
           /\ bitmap' = [NewBitmaps(blockUninit \ blockUninit') EXCEPT
                            ![g] = @ \cup {BitTried(goal, k)}]
           /\ freeBlocks' = [freeBlocks EXCEPT ![g] = @ - 1]
           /\ mapped' = [mapped EXCEPT ![i] = @ \cup {AddressOf(g, BitTried(goal, k))}]
    /\ sbFreeBlocks' = sbFreeBlocks - 1
    /\ inodeBitmap' = NewInodeBitmaps(inodeUninit \ inodeUninit')
    /\ UNCHANGED <<inodeVars, readFailed>>

\* ENOSPC.
AllocBlockNoSpace(goal) ==
    /\ Hits(goal) = {}
    /\ Refs(Group) /\ OnlyRefs
    /\ UNCHANGED <<blockVars, inodeVars, readFailed>>

AllocBlockFails(goal) ==
    /\ \E k \in 0 .. Groups :
        /\ \A j \in Hits(goal) : k <= j
        /\ RefFails(TriedBefore(goal, k), Tried(goal, k))
    /\ OnlyRefs
    /\ UNCHANGED <<blockVars, inodeVars>>

-----------------------------------------------------------------------------
(***************************************************************************)
(* ext4_balloc_free_blocks and, for one block, ext4_balloc_free_block. The *)
(* callers ignore failures, or never come back to the inode.               *)
(***************************************************************************)

\* Mutant: the first bit of the run is not counted from its own group.
FreedInShort(first, n, g) == {k \in Bit : AddressOf(g, k) \in first + 1 .. first + n - 1}

\* The bits of the n blocks from first on in the bitmap of group g.
FreedIn(first, n, g) == {k \in Bit : AddressOf(g, k) \in first .. first + n - 1}

\* Mutant: the whole run is counted in every group.
ClearsMiscounted(i, first, n, G) ==
    LET cleared == [g \in Group |-> IF g \in G THEN FreedIn(first, n, g) ELSE {}]
        fresh == NewBitmaps(blockUninit \ blockUninit')
    IN  /\ bitmap' = [g \in Group |-> fresh[g] \ cleared[g]]
        /\ freeBlocks' = [g \in Group |-> freeBlocks[g] + (IF g \in G THEN n ELSE 0)]
        /\ sbFreeBlocks' = sbFreeBlocks + Cardinality(UNION {{g} \X cleared[g] : g \in G})
        /\ mapped' = [mapped EXCEPT ![i] = @ \ (first .. first + n - 1)]

\* The bits are cleared and counted in the groups G. Inode i no longer maps any
\* of the n blocks, whatever the groups.
Clears(i, first, n, G) ==
    LET cleared == [g \in Group |-> IF g \in G THEN FreedIn(first, n, g) ELSE {}]
        fresh == NewBitmaps(blockUninit \ blockUninit')
    IN  /\ bitmap' = [g \in Group |-> fresh[g] \ cleared[g]]
        /\ freeBlocks' = [g \in Group |-> freeBlocks[g] + Cardinality(cleared[g])]
        /\ sbFreeBlocks' = sbFreeBlocks + Cardinality(UNION {{g} \X cleared[g] : g \in G})
        /\ mapped' = [mapped EXCEPT ![i] = @ \ (first .. first + n - 1)]

FreeBlocks(i, first, n) ==
    /\ n > 0 /\ first .. first + n - 1 \subseteq mapped[i]
    /\ LET G == GroupOf(first) .. GroupOf(first + n - 1)
       IN  Refs(G) /\ Clears(i, first, n, G)
    /\ inodeBitmap' = NewInodeBitmaps(inodeUninit \ inodeUninit')
    /\ UNCHANGED <<inodeVars, readFailed>>

\* A bitmap of the run cannot be read: the groups before it are done.
FreeBlocksFails(i, first, n) ==
    /\ n > 0 /\ first .. first + n - 1 \subseteq mapped[i]
    /\ \E g \in GroupOf(first) .. GroupOf(first + n - 1) :
        LET G == GroupOf(first) .. g - 1
        IN  RefFails(G, g) /\ Clears(i, first, n, G)
    /\ inodeBitmap' = NewInodeBitmaps(inodeUninit \ inodeUninit')
    /\ UNCHANGED inodeVars

-----------------------------------------------------------------------------
(***************************************************************************)
(* ext4_ialloc_alloc_inode and ext4_fs_alloc_inode: the groups are looked  *)
(* at from the last one that had a free inode on, and then from the first. *)
(* Mounting does not reset that group: it may be one of a file system that *)
(* was mounted before in the same slot, and then no group is looked at.    *)
(***************************************************************************)

\* The k-th group that is looked at.
InodeTried(k) == (lastGroup + k) % Groups
InodeTries == IF lastGroup <= Groups THEN 0 .. Groups - 1 ELSE {}

\* Mutant: the groups before the last one are not looked at.
InodeHitsNoRewind ==
    {k \in InodeTries : lastGroup + k < Groups /\ freeInodes[InodeTried(k)] > 0}

InodeHits == {k \in InodeTries : freeInodes[InodeTried(k)] > 0}
InodeTriedBefore(k) == {InodeTried(j) : j \in 0 .. k - 1}

\* Mutant: off by one, the first unused inode does not count as unused.
UnusedAfterOff(unused, index) ==
    IF index > InodesPerGroup - unused THEN InodesPerGroup - (index + 1) ELSE unused

\* itable_unused when the inode at index was taken.
UnusedAfter(unused, index) ==
    IF index >= InodesPerGroup - unused THEN InodesPerGroup - (index + 1) ELSE unused

\* The group of the next inode, and the inode. The search in a group that has
\* free inodes but no clear bit would never end.
NextInodeGroup == InodeTried(Min(InodeHits))
NextInodeIndex == FirstOf(InodeBit \ SeenInodes[NextInodeGroup])

\* ext4_ialloc_alloc_inode finds an inode. It counts the inode later.
FindsInode ==
    /\ InodeHits # {}
    /\ NextInodeIndex # None
    /\ Refs(InodeTriedBefore(Min(InodeHits) + 1))
    /\ bitmap' = NewBitmaps(blockUninit \ blockUninit')
    /\ tableUnused' = [tableUnused EXCEPT ![NextInodeGroup] = UnusedAfter(@, NextInodeIndex)]
    /\ lastGroup' = NextInodeGroup

\* The inode is taken in the bitmap and the counters.
TakesInode ==
    /\ inodeBitmap' = [NewInodeBitmaps(inodeUninit \ inodeUninit') EXCEPT
                          ![NextInodeGroup] = @ \cup {NextInodeIndex}]
    /\ freeInodes' = [freeInodes EXCEPT ![NextInodeGroup] = @ - 1]
    /\ sbFreeInodes' = sbFreeInodes - 1

AllocInode ==
    /\ FindsInode /\ TakesInode
    /\ files' = files \cup {InodeOf(NextInodeGroup, NextInodeIndex)}
    /\ UNCHANGED <<blockVars, readFailed>>

\* The inode cannot be read and is freed again.
AllocInodeUndone ==
    /\ FindsInode
    /\ inodeBitmap' = NewInodeBitmaps(inodeUninit \ inodeUninit')
    /\ readFailed' = TRUE
    /\ UNCHANGED <<blockVars, freeInodes, sbFreeInodes, files>>

\* The inode cannot be read, and freeing it fails.
AllocInodeLeaked ==
    /\ FindsInode /\ TakesInode
    /\ readFailed' = TRUE
    /\ UNCHANGED <<blockVars, files>>

AllocInodeNoSpace ==
    /\ InodeHits = {}
    /\ Refs({InodeTried(k) : k \in InodeTries}) /\ OnlyRefs
    /\ UNCHANGED <<blockVars, inodeVars, readFailed>>

AllocInodeFails ==
    /\ \E k \in InodeTries :
        /\ \A j \in InodeHits : k <= j
        /\ RefFails(InodeTriedBefore(k), InodeTried(k))
    /\ OnlyRefs
    /\ UNCHANGED <<blockVars, inodeVars>>

-----------------------------------------------------------------------------
(***************************************************************************)
(* ext4_fs_free_inode of an inode that was truncated and unlinked, and     *)
(* ext4_ialloc_free_inode. When it fails, nobody tries again.              *)
(***************************************************************************)

\* Mutant: the inode is not counted in its group.
CountsInodeNot(g) == freeInodes' = freeInodes

CountsInode(g) == freeInodes' = [freeInodes EXCEPT ![g] = @ + 1]

FreeInode(i) ==
    /\ i \in files \ Reserved /\ mapped[i] = {}
    /\ Refs({InodeGroup(i)})
    /\ bitmap' = NewBitmaps(blockUninit \ blockUninit')
    /\ inodeBitmap' = [NewInodeBitmaps(inodeUninit \ inodeUninit') EXCEPT
                          ![InodeGroup(i)] = @ \ {InodeIndex(i)}]
    /\ CountsInode(InodeGroup(i))
    /\ sbFreeInodes' = sbFreeInodes + 1
    /\ files' = files \ {i}
    /\ UNCHANGED <<blockVars, tableUnused, lastGroup, readFailed>>

FreeInodeFails(i) ==
    /\ i \in files \ Reserved /\ mapped[i] = {}
    /\ RefFails({}, InodeGroup(i)) /\ OnlyRefs
    /\ files' = files \ {i}
    /\ UNCHANGED <<blockVars, freeInodes, sbFreeInodes, tableUnused, lastGroup>>

-----------------------------------------------------------------------------
Next ==
    \/ \E goal \in Goal :
        \/ \E i \in Owner : AllocBlock(i, goal)
        \/ AllocBlockNoSpace(goal)
        \/ AllocBlockFails(goal)
    \/ \E i \in Inode : \E first \in mapped[i], n \in 1 .. Cardinality(mapped[i]) :
        \/ FreeBlocks(i, first, n)
        \/ FreeBlocksFails(i, first, n)
    \/ AllocInode
    \/ AllocInodeUndone
    \/ AllocInodeLeaked
    \/ AllocInodeNoSpace
    \/ AllocInodeFails
    \/ \E i \in Inode : FreeInode(i) \/ FreeInodeFails(i)

Spec == Init /\ [][Next]_vars

-----------------------------------------------------------------------------
(***************************************************************************)
(* Properties.                                                             *)
(***************************************************************************)

\* No block and no inode is given out twice: what the inodes map is disjoint, is no
\* metadata and is marked in a bitmap that will not be initialised again, and an inode
\* that was not freed is marked, whichever initialisations and frees failed half way.
NothingShared ==
    /\ \A i, j \in Inode : i # j => mapped[i] \cap mapped[j] = {}
    /\ \A i \in Inode : \A b \in mapped[i] :
        /\ b \in Block \ Meta
        /\ GroupOf(b) \notin blockUninit
        /\ IndexOf(b) \in bitmap[GroupOf(b)]
    /\ \A i \in files : InodeIndex(i) \in SeenInodes[InodeGroup(i)]

\* The counters, on which the allocators rely before they look at a bitmap, are
\* those of the bitmaps, also of those not initialised yet: with a counter of inodes too
\* high ext4_ialloc_alloc_inode would look at the same group for ever. The inodes
\* itable_unused counts, which no checker looks at, are not in use.
CountsExact ==
    /\ \A g \in Group : freeBlocks[g] = Cardinality(Bit \ Seen[g])
    /\ sbFreeBlocks = Cardinality({b \in Block : IndexOf(b) \notin Seen[GroupOf(b)]})
    /\ \A g \in Group : freeInodes[g] = Cardinality(InodeBit \ SeenInodes[g])
    /\ sbFreeInodes = Cardinality({i \in Inode : InodeIndex(i) \notin SeenInodes[InodeGroup(i)]})
    /\ \A i \in files : InodeIndex(i) < InodesPerGroup - tableUnused[InodeGroup(i)]

\* ENOSPC is returned only when every block, or every inode, is in use, whatever the
\* goal and the group remembered, even where the search starts in the middle of a bitmap.
NoSpaceMeansFull ==
    /\ \A goal \in Goal : Hits(goal) = {} => \A b \in Block : IndexOf(b) \in Seen[GroupOf(b)]
    /\ InodeHits = {} => \A i \in Inode : InodeIndex(i) \in SeenInodes[InodeGroup(i)]

\* "Try to find free i-node in all block groups" (ext4_ialloc.c:238): an inode is
\* refused only when there is none, whatever file system was mounted before.
AllInodeGroupsTried ==
    InodeHits = {} => \A g \in Group : freeInodes[g] = 0

\* As long as every read works, what the bitmaps have set is in use.
NothingLeaks ==
    ~readFailed =>
        /\ \A g \in Group : \A k \in Seen[g] \ Own(g) :
                \E i \in files : AddressOf(g, k) \in mapped[i]
        /\ \A g \in Group : \A k \in SeenInodes[g] : InodeOf(g, k) \in files

=============================================================================
