-------------------------- MODULE AllocationProofs --------------------------
(***************************************************************************)
(* Proofs about Allocation, for every geometry: any number of blocks and   *)
(* of blocks and inodes a group, any metadata and reserved inodes, any     *)
(* byte and window of the bitmap search.                                   *)
(*                                                                         *)
(* What the allocators see of the bitmaps, Seen and SeenInodes, is not     *)
(* changed by the initialisation of a bitmap, however it ends. The         *)
(* inductive invariant says of Seen what the counters, the mappings and    *)
(* the inodes in use have to do with it; two of its parts are not checked  *)
(* properties: a bit that a new bitmap has set stays set, and only inodes  *)
(* in use map blocks.                                                      *)
(***************************************************************************)
EXTENDS Allocation, FiniteSetTheorems, NumberFacts, TLAPS

-----------------------------------------------------------------------------
(***************************************************************************)
(* Groups, bits and addresses.                                             *)
(***************************************************************************)

\* There is a group, the last one holds a block, and no block is behind it.
LEMMA GroupCount ==
    /\ Groups \in Nat \ {0}
    /\ BlocksPerGroup * (Groups - 1) < BlockCount
    /\ BlockCount <= BlocksPerGroup * Groups
  <1> DEFINE n == BlocksPerGroup
             a == BlockCount + n - 1
             q == a \div n
  <1>1. n \in Nat \ {0} /\ BlockCount \in Nat \ {0} /\ a \in Nat /\ a >= n
    BY GeometryAssumption
  <1>2. q \in Nat /\ n * q <= a /\ a < n * q + n
    BY <1>1, DivMod
  <1>3. q # 0
    BY <1>1, <1>2
  <1>4. n * (q - 1) = n * q - n
    BY <1>1, <1>2
  <1>5. n * (q - 1) < BlockCount /\ BlockCount <= n * q
    BY <1>1, <1>2, <1>4
  <1> QED
    BY <1>2, <1>3, <1>5 DEF Groups

\* The sizes of the sets of groups, blocks, bits and inodes.
LEMMA Sizes ==
    /\ IsFiniteSet(Group) /\ Group \subseteq Nat
    /\ IsFiniteSet(Block) /\ Block \subseteq Nat /\ Cardinality(Block) = BlockCount
    /\ IsFiniteSet(Bit) /\ Bit \subseteq Nat
    /\ IsFiniteSet(Inode) /\ Inode \subseteq Nat
    /\ IsFiniteSet(InodeBit) /\ InodeBit \subseteq Nat
  <1>1. BlockCount - 1 \in Int /\ BlocksPerGroup - 1 \in Int /\ InodesPerGroup - 1 \in Int
    BY GeometryAssumption
  <1>2. Groups - 1 \in Int /\ Groups * InodesPerGroup - 1 \in Int
    BY GroupCount, GeometryAssumption
  <1>3. IsFiniteSet(Block) /\ Cardinality(Block) = BlockCount
    <2>1. ~(0 > BlockCount - 1) /\ BlockCount - 1 - 0 + 1 = BlockCount
      BY GeometryAssumption
    <2> QED
      BY <1>1, <2>1, FS_Interval DEF Block
  <1>4. IsFiniteSet(Group) /\ IsFiniteSet(Bit) /\ IsFiniteSet(Inode) /\ IsFiniteSet(InodeBit)
    BY <1>1, <1>2, FS_Interval DEF Group, Bit, Inode, InodeBit
  <1>5. Group \subseteq Nat /\ Block \subseteq Nat /\ Bit \subseteq Nat /\ Inode \subseteq Nat
        /\ InodeBit \subseteq Nat
    BY DEF Group, Block, Bit, Inode, InodeBit
  <1> QED
    BY <1>3, <1>4, <1>5

\* The number of blocks in a group.
LEMMA GroupSize ==
    ASSUME NEW g \in Group
    PROVE  /\ BlocksIn(g) \in 1 .. BlocksPerGroup
           /\ \A k \in Bit : AddressOf(g, k) \in Nat
           /\ \A k \in Bit : k < BlocksIn(g) <=> AddressOf(g, k) < BlockCount
  <1> DEFINE n == BlocksPerGroup
             m == n * g
  <1>0. n \in Nat \ {0} /\ BlockCount \in Nat /\ g \in Nat /\ g <= Groups - 1
    BY GeometryAssumption, GroupCount DEF Group
  <1>1. m \in Nat
    BY <1>0
  <1>2. \A k \in Bit : AddressOf(g, k) = m + k /\ k \in 0 .. n - 1
    BY <1>0 DEF AddressOf, Bit
  <1>3. g = Groups - 1 => m < BlockCount /\ BlockCount - m <= n
    <2>1. n * Groups = n * (Groups - 1) + n
      BY <1>0, GroupCount
    <2> QED
      BY <1>0, <1>1, <2>1, GroupCount
  <1>4. g # Groups - 1 => m + n < BlockCount
    <2>1. n * (Groups - 1) \in Int
      BY <1>0, GroupCount
    <2>2. g # Groups - 1 => g < Groups - 1
      BY <1>0, GroupCount
    <2>3. g # Groups - 1 => n * g + n <= n * (Groups - 1)
      BY <1>0, <2>2, GroupCount, Times
    <2> QED
      BY <1>0, <1>1, <2>1, <2>3, GroupCount
  <1> HIDE DEF m
  <1>5. BlocksIn(g) = IF g = Groups - 1 THEN BlockCount - m ELSE n
    BY DEF BlocksIn, m
  <1> QED
    BY <1>0, <1>1, <1>2, <1>3, <1>4, <1>5

\* A block has a group, and a bit in the group's bitmap.
LEMMA BlockPlace ==
    ASSUME NEW b \in Block
    PROVE  /\ GroupOf(b) \in Group /\ IndexOf(b) \in Bit
           /\ AddressOf(GroupOf(b), IndexOf(b)) = b
  <1> DEFINE n == BlocksPerGroup
             q == b \div n
  <1>0. n \in Nat \ {0} /\ b \in Nat /\ b < BlockCount /\ BlockCount \in Nat
    BY GeometryAssumption DEF Block
  <1>1. q \in Nat /\ n * q <= b /\ b % n \in 0 .. n - 1 /\ b = n * q + (b % n)
    BY <1>0, DivMod
  <1>2. q <= Groups - 1
    <2>1. Groups <= q => n * Groups <= n * q
      BY <1>0, <1>1, GroupCount, Times
    <2>2. n * q \in Nat /\ n * Groups \in Nat /\ n * q <= b /\ BlockCount <= n * Groups
      BY <1>0, <1>1, GroupCount
    <2>3. ~ (n * Groups <= n * q)
      BY <1>0, <2>2
    <2>4. ~ (Groups <= q)
      BY <2>1, <2>3
    <2>5. q \in Nat /\ Groups \in Nat
      BY <1>1, GroupCount
    <2> HIDE DEF q
    <2> QED
      BY <2>4, <2>5
  <1> HIDE DEF q
  <1>3. q \in Group
    BY <1>1, <1>2, GroupCount DEF Group
  <1> QED
    BY <1>1, <1>3 DEF GroupOf, IndexOf, AddressOf, Bit, q

\* Every bit of a bitmap is that of one address.
LEMMA AddressPlace ==
    ASSUME NEW g \in Group, NEW k \in Bit
    PROVE  /\ GroupOf(AddressOf(g, k)) = g
           /\ IndexOf(AddressOf(g, k)) = k
           /\ AddressOf(g, k) \in Block <=> k < BlocksIn(g)
  <1>1. GroupOf(AddressOf(g, k)) = g /\ IndexOf(AddressOf(g, k)) = k
    <2>1. BlocksPerGroup \in Nat \ {0} /\ g \in Nat /\ k \in 0 .. BlocksPerGroup - 1
      BY GeometryAssumption, GroupCount DEF Group, Bit
    <2> QED
      BY <2>1, DivModOf DEF AddressOf, GroupOf, IndexOf
  <1>2. AddressOf(g, k) \in Block <=> k < BlocksIn(g)
    BY GroupSize, GeometryAssumption DEF Block
  <1> QED
    BY <1>1, <1>2

\* An inode has a group, and a bit in the group's bitmap.
LEMMA InodePlace ==
    ASSUME NEW i \in Inode
    PROVE  /\ InodeGroup(i) \in Group /\ InodeIndex(i) \in InodeBit
           /\ InodeOf(InodeGroup(i), InodeIndex(i)) = i
  <1> DEFINE n == InodesPerGroup
             q == i \div n
  <1>0. n \in Nat \ {0} /\ i \in Nat /\ i < n * Groups /\ n * Groups \in Nat
    <2>1. n \in Nat \ {0} /\ Groups \in Nat
      BY GeometryAssumption, GroupCount
    <2>2. n * Groups = Groups * n /\ n * Groups \in Nat
      BY <2>1
    <2> QED
      BY <2>1, <2>2 DEF Inode
  <1>1. q \in Nat /\ n * q <= i /\ i % n \in 0 .. n - 1 /\ i = n * q + (i % n)
    BY <1>0, DivMod
  <1>2. q <= Groups - 1
    <2>1. Groups <= q => n * Groups <= n * q
      BY <1>0, <1>1, GroupCount, Times
    <2>2. n * q \in Nat
      BY <1>0, <1>1
    <2> HIDE DEF q
    <2> QED
      BY <1>0, <1>1, <2>1, <2>2, GroupCount
  <1> HIDE DEF q
  <1>3. q \in Group
    BY <1>1, <1>2, GroupCount DEF Group
  <1> QED
    BY <1>1, <1>3 DEF InodeGroup, InodeIndex, InodeOf, InodeBit, q

\* Every bit of an inode bitmap is that of one inode.
LEMMA InodeNumber ==
    ASSUME NEW g \in Group, NEW k \in InodeBit
    PROVE  /\ InodeOf(g, k) \in Inode
           /\ InodeGroup(InodeOf(g, k)) = g
           /\ InodeIndex(InodeOf(g, k)) = k
  <1> DEFINE n == InodesPerGroup
  <1>0. n \in Nat \ {0} /\ g \in Nat /\ g < Groups /\ k \in 0 .. n - 1 /\ Groups \in Nat
    BY GeometryAssumption, GroupCount DEF Group, InodeBit
  <1>1. n * g + n <= n * Groups
    BY <1>0, Times
  <1>2. n * g \in Nat /\ n * Groups \in Nat /\ n * Groups = Groups * n
    BY <1>0
  <1>3. n * g + k \in 0 .. Groups * n - 1
    BY <1>0, <1>1, <1>2
  <1> QED
    BY <1>0, <1>3, DivModOf DEF InodeOf, InodeGroup, InodeIndex, Inode

-----------------------------------------------------------------------------
(***************************************************************************)
(* Searching a bitmap.                                                     *)
(***************************************************************************)

\* The first of a set of bits is one of them, and there is none only if the set is
\* empty.
LEMMA FirstOfFacts ==
    ASSUME NEW S \in SUBSET Nat, IsFiniteSet(S)
    PROVE  /\ S = {} => FirstOf(S) = None
           /\ S # {} => FirstOf(S) \in S /\ FirstOf(S) # None
  <1>1. S # {} => Min(S) \in S
    BY MinFacts
  <1>2. \A k \in Nat : k # -1
    OBVIOUS
  <1> QED
    BY <1>1, <1>2 DEF FirstOf, None

\* A number rounded up.
LEMMA RoundUpFacts ==
    ASSUME NEW i \in Nat, NEW n \in Nat \ {0}
    PROVE  /\ RoundUp(i, n) \in Nat
           /\ i <= RoundUp(i, n) /\ RoundUp(i, n) < i + n
           /\ \E q \in Nat : RoundUp(i, n) = n * q
  <1> DEFINE a == i + n - 1
             q == a \div n
  <1>1. a \in Nat
    OBVIOUS
  <1>2. q \in Nat /\ n * q <= a /\ a < n * q + n
    BY <1>1, DivMod
  <1>3. RoundUp(i, n) = n * q
    BY <1>2 DEF RoundUp
  <1> HIDE DEF q
  <1>4. n * q \in Nat
    BY <1>2
  <1> QED
    BY <1>2, <1>3, <1>4

\* The next byte boundary is within the window, which ends at one.
LEMMA ByteInWindow ==
    ASSUME NEW i \in Nat
    PROVE  RoundUp(i, Byte) <= RoundUp(i, Window)
  <1>0. Byte \in Nat \ {0} /\ Window \in Nat \ {0} /\ Window % Byte = 0
    BY GeometryAssumption
  <1>1. PICK p \in Nat : RoundUp(i, Byte) = Byte * p
    BY <1>0, RoundUpFacts
  <1>2. PICK q \in Nat : RoundUp(i, Window) = Window * q
    BY <1>0, RoundUpFacts
  <1>3. PICK m \in Nat : Window = Byte * m
    BY <1>0, DivMod
  <1>4. m * q \in Nat /\ Window * q = Byte * (m * q)
    BY <1>0, <1>3
  <1> DEFINE r == m * q
  <1>5. /\ r \in Nat /\ RoundUp(i, Window) = Byte * r
        /\ RoundUp(i, Byte) \in Nat /\ RoundUp(i, Window) \in Nat
        /\ RoundUp(i, Byte) < i + Byte /\ i <= RoundUp(i, Window)
    BY <1>0, <1>2, <1>4, RoundUpFacts
  <1> HIDE DEF r
  <1>6. r < p => Byte * r + Byte <= Byte * p
    BY <1>0, <1>1, <1>5, Times
  <1>7. p <= r
    <2>1. ~ (Byte * r + Byte <= Byte * p)
      BY <1>0, <1>1, <1>5
    <2> QED
      BY <1>1, <1>5, <1>6, <2>1
  <1>8. Byte * p <= Byte * r
    BY <1>0, <1>1, <1>5, <1>7, Times
  <1> QED
    BY <1>1, <1>5, <1>8

\* What is clear in part of a bitmap.
LEMMA ClearInFacts ==
    ASSUME NEW S, NEW from, NEW end
    PROVE  ClearIn(S, from, end) \in SUBSET Nat /\ IsFiniteSet(ClearIn(S, from, end))
  <1>1. ClearIn(S, from, end) \in SUBSET Bit
    BY DEF ClearIn
  <1> QED
    BY <1>1, Sizes, FS_Subset

\* From the first bit on, ext4_bmap_bit_find_clr finds the first clear bit.
LEMMA FindClrFromStart ==
    ASSUME NEW S, NEW end
    PROVE  FindClr(S, 0, end) = FirstOf(ClearIn(S, 0, end))
  <1>0. Byte \in Nat \ {0}
    BY GeometryAssumption
  <1>1. RoundUp(0, Byte) = 0
    <2>1. PICK q \in Nat : RoundUp(0, Byte) = Byte * q /\ Byte * q < Byte
      <3>1. RoundUp(0, Byte) < 0 + Byte /\ \E q \in Nat : RoundUp(0, Byte) = Byte * q
        BY <1>0, RoundUpFacts
      <3> QED
        BY <1>0, <3>1
    <2>2. 0 < q => Byte * 0 + Byte <= Byte * q
      BY <1>0, Times
    <2>3. q = 0
      <3>1. Byte * q \in Nat /\ Byte * 0 = 0
        BY <1>0
      <3> QED
        BY <1>0, <2>1, <2>2, <3>1
    <2> QED
      BY <1>0, <2>1, <2>3
  <1>2. ClearIn(S, 0, 0) = {}
    BY DEF ClearIn, Bit
  <1> QED
    BY <1>1, <1>2 DEF FindClr

\* Near a goal, no search reports a bit that is set: a search from the goal on, which
\* would report the goal for a clear bit in its byte, is made only when the whole
\* window, and so that byte, is used up.
LEMMA FindNearGoalClear ==
    ASSUME NEW S, NEW i \in Bit, NEW end, FindNearGoal(S, i, end) # None
    PROVE  FindNearGoal(S, i, end) \in Bit \ S
  <1> DEFINE near == ClearIn(S, i + 1, end) \cap ClearIn(S, i + 1, RoundUp(i, Window))
  <1>0. i \in Nat
    BY DEF Bit
  <1>1. CASE i \notin S
    BY <1>1 DEF FindNearGoal
  <1>2. CASE i \in S /\ near # {}
    <2>1. near \in SUBSET Nat /\ IsFiniteSet(near)
      BY ClearInFacts, FS_Subset
    <2>2. Min(near) \in near
      BY <1>2, <2>1, MinFacts
    <2> QED
      BY <1>2, <2>2 DEF FindNearGoal, ClearIn
  <1>3. CASE i \in S /\ near = {}
    <2>1. ClearIn(S, i, end) \cap ClearIn(S, i, RoundUp(i, Byte)) = {}
      <3> SUFFICES ASSUME NEW k \in Bit, k \notin S, i <= k, k < end, k < RoundUp(i, Byte)
                   PROVE  FALSE
        BY DEF ClearIn
      <3>1. k \in Nat /\ k # i
        BY <1>3 DEF Bit
      <3>2. k < RoundUp(i, Window) /\ i + 1 <= k
        <4>1. RoundUp(i, Byte) \in Nat /\ RoundUp(i, Window) \in Nat
          BY <1>0, RoundUpFacts, GeometryAssumption
        <4> QED
          BY <1>0, <3>1, <4>1, ByteInWindow
      <3>3. k \in near
        BY <3>2 DEF ClearIn
      <3> QED
        BY <1>3, <3>3
    <2>2. FindNearGoal(S, i, end) = FirstOf(ClearIn(S, i, end))
      BY <1>3, <2>1 DEF FindNearGoal, FindClr
    <2> QED
      BY <2>2, ClearInFacts, FirstOfFacts DEF ClearIn
  <1> QED
    BY <1>1, <1>2, <1>3

-----------------------------------------------------------------------------
(***************************************************************************)
(* The inductive invariant, in two halves: what concerns blocks, and what  *)
(* concerns inodes.                                                        *)
(***************************************************************************)

BlockTypes ==
    /\ bitmap \in [Group -> SUBSET Bit] /\ blockUninit \subseteq Group
    /\ freeBlocks \in [Group -> Nat] /\ sbFreeBlocks \in Nat
    /\ mapped \in [Inode -> SUBSET Block]

\* No block is mapped twice.
Disjoint == \A i, j \in Inode : i # j => mapped[i] \cap mapped[j] = {}

\* A block that is mapped is marked, where its bitmap will not be initialised again.
BlocksMarked ==
    \A i \in Inode : \A b \in mapped[i] :
        /\ b \in Block \ Meta
        /\ GroupOf(b) \notin blockUninit
        /\ IndexOf(b) \in bitmap[GroupOf(b)]

\* What a new bitmap has set is never cleared: it is not part of any file.
OwnSeen == \A g \in Group : Own(g) \subseteq Seen[g]

\* The blocks, and the inodes, that the bitmaps have clear.
ClearBlocks == {b \in Block : IndexOf(b) \notin Seen[GroupOf(b)]}
ClearInodes == {i \in Inode : InodeIndex(i) \notin SeenInodes[InodeGroup(i)]}

BlockCounts ==
    /\ \A g \in Group : freeBlocks[g] = Cardinality(Bit \ Seen[g])
    /\ sbFreeBlocks = Cardinality(ClearBlocks)

BlockInv == BlockTypes /\ Disjoint /\ BlocksMarked /\ OwnSeen /\ BlockCounts

\* Blocks do not leak, and belong to inodes in use.
BlocksUsed ==
    /\ \A i \in Inode : mapped[i] # {} => i \in files
    /\ ~readFailed => \A g \in Group : \A k \in Seen[g] \ Own(g) :
                          \E i \in files : AddressOf(g, k) \in mapped[i]

InodeTypes ==
    /\ inodeBitmap \in [Group -> SUBSET InodeBit] /\ inodeUninit \subseteq Group
    /\ freeInodes \in [Group -> Nat] /\ sbFreeInodes \in Nat
    /\ lastGroup \in Nat /\ files \subseteq Inode

\* An inode in use is marked, and no inode leaks.
FilesMarked == \A i \in files : InodeIndex(i) \in SeenInodes[InodeGroup(i)]
InodesUsed == ~readFailed => \A g \in Group : \A k \in SeenInodes[g] : InodeOf(g, k) \in files

InodeCounts ==
    /\ \A g \in Group : freeInodes[g] = Cardinality(InodeBit \ SeenInodes[g])
    /\ sbFreeInodes = Cardinality(ClearInodes)

InodeInv == InodeTypes /\ FilesMarked /\ InodeCounts /\ InodesUsed

\* The end of an inode table that is unused.
Unused ==
    /\ tableUnused \in [Group -> 0 .. InodesPerGroup]
    /\ \A i \in files : InodeIndex(i) < InodesPerGroup - tableUnused[InodeGroup(i)]

IInv == BlockInv /\ BlocksUsed /\ InodeInv /\ Unused /\ readFailed \in BOOLEAN

\* The invariant holds everything that the runs check, except about ENOSPC.
LEMMA IInvGives ==
    IInv <=> TypeOK /\ NothingShared /\ CountsExact /\ NothingLeaks /\ OwnSeen
             /\ \A i \in Inode : mapped[i] # {} => i \in files
  BY DEF IInv, BlockInv, BlocksUsed, InodeInv, Unused, BlockTypes, Disjoint, BlocksMarked,
         BlockCounts, ClearBlocks, ClearInodes, InodeTypes, FilesMarked, InodesUsed, InodeCounts,
         TypeOK, NothingShared, CountsExact, NothingLeaks

-----------------------------------------------------------------------------
(***************************************************************************)
(* Initialising bitmaps changes nothing that the allocators see.           *)
(***************************************************************************)

\* Flags are only ever cleared, and a failure is remembered.
LEMMA FlagsShrink ==
    ASSUME NEW G, NEW g, Refs(G) \/ RefFails(G, g)
    PROVE  /\ blockUninit' \subseteq blockUninit /\ inodeUninit' \subseteq inodeUninit
           /\ blockUninit' \cap G = {} /\ inodeUninit' \cap G = {}
           /\ RefFails(G, g) => readFailed' = TRUE
  BY DEF Refs, RefFails

\* What is seen of the block bitmaps.
LEMMA SeenType ==
    ASSUME BlockTypes
    PROVE  /\ Seen \in [Group -> SUBSET Bit]
           /\ \A g \in Group \ blockUninit : Seen[g] = bitmap[g]
           /\ \A g \in blockUninit : Seen[g] = Own(g)
  BY DEF BlockTypes, Seen, NewBitmaps, Own

\* What is seen of the inode bitmaps.
LEMMA SeenInodesType ==
    ASSUME InodeTypes
    PROVE  SeenInodes \in [Group -> SUBSET InodeBit]
  BY DEF InodeTypes, SeenInodes, NewInodeBitmaps

\* A bitmap that is fresh, or was initialised before, shows what was seen.
LEMMA FreshBitmaps ==
    ASSUME BlockTypes, blockUninit' \subseteq blockUninit,
           NEW fresh, fresh = NewBitmaps(blockUninit \ blockUninit')
    PROVE  fresh \in [Group -> SUBSET Bit] /\ \A g \in Group \ blockUninit' : fresh[g] = Seen[g]
  BY DEF BlockTypes, Seen, NewBitmaps, Own

LEMMA FreshInodeBitmaps ==
    ASSUME InodeTypes, inodeUninit' \subseteq inodeUninit,
           NEW fresh, fresh = NewInodeBitmaps(inodeUninit \ inodeUninit')
    PROVE  /\ fresh \in [Group -> SUBSET InodeBit]
           /\ \A g \in Group \ inodeUninit' : fresh[g] = SeenInodes[g]
  BY DEF InodeTypes, SeenInodes, NewInodeBitmaps

\* Bits may be changed where the bitmap is not initialised again.
LEMMA SeenChanges ==
    ASSUME BlockTypes, blockUninit' \subseteq blockUninit,
           NEW f \in [Group -> SUBSET Bit],
           \A g \in blockUninit' : f[g] = Seen[g],
           bitmap' \in [Group -> SUBSET Bit],
           \A g \in Group \ blockUninit' : bitmap'[g] = f[g]
    PROVE  Seen' = f
  <1>1. Seen' = [g \in Group |-> IF g \in blockUninit' THEN Own(g) ELSE bitmap'[g]]
    BY DEF Seen, NewBitmaps, Own
  <1>2. \A g \in blockUninit' : Seen[g] = Own(g) /\ g \in Group
    BY DEF Seen, NewBitmaps, BlockTypes
  <1> QED
    BY <1>1, <1>2

LEMMA SeenInodesChange ==
    ASSUME InodeTypes, inodeUninit' \subseteq inodeUninit,
           NEW f \in [Group -> SUBSET InodeBit],
           \A g \in inodeUninit' : f[g] = SeenInodes[g],
           inodeBitmap' \in [Group -> SUBSET InodeBit],
           \A g \in Group \ inodeUninit' : inodeBitmap'[g] = f[g]
    PROVE  SeenInodes' = f
  <1>1. SeenInodes' = [g \in Group |-> IF g \in inodeUninit' THEN {} ELSE inodeBitmap'[g]]
    BY DEF SeenInodes, NewInodeBitmaps
  <1>2. \A g \in inodeUninit' : SeenInodes[g] = {} /\ g \in Group
    BY DEF SeenInodes, NewInodeBitmaps, InodeTypes
  <1> QED
    BY <1>1, <1>2

\* A step that only initialises block bitmaps, and one that only initialises inode
\* bitmaps or forgets inodes.
BlocksQuiet ==
    /\ blockUninit' \subseteq blockUninit
    /\ bitmap' = NewBitmaps(blockUninit \ blockUninit')
    /\ UNCHANGED blockVars

InodesQuiet ==
    /\ inodeUninit' \subseteq inodeUninit
    /\ inodeBitmap' = NewInodeBitmaps(inodeUninit \ inodeUninit')
    /\ UNCHANGED <<freeInodes, sbFreeInodes>>

\* It shows what was seen before.
LEMMA QuietSeen ==
    ASSUME BlockTypes, BlocksQuiet
    PROVE  Seen' = Seen /\ BlockTypes' /\ \A g \in Group \ blockUninit' : bitmap'[g] = Seen[g]
  <1>1. /\ bitmap' \in [Group -> SUBSET Bit]
        /\ \A g \in Group \ blockUninit' : bitmap'[g] = Seen[g]
    BY FreshBitmaps DEF BlocksQuiet
  <1>2. Seen' = Seen
    BY <1>1, SeenType, SeenChanges DEF BlocksQuiet
  <1> QED
    BY <1>1, <1>2 DEF BlockTypes, BlocksQuiet, blockVars

\* And so it keeps what concerns blocks.
LEMMA QuietBlocks ==
    ASSUME BlockInv, BlocksQuiet
    PROVE  BlockInv' /\ Seen' = Seen
  <1>1. /\ Seen' = Seen /\ BlockTypes'
        /\ \A g \in Group \ blockUninit' : bitmap'[g] = Seen[g]
    BY QuietSeen DEF BlockInv
  <1>2. /\ freeBlocks' = freeBlocks /\ sbFreeBlocks' = sbFreeBlocks /\ mapped' = mapped
        /\ blockUninit' \subseteq blockUninit
    BY DEF BlocksQuiet, blockVars
  <1>3. Disjoint' /\ OwnSeen'
    BY <1>1, <1>2 DEF BlockInv, Disjoint, OwnSeen, Own, BlocksIn, AddressOf
  <1>4. BlocksMarked'
    <2> SUFFICES ASSUME NEW i \in Inode, NEW b \in mapped[i]
                 PROVE  /\ b \in Block \ Meta
                        /\ GroupOf(b) \notin blockUninit'
                        /\ IndexOf(b) \in bitmap'[GroupOf(b)]
      BY <1>2 DEF BlocksMarked, GroupOf, IndexOf
    <2>1. /\ b \in Block \ Meta /\ GroupOf(b) \notin blockUninit
          /\ IndexOf(b) \in bitmap[GroupOf(b)]
      BY DEF BlockInv, BlocksMarked
    <2>2. GroupOf(b) \in Group /\ Seen[GroupOf(b)] = bitmap[GroupOf(b)]
      BY <2>1, BlockPlace, SeenType DEF BlockInv
    <2> QED
      BY <1>1, <1>2, <2>1, <2>2
  <1>5. BlockCounts'
    BY <1>1, <1>2 DEF BlockInv, BlockCounts, ClearBlocks, GroupOf, IndexOf
  <1> QED
    BY <1>1, <1>3, <1>4, <1>5 DEF BlockInv

\* The same for the inode bitmaps.
LEMMA QuietInodes ==
    ASSUME InodeInv, InodesQuiet
    PROVE  /\ SeenInodes' = SeenInodes
           /\ inodeBitmap' \in [Group -> SUBSET InodeBit] /\ inodeUninit' \subseteq Group
           /\ freeInodes' \in [Group -> Nat] /\ sbFreeInodes' \in Nat
           /\ InodeCounts'
  <1>1. /\ inodeBitmap' \in [Group -> SUBSET InodeBit]
        /\ \A g \in Group \ inodeUninit' : inodeBitmap'[g] = SeenInodes[g]
    BY FreshInodeBitmaps DEF InodesQuiet, InodeInv
  <1>2. SeenInodes' = SeenInodes
    BY <1>1, SeenInodesType, SeenInodesChange DEF InodesQuiet, InodeInv
  <1>3. InodeCounts'
    BY <1>2 DEF InodeInv, InodesQuiet, InodeCounts, ClearInodes, InodeGroup, InodeIndex
  <1> QED
    BY <1>1, <1>2, <1>3 DEF InodeInv, InodeTypes, InodesQuiet

\* What concerns inodes is kept when inodes are at most forgotten, after a failure.
LEMMA QuietInodeInv ==
    ASSUME InodeInv, InodesQuiet, files' \subseteq files, lastGroup' \in Nat,
           readFailed' = TRUE \/ (files' = files /\ readFailed' = readFailed)
    PROVE  InodeInv'
  <1>1. /\ SeenInodes' = SeenInodes
        /\ inodeBitmap' \in [Group -> SUBSET InodeBit] /\ inodeUninit' \subseteq Group
        /\ freeInodes' \in [Group -> Nat] /\ sbFreeInodes' \in Nat
        /\ InodeCounts'
    BY QuietInodes
  <1>2. InodeTypes'
    BY <1>1 DEF InodeInv, InodeTypes
  <1>3. FilesMarked' /\ InodesUsed'
    BY <1>1 DEF InodeInv, FilesMarked, InodesUsed, InodeGroup, InodeIndex, InodeOf
  <1> QED
    BY <1>1, <1>2, <1>3 DEF InodeInv

-----------------------------------------------------------------------------
(***************************************************************************)
(* Allocating a block.                                                     *)
(***************************************************************************)

\* The tries that find a block find a clear bit of a group.
LEMMA Found ==
    ASSUME BlockInv, NEW goal \in Goal, NEW k \in Hits(goal)
    PROVE  /\ k \in 0 .. Groups /\ Tried(goal, k) \in Group
           /\ BitTried(goal, k) \in Bit \ Seen[Tried(goal, k)]
  <1> DEFINE g == Tried(goal, k)
  <1>1. k \in 0 .. Groups /\ BitTried(goal, k) # None
    BY DEF Hits
  <1>2. g \in Group
    BY <1>1 DEF BitTried
  <1>3. CASE k = 0
    <2>1. goal \in Nat /\ BlocksPerGroup \in Nat \ {0}
      BY GeometryAssumption DEF Goal
    <2>2. IndexOf(goal) \in Bit
      BY <2>1, DivMod DEF IndexOf, Bit
    <2>3. BitTried(goal, k) = FindNearGoal(Seen[g], IndexOf(goal), BlocksIn(g))
      BY <1>1, <1>3 DEF BitTried
    <2> HIDE DEF g
    <2>4. BitTried(goal, k) \in Bit \ Seen[g]
      BY <1>1, <2>2, <2>3, FindNearGoalClear
    <2> QED
      BY <1>1, <1>2, <2>4 DEF g
  <1>4. CASE k # 0
    <2>1. BitTried(goal, k) = FirstOf(ClearIn(Seen[g], 0, BlocksIn(g)))
      BY <1>1, <1>4, FindClrFromStart DEF BitTried
    <2> HIDE DEF g
    <2>2. BitTried(goal, k) \in Bit \ Seen[g]
      BY <1>1, <2>1, ClearInFacts, FirstOfFacts DEF ClearIn
    <2> QED
      BY <1>1, <1>2, <2>2 DEF g
  <1> QED
    BY <1>3, <1>4

\* The first of them is made.
LEMMA FirstHit ==
    ASSUME NEW goal \in Goal, Hits(goal) # {}
    PROVE  Min(Hits(goal)) \in Hits(goal)
  <1>1. Hits(goal) \subseteq 0 .. Groups
    BY DEF Hits
  <1>2. IsFiniteSet(0 .. Groups) /\ 0 .. Groups \subseteq Nat
    BY FS_Interval, GroupCount
  <1>3. Hits(goal) \in SUBSET Nat /\ IsFiniteSet(Hits(goal))
    BY <1>1, <1>2, FS_Subset
  <1> QED
    BY <1>3, MinFacts

\* A clear bit is that of a block that nobody maps.
LEMMA ClearBit ==
    ASSUME BlockInv, NEW g \in Group, NEW bit \in Bit, bit \notin Seen[g]
    PROVE  /\ AddressOf(g, bit) \in Block \ Meta
           /\ AddressOf(g, bit) \in ClearBlocks
           /\ \A i \in Inode : AddressOf(g, bit) \notin mapped[i]
  <1> DEFINE b == AddressOf(g, bit)
  <1>1. bit \notin Own(g)
    BY DEF BlockInv, OwnSeen
  <1>2. bit < BlocksIn(g) /\ b \notin Meta
    <2>1. ~ (bit >= BlocksIn(g)) /\ b \notin Meta
      BY <1>1 DEF Own
    <2>2. bit \in Int /\ BlocksIn(g) \in Int
      BY GroupSize DEF Bit
    <2> QED
      BY <2>1, <2>2
  <1>3. b \in Block /\ GroupOf(b) = g /\ IndexOf(b) = bit
    BY <1>2, AddressPlace
  <1>4. b \in ClearBlocks
    BY <1>3 DEF ClearBlocks
  <1>5. \A i \in Inode : b \notin mapped[i]
    <2> SUFFICES ASSUME NEW i \in Inode, b \in mapped[i]
                 PROVE  FALSE
      OBVIOUS
    <2>1. g \notin blockUninit /\ bit \in bitmap[g]
      BY <1>3 DEF BlockInv, BlocksMarked
    <2> QED
      BY <2>1, SeenType DEF BlockInv
  <1> QED
    BY <1>2, <1>3, <1>4, <1>5

\* The counters when a clear bit is set.
LEMMA CountsTaken ==
    ASSUME BlockInv, NEW g \in Group, NEW bit \in Bit, bit \notin Seen[g],
           Seen' = [Seen EXCEPT ![g] = @ \cup {bit}],
           freeBlocks' = [freeBlocks EXCEPT ![g] = @ - 1], sbFreeBlocks' = sbFreeBlocks - 1
    PROVE  BlockCounts' /\ freeBlocks' \in [Group -> Nat] /\ sbFreeBlocks' \in Nat
  <1>0. Seen \in [Group -> SUBSET Bit] /\ freeBlocks \in [Group -> Nat]
    BY SeenType DEF BlockInv, BlockTypes
  <1>1. \A h \in Group : IsFiniteSet(Bit \ Seen[h])
    BY Sizes, FS_Difference
  <1>2. IsFiniteSet(ClearBlocks)
    BY Sizes, FS_Subset DEF ClearBlocks
  <1> DEFINE n == Cardinality((Bit \ Seen[g]) \ {bit})
  <1>3. n \in Nat /\ n = freeBlocks[g] - 1
    <2>1. IsFiniteSet((Bit \ Seen[g]) \ {bit}) /\ n = Cardinality(Bit \ Seen[g]) - 1
      BY <1>1, FS_RemoveElement
    <2>2. Cardinality(Bit \ Seen[g]) = freeBlocks[g]
      BY DEF BlockInv, BlockCounts
    <2> QED
      BY <2>1, <2>2, FS_CardinalityType
  <1>4. Bit \ Seen'[g] = (Bit \ Seen[g]) \ {bit}
    BY <1>0
  <1> HIDE DEF n
  <1>5. freeBlocks' \in [Group -> Nat] /\ freeBlocks'[g] = n
    BY <1>0, <1>3
  <1>6. \A h \in Group : freeBlocks'[h] = Cardinality(Bit \ Seen'[h])
    <2> SUFFICES ASSUME NEW h \in Group
                 PROVE  freeBlocks'[h] = Cardinality(Bit \ Seen'[h])
      OBVIOUS
    <2>1. CASE h = g
      BY <1>4, <1>5, <2>1 DEF n
    <2>2. CASE h # g
      <3>1. freeBlocks'[h] = freeBlocks[h] /\ Seen'[h] = Seen[h]
        BY <1>0, <2>2
      <3> QED
        BY <3>1 DEF BlockInv, BlockCounts
    <2> QED
      BY <2>1, <2>2
  <1>7. ClearBlocks' = ClearBlocks \ {AddressOf(g, bit)}
    <2>1. ClearBlocks' = {b \in Block : IndexOf(b) \notin Seen'[GroupOf(b)]}
      BY DEF ClearBlocks, GroupOf, IndexOf
    <2>2. ASSUME NEW b \in Block
          PROVE  IndexOf(b) \notin Seen'[GroupOf(b)] <=>
                     IndexOf(b) \notin Seen[GroupOf(b)] /\ b # AddressOf(g, bit)
      <3>1. /\ GroupOf(b) \in Group /\ IndexOf(b) \in Bit
            /\ AddressOf(GroupOf(b), IndexOf(b)) = b
        BY BlockPlace
      <3>2. GroupOf(AddressOf(g, bit)) = g /\ IndexOf(AddressOf(g, bit)) = bit
        BY AddressPlace
      <3>3. CASE GroupOf(b) = g
        <4>1. Seen'[g] = Seen[g] \cup {bit}
          BY <1>0
        <4>2. b = AddressOf(g, bit) <=> IndexOf(b) = bit
          BY <3>1, <3>2, <3>3
        <4> QED
          BY <3>3, <4>1, <4>2
      <3>4. CASE GroupOf(b) # g
        BY <1>0, <3>1, <3>2, <3>4
      <3> QED
        BY <3>3, <3>4
    <2> QED
      BY <2>1, <2>2 DEF ClearBlocks
  <1>8. sbFreeBlocks' \in Nat /\ sbFreeBlocks' = Cardinality(ClearBlocks')
    <2>1. AddressOf(g, bit) \in ClearBlocks
      BY ClearBit
    <2>2. /\ IsFiniteSet(ClearBlocks')
          /\ Cardinality(ClearBlocks') = Cardinality(ClearBlocks) - 1
      BY <1>2, <1>7, <2>1, FS_RemoveElement
    <2>3. Cardinality(ClearBlocks') \in Nat
      BY <2>2, FS_CardinalityType
    <2> QED
      BY <2>2, <2>3 DEF BlockInv, BlockCounts
  <1> QED
    BY <1>5, <1>6, <1>8 DEF BlockCounts

\* A block is mapped that nobody mapped, and marked.
LEMMA AllocBlockKeeps ==
    ASSUME IInv, NEW i \in Owner, NEW goal \in Goal, AllocBlock(i, goal)
    PROVE  IInv'
  <1> DEFINE k == Min(Hits(goal))
             g == Tried(goal, k)
             bit == BitTried(goal, k)
             b == AddressOf(g, bit)
             fresh == NewBitmaps(blockUninit \ blockUninit')
             f == [Seen EXCEPT ![g] = @ \cup {bit}]
  <1>1. BlockInv /\ i \in Inode /\ i \in files
    BY GeometryAssumption DEF IInv, AllocBlock
  <1>2. k \in 0 .. Groups /\ g \in Group /\ bit \in Bit \ Seen[g]
    BY <1>1, FirstHit, Found DEF AllocBlock
  <1>3. /\ Refs(TriedBefore(goal, k + 1))
        /\ bitmap' = [fresh EXCEPT ![g] = @ \cup {bit}]
        /\ freeBlocks' = [freeBlocks EXCEPT ![g] = @ - 1]
        /\ mapped' = [mapped EXCEPT ![i] = @ \cup {b}]
        /\ sbFreeBlocks' = sbFreeBlocks - 1
        /\ inodeBitmap' = NewInodeBitmaps(inodeUninit \ inodeUninit')
        /\ UNCHANGED <<inodeVars, readFailed>>
    BY DEF AllocBlock
  <1>4. g \in TriedBefore(goal, k + 1)
    <2>1. k \in 0 .. k + 1 - 1
      BY <1>2, GroupCount
    <2> QED
      BY <1>2, <2>1 DEF TriedBefore
  <1>5. /\ blockUninit' \subseteq blockUninit /\ inodeUninit' \subseteq inodeUninit
        /\ g \notin blockUninit'
    BY <1>3, <1>4 DEF Refs
  <1>6. /\ b \in Block \ Meta /\ \A j \in Inode : b \notin mapped[j]
        /\ GroupOf(b) = g /\ IndexOf(b) = bit
    BY <1>1, <1>2, ClearBit, AddressPlace
  <1>7. /\ fresh \in [Group -> SUBSET Bit]
        /\ \A h \in Group \ blockUninit' : fresh[h] = Seen[h]
    BY <1>1, <1>5, FreshBitmaps DEF BlockInv
  <1>8. /\ Seen \in [Group -> SUBSET Bit]
        /\ \A h \in Group \ blockUninit : Seen[h] = bitmap[h]
    BY <1>1, SeenType DEF BlockInv
  <1>9. mapped \in [Inode -> SUBSET Block] /\ blockUninit \subseteq Group
    BY <1>1 DEF BlockInv, BlockTypes
  <1> HIDE DEF k, g, bit, b, fresh
  <1>10. /\ f \in [Group -> SUBSET Bit]
         /\ bitmap' \in [Group -> SUBSET Bit]
         /\ \A h \in Group \ blockUninit' : bitmap'[h] = f[h]
         /\ \A h \in blockUninit' : f[h] = Seen[h]
    BY <1>2, <1>3, <1>5, <1>7, <1>8
  <1>11. Seen' = f
    BY <1>1, <1>5, <1>10, SeenChanges DEF BlockInv
  <1>12. BlockCounts' /\ freeBlocks' \in [Group -> Nat] /\ sbFreeBlocks' \in Nat
    BY <1>1, <1>2, <1>3, <1>11, CountsTaken
  <1>13. mapped' \in [Inode -> SUBSET Block]
         /\ mapped'[i] = mapped[i] \cup {b} /\ \A j \in Inode \ {i} : mapped'[j] = mapped[j]
    BY <1>1, <1>3, <1>6, <1>9
  <1>14. Disjoint'
    BY <1>1, <1>6, <1>13 DEF BlockInv, Disjoint
  <1>15. BlocksMarked'
    <2> SUFFICES ASSUME NEW j \in Inode, NEW c \in mapped'[j]
                 PROVE  /\ c \in Block \ Meta /\ GroupOf(c) \notin blockUninit'
                        /\ IndexOf(c) \in bitmap'[GroupOf(c)]
      BY DEF BlocksMarked, GroupOf, IndexOf
    <2>1. CASE c = b
      BY <1>2, <1>3, <1>5, <1>6, <1>7, <2>1
    <2>2. CASE c # b
      <3>1. c \in mapped[j]
        BY <1>13, <2>2
      <3>2. /\ c \in Block \ Meta /\ GroupOf(c) \notin blockUninit
            /\ IndexOf(c) \in bitmap[GroupOf(c)]
        BY <1>1, <3>1 DEF BlockInv, BlocksMarked
      <3>3. GroupOf(c) \in Group /\ IndexOf(c) \in Seen[GroupOf(c)]
        BY <1>8, <3>2, BlockPlace
      <3>4. IndexOf(c) \in f[GroupOf(c)]
        BY <1>2, <1>8, <3>3
      <3> QED
        BY <1>5, <1>10, <3>2, <3>3, <3>4
    <2> QED
      BY <2>1, <2>2
  <1>16. OwnSeen'
    <2>1. \A h \in Group : Seen[h] \subseteq f[h]
      BY <1>2, <1>8
    <2> QED
      BY <1>1, <1>11, <2>1 DEF BlockInv, OwnSeen, Own, BlocksIn, AddressOf
  <1>17. BlockInv'
    BY <1>5, <1>9, <1>10, <1>12, <1>13, <1>14, <1>15, <1>16 DEF BlockInv, BlockTypes
  <1>18. /\ files' = files /\ readFailed' = readFailed /\ lastGroup' = lastGroup
         /\ tableUnused' = tableUnused /\ UNCHANGED <<freeInodes, sbFreeInodes>>
    BY <1>3 DEF inodeVars
  <1>19. BlocksUsed'
    <2>1. \A j \in Inode : mapped'[j] # {} => j \in files'
      BY <1>1, <1>13, <1>18 DEF IInv, BlocksUsed
    <2>2. ASSUME ~readFailed', NEW h \in Group, NEW c \in Seen'[h] \ Own(h)
          PROVE  \E j \in files' : AddressOf(h, c) \in mapped'[j]
      <3>1. CASE h = g /\ c = bit
        BY <1>1, <1>13, <1>18, <3>1 DEF b
      <3>2. CASE ~ (h = g /\ c = bit)
        <4>1. c \in Seen[h] \ Own(h)
          BY <1>2, <1>8, <1>11, <2>2, <3>2
        <4>2. PICK j \in files : AddressOf(h, c) \in mapped[j]
          BY <1>18, <2>2, <4>1 DEF IInv, BlocksUsed
        <4>3. j \in Inode
          BY DEF IInv, InodeInv, InodeTypes
        <4> QED
          BY <1>13, <1>18, <4>2, <4>3
      <3> QED
        BY <3>1, <3>2
    <2> QED
      BY <2>1, <2>2 DEF BlocksUsed, Own, BlocksIn, AddressOf
  <1>20. InodeInv'
    BY <1>3, <1>5, <1>18, QuietInodeInv DEF IInv, InodesQuiet, InodeInv, InodeTypes
  <1> QED
    BY <1>17, <1>18, <1>19, <1>20 DEF IInv, Unused, InodeGroup, InodeIndex

\* A step that changes neither block counters nor mappings keeps the whole invariant.
LEMMA QuietStep ==
    ASSUME IInv, BlocksQuiet, InodesQuiet, UNCHANGED inodeVars,
           readFailed' = TRUE \/ readFailed' = readFailed
    PROVE  IInv'
  <1>1. BlockInv' /\ Seen' = Seen /\ mapped' = mapped
    BY QuietBlocks DEF IInv, BlocksQuiet, blockVars
  <1>2. files' = files /\ lastGroup' = lastGroup /\ tableUnused' = tableUnused
    BY DEF inodeVars
  <1>3. InodeInv'
    BY <1>2, QuietInodeInv DEF IInv, InodeInv, InodeTypes
  <1>4. BlocksUsed'
    BY <1>1, <1>2 DEF IInv, BlocksUsed, Own, BlocksIn, AddressOf
  <1> QED
    BY <1>1, <1>2, <1>3, <1>4 DEF IInv, Unused, InodeGroup, InodeIndex

\* ENOSPC and failures on the way to a block.
LEMMA NoBlockKeeps ==
    ASSUME IInv, NEW goal \in Goal, AllocBlockNoSpace(goal) \/ AllocBlockFails(goal)
    PROVE  IInv'
  <1>1. OnlyRefs /\ UNCHANGED <<blockVars, inodeVars>>
    BY DEF AllocBlockNoSpace, AllocBlockFails
  <1>2. /\ blockUninit' \subseteq blockUninit /\ inodeUninit' \subseteq inodeUninit
        /\ readFailed' = TRUE \/ readFailed' = readFailed
    BY FlagsShrink DEF AllocBlockNoSpace, AllocBlockFails
  <1>3. BlocksQuiet /\ InodesQuiet
    BY <1>1, <1>2 DEF OnlyRefs, BlocksQuiet, InodesQuiet, inodeVars
  <1> QED
    BY <1>1, <1>2, <1>3, QuietStep

-----------------------------------------------------------------------------
(***************************************************************************)
(* Freeing blocks.                                                         *)
(***************************************************************************)

\* The bits of a run that an inode maps are marked, where the bitmap was initialised,
\* and are no metadata.
LEMMA RunMarked ==
    ASSUME BlockInv, NEW i \in Inode, NEW first, NEW n, first .. first + n - 1 \subseteq mapped[i],
           NEW g \in Group, NEW k \in FreedIn(first, n, g)
    PROVE  /\ k \in Bit /\ AddressOf(g, k) \in mapped[i]
           /\ AddressOf(g, k) \in Block /\ g \notin blockUninit
           /\ k \in Seen[g] /\ k \notin Own(g)
  <1> DEFINE b == AddressOf(g, k)
  <1>1. k \in Bit /\ b \in mapped[i]
    BY DEF FreedIn
  <1>2. /\ b \in Block \ Meta /\ GroupOf(b) \notin blockUninit
        /\ IndexOf(b) \in bitmap[GroupOf(b)]
    BY <1>1 DEF BlockInv, BlocksMarked
  <1>3. GroupOf(b) = g /\ IndexOf(b) = k /\ k < BlocksIn(g)
    BY <1>1, <1>2, AddressPlace
  <1>4. k \in Seen[g]
    BY <1>2, <1>3, SeenType DEF BlockInv
  <1>5. ~ (k >= BlocksIn(g))
    <2>1. k \in Int /\ BlocksIn(g) \in Int
      BY <1>1, GroupSize DEF Bit
    <2> QED
      BY <1>3, <2>1
  <1> QED
    BY <1>1, <1>2, <1>3, <1>4, <1>5 DEF Own

\* The blocks of a run, as pairs of group and bit, are as many as the blocks.
LEMMA PairsOfBlocks ==
    ASSUME NEW G \in SUBSET Group, NEW c \in [Group -> SUBSET Bit],
           \A g \in G : \A k \in c[g] : AddressOf(g, k) \in Block
    PROVE  LET R == {b \in Block : GroupOf(b) \in G /\ IndexOf(b) \in c[GroupOf(b)]}
               P == UNION {{g} \X c[g] : g \in G}
           IN  IsFiniteSet(R) /\ Cardinality(P) = Cardinality(R)
  <1> DEFINE R == {b \in Block : GroupOf(b) \in G /\ IndexOf(b) \in c[GroupOf(b)]}
             P == UNION {{g} \X c[g] : g \in G}
             F == [b \in R |-> <<GroupOf(b), IndexOf(b)>>]
  <1>1. IsFiniteSet(R)
    BY Sizes, FS_Subset
  <1>2. \A b \in R : GroupOf(b) \in G /\ IndexOf(b) \in c[GroupOf(b)] /\ b \in Block
    OBVIOUS
  <1>3. F \in [R -> P]
    <2>1. ASSUME NEW b \in R
          PROVE  <<GroupOf(b), IndexOf(b)>> \in P
      <3>1. <<GroupOf(b), IndexOf(b)>> \in {GroupOf(b)} \X c[GroupOf(b)]
        BY <1>2
      <3> QED
        BY <1>2, <3>1
    <2> QED
      BY <2>1
  <1>4. \A a, b \in R : F[a] = F[b] => a = b
    <2> SUFFICES ASSUME NEW a \in R, NEW b \in R, F[a] = F[b]
                 PROVE  a = b
      OBVIOUS
    <2>1. GroupOf(a) = GroupOf(b) /\ IndexOf(a) = IndexOf(b)
      OBVIOUS
    <2>2. AddressOf(GroupOf(a), IndexOf(a)) = a /\ AddressOf(GroupOf(b), IndexOf(b)) = b
      BY <1>2, BlockPlace
    <2> QED
      BY <2>1, <2>2
  <1>5. \A p \in P : \E b \in R : F[b] = p
    <2> SUFFICES ASSUME NEW p \in P
                 PROVE  \E b \in R : F[b] = p
      OBVIOUS
    <2>0. PICK g \in G : p \in {g} \X c[g]
      OBVIOUS
    <2> DEFINE k == p[2]
    <2>4. p = <<g, k>> /\ k \in c[g]
      BY <2>0
    <2> HIDE DEF k
    <2>1. k \in Bit /\ AddressOf(g, k) \in Block
      BY <2>4
    <2>2. GroupOf(AddressOf(g, k)) = g /\ IndexOf(AddressOf(g, k)) = k
      BY <2>1, AddressPlace
    <2>3. AddressOf(g, k) \in R
      BY <2>1, <2>2, <2>4
    <2> QED
      BY <2>2, <2>3, <2>4
  <1> HIDE DEF F
  <1>6. F \in Bijection(R, P)
    BY <1>3, <1>4, <1>5 DEF Bijection, Injection, IsInjective, Surjection
  <1>7. ExistsBijection(R, P)
    BY <1>6 DEF ExistsBijection
  <1> QED
    BY <1>1, <1>7, FS_Bijection

\* Adding the blocks of a run to the clear ones, bit by bit and as a whole.
LEMMA CountsCleared ==
    ASSUME BlockInv, NEW G \in SUBSET Group, NEW c \in [Group -> SUBSET Bit],
           \A g \in Group : c[g] \subseteq Seen[g] \ Own(g),
           \A g \in Group \ G : c[g] = {},
           Seen' = [g \in Group |-> Seen[g] \ c[g]],
           freeBlocks' = [g \in Group |-> freeBlocks[g] + Cardinality(c[g])],
           sbFreeBlocks' = sbFreeBlocks + Cardinality(UNION {{g} \X c[g] : g \in G})
    PROVE  BlockCounts' /\ freeBlocks' \in [Group -> Nat] /\ sbFreeBlocks' \in Nat
  <1> DEFINE P == UNION {{g} \X c[g] : g \in G}
             R == {b \in Block : GroupOf(b) \in G /\ IndexOf(b) \in c[GroupOf(b)]}
  <1>0. Seen \in [Group -> SUBSET Bit] /\ freeBlocks \in [Group -> Nat] /\ sbFreeBlocks \in Nat
    BY SeenType DEF BlockInv, BlockTypes
  <1>1. ASSUME NEW g \in Group
        PROVE  /\ Cardinality(c[g]) \in Nat
               /\ freeBlocks[g] + Cardinality(c[g]) = Cardinality(Bit \ Seen'[g])
    <2>1. IsFiniteSet(Bit \ Seen[g]) /\ IsFiniteSet(c[g])
      <3>1. c[g] \subseteq Bit
        OBVIOUS
      <3> QED
        BY <3>1, Sizes, FS_Difference, FS_Subset
    <2>2. Bit \ Seen'[g] = (Bit \ Seen[g]) \cup c[g] /\ (Bit \ Seen[g]) \cap c[g] = {}
      BY <1>0
    <2>3. Cardinality(Bit \ Seen'[g]) = Cardinality(Bit \ Seen[g]) + Cardinality(c[g]) - 0
      BY <2>1, <2>2, FS_Union, FS_EmptySet
    <2>4. Cardinality(c[g]) \in Nat /\ Cardinality(Bit \ Seen[g]) \in Nat
      BY <2>1, FS_CardinalityType
    <2>5. freeBlocks[g] = Cardinality(Bit \ Seen[g])
      BY DEF BlockInv, BlockCounts
    <2> QED
      BY <2>3, <2>4, <2>5
  <1>2. \A g \in G : \A k \in c[g] : AddressOf(g, k) \in Block
    <2> SUFFICES ASSUME NEW g \in G, NEW k \in c[g]
                 PROVE  AddressOf(g, k) \in Block
      OBVIOUS
    <2>1. k \in Bit /\ k \notin Own(g) /\ g \in Group
      OBVIOUS
    <2>2. k \in Int /\ BlocksIn(g) \in Int /\ ~ (k >= BlocksIn(g))
      BY <2>1, GroupSize DEF Own, Bit
    <2> QED
      BY <2>1, <2>2, AddressPlace
  <1>3. IsFiniteSet(R) /\ Cardinality(P) = Cardinality(R)
    BY <1>2, PairsOfBlocks, Zenon
  <1>4. ClearBlocks' = ClearBlocks \cup R /\ ClearBlocks \cap R = {}
    <2>1. ClearBlocks' = {b \in Block : IndexOf(b) \notin Seen'[GroupOf(b)]}
      BY DEF ClearBlocks, GroupOf, IndexOf
    <2>2. ASSUME NEW b \in Block
          PROVE  /\ IndexOf(b) \notin Seen'[GroupOf(b)] <=>
                        IndexOf(b) \notin Seen[GroupOf(b)] \/ b \in R
                 /\ b \in R => IndexOf(b) \in Seen[GroupOf(b)]
      BY BlockPlace
    <2> HIDE DEF R
    <2>3. R \subseteq Block
      BY DEF R
    <2> QED
      BY <2>1, <2>2, <2>3 DEF ClearBlocks
  <1> HIDE DEF P, R
  <1>5. sbFreeBlocks' = Cardinality(ClearBlocks') /\ sbFreeBlocks' \in Nat
    <2>1. IsFiniteSet(ClearBlocks)
      BY Sizes, FS_Subset DEF ClearBlocks
    <2>2. Cardinality(ClearBlocks') = Cardinality(ClearBlocks) + Cardinality(R) - 0
      BY <1>3, <1>4, <2>1, FS_Union, FS_EmptySet
    <2>3. Cardinality(R) \in Nat /\ Cardinality(ClearBlocks) \in Nat
      BY <1>3, <2>1, FS_CardinalityType
    <2>4. sbFreeBlocks = Cardinality(ClearBlocks) /\ sbFreeBlocks' = sbFreeBlocks + Cardinality(P)
      BY DEF BlockInv, BlockCounts, P
    <2> QED
      BY <1>3, <2>2, <2>3, <2>4
  <1>6. freeBlocks' \in [Group -> Nat]
    <2>1. \A g \in Group : freeBlocks[g] + Cardinality(c[g]) \in Nat
      <3>1. \A g \in Group : freeBlocks[g] \in Nat /\ Cardinality(c[g]) \in Nat
        BY <1>0, <1>1
      <3> QED
        BY <3>1
    <2> QED
      BY <2>1
  <1> QED
    BY <1>1, <1>5, <1>6 DEF BlockCounts

\* Clearing the bits of a run in some of the groups it lies in keeps what concerns
\* blocks: a block that stays mapped is none of the run.
LEMMA ClearsKeeps ==
    ASSUME BlockInv, NEW i \in Inode, NEW first, NEW n, first .. first + n - 1 \subseteq mapped[i],
           NEW G \in SUBSET Group, blockUninit' \subseteq blockUninit, blockUninit' \cap G = {},
           Clears(i, first, n, G)
    PROVE  /\ BlockInv'
           /\ Seen' = [g \in Group |-> IF g \in G THEN Seen[g] \ FreedIn(first, n, g) ELSE Seen[g]]
           /\ mapped' = [mapped EXCEPT ![i] = @ \ (first .. first + n - 1)]
           /\ \A j \in Inode : mapped'[j] \subseteq mapped[j]
  <1> DEFINE c == [g \in Group |-> IF g \in G THEN FreedIn(first, n, g) ELSE {}]
             fresh == NewBitmaps(blockUninit \ blockUninit')
             f == [g \in Group |-> Seen[g] \ c[g]]
  <1>1. /\ bitmap' = [g \in Group |-> fresh[g] \ c[g]]
        /\ freeBlocks' = [g \in Group |-> freeBlocks[g] + Cardinality(c[g])]
        /\ sbFreeBlocks' = sbFreeBlocks + Cardinality(UNION {{g} \X c[g] : g \in G})
        /\ mapped' = [mapped EXCEPT ![i] = @ \ (first .. first + n - 1)]
    BY DEF Clears
  <1>2. /\ Seen \in [Group -> SUBSET Bit]
        /\ \A g \in Group \ blockUninit : Seen[g] = bitmap[g]
        /\ mapped \in [Inode -> SUBSET Block] /\ blockUninit \subseteq Group
    BY SeenType DEF BlockInv, BlockTypes
  <1>3. \A g \in Group : c[g] \subseteq Seen[g] \ Own(g)
    BY RunMarked
  <1>4. /\ c \in [Group -> SUBSET Bit] /\ \A g \in Group \ G : c[g] = {}
        /\ \A g \in G : c[g] = FreedIn(first, n, g)
    BY DEF FreedIn
  <1>5. /\ fresh \in [Group -> SUBSET Bit]
        /\ \A g \in Group \ blockUninit' : fresh[g] = Seen[g]
    BY FreshBitmaps DEF BlockInv
  <1> HIDE DEF c, fresh
  <1>6. /\ f \in [Group -> SUBSET Bit] /\ bitmap' \in [Group -> SUBSET Bit]
        /\ \A g \in Group \ blockUninit' : bitmap'[g] = f[g]
        /\ \A g \in blockUninit' : f[g] = Seen[g]
    BY <1>1, <1>2, <1>4, <1>5
  <1>7. Seen' = f
    BY <1>6, SeenChanges DEF BlockInv
  <1>8. BlockCounts' /\ freeBlocks' \in [Group -> Nat] /\ sbFreeBlocks' \in Nat
    BY <1>1, <1>3, <1>4, <1>7, CountsCleared
  <1>9. /\ mapped' \in [Inode -> SUBSET Block]
        /\ mapped'[i] = mapped[i] \ (first .. first + n - 1)
        /\ \A j \in Inode : mapped'[j] \subseteq mapped[j]
    BY <1>1, <1>2
  <1>10. Disjoint'
    BY <1>9 DEF BlockInv, Disjoint
  <1>11. BlocksMarked'
    <2> SUFFICES ASSUME NEW j \in Inode, NEW b \in mapped'[j]
                 PROVE  /\ b \in Block \ Meta /\ GroupOf(b) \notin blockUninit'
                        /\ IndexOf(b) \in bitmap'[GroupOf(b)]
      BY DEF BlocksMarked, GroupOf, IndexOf
    <2>1. b \in mapped[j]
      BY <1>9
    <2>2. /\ b \in Block \ Meta /\ GroupOf(b) \notin blockUninit
          /\ IndexOf(b) \in bitmap[GroupOf(b)]
      BY <2>1 DEF BlockInv, BlocksMarked
    <2>3. /\ GroupOf(b) \in Group /\ IndexOf(b) \in Seen[GroupOf(b)]
          /\ AddressOf(GroupOf(b), IndexOf(b)) = b
      BY <1>2, <2>2, BlockPlace
    <2>4. IndexOf(b) \notin c[GroupOf(b)]
      <3> SUFFICES ASSUME IndexOf(b) \in c[GroupOf(b)]
                   PROVE  FALSE
        OBVIOUS
      <3>1. b \in first .. first + n - 1
        BY <1>4, <2>3 DEF FreedIn
      <3>2. j = i
        BY <2>1, <3>1 DEF BlockInv, Disjoint
      <3> QED
        BY <1>9, <3>1, <3>2
    <2> QED
      BY <1>6, <2>2, <2>3, <2>4
  <1>12. OwnSeen'
    BY <1>3, <1>7 DEF BlockInv, OwnSeen, Own, BlocksIn, AddressOf
  <1>13. BlockInv'
    BY <1>2, <1>6, <1>8, <1>9, <1>10, <1>11, <1>12 DEF BlockInv, BlockTypes
  <1>14. f = [g \in Group |-> IF g \in G THEN Seen[g] \ FreedIn(first, n, g) ELSE Seen[g]]
    BY <1>4
  <1> QED
    BY <1>1, <1>7, <1>9, <1>13, <1>14

\* A run goes over consecutive groups.
LEMMA RunGroups ==
    ASSUME BlockTypes, NEW i \in Inode, NEW first \in mapped[i], NEW n \in Nat, n > 0,
           first .. first + n - 1 \subseteq mapped[i]
    PROVE  /\ GroupOf(first) .. GroupOf(first + n - 1) \subseteq Group
           /\ \A b \in first .. first + n - 1 :
                  GroupOf(b) \in GroupOf(first) .. GroupOf(first + n - 1)
  <1> DEFINE last == first + n - 1
  <1>1. /\ first \in Nat /\ last \in Nat /\ first <= last
        /\ first \in Block /\ last \in Block
    <2>1. mapped[i] \subseteq Block /\ Block \subseteq Nat
      BY Sizes DEF BlockTypes
    <2>2. first \in Nat
      BY <2>1
    <2>3. last \in first .. first + n - 1 /\ first <= last
      BY <2>2
    <2> QED
      BY <2>1, <2>3
  <1> HIDE DEF last
  <1>2. GroupOf(first) \in Group /\ GroupOf(last) \in Group
    BY <1>1, BlockPlace
  <1>3. GroupOf(first) .. GroupOf(last) \subseteq Group
    BY <1>2, GroupCount DEF Group
  <1>4. ASSUME NEW b \in first .. last
        PROVE  GroupOf(b) \in GroupOf(first) .. GroupOf(last)
    <2>1. b \in Nat /\ first <= b /\ b <= last /\ BlocksPerGroup \in Nat \ {0}
      BY <1>1, GeometryAssumption
    <2>2. GroupOf(first) <= GroupOf(b) /\ GroupOf(b) <= GroupOf(last)
      BY <1>1, <2>1, DivMonotonic DEF GroupOf
    <2>3. GroupOf(b) \in Int
      BY <2>1, DivMod DEF GroupOf
    <2>4. GroupOf(first) \in Int /\ GroupOf(last) \in Int
      BY <1>2, GroupCount DEF Group
    <2> QED
      BY <2>2, <2>3, <2>4
  <1> QED
    BY <1>3, <1>4 DEF last

\* ext4_balloc_free_blocks, with all its groups or those before one that fails.
LEMMA FreeBlocksKeeps ==
    ASSUME IInv, NEW i \in Inode, NEW first \in mapped[i], NEW n \in Nat,
           FreeBlocks(i, first, n) \/ FreeBlocksFails(i, first, n)
    PROVE  IInv'
  <1> DEFINE all == GroupOf(first) .. GroupOf(first + n - 1)
  <1>1. /\ n > 0 /\ first .. first + n - 1 \subseteq mapped[i]
        /\ inodeBitmap' = NewInodeBitmaps(inodeUninit \ inodeUninit')
        /\ UNCHANGED inodeVars
    BY DEF FreeBlocks, FreeBlocksFails
  <1>2. /\ all \subseteq Group
        /\ \A b \in first .. first + n - 1 : GroupOf(b) \in all
    BY <1>1, RunGroups DEF IInv, BlockInv
  <1>3. PICK G \in SUBSET Group :
            /\ blockUninit' \subseteq blockUninit /\ inodeUninit' \subseteq inodeUninit
            /\ blockUninit' \cap G = {}
            /\ Clears(i, first, n, G)
            /\ readFailed' = TRUE \/ (G = all /\ readFailed' = readFailed)
    <2>1. CASE FreeBlocks(i, first, n)
      BY <1>2, <2>1, FlagsShrink DEF FreeBlocks
    <2>2. CASE FreeBlocksFails(i, first, n)
      <3>1. PICK g \in all : /\ RefFails(GroupOf(first) .. g - 1, g)
                             /\ Clears(i, first, n, GroupOf(first) .. g - 1)
        BY <2>2 DEF FreeBlocksFails
      <3>2. GroupOf(first) .. g - 1 \subseteq all
        <4>1. mapped[i] \subseteq Block
          BY DEF IInv, BlockInv, BlockTypes
        <4>2. first \in Block
          BY <4>1
        <4>3. GroupOf(first) \in Int
          BY <4>2, BlockPlace, GroupCount DEF Group
        <4>4. first + n - 1 \in first .. first + n - 1
          BY <1>1, <4>2, Sizes
        <4>5. first + n - 1 \in Block
          BY <1>1, <4>1, <4>4
        <4>6. GroupOf(first + n - 1) \in Int
          BY <4>5, BlockPlace, GroupCount DEF Group
        <4> QED
          BY <4>3, <4>6
      <3>3. GroupOf(first) .. g - 1 \in SUBSET Group
        BY <1>2, <3>2
      <3> DEFINE G == GroupOf(first) .. g - 1
      <3>4. /\ blockUninit' \subseteq blockUninit /\ inodeUninit' \subseteq inodeUninit
            /\ blockUninit' \cap G = {} /\ readFailed' = TRUE
        BY <3>1, FlagsShrink
      <3> QED
        BY <3>1, <3>3, <3>4
    <2> QED
      BY <2>1, <2>2
  <1>4. /\ BlockInv'
        /\ Seen' = [g \in Group |-> IF g \in G THEN Seen[g] \ FreedIn(first, n, g) ELSE Seen[g]]
        /\ mapped' = [mapped EXCEPT ![i] = @ \ (first .. first + n - 1)]
        /\ \A j \in Inode : mapped'[j] \subseteq mapped[j]
    BY <1>1, <1>3, ClearsKeeps DEF IInv
  <1>5. files' = files /\ lastGroup' = lastGroup /\ tableUnused' = tableUnused
        /\ UNCHANGED <<freeInodes, sbFreeInodes>>
    BY <1>1 DEF inodeVars
  <1>6. BlocksUsed'
    <2>1. \A j \in Inode : mapped'[j] # {} => j \in files'
      BY <1>4, <1>5 DEF IInv, BlocksUsed
    <2>2. ASSUME ~readFailed', NEW h \in Group, NEW c \in Seen'[h] \ Own(h)
          PROVE  \E j \in files' : AddressOf(h, c) \in mapped'[j]
      <3>1. G = all /\ readFailed' = readFailed
        BY <1>3, <2>2
      <3>2. c \in Seen[h] /\ h \in G => c \notin FreedIn(first, n, h)
        BY <1>4, <2>2
      <3>3. c \in Seen[h]
        BY <1>4, <2>2
      <3>4. PICK j \in files : AddressOf(h, c) \in mapped[j]
        BY <2>2, <3>1, <3>3 DEF IInv, BlocksUsed
      <3>5. j \in Inode /\ c \in Bit
        BY <3>3, SeenType DEF IInv, InodeInv, InodeTypes, BlockInv
      <3>6. AddressOf(h, c) \notin first .. first + n - 1
        <4>1. GroupOf(AddressOf(h, c)) = h
          BY <3>5, AddressPlace
        <4> QED
          BY <1>2, <3>1, <3>2, <3>3, <3>5, <4>1 DEF FreedIn
      <3>7. mapped'[j] = IF j = i THEN mapped[j] \ (first .. first + n - 1) ELSE mapped[j]
        BY <1>4, <3>5 DEF IInv, BlockInv, BlockTypes
      <3> QED
        BY <1>5, <3>4, <3>6, <3>7
    <2> QED
      BY <2>1, <2>2 DEF BlocksUsed, Own, BlocksIn, AddressOf
  <1>7. InodeInv'
    BY <1>1, <1>3, <1>5, QuietInodeInv DEF IInv, InodesQuiet, InodeInv, InodeTypes
  <1>8. readFailed' \in BOOLEAN
    BY <1>3 DEF IInv
  <1> QED
    BY <1>4, <1>5, <1>6, <1>7, <1>8 DEF IInv, Unused, InodeGroup, InodeIndex

-----------------------------------------------------------------------------
(***************************************************************************)
(* Allocating and freeing an inode.                                        *)
(***************************************************************************)

\* The inode that ext4_ialloc_alloc_inode finds is free.
LEMMA NextInode ==
    ASSUME InodeInv, FindsInode
    PROVE  /\ NextInodeGroup \in Group
           /\ NextInodeIndex \in InodeBit \ SeenInodes[NextInodeGroup]
           /\ NextInodeGroup \notin blockUninit' /\ NextInodeGroup \notin inodeUninit'
           /\ blockUninit' \subseteq blockUninit /\ inodeUninit' \subseteq inodeUninit
  <1> DEFINE k == Min(InodeHits)
  <1>1. k \in InodeHits
    <2>1. InodeHits \subseteq 0 .. Groups - 1
      BY DEF InodeHits, InodeTries
    <2>2. IsFiniteSet(0 .. Groups - 1) /\ 0 .. Groups - 1 \subseteq Nat
      BY FS_Interval, GroupCount
    <2>3. InodeHits \in SUBSET Nat /\ IsFiniteSet(InodeHits)
      BY <2>1, <2>2, FS_Subset
    <2> QED
      BY <2>3, MinFacts DEF FindsInode
  <1>2. k \in 0 .. Groups - 1
    BY <1>1 DEF InodeHits, InodeTries
  <1> HIDE DEF k
  <1>3. NextInodeGroup = InodeTried(k)
    BY DEF NextInodeGroup, k
  <1>4. InodeTried(k) \in Group
    <2>1. lastGroup + k \in Nat /\ Groups \in Nat \ {0}
      BY <1>2, GroupCount DEF InodeInv, InodeTypes
    <2> QED
      BY <2>1, DivMod DEF InodeTried, Group
  <1>5. NextInodeGroup \in InodeTriedBefore(k + 1)
    <2>1. k \in 0 .. k + 1 - 1
      BY <1>2, GroupCount
    <2> QED
      BY <1>3, <2>1 DEF InodeTriedBefore
  <1>6. Refs(InodeTriedBefore(k + 1)) /\ NextInodeIndex # None
    BY DEF FindsInode, k
  <1>7. NextInodeIndex \in InodeBit \ SeenInodes[NextInodeGroup]
    <2>1. InodeBit \ SeenInodes[NextInodeGroup] \in SUBSET Nat
          /\ IsFiniteSet(InodeBit \ SeenInodes[NextInodeGroup])
      BY Sizes, FS_Difference
    <2> QED
      BY <1>6, <2>1, FirstOfFacts DEF NextInodeIndex
  <1> QED
    BY <1>3, <1>4, <1>5, <1>6, <1>7 DEF Refs

\* The clear inodes when the bit of one is changed.
LEMMA ClearInodesChange ==
    ASSUME InodeInv, NEW g \in Group, NEW bit \in InodeBit, NEW s \in SUBSET InodeBit,
           SeenInodes' = [SeenInodes EXCEPT ![g] = s],
           \A k \in InodeBit \ {bit} : k \in s <=> k \in SeenInodes[g]
    PROVE  /\ bit \in s => ClearInodes' = ClearInodes \ {InodeOf(g, bit)}
           /\ bit \notin s => ClearInodes' = ClearInodes \cup {InodeOf(g, bit)}
           /\ InodeOf(g, bit) \in ClearInodes <=> bit \notin SeenInodes[g]
  <1>0. SeenInodes \in [Group -> SUBSET InodeBit]
    BY SeenInodesType DEF InodeInv
  <1>1. /\ InodeOf(g, bit) \in Inode
        /\ InodeGroup(InodeOf(g, bit)) = g /\ InodeIndex(InodeOf(g, bit)) = bit
    BY InodeNumber
  <1>2. ClearInodes' = {i \in Inode : InodeIndex(i) \notin SeenInodes'[InodeGroup(i)]}
    BY DEF ClearInodes, InodeGroup, InodeIndex
  <1>3. ASSUME NEW i \in Inode
        PROVE  InodeIndex(i) \notin SeenInodes'[InodeGroup(i)] <=>
                   IF i = InodeOf(g, bit) THEN bit \notin s
                   ELSE InodeIndex(i) \notin SeenInodes[InodeGroup(i)]
    <2>1. /\ InodeGroup(i) \in Group /\ InodeIndex(i) \in InodeBit
          /\ InodeOf(InodeGroup(i), InodeIndex(i)) = i
      BY InodePlace
    <2>2. CASE InodeGroup(i) = g
      <3>1. SeenInodes'[g] = s
        BY <1>0
      <3>2. i = InodeOf(g, bit) <=> InodeIndex(i) = bit
        BY <1>1, <2>1, <2>2
      <3> QED
        BY <2>1, <2>2, <3>1, <3>2
    <2>3. CASE InodeGroup(i) # g
      BY <1>0, <1>1, <2>1, <2>3
    <2> QED
      BY <2>2, <2>3
  <1>4. InodeOf(g, bit) \in ClearInodes <=> bit \notin SeenInodes[g]
    BY <1>1 DEF ClearInodes
  <1>5. bit \in s => ClearInodes' = ClearInodes \ {InodeOf(g, bit)}
    BY <1>2, <1>3 DEF ClearInodes
  <1>6. bit \notin s => ClearInodes' = ClearInodes \cup {InodeOf(g, bit)}
    BY <1>1, <1>2, <1>3 DEF ClearInodes
  <1> QED
    BY <1>4, <1>5, <1>6

\* Taking a clear bit keeps the counters of inodes.
LEMMA InodeTaken ==
    ASSUME InodeInv, NEW g \in Group, NEW bit \in InodeBit, bit \notin SeenInodes[g],
           g \notin inodeUninit', inodeUninit' \subseteq inodeUninit,
           inodeBitmap' = [NewInodeBitmaps(inodeUninit \ inodeUninit') EXCEPT ![g] = @ \cup {bit}],
           freeInodes' = [freeInodes EXCEPT ![g] = @ - 1], sbFreeInodes' = sbFreeInodes - 1
    PROVE  /\ SeenInodes' = [SeenInodes EXCEPT ![g] = @ \cup {bit}]
           /\ inodeBitmap' \in [Group -> SUBSET InodeBit] /\ inodeUninit' \subseteq Group
           /\ freeInodes' \in [Group -> Nat] /\ sbFreeInodes' \in Nat
           /\ InodeCounts'
  <1> DEFINE fresh == NewInodeBitmaps(inodeUninit \ inodeUninit')
             s == SeenInodes[g] \cup {bit}
             f == [SeenInodes EXCEPT ![g] = s]
             n == Cardinality((InodeBit \ SeenInodes[g]) \ {bit})
  <1>1. /\ fresh \in [Group -> SUBSET InodeBit]
        /\ \A h \in Group \ inodeUninit' : fresh[h] = SeenInodes[h]
    BY FreshInodeBitmaps DEF InodeInv
  <1>2. /\ SeenInodes \in [Group -> SUBSET InodeBit] /\ freeInodes \in [Group -> Nat]
        /\ inodeUninit \subseteq Group
    BY SeenInodesType DEF InodeInv, InodeTypes
  <1> HIDE DEF fresh
  <1>3. /\ inodeBitmap' = [fresh EXCEPT ![g] = @ \cup {bit}]
        /\ f \in [Group -> SUBSET InodeBit] /\ s \in SUBSET InodeBit
    BY <1>2 DEF fresh
  <1>4. /\ inodeBitmap' \in [Group -> SUBSET InodeBit]
        /\ \A h \in Group \ inodeUninit' : inodeBitmap'[h] = f[h]
        /\ \A h \in inodeUninit' : f[h] = SeenInodes[h]
    BY <1>1, <1>2, <1>3
  <1>5. SeenInodes' = f
    BY <1>3, <1>4, SeenInodesChange DEF InodeInv
  <1>6. n \in Nat /\ n = freeInodes[g] - 1
    <2>1. IsFiniteSet(InodeBit \ SeenInodes[g])
      BY Sizes, FS_Difference
    <2>2. IsFiniteSet((InodeBit \ SeenInodes[g]) \ {bit})
          /\ n = Cardinality(InodeBit \ SeenInodes[g]) - 1
      BY <2>1, FS_RemoveElement
    <2>3. Cardinality(InodeBit \ SeenInodes[g]) = freeInodes[g]
      BY DEF InodeInv, InodeCounts
    <2> QED
      BY <2>2, <2>3, FS_CardinalityType
  <1>7. InodeBit \ SeenInodes'[g] = (InodeBit \ SeenInodes[g]) \ {bit}
    BY <1>2, <1>5
  <1> HIDE DEF n
  <1>8. freeInodes' \in [Group -> Nat] /\ freeInodes'[g] = n
    BY <1>2, <1>6
  <1>9. \A h \in Group : freeInodes'[h] = Cardinality(InodeBit \ SeenInodes'[h])
    <2> SUFFICES ASSUME NEW h \in Group
                 PROVE  freeInodes'[h] = Cardinality(InodeBit \ SeenInodes'[h])
      OBVIOUS
    <2>1. CASE h = g
      BY <1>7, <1>8, <2>1 DEF n
    <2>2. CASE h # g
      <3>1. freeInodes'[h] = freeInodes[h] /\ SeenInodes'[h] = SeenInodes[h]
        BY <1>2, <1>5, <2>2
      <3> QED
        BY <3>1 DEF InodeInv, InodeCounts
    <2> QED
      BY <2>1, <2>2
  <1>10. sbFreeInodes' = Cardinality(ClearInodes') /\ sbFreeInodes' \in Nat
    <2>1. \A k \in InodeBit \ {bit} : k \in s <=> k \in SeenInodes[g]
      OBVIOUS
    <2>2. bit \in s
      OBVIOUS
    <2> HIDE DEF s
    <2>3. ClearInodes' = ClearInodes \ {InodeOf(g, bit)} /\ InodeOf(g, bit) \in ClearInodes
      BY <1>3, <1>5, <2>1, <2>2, ClearInodesChange
    <2>4. IsFiniteSet(ClearInodes)
      BY Sizes, FS_Subset DEF ClearInodes
    <2>5. IsFiniteSet(ClearInodes') /\ Cardinality(ClearInodes') = Cardinality(ClearInodes) - 1
      BY <2>3, <2>4, FS_RemoveElement
    <2>6. Cardinality(ClearInodes') \in Nat
      BY <2>5, FS_CardinalityType
    <2> QED
      BY <2>5, <2>6 DEF InodeInv, InodeCounts
  <1>11. f = [SeenInodes EXCEPT ![g] = @ \cup {bit}] /\ inodeUninit' \subseteq Group
    BY <1>2
  <1> QED
    BY <1>4, <1>5, <1>8, <1>9, <1>10, <1>11 DEF InodeCounts

\* Clearing the bit of an inode that is counted again keeps them too.
LEMMA InodeCleared ==
    ASSUME InodeInv, NEW g \in Group, NEW bit \in InodeBit, bit \in SeenInodes[g],
           g \notin inodeUninit', inodeUninit' \subseteq inodeUninit,
           inodeBitmap' = [NewInodeBitmaps(inodeUninit \ inodeUninit') EXCEPT ![g] = @ \ {bit}],
           freeInodes' = [freeInodes EXCEPT ![g] = @ + 1], sbFreeInodes' = sbFreeInodes + 1
    PROVE  /\ SeenInodes' = [SeenInodes EXCEPT ![g] = @ \ {bit}]
           /\ inodeBitmap' \in [Group -> SUBSET InodeBit] /\ inodeUninit' \subseteq Group
           /\ freeInodes' \in [Group -> Nat] /\ sbFreeInodes' \in Nat
           /\ InodeCounts'
  <1> DEFINE fresh == NewInodeBitmaps(inodeUninit \ inodeUninit')
             s == SeenInodes[g] \ {bit}
             f == [SeenInodes EXCEPT ![g] = s]
             n == Cardinality((InodeBit \ SeenInodes[g]) \cup {bit})
  <1>1. /\ fresh \in [Group -> SUBSET InodeBit]
        /\ \A h \in Group \ inodeUninit' : fresh[h] = SeenInodes[h]
    BY FreshInodeBitmaps DEF InodeInv
  <1>2. /\ SeenInodes \in [Group -> SUBSET InodeBit] /\ freeInodes \in [Group -> Nat]
        /\ inodeUninit \subseteq Group
    BY SeenInodesType DEF InodeInv, InodeTypes
  <1> HIDE DEF fresh
  <1>3. /\ inodeBitmap' = [fresh EXCEPT ![g] = @ \ {bit}]
        /\ f \in [Group -> SUBSET InodeBit] /\ s \in SUBSET InodeBit
    BY <1>2 DEF fresh
  <1>4. /\ inodeBitmap' \in [Group -> SUBSET InodeBit]
        /\ \A h \in Group \ inodeUninit' : inodeBitmap'[h] = f[h]
        /\ \A h \in inodeUninit' : f[h] = SeenInodes[h]
    BY <1>1, <1>2, <1>3
  <1>5. SeenInodes' = f
    BY <1>3, <1>4, SeenInodesChange DEF InodeInv
  <1>6. n \in Nat /\ n = freeInodes[g] + 1
    <2>1. IsFiniteSet(InodeBit \ SeenInodes[g]) /\ bit \notin InodeBit \ SeenInodes[g]
      BY Sizes, FS_Difference
    <2>2. IsFiniteSet((InodeBit \ SeenInodes[g]) \cup {bit})
          /\ n = Cardinality(InodeBit \ SeenInodes[g]) + 1
      BY <2>1, FS_AddElement
    <2>3. Cardinality(InodeBit \ SeenInodes[g]) = freeInodes[g]
      BY DEF InodeInv, InodeCounts
    <2> QED
      BY <2>2, <2>3, FS_CardinalityType
  <1>7. InodeBit \ SeenInodes'[g] = (InodeBit \ SeenInodes[g]) \cup {bit}
    BY <1>2, <1>5
  <1> HIDE DEF n
  <1>8. freeInodes' \in [Group -> Nat] /\ freeInodes'[g] = n
    BY <1>2, <1>6
  <1>9. \A h \in Group : freeInodes'[h] = Cardinality(InodeBit \ SeenInodes'[h])
    <2> SUFFICES ASSUME NEW h \in Group
                 PROVE  freeInodes'[h] = Cardinality(InodeBit \ SeenInodes'[h])
      OBVIOUS
    <2>1. CASE h = g
      BY <1>7, <1>8, <2>1 DEF n
    <2>2. CASE h # g
      <3>1. freeInodes'[h] = freeInodes[h] /\ SeenInodes'[h] = SeenInodes[h]
        BY <1>2, <1>5, <2>2
      <3> QED
        BY <3>1 DEF InodeInv, InodeCounts
    <2> QED
      BY <2>1, <2>2
  <1>10. sbFreeInodes' = Cardinality(ClearInodes') /\ sbFreeInodes' \in Nat
    <2>1. \A k \in InodeBit \ {bit} : k \in s <=> k \in SeenInodes[g]
      OBVIOUS
    <2>2. bit \notin s
      OBVIOUS
    <2> HIDE DEF s
    <2>3. ClearInodes' = ClearInodes \cup {InodeOf(g, bit)} /\ InodeOf(g, bit) \notin ClearInodes
      BY <1>3, <1>5, <2>1, <2>2, ClearInodesChange
    <2>4. IsFiniteSet(ClearInodes)
      BY Sizes, FS_Subset DEF ClearInodes
    <2>5. IsFiniteSet(ClearInodes') /\ Cardinality(ClearInodes') = Cardinality(ClearInodes) + 1
      BY <2>3, <2>4, FS_AddElement
    <2>6. Cardinality(ClearInodes') \in Nat
      BY <2>5, FS_CardinalityType
    <2> QED
      BY <2>5, <2>6 DEF InodeInv, InodeCounts
  <1>11. f = [SeenInodes EXCEPT ![g] = @ \ {bit}] /\ inodeUninit' \subseteq Group
    BY <1>2
  <1> QED
    BY <1>4, <1>5, <1>8, <1>9, <1>10, <1>11 DEF InodeCounts

\* What concerns blocks is kept by a step on inodes, unless it forgets an inode that
\* maps blocks.
LEMMA BlocksStay ==
    ASSUME IInv, BlocksQuiet, \A i \in files : mapped[i] # {} => i \in files',
           readFailed' = TRUE \/ readFailed' = readFailed
    PROVE  BlockInv' /\ BlocksUsed'
  <1>1. BlockInv' /\ Seen' = Seen /\ mapped' = mapped
    BY QuietBlocks DEF IInv, BlocksQuiet, blockVars
  <1>2. BlocksUsed'
    <2>1. \A i \in Inode : mapped'[i] # {} => i \in files'
      BY <1>1 DEF IInv, BlocksUsed
    <2>2. ASSUME ~readFailed', NEW g \in Group, NEW k \in Seen[g] \ Own(g)
          PROVE  \E i \in files' : AddressOf(g, k) \in mapped'[i]
      <3>1. PICK i \in files : AddressOf(g, k) \in mapped[i]
        BY <2>2 DEF IInv, BlocksUsed
      <3> QED
        BY <1>1, <3>1
    <2> QED
      BY <1>1, <2>1, <2>2 DEF BlocksUsed, Own, BlocksIn, AddressOf
  <1> QED
    BY <1>1, <1>2

\* itable_unused counts no inode in use: an inode that is taken among those it counts
\* is left out with all before it.
LEMMA UnusedTaken ==
    ASSUME Unused, InodeInv, NEW g \in Group, NEW bit \in InodeBit,
           tableUnused' = [tableUnused EXCEPT ![g] = UnusedAfter(@, bit)],
           files' \subseteq files \cup {InodeOf(g, bit)}
    PROVE  Unused'
  <1> DEFINE n == InodesPerGroup
             u == UnusedAfter(tableUnused[g], bit)
  <1>1. n \in Nat \ {0} /\ bit \in 0 .. n - 1 /\ tableUnused \in [Group -> 0 .. n]
    BY GeometryAssumption DEF InodeBit, Unused
  <1>2. u \in 0 .. n /\ bit < n - u /\ n - tableUnused[g] <= n - u
    <2>1. tableUnused[g] \in 0 .. n
      BY <1>1
    <2> QED
      BY <1>1, <2>1 DEF UnusedAfter
  <1> HIDE DEF u
  <1>3. /\ tableUnused' \in [Group -> 0 .. n]
        /\ tableUnused'[g] = u
        /\ \A h \in Group \ {g} : tableUnused'[h] = tableUnused[h]
    BY <1>1, <1>2 DEF u
  <1>4. ASSUME NEW i \in files'
        PROVE  InodeIndex(i) < n - tableUnused'[InodeGroup(i)]
    <2>1. CASE i = InodeOf(g, bit)
      BY <1>2, <1>3, <2>1, InodeNumber
    <2>2. CASE i \in files
      <3>1. i \in Inode /\ InodeIndex(i) < n - tableUnused[InodeGroup(i)]
        BY <2>2 DEF Unused, InodeInv, InodeTypes
      <3>2. InodeGroup(i) \in Group /\ InodeIndex(i) \in 0 .. n - 1
        BY <3>1, InodePlace DEF InodeBit
      <3>3. tableUnused[InodeGroup(i)] \in 0 .. n
        BY <1>1, <3>2
      <3> QED
        BY <1>1, <1>2, <1>3, <3>1, <3>2, <3>3
    <2> QED
      BY <2>1, <2>2
  <1> QED
    BY <1>3, <1>4 DEF Unused, InodeIndex, InodeGroup

\* ext4_fs_alloc_inode, whatever becomes of the inode that was found.
LEMMA AllocInodeKeeps ==
    ASSUME IInv, AllocInode \/ AllocInodeUndone \/ AllocInodeLeaked
    PROVE  IInv'
  <1> DEFINE g == NextInodeGroup
             bit == NextInodeIndex
             i == InodeOf(g, bit)
  <1>1. FindsInode /\ UNCHANGED blockVars
    BY DEF AllocInode, AllocInodeUndone, AllocInodeLeaked
  <1>2. /\ g \in Group /\ bit \in InodeBit \ SeenInodes[g] /\ g \notin inodeUninit'
        /\ blockUninit' \subseteq blockUninit /\ inodeUninit' \subseteq inodeUninit
    BY <1>1, NextInode DEF IInv
  <1>3. /\ bitmap' = NewBitmaps(blockUninit \ blockUninit')
        /\ tableUnused' = [tableUnused EXCEPT ![g] = UnusedAfter(@, bit)]
        /\ lastGroup' = g
    BY <1>1 DEF FindsInode
  <1>4. i \in Inode /\ InodeGroup(i) = g /\ InodeIndex(i) = bit
    BY <1>2, InodeNumber
  <1>5. SeenInodes \in [Group -> SUBSET InodeBit] /\ files \subseteq Inode
    BY SeenInodesType DEF IInv, InodeInv, InodeTypes
  <1>6. lastGroup' \in Nat
    BY <1>2, <1>3, Sizes
  <1> HIDE DEF g, bit, i
  <1>7. BlocksQuiet
    BY <1>1, <1>2, <1>3 DEF BlocksQuiet
  <1>8. /\ files' = files \/ files' = files \cup {i}
        /\ readFailed' = TRUE \/ readFailed' = readFailed
    BY DEF AllocInode, AllocInodeUndone, AllocInodeLeaked, i, g, bit
  <1>9. BlockInv' /\ BlocksUsed'
    BY <1>7, <1>8, BlocksStay
  <1>10. Unused'
    BY <1>2, <1>3, <1>8, UnusedTaken DEF IInv, i
  <1>11. InodeInv'
    <2>1. CASE AllocInodeUndone
      <3>1. files' = files /\ readFailed' = TRUE
        BY <2>1 DEF AllocInodeUndone
      <3>2. InodesQuiet
        BY <1>2, <2>1 DEF InodesQuiet, AllocInodeUndone
      <3> QED
        BY <1>6, <3>1, <3>2, QuietInodeInv DEF IInv
    <2>2. CASE AllocInode \/ AllocInodeLeaked
      <3>1. TakesInode
        BY <2>2 DEF AllocInode, AllocInodeLeaked
      <3>2. /\ inodeBitmap' = [NewInodeBitmaps(inodeUninit \ inodeUninit') EXCEPT
                                   ![g] = @ \cup {bit}]
            /\ freeInodes' = [freeInodes EXCEPT ![g] = @ - 1]
            /\ sbFreeInodes' = sbFreeInodes - 1
        BY <3>1 DEF TakesInode, g, bit
      <3>3. /\ SeenInodes' = [SeenInodes EXCEPT ![g] = @ \cup {bit}]
            /\ inodeBitmap' \in [Group -> SUBSET InodeBit] /\ inodeUninit' \subseteq Group
            /\ freeInodes' \in [Group -> Nat] /\ sbFreeInodes' \in Nat
            /\ InodeCounts'
        BY <1>2, <3>2, InodeTaken DEF IInv
      <3>4. InodeTypes'
        BY <1>4, <1>5, <1>6, <1>8, <3>3 DEF InodeTypes
      <3>5. FilesMarked'
        <4> SUFFICES ASSUME NEW j \in files'
                     PROVE  InodeIndex(j) \in SeenInodes'[InodeGroup(j)]
          BY DEF FilesMarked, InodeIndex, InodeGroup
        <4>1. CASE j = i
          BY <1>2, <1>4, <1>5, <3>3, <4>1
        <4>2. CASE j \in files
          <5>1. j \in Inode /\ InodeIndex(j) \in SeenInodes[InodeGroup(j)]
            BY <1>5, <4>2 DEF IInv, InodeInv, FilesMarked
          <5>2. InodeGroup(j) \in Group
            BY <5>1, InodePlace
          <5> QED
            BY <1>2, <1>5, <3>3, <5>1, <5>2
        <4> QED
          BY <1>8, <4>1, <4>2
      <3>6. InodesUsed'
        <4> SUFFICES ASSUME ~readFailed', NEW h \in Group, NEW k \in SeenInodes'[h]
                     PROVE  InodeOf(h, k) \in files'
          BY DEF InodesUsed, InodeOf
        <4>1. AllocInode
          BY <2>2 DEF AllocInodeLeaked
        <4>2. files' = files \cup {i} /\ readFailed' = readFailed
          BY <4>1 DEF AllocInode, i, g, bit
        <4>3. CASE h = g /\ k = bit
          BY <4>2, <4>3 DEF i
        <4>4. CASE k \in SeenInodes[h]
          BY <4>2, <4>4 DEF IInv, InodeInv, InodesUsed
        <4> QED
          BY <1>2, <1>5, <3>3, <4>3, <4>4
      <3> QED
        BY <3>3, <3>4, <3>5, <3>6 DEF InodeInv
    <2> QED
      BY <2>1, <2>2
  <1> QED
    BY <1>8, <1>9, <1>10, <1>11 DEF IInv

\* No inode is free, or a group cannot be read.
LEMMA NoInodeKeeps ==
    ASSUME IInv, AllocInodeNoSpace \/ AllocInodeFails
    PROVE  IInv'
  <1>1. OnlyRefs /\ UNCHANGED <<blockVars, inodeVars>>
    BY DEF AllocInodeNoSpace, AllocInodeFails
  <1>2. /\ blockUninit' \subseteq blockUninit /\ inodeUninit' \subseteq inodeUninit
        /\ readFailed' = TRUE \/ readFailed' = readFailed
    BY FlagsShrink DEF AllocInodeNoSpace, AllocInodeFails
  <1>3. BlocksQuiet /\ InodesQuiet
    BY <1>1, <1>2 DEF OnlyRefs, BlocksQuiet, InodesQuiet, inodeVars
  <1> QED
    BY <1>1, <1>2, <1>3, QuietStep

\* An inode that maps nothing is freed: its bit belonged to no other.
LEMMA FreeInodeKeeps ==
    ASSUME IInv, NEW i \in Inode, FreeInode(i)
    PROVE  IInv'
  <1> DEFINE g == InodeGroup(i)
             bit == InodeIndex(i)
  <1>1. /\ i \in files /\ mapped[i] = {}
        /\ Refs({g})
        /\ bitmap' = NewBitmaps(blockUninit \ blockUninit')
        /\ inodeBitmap' = [NewInodeBitmaps(inodeUninit \ inodeUninit') EXCEPT ![g] = @ \ {bit}]
        /\ freeInodes' = [freeInodes EXCEPT ![g] = @ + 1]
        /\ sbFreeInodes' = sbFreeInodes + 1
        /\ files' = files \ {i}
        /\ UNCHANGED <<blockVars, tableUnused, lastGroup, readFailed>>
    BY DEF FreeInode, CountsInode
  <1>2. g \in Group /\ bit \in InodeBit /\ InodeOf(g, bit) = i
    BY InodePlace
  <1>3. bit \in SeenInodes[g]
    BY <1>1 DEF IInv, InodeInv, FilesMarked
  <1>4. /\ blockUninit' \subseteq blockUninit /\ inodeUninit' \subseteq inodeUninit
        /\ g \notin inodeUninit'
    BY <1>1 DEF Refs
  <1>5. SeenInodes \in [Group -> SUBSET InodeBit] /\ files \subseteq Inode
    BY SeenInodesType DEF IInv, InodeInv, InodeTypes
  <1> HIDE DEF g, bit
  <1>6. BlocksQuiet
    BY <1>1, <1>4 DEF BlocksQuiet
  <1>7. BlockInv' /\ BlocksUsed'
    BY <1>1, <1>6, BlocksStay
  <1>8. /\ SeenInodes' = [SeenInodes EXCEPT ![g] = @ \ {bit}]
        /\ inodeBitmap' \in [Group -> SUBSET InodeBit] /\ inodeUninit' \subseteq Group
        /\ freeInodes' \in [Group -> Nat] /\ sbFreeInodes' \in Nat
        /\ InodeCounts'
    BY <1>1, <1>2, <1>3, <1>4, InodeCleared DEF IInv
  <1>9. InodeTypes'
    BY <1>1, <1>5, <1>8 DEF InodeTypes, IInv, InodeInv
  <1>10. FilesMarked'
    <2> SUFFICES ASSUME NEW j \in files, j # i
                 PROVE  InodeIndex(j) \in SeenInodes'[InodeGroup(j)]
      BY <1>1 DEF FilesMarked, InodeIndex, InodeGroup
    <2>1. /\ InodeGroup(j) \in Group /\ InodeOf(InodeGroup(j), InodeIndex(j)) = j
          /\ InodeIndex(j) \in SeenInodes[InodeGroup(j)]
      BY <1>5, InodePlace DEF IInv, InodeInv, FilesMarked
    <2>2. ~ (InodeGroup(j) = g /\ InodeIndex(j) = bit)
      BY <1>2, <2>1
    <2> QED
      BY <1>2, <1>5, <1>8, <2>1, <2>2
  <1>11. InodesUsed'
    <2> SUFFICES ASSUME ~readFailed', NEW h \in Group, NEW k \in SeenInodes'[h]
                 PROVE  InodeOf(h, k) \in files'
      BY DEF InodesUsed, InodeOf
    <2>1. k \in SeenInodes[h] /\ ~ (h = g /\ k = bit)
      BY <1>2, <1>5, <1>8
    <2>2. InodeOf(h, k) \in files
      BY <1>1, <2>1 DEF IInv, InodeInv, InodesUsed
    <2>3. InodeGroup(InodeOf(h, k)) = h /\ InodeIndex(InodeOf(h, k)) = k
      BY <1>5, <2>1, InodeNumber
    <2> QED
      BY <1>1, <2>1, <2>2, <2>3 DEF g, bit
  <1>12. Unused'
    BY <1>1 DEF IInv, Unused, InodeIndex, InodeGroup
  <1> QED
    BY <1>1, <1>7, <1>8, <1>9, <1>10, <1>11, <1>12 DEF IInv, InodeInv

\* An inode that cannot be freed stays marked, without a name.
LEMMA FreeInodeFailsKeeps ==
    ASSUME IInv, NEW i \in Inode, FreeInodeFails(i)
    PROVE  IInv'
  <1>1. /\ mapped[i] = {} /\ RefFails({}, InodeGroup(i)) /\ OnlyRefs
        /\ files' = files \ {i}
        /\ UNCHANGED <<blockVars, freeInodes, sbFreeInodes, tableUnused, lastGroup>>
    BY DEF FreeInodeFails
  <1>2. /\ blockUninit' \subseteq blockUninit /\ inodeUninit' \subseteq inodeUninit
        /\ readFailed' = TRUE
    BY <1>1, FlagsShrink
  <1>3. BlocksQuiet /\ InodesQuiet
    BY <1>1, <1>2 DEF OnlyRefs, BlocksQuiet, InodesQuiet
  <1>4. BlockInv' /\ BlocksUsed'
    BY <1>1, <1>2, <1>3, BlocksStay
  <1>5. InodeInv'
    <2>1. files' \subseteq files /\ lastGroup' \in Nat
      BY <1>1 DEF IInv, InodeInv, InodeTypes
    <2> QED
      BY <1>2, <1>3, <2>1, QuietInodeInv DEF IInv
  <1>6. Unused'
    BY <1>1 DEF IInv, Unused, InodeIndex, InodeGroup
  <1> QED
    BY <1>2, <1>4, <1>5, <1>6 DEF IInv

-----------------------------------------------------------------------------
(***************************************************************************)
(* The invariant.                                                          *)
(***************************************************************************)

\* It holds of an empty file system.
LEMMA InitHolds ==
    ASSUME Init
    PROVE  IInv
  <1> DEFINE taken(g) == {InodeIndex(i) : i \in {j \in Reserved : InodeGroup(j) = g}}
             unused(g) == {InodesPerGroup} \cup
                            {InodesPerGroup - 1 - InodeIndex(i) :
                                i \in {j \in Reserved : InodeGroup(j) = g}}
  <1>0. Reserved \subseteq Inode /\ Meta \subseteq Block
    BY GeometryAssumption
  <1>1. /\ blockUninit \subseteq Group /\ inodeUninit \subseteq Group
        /\ freeBlocks = [g \in Group |-> Cardinality(Bit \ Own(g))]
        /\ sbFreeBlocks = BlockCount - Cardinality(Meta)
        /\ freeInodes = [g \in Group |->
                            Cardinality({i \in Inode \ Reserved : InodeGroup(i) = g})]
        /\ sbFreeInodes = Cardinality(Inode \ Reserved)
        /\ tableUnused = [g \in Group |-> Min(unused(g))]
        /\ mapped = [i \in Inode |-> {}] /\ lastGroup \in LeftBehind
        /\ files = Reserved /\ readFailed = FALSE
        /\ Reserved \cap {i \in Inode : InodeGroup(i) \in inodeUninit} = {}
    BY DEF Init
  <1>2. PICK junk \in {{}, Bit} :
            bitmap = [g \in Group |-> IF g \in blockUninit THEN junk ELSE Own(g)]
    BY DEF Init
  <1>3. PICK junk2 \in {{}, InodeBit} :
            inodeBitmap = [g \in Group |-> IF g \in inodeUninit THEN junk2 ELSE taken(g)]
    BY DEF Init
  <1>4. \A g \in Group : Own(g) \subseteq Bit
    BY DEF Own
  <1>5. bitmap \in [Group -> SUBSET Bit] /\ Seen = [g \in Group |-> Own(g)]
    <2>1. junk \subseteq Bit
      OBVIOUS
    <2>2. bitmap \in [Group -> SUBSET Bit]
      BY <1>2, <1>4, <2>1
    <2> QED
      BY <1>2, <2>2 DEF Seen, NewBitmaps
  <1>6. \A g \in Group : taken(g) \subseteq InodeBit
    BY <1>0, InodePlace
  <1>7. \A g \in inodeUninit : taken(g) = {}
    BY <1>0, <1>1
  <1> HIDE DEF taken
  <1>8. inodeBitmap \in [Group -> SUBSET InodeBit] /\ SeenInodes = [g \in Group |-> taken(g)]
    <2>1. junk2 \subseteq InodeBit
      OBVIOUS
    <2>2. inodeBitmap \in [Group -> SUBSET InodeBit]
      BY <1>3, <1>6, <2>1
    <2> QED
      BY <1>1, <1>3, <1>7, <2>2 DEF SeenInodes, NewInodeBitmaps
  <1>9. ClearBlocks = Block \ Meta
    <2>1. ASSUME NEW b \in Block
          PROVE  IndexOf(b) \in Own(GroupOf(b)) <=> b \in Meta
      <3>1. /\ GroupOf(b) \in Group /\ IndexOf(b) \in Bit
            /\ AddressOf(GroupOf(b), IndexOf(b)) = b
        BY BlockPlace
      <3>2. IndexOf(b) < BlocksIn(GroupOf(b))
        BY <3>1, AddressPlace
      <3>3. ~ (IndexOf(b) >= BlocksIn(GroupOf(b)))
        <4>1. IndexOf(b) \in Int /\ BlocksIn(GroupOf(b)) \in Int
          BY <3>1, GroupSize DEF Bit
        <4> QED
          BY <3>2, <4>1
      <3> QED
        BY <3>1, <3>3 DEF Own
    <2>2. \A b \in Block : Seen[GroupOf(b)] = Own(GroupOf(b))
      BY <1>5, BlockPlace
    <2> QED
      BY <2>1, <2>2 DEF ClearBlocks
  <1>10. BlockInv /\ BlocksUsed
    <2>1. \A g \in Group : freeBlocks[g] \in Nat /\ freeBlocks[g] = Cardinality(Bit \ Seen[g])
      <3>1. \A g \in Group : IsFiniteSet(Bit \ Own(g))
        BY Sizes, FS_Difference
      <3> QED
        BY <1>1, <1>5, <3>1, FS_CardinalityType
    <2>2. sbFreeBlocks = Cardinality(ClearBlocks) /\ sbFreeBlocks \in Nat
      <3>1. IsFiniteSet(Block \ Meta)
            /\ Cardinality(Block \ Meta) = BlockCount - Cardinality(Block \cap Meta)
        BY Sizes, FS_Difference
      <3>2. Block \cap Meta = Meta
        BY <1>0
      <3> QED
        BY <1>1, <1>9, <3>1, <3>2, FS_CardinalityType
    <2>3. freeBlocks \in [Group -> Nat]
      BY <1>1, <2>1
    <2>4. BlockTypes /\ BlockCounts
      BY <1>1, <1>5, <2>1, <2>2, <2>3 DEF BlockTypes, BlockCounts
    <2>5. Disjoint /\ BlocksMarked /\ OwnSeen /\ BlocksUsed
      BY <1>1, <1>5 DEF Disjoint, BlocksMarked, OwnSeen, BlocksUsed
    <2> QED
      BY <2>4, <2>5 DEF BlockInv
  <1>11. ASSUME NEW i \in Inode
         PROVE  InodeIndex(i) \in taken(InodeGroup(i)) <=> i \in Reserved
    <2>1. i \in Reserved => InodeIndex(i) \in taken(InodeGroup(i))
      BY DEF taken
    <2>2. ASSUME InodeIndex(i) \in taken(InodeGroup(i))
          PROVE  i \in Reserved
      <3>1. PICK j \in Reserved : InodeGroup(j) = InodeGroup(i) /\ InodeIndex(j) = InodeIndex(i)
        BY <2>2 DEF taken
      <3>2. j = i
        BY <1>0, <3>1, InodePlace
      <3> QED
        BY <3>2
    <2> QED
      BY <2>1, <2>2
  <1>12. \A g \in Group : SeenInodes[g] = taken(g)
    BY <1>8
  <1>13. InodeCounts /\ freeInodes \in [Group -> Nat] /\ sbFreeInodes \in Nat
    <2>1. ClearInodes = Inode \ Reserved
      BY <1>11, <1>12, InodePlace DEF ClearInodes
    <2>2. IsFiniteSet(Inode \ Reserved)
      BY Sizes, FS_Difference
    <2>3. ASSUME NEW g \in Group
          PROVE  /\ freeInodes[g] = Cardinality(InodeBit \ SeenInodes[g])
                 /\ freeInodes[g] \in Nat
      <3> DEFINE A == {i \in Inode \ Reserved : InodeGroup(i) = g}
                 B == InodeBit \ SeenInodes[g]
                 F == [i \in A |-> InodeIndex(i)]
      <3>1. IsFiniteSet(A)
        <4>1. A \in SUBSET Inode
          OBVIOUS
        <4> QED
          BY <4>1, Sizes, FS_Subset
      <3>2. F \in [A -> B]
        BY <1>11, <1>12, InodePlace
      <3>3. \A i, j \in A : F[i] = F[j] => i = j
        BY InodePlace
      <3>4. \A k \in B : \E i \in A : F[i] = k
        <4> SUFFICES ASSUME NEW k \in B
                     PROVE  \E i \in A : F[i] = k
          OBVIOUS
        <4>1. /\ InodeOf(g, k) \in Inode /\ InodeGroup(InodeOf(g, k)) = g
              /\ InodeIndex(InodeOf(g, k)) = k
          BY InodeNumber
        <4>2. InodeOf(g, k) \in A
          BY <1>11, <1>12, <4>1
        <4> QED
          BY <4>1, <4>2
      <3>5. freeInodes[g] = Cardinality(A)
        BY <1>1
      <3> HIDE DEF A, B, F
      <3>6. F \in Bijection(A, B)
        BY <3>2, <3>3, <3>4 DEF Bijection, Injection, IsInjective, Surjection
      <3>7. ExistsBijection(A, B)
        BY <3>6 DEF ExistsBijection
      <3>8. Cardinality(B) = Cardinality(A) /\ Cardinality(A) \in Nat
        BY <3>1, <3>7, FS_Bijection, FS_CardinalityType
      <3> QED
        BY <3>5, <3>8 DEF B
    <2>4. freeInodes \in [Group -> Nat]
      BY <1>1, <2>3
    <2> QED
      BY <1>1, <2>1, <2>2, <2>3, <2>4, FS_CardinalityType DEF InodeCounts
  <1>14. InodeInv
    <2>1. InodeTypes
      BY <1>0, <1>1, <1>8, <1>13, GeometryAssumption DEF InodeTypes
    <2>2. FilesMarked
      BY <1>0, <1>1, <1>11, <1>12, InodePlace DEF FilesMarked
    <2>3. InodesUsed
      <3> SUFFICES ASSUME NEW g \in Group, NEW k \in SeenInodes[g]
                   PROVE  InodeOf(g, k) \in files
        BY DEF InodesUsed
      <3>1. PICK j \in Reserved : InodeGroup(j) = g /\ InodeIndex(j) = k
        BY <1>12 DEF taken
      <3> QED
        BY <1>0, <1>1, <3>1, InodePlace
    <2> QED
      BY <1>13, <2>1, <2>2, <2>3 DEF InodeInv
  <1>15. Unused
    <2> DEFINE n == InodesPerGroup
    <2>0. n \in Nat \ {0}
      BY GeometryAssumption
    <2>1. ASSUME NEW g \in Group
          PROVE  Min(unused(g)) \in 0 .. n /\ \A z \in unused(g) : Min(unused(g)) <= z
      <3>1. unused(g) \subseteq 0 .. n
        <4>1. \A i \in Reserved : InodeIndex(i) \in 0 .. n - 1
          BY <1>0, InodePlace DEF InodeBit
        <4> QED
          BY <2>0, <4>1
      <3>2. IsFiniteSet(0 .. n) /\ 0 .. n \subseteq Nat
        BY <2>0, FS_Interval
      <3>3. unused(g) \in SUBSET Nat /\ unused(g) # {} /\ IsFiniteSet(unused(g))
        BY <3>1, <3>2, FS_Subset
      <3> HIDE DEF unused
      <3> QED
        BY <3>1, <3>3, MinFacts
    <2>2. \A g \in Group : tableUnused[g] = Min(unused(g))
      BY <1>1
    <2>3. ASSUME NEW i \in files
          PROVE  InodeIndex(i) < n - tableUnused[InodeGroup(i)]
      <3>1. i \in Reserved /\ i \in Inode /\ InodeGroup(i) \in Group /\ InodeIndex(i) \in 0 .. n - 1
        BY <1>0, <1>1, InodePlace DEF InodeBit
      <3>2. n - 1 - InodeIndex(i) \in unused(InodeGroup(i))
        BY <3>1
      <3> HIDE DEF unused
      <3>3. tableUnused[InodeGroup(i)] <= n - 1 - InodeIndex(i)
            /\ tableUnused[InodeGroup(i)] \in 0 .. n
        BY <2>1, <2>2, <3>1, <3>2
      <3> QED
        BY <2>0, <3>1, <3>3
    <2> HIDE DEF unused
    <2>4. tableUnused \in [Group -> 0 .. n]
      BY <1>1, <2>1
    <2> QED
      BY <2>3, <2>4 DEF Unused
  <1> QED
    BY <1>1, <1>10, <1>14, <1>15 DEF IInv

\* And it is kept by every step.
LEMMA StepKeeps ==
    ASSUME IInv, [Next]_vars
    PROVE  IInv'
  <1>1. ASSUME NEW goal \in Goal, NEW i \in Owner, AllocBlock(i, goal)
        PROVE  IInv'
    BY <1>1, AllocBlockKeeps
  <1>2. ASSUME NEW goal \in Goal, AllocBlockNoSpace(goal) \/ AllocBlockFails(goal)
        PROVE  IInv'
    BY <1>2, NoBlockKeeps
  <1>3. ASSUME NEW i \in Inode, NEW first \in mapped[i], NEW n \in 1 .. Cardinality(mapped[i]),
               FreeBlocks(i, first, n) \/ FreeBlocksFails(i, first, n)
        PROVE  IInv'
    <2>1. mapped[i] \in SUBSET Block
      BY DEF IInv, BlockInv, BlockTypes
    <2>2. n \in Nat
      BY <2>1, Sizes, FS_Subset, FS_CardinalityType
    <2> QED
      BY <1>3, <2>2, FreeBlocksKeeps
  <1>4. CASE AllocInode \/ AllocInodeUndone \/ AllocInodeLeaked
    BY <1>4, AllocInodeKeeps
  <1>5. CASE AllocInodeNoSpace \/ AllocInodeFails
    BY <1>5, NoInodeKeeps
  <1>6. ASSUME NEW i \in Inode, FreeInode(i) \/ FreeInodeFails(i)
        PROVE  IInv'
    BY <1>6, FreeInodeKeeps, FreeInodeFailsKeeps
  <1>7. CASE UNCHANGED vars
    <2>1. UNCHANGED <<blockVars, inodeVars>> /\ readFailed' = readFailed
      BY <1>7 DEF vars
    <2>2. BlocksQuiet /\ InodesQuiet
      BY <1>7 DEF vars, inodeVars, BlocksQuiet, InodesQuiet, NewBitmaps, NewInodeBitmaps,
                  IInv, BlockInv, BlockTypes, InodeInv, InodeTypes
    <2> QED
      BY <2>1, <2>2, QuietStep
  <1> QED
    BY <1>1, <1>2, <1>3, <1>4, <1>5, <1>6, <1>7 DEF Next

LEMMA InvariantKept == Spec => []IInv
  <1>1. Init => IInv
    BY InitHolds
  <1>2. IInv /\ [Next]_vars => IInv'
    BY StepKeeps
  <1> QED
    BY <1>1, <1>2, PTL DEF Spec

-----------------------------------------------------------------------------
(***************************************************************************)
(* No space.                                                               *)
(***************************************************************************)

\* A search that goes around the groups passes each of them.
LEMMA Around ==
    ASSUME NEW q \in 0 .. Groups, NEW g \in Group
    PROVE  \E k \in 1 .. Groups : (q + k) % Groups = g
  <1> DEFINE n == Groups
  <1>1. n \in Nat \ {0} /\ g \in 0 .. n - 1
    BY GroupCount DEF Group
  <1>2. /\ n * 0 + g = g /\ n * 1 + g = n + g /\ n * 2 + g = n + n + g
    BY <1>1
  <1> HIDE DEF n
  <1>3. g % n = g /\ (n + g) % n = g /\ (n + n + g) % n = g
    BY <1>1, <1>2, DivModOf
  <1>4. q \in 0 .. n
    BY DEF n
  <1>5. \E k \in 1 .. n : q + k = g \/ q + k = n + g \/ q + k = n + n + g
    <2>1. CASE q < g
      <3>1. g - q \in 1 .. n /\ q + (g - q) = g
        BY <1>1, <1>4, <2>1
      <3> QED
        BY <3>1
    <2>2. CASE g <= q /\ n + g - q >= 1
      <3>1. n + g - q \in 1 .. n /\ q + (n + g - q) = n + g
        BY <1>1, <1>4, <2>2
      <3> QED
        BY <3>1
    <2>3. CASE n + g - q < 1
      <3>1. n \in 1 .. n /\ q + n = n + n + g
        BY <1>1, <1>4, <2>3
      <3> QED
        BY <3>1
    <2> QED
      BY <1>1, <1>4, <2>1, <2>2, <2>3
  <1> QED
    BY <1>3, <1>5 DEF n

\* A goal lies in a group, or just behind the last one.
LEMMA GoalGroup ==
    ASSUME NEW goal \in Goal
    PROVE  GroupOf(goal) \in 0 .. Groups
  <1> DEFINE n == BlocksPerGroup
             m == n * Groups
  <1>1. /\ goal \in Nat /\ goal <= BlockCount /\ BlockCount <= m /\ m \in Nat
        /\ n \in Nat \ {0} /\ Groups \in Nat /\ BlockCount \in Nat
    BY GroupCount, GeometryAssumption DEF Goal
  <1>2. m \div n = Groups
    <2>1. 0 \in 0 .. n - 1 /\ m = m + 0
      BY <1>1
    <2> QED
      BY <1>1, <2>1, DivModOf
  <1> HIDE DEF m
  <1>3. goal \div n <= m \div n /\ goal \div n \in Nat
    <2>1. goal <= m
      BY <1>1
    <2> QED
      BY <1>1, <2>1, DivMonotonic, DivMod
  <1> QED
    BY <1>1, <1>2, <1>3 DEF GroupOf

\* When no block is found every block is in use.
LEMMA BlocksFull ==
    ASSUME BlockInv, NEW goal \in Goal, Hits(goal) = {}, NEW b \in Block
    PROVE  IndexOf(b) \in Seen[GroupOf(b)]
  <1> SUFFICES ASSUME IndexOf(b) \notin Seen[GroupOf(b)]
               PROVE  FALSE
    OBVIOUS
  <1> DEFINE g == GroupOf(b)
             bit == IndexOf(b)
  <1>1. g \in Group /\ bit \in Bit /\ AddressOf(g, bit) = b
    BY BlockPlace
  <1>2. PICK k \in 1 .. Groups : (GroupOf(goal) + k) % Groups = g
    BY <1>1, GoalGroup, Around
  <1>3. k \in 0 .. Groups /\ k # 0 /\ Tried(goal, k) = g
    BY <1>2, GroupCount DEF Tried
  <1>4. freeBlocks[g] # 0
    <2>1. IsFiniteSet(Bit \ Seen[g]) /\ Bit \ Seen[g] # {}
      BY <1>1, Sizes, FS_Difference
    <2>2. Cardinality(Bit \ Seen[g]) # 0
      BY <2>1, FS_EmptySet
    <2> QED
      BY <1>1, <2>2 DEF BlockInv, BlockCounts
  <1>5. bit \in ClearIn(Seen[g], 0, BlocksIn(g))
    <2>1. bit < BlocksIn(g) /\ 0 <= bit
      BY <1>1, AddressPlace DEF Bit
    <2> QED
      BY <1>1, <2>1 DEF ClearIn
  <1> HIDE DEF g, bit
  <1>6. BitTried(goal, k) = FirstOf(ClearIn(Seen[g], 0, BlocksIn(g)))
    BY <1>1, <1>3, <1>4, FindClrFromStart DEF BitTried
  <1>7. BitTried(goal, k) # None
    BY <1>5, <1>6, ClearInFacts, FirstOfFacts
  <1> QED
    BY <1>3, <1>7 DEF Hits

\* When no group has a free inode every inode is in use, if the search begins.
LEMMA InodesFull ==
    ASSUME InodeInv, lastGroup \in 0 .. Groups, InodeHits = {}, NEW i \in Inode
    PROVE  InodeIndex(i) \in SeenInodes[InodeGroup(i)]
  <1> SUFFICES ASSUME InodeIndex(i) \notin SeenInodes[InodeGroup(i)]
               PROVE  FALSE
    OBVIOUS
  <1> DEFINE g == InodeGroup(i)
  <1>1. g \in Group /\ InodeIndex(i) \in InodeBit \ SeenInodes[g]
    BY InodePlace
  <1>2. freeInodes[g] \in Nat /\ freeInodes[g] # 0
    <2>1. IsFiniteSet(InodeBit \ SeenInodes[g]) /\ InodeBit \ SeenInodes[g] # {}
      BY <1>1, Sizes, FS_Difference
    <2>2. Cardinality(InodeBit \ SeenInodes[g]) # 0
      BY <2>1, FS_EmptySet
    <2>3. freeInodes \in [Group -> Nat] /\ freeInodes[g] = Cardinality(InodeBit \ SeenInodes[g])
      BY <1>1 DEF InodeInv, InodeTypes, InodeCounts
    <2> QED
      BY <1>1, <2>2, <2>3
  <1> HIDE DEF g
  <1>3. PICK k \in 1 .. Groups : (lastGroup + k) % Groups = g
    BY <1>1, Around
  <1>4. \E j \in 0 .. Groups - 1 : (lastGroup + j) % Groups = g
    <2>1. CASE k < Groups
      <3>1. k \in 0 .. Groups - 1
        BY <2>1, GroupCount
      <3> QED
        BY <1>3, <3>1
    <2>2. CASE k = Groups
      <3> DEFINE n == Groups
                 q == lastGroup \div n
                 r == lastGroup % n
      <3>1. n \in Nat \ {0} /\ lastGroup \in Nat
        BY GroupCount
      <3>2. q \in Nat /\ r \in 0 .. n - 1 /\ lastGroup = n * q + r
        BY <3>1, DivMod
      <3> HIDE DEF q, r
      <3>3. lastGroup + n = n * (q + 1) + r /\ q + 1 \in Nat
        BY <3>1, <3>2
      <3>4. (lastGroup + n) % n = r
        BY <3>1, <3>2, <3>3, DivModOf
      <3>5. (lastGroup + 0) % n = r
        BY <3>1 DEF r
      <3>6. 0 \in 0 .. Groups - 1
        BY GroupCount
      <3> QED
        BY <1>3, <2>2, <3>4, <3>5, <3>6
    <2> QED
      BY <2>1, <2>2, GroupCount
  <1>5. PICK j \in 0 .. Groups - 1 : InodeTried(j) = g
    BY <1>4 DEF InodeTried
  <1>6. j \in InodeTries
    BY GroupCount DEF InodeTries
  <1> QED
    BY <1>2, <1>5, <1>6 DEF InodeHits

-----------------------------------------------------------------------------
(***************************************************************************)
(* The theorems.                                                           *)
(***************************************************************************)

\* Bitmaps, counters and mappings stay within the geometry, and no counter goes below
\* zero, in any sequence of allocations and frees, with failures at any read.
THEOREM TypesHold == Spec => []TypeOK
  <1>1. IInv => TypeOK
    BY IInvGives
  <1> QED
    BY <1>1, InvariantKept, PTL

\* No block and no inode is given out twice, for any number of groups and any sizes of
\* them, and wherever the search for a block starts.
THEOREM NothingIsShared == Spec => []NothingShared
  <1>1. IInv => NothingShared
    BY IInvGives
  <1> QED
    BY <1>1, InvariantKept, PTL

\* The counters of the groups and of the superblock are those of the bitmaps.
THEOREM CountsAreExact == Spec => []CountsExact
  <1>1. IInv => CountsExact
    BY IInvGives
  <1> QED
    BY <1>1, InvariantKept, PTL

\* Unless a read failed, nothing is marked that is not used.
THEOREM NothingIsLeaked == Spec => []NothingLeaks
  <1>1. IInv => NothingLeaks
    BY IInvGives
  <1> QED
    BY <1>1, InvariantKept, PTL

\* ENOSPC means that there is no space, from any goal. For inodes that takes a group
\* remembered from before that this file system has, or the one behind its last one.
THEOREM NoSpaceIsFull ==
    ASSUME LeftBehind \subseteq 0 .. Groups
    PROVE  Spec => []NoSpaceMeansFull
  <1> DEFINE Begins == lastGroup \in 0 .. Groups
  <1>1. Init => Begins
    BY DEF Init
  <1>2. IInv /\ Begins /\ [Next]_vars => Begins'
    <2> SUFFICES ASSUME IInv, Begins, [Next]_vars
                 PROVE  Begins'
      OBVIOUS
    <2>1. CASE FindsInode
      <3>1. lastGroup' \in Group
        BY <2>1, NextInode DEF IInv, FindsInode
      <3> QED
        BY <3>1, GroupCount DEF Group
    <2>2. CASE lastGroup' = lastGroup
      BY <2>2
    <2>3. FindsInode \/ lastGroup' = lastGroup
      BY DEF Next, vars, inodeVars, AllocBlock, AllocBlockNoSpace, AllocBlockFails, FreeBlocks,
             FreeBlocksFails, AllocInode, AllocInodeUndone, AllocInodeLeaked, AllocInodeNoSpace,
             AllocInodeFails, FreeInode, FreeInodeFails
    <2> QED
      BY <2>1, <2>2, <2>3
  <1>3. IInv /\ Begins => NoSpaceMeansFull
    BY BlocksFull, InodesFull DEF IInv, NoSpaceMeansFull
  <1> HIDE DEF Begins
  <1> QED
    BY <1>1, <1>2, <1>3, InvariantKept, PTL DEF Spec

=============================================================================
