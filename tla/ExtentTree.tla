----------------------------- MODULE ExtentTree -----------------------------
(***************************************************************************)
(* The extent tree of a file (ext4_extent.c): finding, inserting and       *)
(* initialising one block at a time, as ext4_fs.c asks for them, and       *)
(* truncation.  A tree is a function from the inode (Root) and the blocks  *)
(* that hold nodes to nodes; a path is a sequence of nodes with a position *)
(* in each, from the root down, position 0 being the NULL of an empty leaf.*)
(***************************************************************************)
EXTENDS Integers, Sequences, FiniteSets, SequencesExt, TLC

CONSTANTS
  Logical,   \* logical blocks of the file, numbers from 0 on
  Phys,      \* blocks of the device, positive numbers
  RootMax,   \* entries of the root, in the inode
  NodeMax,   \* entries of any other node
  InitMax,   \* EXT_INIT_MAX_LEN, a power of two: the sign of unwritten extents
  FirstTrees,\* trees of files written by other implementations
  MaxOps     \* bound on the calls

\* "After growing the tree, there should be free space in the only child".
ASSUME RoomAssumption ==
  /\ RootMax \in Nat \ {0} /\ NodeMax \in Nat /\ RootMax < NodeMax
  /\ InitMax \in Nat /\ InitMax > 1

VARIABLES
  t,      \* the tree
  free,   \* the blocks of Phys the allocator has
  slips,  \* departures of the code from its specification, see below
  ops     \* calls so far

vars == <<t, free, slips, ops>>

Root == 0

-----------------------------------------------------------------------------
(* Extents.  count is the 16-bit block_count: above InitMax it is the      *)
(* length of an unwritten extent plus InitMax.                             *)

Extent(first, count, pb) == [first |-> first, count |-> count, pb |-> pb]
Index(first, pb) == [first |-> first, count |-> 0, pb |-> pb]

Unwritten(e) == e.count > InitMax
ActualLen(e) == IF Unwritten(e) THEN e.count - InitMax ELSE e.count
MarkUnwritten(n) == IF n >= InitMax THEN n ELSE n + InitMax
End(e) == e.first + ActualLen(e)
Covers(e, l) == e.first <= l /\ l < End(e)

\* The lengths ext4_ext_can_append and ext4_ext_can_prepend allow; they look at
\* the flag of the extent in the tree only.
Fits(e, n) == ActualLen(e) + ActualLen(n) <= (IF Unwritten(e) THEN InitMax - 1 ELSE InitMax)

\* Mutant of CanAppend: physical neighbours are enough.
CanAppendAnywhere(e, n) == e.pb + ActualLen(e) = n.pb /\ Fits(e, n)

CanAppend(e, n) ==
  e.pb + ActualLen(e) = n.pb /\ Fits(e, n) /\ End(e) = n.first

CanPrepend(e, n) ==
  n.pb + ActualLen(n) = e.pb /\ Fits(e, n) /\ End(n) = e.first

Longer(e, n) ==
  LET len == ActualLen(e) + ActualLen(n) IN IF Unwritten(e) THEN MarkUnwritten(len) ELSE len

-----------------------------------------------------------------------------
(* Finding.                                                                *)

Entries(x, n) == x[n].ents
Leaves(x) == {n \in DOMAIN x : x[n].depth = 0}
Capacity(n) == IF n = Root THEN RootMax ELSE NodeMax
Full(x, n) == Len(Entries(x, n)) = Capacity(n)

\* ext4_ext_binsearch, ext4_ext_binsearch_idx: the last entry that begins at l or
\* before it, the first entry if none does.
Search(ents, l) ==
  IF ents = <<>> THEN 0
  ELSE CHOOSE i \in DOMAIN ents :
         /\ i = 1 \/ ents[i].first <= l
         /\ \A j \in DOMAIN ents : j > i => ents[j].first > l

\* ext4_find_extent.
FindExtent(x, l) ==
  LET at(n) == [n |-> n, at |-> Search(Entries(x, n), l)]
      down(q) == Append(q, at(Entries(x, Last(q).n)[Last(q).at].pb))
      path[k \in 0 .. x[Root].depth] == IF k = 0 THEN <<at(Root)>> ELSE down(path[k - 1])
  IN  path[x[Root].depth]

LeafOf(p) == Last(p)

\* The extent a path has found; not to be asked of an empty leaf.
Found(x, p) == Entries(x, LeafOf(p).n)[LeafOf(p).at]
Finds(x, p, l) == LeafOf(p).at # 0 /\ Covers(Found(x, p), l)

-----------------------------------------------------------------------------
(* Inserting.                                                              *)

\* ext4_ext_correct_indexes: the keys above a leaf follow its first extent.
CorrectIndexes(x, p) ==
  LET border == Found(x, p).first
      up == {q \in Range(p) : \E k \in 1 .. Len(p) - 1 :
               q = p[k] /\ \A j \in k + 1 .. Len(p) : p[j].at = 1}
  IN  [n \in {q.n : q \in up} |->
         [x[n] EXCEPT !.ents[(CHOOSE q \in up : q.n = n).at].first = border]] @@ x

At(p, i) == [p EXCEPT ![Len(p)].at = i]

\* ext4_ext_insert_leaf where the new extent e merges, and where it does not.
Merges(x, p, e) ==
  LeafOf(p).at # 0 /\ (CanAppend(Found(x, p), e) \/ CanPrepend(Found(x, p), e))

Merge(x, p, e) ==
  LET o == Found(x, p)
      first == IF CanAppend(o, e) THEN o.first ELSE e.first
  IN  [x EXCEPT ![LeafOf(p).n].ents[LeafOf(p).at] = Extent(first, Longer(o, e), o.pb)]

Place(x, p, e) ==
  LET n == LeafOf(p).n
      o == IF LeafOf(p).at = 0 THEN 1 ELSE LeafOf(p).at
      i == IF LeafOf(p).at # 0 /\ e.first > Found(x, p).first THEN o + 1 ELSE o
      y == [x EXCEPT ![n].ents = InsertAt(@, i, e)]
  IN  [t |-> CorrectIndexes(y, At(p, o)), p |-> At(p, i)]

\* Mutant of Grow: the root does not say how deep the tree is by now.
GrowOnce(x, b) ==
  b :> x[Root] @@ Root :> [depth |-> 1, ents |-> <<Index(Entries(x, Root)[1].first, b)>>] @@ x

\* ext4_ext_grow_indepth: the content of the root moves to the block b.
Grow(x, b) ==
  b :> x[Root] @@ Root :> [depth |-> x[Root].depth + 1,
                           ents |-> <<Index(Entries(x, Root)[1].first, b)>>] @@ x

\* Mutant of SplitKey: the new nodes begin at the new extent.
SplitKeyNew(x, p, e) == e.first

\* ext4_ext_split_node, the levels from the leaf up to top: what follows the
\* path in each node goes to a new node, bs holding the blocks for them.  The
\* key of the new nodes is the extent after the path, or the new one.
SplitKey(x, p, e) ==
  LET l == LeafOf(p)
  IN  IF l.at < Capacity(l.n) THEN Entries(x, l.n)[l.at + 1].first ELSE e.first

Tail_(x, q) == SubSeq(Entries(x, q.n), q.at + 1, Len(Entries(x, q.n)))

\* The left halves, for the k lowest levels of the path.
CutLeft(x, p, k) ==
  LET low == {p[i] : i \in Len(p) - k + 1 .. Len(p)}
  IN  [n \in {q.n : q \in low} |->
         [x[n] EXCEPT !.ents = SubSeq(@, 1, (CHOOSE q \in low : q.n = n).at)]] @@ x

\* The new node of level i, for which bs[Len(p) - i + 1] was allocated.
RightHalf(x, p, e, bs, i) ==
  IF i = Len(p) THEN [depth |-> 0, ents |-> Tail_(x, p[i])]
  ELSE [depth |-> x[p[i].n].depth,
        ents |-> <<Index(SplitKey(x, p, e), bs[Len(p) - i])>> \o Tail_(x, p[i])]

SplitNode(x, p, e, bs) ==
  LET k   == Len(bs)
      top == Len(p) - k + 1
      up  == p[top - 1]
      key == SplitKey(x, p, e)
      new == [n \in Range(bs) |-> RightHalf(x, p, e, bs, Len(p) + 1 - (CHOOSE j \in 1 .. k : bs[j] = n))]
      cut == new @@ CutLeft(x, p, k)
      all == [cut EXCEPT ![up.n].ents = InsertAt(@, up.at + 1, Index(key, bs[k]))]
      side(i) == CASE i = top - 1 -> [n |-> up.n, at |-> up.at + 1]
                   [] i >= top    -> [n |-> bs[Len(p) - i + 1],
                                      at |-> IF i = Len(p) /\ Tail_(x, p[i]) = <<>> THEN 0 ELSE 1]
                   [] OTHER       -> p[i]
      right == [i \in DOMAIN p |-> side(i)] \o <<>>
  IN  [t |-> all, p |-> IF e.first < key THEN p ELSE right]

\* The full nodes at the lower end of a path, and whether that is all of it.
FullLevels(x, p) ==
  CHOOSE k \in 0 .. Len(p) :
    /\ \A i \in Len(p) - k + 1 .. Len(p) : Full(x, p[i].n)
    /\ k < Len(p) => ~Full(x, p[Len(p) - k].n)
MustGrow(x, p) == FullLevels(x, p) = Len(p)

\* Blocks the insertion asks the allocator for.
Needs(x, p, e, combine) ==
  IF (combine /\ Merges(x, p, e)) \/ ~Full(x, LeafOf(p).n) THEN 0 ELSE FullLevels(x, p)

\* What an insertion returns: whether it succeeded, tree and path, the blocks it
\* took, the rest of the allocator's, and whether it dropped entries of the tree.
Result(ok, x, p, taken, left, lost) ==
  [ok |-> ok, t |-> x, p |-> p, taken |-> taken, left |-> left, lost |-> lost]

\* Mutant of SplitFails: the blocks it took stay with nobody.
SplitFailsKeeping(x, p, bs, grown) ==
  Result(FALSE, CutLeft(x, p, Len(bs)), p, grown \cup Range(bs), <<>>,
         \E i \in DOMAIN bs : Tail_(x, p[Len(p) - i + 1]) # <<>>)

\* ext4_ext_split_node fails after splitting as many levels as bs has blocks: the
\* blocks go back, and the entries it had moved to them with them.
SplitFails(x, p, bs, grown) ==
  Result(FALSE, CutLeft(x, p, Len(bs)), p, grown, <<>>,
         \E i \in DOMAIN bs : Tail_(x, p[Len(p) - i + 1]) # <<>>)

\* ext4_ext_insert_leaf, at the end of a path that has room.
Inserted(r, taken, left) == Result(TRUE, r.t, r.p, taken, left, FALSE)
InsertLeaf(s, e, combine, taken, left) ==
  Inserted(IF combine /\ Merges(s.t, s.p, e) THEN [t |-> Merge(s.t, s.p, e), p |-> s.p]
           ELSE Place(s.t, s.p, e), taken, left)

\* The full levels are split, bs being the blocks there are for that.
InsertSplitting(x, p, e, combine, bs, grown, need, pool) ==
  IF Len(pool) < need THEN SplitFails(x, p, bs, grown)
  ELSE InsertLeaf(IF bs = <<>> THEN [t |-> x, p |-> p] ELSE SplitNode(x, p, e, bs),
                  e, combine, grown \cup Range(bs), SubSeq(pool, need + 1, Len(pool)))

\* ext4_ext_insert_extent; pool is what the allocator gives before it fails.
InsertExtent(x, p, e, combine, pool) ==
  LET need == Needs(x, p, e, combine)
      bs   == SubSeq(pool, 1, Min({need, Len(pool)}))
      y    == Grow(x, bs[1])
  IN  IF bs # <<>> /\ MustGrow(x, p)
      THEN InsertSplitting(y, FindExtent(y, e.first), e, combine, Tail(bs), {bs[1]}, need, pool)
      ELSE InsertSplitting(x, p, e, combine, bs, {}, need, pool)

-----------------------------------------------------------------------------
(* Initialising a block of an unwritten extent.                            *)

SetCount(x, p, c) == [x EXCEPT ![LeafOf(p).n].ents[LeafOf(p).at].count = c]
Width(c) == c % (2 * InitMax)
Mark(yes, c) == IF yes THEN MarkUnwritten(c) ELSE c

\* Mutant of SplitExtentAt: the first half loses its mark.
SplitExtentBare(x, p, split, left, right, pool) ==
  LET o == Found(x, p)
      new == Extent(split, Mark(right, End(o) - split), o.pb + split - o.first)
  IN  IF split = o.first
      THEN Result(TRUE, SetCount(x, p, Mark(right, ActualLen(o))), p, {}, pool, FALSE)
      ELSE InsertExtent(SetCount(x, p, split - o.first), p, new, FALSE, pool)

\* The extent of a failed insertion gets its length back.
Restored(r, len) == IF r.ok THEN r ELSE [r EXCEPT !.t = SetCount(@, r.p, len)]

\* ext4_ext_split_extent_at: the part from split on becomes an extent of its own;
\* left and right say which of the two stay unwritten.  When there is no block
\* for it the extent gets its length back, and not its mark.
SplitExtentAt(x, p, split, left, right, pool) ==
  LET o == Found(x, p)
      len == ActualLen(o)
      kept == Width(split - o.first)
      new == Extent(split, Mark(right, Width(len - (split - o.first))), o.pb + split - o.first)
  IN  IF split = o.first
      THEN Result(TRUE, SetCount(x, p, Mark(right, len)), p, {}, pool, FALSE)
      ELSE Restored(InsertExtent(SetCount(x, p, Mark(left, kept)), p, new, FALSE, pool), len)

AtEnd(x, p, l) == l + 1 = End(Found(x, p))
InMiddle(x, p, l) == Found(x, p).first < l /\ ~AtEnd(x, p, l)

\* The second of the two splits in the middle of an extent.
SplitAgain(r, l) ==
  IF ~r.ok THEN r
  ELSE [SplitExtentAt(r.t, r.p, l, TRUE, FALSE, r.left) EXCEPT !.taken = @ \cup r.taken]

\* ext4_ext_convert_to_initialized, for one block.
Convert(x, p, l, pool) ==
  CASE AtEnd(x, p, l) -> SplitExtentAt(x, p, l, TRUE, FALSE, pool)
    [] Found(x, p).first = l -> SplitExtentAt(x, p, l + 1, FALSE, TRUE, pool)
    [] OTHER -> SplitAgain(SplitExtentAt(x, p, l + 1, TRUE, TRUE, pool), l)

-----------------------------------------------------------------------------
(* Truncating, to the end of the file: what ext4_fs_truncate_inode asks of *)
(* ext4_extent_remove_space.                                               *)

\* ext4_ext_remove_leaf and ext4_ext_remove_idx: what is left of a node of the
\* path to from, k levels above the leaf, given whether its child is empty.
CutLeaf(ents, from) ==
  LET keep == SelectSeq(ents, LAMBDA e : e.first < from)
      cut(e) == IF End(e) > from
                THEN Extent(e.first, Mark(Unwritten(e), from - e.first), e.pb) ELSE e
  IN  [i \in DOMAIN keep |-> cut(keep[i])]

\* What is left in a node above: the entry of a node goes when nothing is left in
\* it, and has the key of what comes first there by now.
CutIndex(x, ents, rest) ==
  LET keep == SelectSeq(ents, LAMBDA e : rest[e.pb] # <<>>)
      key(e) == IF rest[e.pb][1].first = Entries(x, e.pb)[1].first
                THEN e.first ELSE rest[e.pb][1].first
  IN  [i \in DOMAIN keep |-> Index(key(keep[i]), keep[i].pb)]

\* The tree when the leaf of the path to from was cut, and the leaves in done emptied.
Pruned(x, p, from, done) ==
  LET leaf(n) == CASE n = LeafOf(p).n -> CutLeaf(Entries(x, n), from)
                   [] n \in done -> <<>>
                   [] OTHER -> Entries(x, n)
      rest[d \in 0 .. x[Root].depth] ==
        IF d = 0 THEN [n \in Leaves(x) |-> leaf(n)]
        ELSE LET below == rest[d - 1]
             IN  [n \in {m \in DOMAIN x : x[m].depth = d} |->
                    CutIndex(x, Entries(x, n), below)] @@ below
      left == rest[x[Root].depth]
      y == [n \in DOMAIN x |-> [x[n] EXCEPT !.ents = left[n]]]
  IN  IF Entries(y, Root) = <<>> THEN [y EXCEPT ![Root].depth = 0] ELSE y

\* The nodes a tree reaches, level by level.
Below(x, s) ==
  {Entries(x, n)[i].pb : <<n, i>> \in {<<n, i>> \in s \X (1 .. NodeMax) :
                                       x[n].depth > 0 /\ i \in DOMAIN Entries(x, n)}}
Nodes(x) ==
  LET reach[k \in 0 .. x[Root].depth] ==
        IF k = 0 THEN {Root} ELSE LET s == reach[k - 1] IN s \cup Below(x, s)
  IN  reach[x[Root].depth]

Trim(x) == [n \in Nodes(x) |-> x[n]]

Extents(x) == UNION {Range(Entries(x, n)) : n \in Leaves(x)}

\* The mapping of the file: every block of every extent.
Mapped(e) == {[l |-> e.first + k, pb |-> e.pb + k, written |-> ~Unwritten(e)] :
                k \in 0 .. ActualLen(e) - 1}
MapOf(x) == UNION {Mapped(e) : e \in Extents(x)}
DataOf(x) == UNION {e.pb .. e.pb + ActualLen(e) - 1 : e \in Extents(x)}

-----------------------------------------------------------------------------
(* The calls.                                                              *)

\* Where the code leaves the path its comments describe:
\*   prepend  a block joined to the front of an extent takes over its old place,
\*   mixed    a block joined to an unwritten extent counts as unwritten,
\*   middle   the middle of an unwritten extent splits the wrong extent,
\*   exposed  an unwritten extent that cannot be split becomes written,
\*   lost     entries moved to a new node go with it when a later split fails,
\*   hole     truncation from inside a hole leaves what follows the hole.
Slip(on, name) == IF on THEN {name} ELSE {}

Init ==
  /\ t \in FirstTrees
  /\ free = Phys \ (DataOf(t) \cup DOMAIN t)
  /\ slips = {}
  /\ ops = 0

\* Once the code has departed from its specification nothing is followed further.
Call == slips = {} /\ ops < MaxOps /\ ops' = ops + 1

\* The blocks the allocator gives for nodes, highest first, most of them at most;
\* it may fail at any of them.
Pools(blocks, most) ==
  LET higher(b) == Cardinality({c \in blocks : c > b})
      all == [k \in 1 .. Cardinality(blocks) |-> CHOOSE b \in blocks : higher(b) = k - 1]
  IN  {SubSeq(all, 1, k) : k \in 0 .. Min({Len(all), most})}

\* ext4_ext_find_goal: the extent's block that l would have, the next ones from
\* some place if the leaf is empty; the allocator takes the next one that is free.
Goal(p, l) == IF LeafOf(p).at = 0 THEN 0 ELSE Found(t, p).pb + l - Found(t, p).first

GoalOrNext(p, l) ==
  LET after == {b \in free : b >= Goal(p, l)} IN IF after # {} THEN Min(after) ELSE Min(free)

FilledBy(r, p, e) ==
  LET joins == r.ok /\ Merges(t, p, e)
  IN  /\ t' = r.t
      /\ free' = free \ (r.taken \cup Slip(r.ok, e.pb))
      /\ slips' = Slip(joins /\ ~CanAppend(Found(t, p), e), "prepend")
                  \cup Slip(joins /\ Unwritten(Found(t, p)), "mixed")
                  \cup Slip(r.lost, "lost")

\* ext4_extent_get_blocks with create, of a block in a hole.
FillHole(l) ==
  LET p == FindExtent(t, l)
  IN  /\ Call
      /\ ~Finds(t, p, l)
      /\ free # {}
      /\ \E pool \in Pools(free \ {GoalOrNext(p, l)}, Len(p) + 1) :
           LET e == Extent(l, 1, GoalOrNext(p, l))
           IN  FilledBy(InsertExtent(t, p, e, TRUE, pool), p, e)

InitialisedBy(r, middle) ==
  /\ t' = r.t
  /\ free' = free \ r.taken
  /\ slips' = Slip(~r.ok, "exposed") \cup Slip(r.lost, "lost") \cup Slip(middle, "middle")

\* ext4_extent_get_blocks with create, of a block of an unwritten extent.
Initialise(l) ==
  LET p == FindExtent(t, l)
  IN  /\ Call
      /\ Finds(t, p, l) /\ Unwritten(Found(t, p))
      /\ \E pool \in Pools(free, 2 * Len(p) + 2) :
           InitialisedBy(Convert(t, p, l, pool), InMiddle(t, p, l))

\* The leaves that begin behind from, which are read one after the other.
Behind(from) == {n \in Leaves(t) : Entries(t, n) # <<>> /\ Entries(t, n)[1].first > from}

\* What ext4_extent_remove_space has freed when it has been through the leaves in done.
RemovedUpTo(from, done) ==
  LET y == Trim(Pruned(t, FindExtent(t, from), from, done))
  IN  /\ t' = y
      /\ free' = free \cup (DataOf(t) \ DataOf(y)) \cup (DOMAIN t \ DOMAIN y)

\* ext4_extent_remove_space up to EXT_MAX_BLOCKS; from a hole it removes nothing.
RemoveSpace(from) ==
  LET found == Finds(t, FindExtent(t, from), from)
  IN  /\ Call
      /\ IF found THEN RemovedUpTo(from, Behind(from)) ELSE UNCHANGED <<t, free>>
      /\ slips' = Slip(~found /\ \E m \in MapOf(t) : m.l > from, "hole")

\* A leaf, or a node above it, cannot be read: what comes before it is gone.
RemoveSpaceFails(from) ==
  /\ Call
  /\ Finds(t, FindExtent(t, from), from)
  /\ \E n \in Behind(from) :
       RemovedUpTo(from, {m \in Behind(from) :
                            Entries(t, m)[1].first < Entries(t, n)[1].first})
  /\ slips' = {}

Next ==
  \E l \in Logical : FillHole(l) \/ Initialise(l) \/ RemoveSpace(l) \/ RemoveSpaceFails(l)

Spec == Init /\ [][Next]_vars

-----------------------------------------------------------------------------
(* Properties.                                                             *)

\* Every entry of the tree that covers l, wherever it is.
Holding(x, l) ==
  {<<n, i>> \in Leaves(x) \X (1 .. NodeMax) :
     i \in DOMAIN Entries(x, n) /\ Covers(Entries(x, n)[i], l)}

\* Nodes hold no more than they have room for, and what the children of a node of
\* some depth are is nodes of the depth below: ext4_ext_check on every node.
TypeOK ==
  /\ Nodes(t) = DOMAIN t
  /\ \A n \in DOMAIN t :
       /\ Len(Entries(t, n)) <= Capacity(n)
       /\ \A i \in DOMAIN Entries(t, n) :
            t[n].depth > 0 => t[Entries(t, n)[i].pb].depth = t[n].depth - 1
  /\ free \subseteq Phys
  /\ ops \in 0 .. MaxOps

\* Two extents of a file never overlap, and the search along the keys of the index
\* nodes (ext4_find_extent) finds the one that covers a block if there is one:
\* splits, new levels and moved first extents leave every key as the search needs
\* it, as long as the file did not meet one of the slips.
EveryExtentFound ==
  slips = {} =>
    \A l \in Logical :
      LET p == FindExtent(t, l)
      IN  Holding(t, l) = IF Finds(t, p, l) THEN {<<LeafOf(p).n, LeafOf(p).at>>} ELSE {}

\* Every block of the device is free, holds one node of the tree or one block of
\* the file, and is only one of those: failed insertions give back what they took,
\* truncation frees the data and the nodes it empties.
BlocksAccounted ==
  slips = {} =>
    /\ free \cup DataOf(t) \cup (DOMAIN t \ {Root}) = Phys
    /\ Cardinality(MapOf(t)) + Cardinality(DOMAIN t \ {Root}) + Cardinality(free)
         = Cardinality(Phys)

\* The comment of ext4_ext_convert_to_initialized, "split 1 extent to 3 and
\* initialize the 2nd": afterwards as before no logical block is in two extents.
ThreePartsDisjoint == \A l \in Logical : Cardinality(Holding(t, l)) <= 1

\* What the rest of the file system relies on: see FileMap.
Map == INSTANCE FileMap WITH map <- MapOf(t), intact <- slips = {}

\* Each call gives one logical block its block, or takes away the end of the file,
\* and changes the mapping of no other block. A call that fails changes nothing,
\* but for a truncation that cannot read the tree: it has taken the blocks from the
\* new end up to some point and no others, so a hole is what it leaves.
ImplementsFileMap == Map!Spec

=============================================================================
