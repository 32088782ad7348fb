------------------------------ MODULE DirIndex ------------------------------
(***************************************************************************)
(* The entries of one directory: hashed (ext4_dir_idx.c), as this formatter*)
(* makes it, or a plain list of blocks (ext4_dir.c), as file systems       *)
(* without dir_index have it; adding, finding and removing entries, and    *)
(* reading the directory with ext4_dir_entry_next while it changes.        *)
(*                                                                         *)
(* A block holds records: a name, or Void where none is in use, and the    *)
(* length up to the next record.  A block of the index also has entries, a *)
(* hash and a block each; the first has no hash, count and limit are kept  *)
(* in its place.  The block of the root counts as one record.              *)
(***************************************************************************)
EXTENDS Integers, Sequences, FiniteSets, FiniteSetsExt, SequencesExt

CONSTANTS
  Name,       \* names
  Hash,       \* of a name: even, ext4_htree hashes have bit 0 clear
  Size,       \* of the record a name needs
  LeafSize,   \* size of a block
  RootMax,    \* entries of the root of an index
  NodeMax,    \* entries of any other block of an index
  MaxBlocks,  \* bound on the blocks of the directory
  Departures  \* which of the departures below a run follows

Void == "void"
Dots == "dots"

ASSUME DirAssumption ==
  /\ LeafSize \in Nat \ {0} /\ MaxBlocks \in Nat \ 0 .. 1
  /\ Void \notin Name /\ Dots \notin Name
  /\ \A n \in Name : Hash[n] \in Nat /\ Hash[n] % 2 = 0
  /\ \A n \in Name : Size[n] \in 1 .. LeafSize \div 2
  /\ RootMax \in Nat \ 0 .. 1 /\ NodeMax \in Nat /\ RootMax < NodeMax

VARIABLES
  dir,    \* the directory: whether it is hashed, levels of the index, blocks
  there,  \* the names whose addition returned EOK and that were not removed
  rd      \* an open ext4_dir: the place of the next record; of the names that were
          \* there all the time and in their place, those it has to return yet and those
          \* it has returned; whether an error ended it

vars == <<dir, there, rd>>

\* What the code does beyond what the calls promise; a run follows one only if
\* Departures has it:
\*   sparse    the records of a leaf that is split fit in half a block,
\*   unplaced  the half of a split leaf that is chosen has no room for the new name.
May(name) == name \in Departures

Half == LeafSize \div 2
End == <<0, 0>>
NotReading == [at |-> End, due |-> {}, got |-> {}, again |-> FALSE, cut |-> FALSE]

-----------------------------------------------------------------------------
(* Records of a block.                                                     *)

Rec(n, len) == [n |-> n, len |-> len]
Used(n) == IF n = Dots THEN 1 ELSE Size[n]

\* The sum of the first k of a sequence of numbers.
SumTo(f, k) ==
  LET sum[i \in 0 .. k] == IF i = 0 THEN 0 ELSE sum[i - 1] + f[i] IN sum[k]

Start(s, i) == SumTo([j \in DOMAIN s |-> s[j].len], i - 1)
Total(s) == Start(s, Len(s) + 1)
Holds(s, n) == \E i \in DOMAIN s : s[i].n = n
Names(s) == {s[i].n : i \in DOMAIN s} \ {Void, Dots}

\* The first record a name of Size[n] fits in, unused or behind the name that is in it.
HasRoom(r, n) == r.len - (IF r.n = Void THEN 0 ELSE Used(r.n)) >= Size[n]
Roomy(s, n) == {i \in DOMAIN s : HasRoom(s[i], n)}

\* ext4_dir_try_insert_entry, where there is room.
Insert(s, n) ==
  LET i == Min(Roomy(s, n))
      r == s[i]
  IN  IF r.n = Void THEN [s EXCEPT ![i].n = n]
      ELSE InsertAt([s EXCEPT ![i].len = Used(r.n)], i + 1, Rec(n, r.len - Used(r.n)))

\* Mutant of Cut: the record before does not take over the length.
CutAlone(s, n) ==
  LET i == Min({j \in DOMAIN s : s[j].n = n})
  IN  IF i = 1 THEN [s EXCEPT ![1].n = Void] ELSE RemoveAt(s, i)

\* The removal of a name: its record joins the one before it.
Cut(s, n) ==
  LET i == Min({j \in DOMAIN s : s[j].n = n})
  IN  IF i = 1 THEN [s EXCEPT ![1].n = Void]
      ELSE RemoveAt([s EXCEPT ![i - 1].len = @ + s[i].len], i)

-----------------------------------------------------------------------------
(* The index.  A path is a sequence of blocks with a position in each, from*)
(* the root (block 1) down to the block whose entries are leaves.          *)

Entry(h, b) == [h |-> h, b |-> b]
Block(records, ents) == [records |-> records, ents |-> ents]
Ents(d, b) == d.blocks[b].ents
Records(d, b) == d.blocks[b].records
Limit(b) == IF b = 1 THEN RootMax ELSE NodeMax
Target(d, p) == Ents(d, Last(p).b)[Last(p).at]

\* The last entry of a block of the index that begins at h or before it.
Position(es, h) == Max({1} \cup {i \in 2 .. Len(es) : es[i].h <= h})

\* ext4_dir_dx_get_leaf.
GetLeaf(d, h) ==
  LET root == <<[b |-> 1, at |-> Position(Ents(d, 1), h)]>>
      node == Target(d, root).b
  IN  IF d.levels = 0 THEN root
      ELSE Append(root, [b |-> node, at |-> Position(Ents(d, node), h)])

\* Whether a leaf with this key may hold names of hash h: bit 0 of a key says that the
\* leaf continues the hash of the one before.
Same(key, h) == (key \div 2) * 2 = h

\* ext4_dir_dx_next_block: the path to the next leaf, <<>> if h cannot be there.
NextBlock(d, h, p) ==
  LET open == {k \in DOMAIN p : p[k].at < Len(Ents(d, p[k].b))}
      k == Max(open)
      q == [SubSeq(p, 1, k) EXCEPT ![k].at = @ + 1]
  IN  IF open = {} THEN <<>>
      ELSE IF ~Same(Target(d, q).h, h) THEN <<>>
      ELSE IF k = Len(p) THEN q
      ELSE Append(q, [b |-> Target(d, q).b, at |-> 1])

\* ext4_dir_dx_find_entry: the path to the leaf that holds n, <<>> if none is found.
DxFind(d, n) ==
  LET step(p) == IF p = <<>> THEN p
                 ELSE IF Holds(Records(d, Target(d, p).b), n) THEN p
                 ELSE NextBlock(d, Hash[n], p)
      at[k \in 0 .. MaxBlocks] == IF k = 0 THEN GetLeaf(d, Hash[n]) ELSE step(at[k - 1])
  IN  at[MaxBlocks]

\* ext4_dir_find_entry: the block that holds n, 0 if none.
Find(d, n) ==
  IF d.indexed
  THEN LET p == DxFind(d, n) IN IF p = <<>> THEN 0 ELSE Target(d, p).b
  ELSE LET bs == {b \in DOMAIN d.blocks : Holds(Records(d, b), n)}
       IN  IF bs = {} THEN 0 ELSE Min(bs)

-----------------------------------------------------------------------------
(* Splitting.  Blocks are appended to the directory.                       *)

New(d) == Len(d.blocks) + 1
CanAppend(d) == Len(d.blocks) < MaxBlocks
Whole(n) == <<Rec(n, LeafSize)>>

InsertEntry(d, at, h, b) ==
  [d EXCEPT !.blocks[at.b].ents = InsertAt(@, at.at + 1, Entry(h, b))]

IndexFull(d, p) == Len(Ents(d, Last(p).b)) = Limit(Last(p).b)
RootFull(d, p) == Len(p) = 2 /\ Len(Ents(d, 1)) = RootMax

\* ext4_dir_dx_split_index of the root: its entries move to a block of their own.
Grow(d, p) ==
  [d |-> [d EXCEPT !.levels = 1,
            !.blocks = Append([@ EXCEPT ![1].ents = <<Entry(0, New(d))>>],
                              Block(Whole(Void), Ents(d, 1)))],
   p |-> <<[b |-> 1, at |-> 1], [b |-> New(d), at |-> p[1].at]>>]

\* The path after the entries behind left have moved to a new block.
Halved(d, p, left) ==
  IF p[2].at > left THEN [p EXCEPT ![2] = [b |-> New(d), at |-> @.at - left]] ELSE p

\* ext4_dir_dx_split_index of another block: half of its entries move.
Halve(d, p) ==
  LET es == Ents(d, p[2].b)
      left == Len(es) \div 2
      right == [SubSeq(es, left + 1, Len(es)) EXCEPT ![1].h = 0]
      cut == [d EXCEPT !.blocks = Append([@ EXCEPT ![p[2].b].ents = SubSeq(es, 1, left)],
                                         Block(Whole(Void), right))]
  IN  [d |-> InsertEntry(cut, p[1], es[left + 1].h, New(d)), p |-> Halved(d, p, left)]

SplitIndex(d, p) ==
  IF ~IndexFull(d, p) THEN [d |-> d, p |-> p]
  ELSE IF Len(p) = 1 THEN Grow(d, p)
  ELSE Halve(d, p)

\* The orders qsort can put the names of a leaf in.
Sorted(names) ==
  {s \in SetToSeqs(names) : \A i, j \in DOMAIN s : i < j => Hash[s[i]] <= Hash[s[j]]}

\* The room the first k of these names need.
SizeTo(s, k) == SumTo([j \in DOMAIN s |-> Size[s[j]]], k)

\* Records one behind the other, the last with the rest of the block.
Packed(s) ==
  [i \in DOMAIN s |-> Rec(s[i], IF i < Len(s) THEN Size[s[i]]
                                ELSE LeafSize - SizeTo(s, i - 1))]

\* Mutant of Continued: the key of the second part is the hash of its first name.
ContinuedNever(s, mid) == 0

Continued(s, mid) == IF Hash[s[mid]] = Hash[s[mid + 1]] THEN 1 ELSE 0

\* ext4_dir_dx_split_data: what each block holds and the key of the second.  When all
\* fits in half a block mid stays 0: the first part is not written, the second is
\* everything, and the key is 0 or 1 with the memory before the array.
Parts(s, old) ==
  LET over == {i \in DOMAIN s : SizeTo(s, i) > Half}
      mid == Min(over) - 1
  IN  IF over = {}
      THEN {[left |-> old, right |-> Packed(s), key |-> c] : c \in 0 .. 1}
      ELSE {[left |-> Packed(SubSeq(s, 1, mid)), right |-> Packed(SubSeq(s, mid + 1, Len(s))),
             key |-> Hash[s[mid + 1]] + Continued(s, mid)]}

SplitData(d, p, leaf, part) ==
  InsertEntry([d EXCEPT !.blocks = Append([@ EXCEPT ![leaf].records = part.left],
                                          Block(part.right, <<>>))],
              Last(p), part.key, New(d))

-----------------------------------------------------------------------------
(* Reading: a place is a block and an offset in it.                        *)

RecordAt(d, at) ==
  {i \in DOMAIN Records(d, at[1]) : Start(Records(d, at[1]), i) = at[2]}

\* The records in use of the blocks from b on, of b only those behind the first i.
Ahead(d, b, i) ==
  {x \in (b .. Len(d.blocks)) \X (1 .. LeafSize) :
     /\ x[1] > b \/ x[2] > i
     /\ x[2] \in DOMAIN Records(d, x[1]) /\ Records(d, x[1])[x[2]].n # Void}

FirstOf(d, ahead) ==
  IF ahead = {} THEN End
  ELSE LET b == Min({x[1] : x \in ahead})
           i == Min({x[2] : x \in {y \in ahead : y[1] = b}})
       IN  <<b, Start(Records(d, b), i)>>

\* Mutant of After: a block with no record in use ends the reading.
AfterInBlock(d, b, i) == FirstOf(d, {x \in Ahead(d, b, i) : x[1] <= b + 1})

\* ext4_dir_iterator_next.
After(d, b, i) == FirstOf(d, Ahead(d, b, i))

\* No record begins at the place of the reading any more: it was removed, and joined the
\* one before, or the leaf was split.  What is there are bytes of former records.
Outdated(d) == rd.at # End /\ RecordAt(d, rd.at) = {}

\* The reading, its place kept, after the directory has become d: of the names in kept
\* those remain that were not carried over its place and that it can still come to.
ReadingIn(d, carried, kept) ==
  LET missed == IF Outdated(d) THEN Names(Records(d, rd.at[1])) ELSE {}
  IN  [rd EXCEPT !.due = (@ \cap kept) \ (carried \cup missed),
                 !.got = (@ \cap kept) \ carried]

\* The names that a split of leaf b carries over the place of the reading, or may: in b
\* itself all are put elsewhere; from a leaf behind the place they go to the end.
Carried(b, part) ==
  (IF rd.at[1] = b THEN Names(part.left) ELSE {})
    \cup (IF rd.at[1] >= b THEN Names(part.right) ELSE {})

-----------------------------------------------------------------------------
(* The calls.                                                              *)

\* ext4_dir_dx_init, as ext4_link and ext4_mkfs call it for a new directory.
Hashed ==
  [indexed |-> TRUE, levels |-> 0,
   blocks |-> <<Block(Whole(Dots), <<Entry(0, 2)>>), Block(Whole(Void), <<>>)>>]

\* A new directory without an index: '.' and '..' in its first block.
Plain == [indexed |-> FALSE, levels |-> 0, blocks |-> <<Block(Whole(Dots), <<>>)>>]

Init ==
  /\ dir \in {Hashed, Plain}
  /\ there = {}
  /\ rd = NotReading

Added(d, n, carried) ==
  dir' = d /\ there' = there \cup {n} /\ rd' = ReadingIn(d, carried, there)

\* ext4_dir_add_entry, where there is no index.
AddPlain(n) ==
  LET bs == {b \in DOMAIN dir.blocks : Roomy(Records(dir, b), n) # {}}
      b == Min(bs)
  IN  /\ ~dir.indexed /\ Find(dir, n) = 0
      /\ IF bs # {} THEN Added([dir EXCEPT !.blocks[b].records = Insert(@, n)], n, {})
         ELSE /\ CanAppend(dir)
              /\ Added([dir EXCEPT !.blocks = Append(@, Block(Whole(n), <<>>))], n, {})

\* ext4_dir_dx_add_entry: the name was looked for before, by ext4_generic_open2, and a
\* full block of the index is split first, whether the leaf needs it or not.  If that
\* fails the code goes on with a block it never got; such calls are not followed.
Path(n) == GetLeaf(dir, Hash[n])
Leaf(n) == Target(dir, Path(n)).b
Split(n) == SplitIndex(dir, Path(n))

DxMayAdd(n) ==
  /\ dir.indexed /\ Find(dir, n) = 0
  /\ IndexFull(dir, Path(n)) => CanAppend(dir) /\ ~RootFull(dir, Path(n))

DxAddInLeaf(n) ==
  /\ DxMayAdd(n) /\ Roomy(Records(dir, Leaf(n)), n) # {}
  /\ Added([Split(n).d EXCEPT !.blocks[Leaf(n)].records = Insert(@, n)], n, {})

\* The leaf is full and no block can be appended: the split of the index stays.
DxAddFails(n) ==
  /\ DxMayAdd(n) /\ Roomy(Records(dir, Leaf(n)), n) = {}
  /\ dir' = Split(n).d
  /\ rd' = ReadingIn(dir', {}, there)
  /\ UNCHANGED there

\* The block the name goes to after the split.
Chosen(h, key, old, new) == IF h >= key THEN new ELSE old

\* The leaf is split; the result of the second attempt to insert is not looked at.
DxAddSplitting(n) ==
  LET old == Records(dir, Leaf(n))
      x == Split(n)
  IN  /\ DxMayAdd(n) /\ Roomy(old, n) = {} /\ CanAppend(x.d)
      /\ \E s \in Sorted(Names(old)) : \E part \in Parts(s, old) :
           LET d == SplitData(x.d, x.p, Leaf(n), part)
               b == Chosen(Hash[n], part.key, Leaf(n), New(x.d))
               fits == Roomy(Records(d, b), n) # {}
           IN  /\ SizeTo(s, Len(s)) <= Half => May("sparse")
               /\ fits \/ May("unplaced")
               /\ Added(IF fits THEN [d EXCEPT !.blocks[b].records = Insert(@, n)] ELSE d,
                        n, Carried(Leaf(n), part))

\* ext4_dir_remove_entry.
RemoveEntry(n) ==
  LET b == Find(dir, n)
  IN  /\ b # 0
      /\ dir' = [dir EXCEPT !.blocks[b].records = Cut(@, n)]
      /\ there' = there \ {n}
      /\ rd' = ReadingIn(dir', {}, there')

\* ext4_dir_open, ext4_dir_entry_rewind.
Rewind ==
  /\ rd' = [NotReading EXCEPT !.at = <<1, 0>>, !.due = there]
  /\ UNCHANGED <<dir, there>>

\* ext4_dir_entry_next: a record that begins at the place.
EntryNext ==
  /\ rd.at # End
  /\ \E i \in RecordAt(dir, rd.at) :
       LET n == Records(dir, rd.at[1])[i].n
           next == After(dir, rd.at[1], i)
       IN  rd' = [at |-> next, due |-> rd.due \ {n}, again |-> rd.again \/ n \in rd.got,
                  got |-> IF next = End THEN {} ELSE rd.got \cup ({n} \cap rd.due),
                  cut |-> FALSE]
  /\ UNCHANGED <<dir, there>>

\* The same where none does.  A former record may be returned, which counts for nothing;
\* with what is taken for its length the reading goes on in the block or behind it.
\* Bytes that cannot be a record are EIO, for which the caller gets NULL.
EntryNextOutdated ==
  /\ Outdated(dir)
  /\ \/ \E o \in rd.at[2] + 1 .. LeafSize - 1 : rd' = [rd EXCEPT !.at[2] = o]
     \/ LET next == After(dir, rd.at[1], LeafSize)
        IN  rd' = [rd EXCEPT !.at = next, !.got = IF next = End THEN {} ELSE @]
     \/ rd' = [rd EXCEPT !.at = End, !.got = {}, !.cut = TRUE]
  /\ UNCHANGED <<dir, there>>

Next ==
  \/ \E n \in Name : AddPlain(n) \/ DxAddInLeaf(n) \/ DxAddFails(n) \/ DxAddSplitting(n)
  \/ \E n \in Name : RemoveEntry(n)
  \/ Rewind
  \/ EntryNext
  \/ EntryNextOutdated

Spec == Init /\ [][Next]_vars

-----------------------------------------------------------------------------
(* Properties.                                                             *)

\* The blocks whose records hold n, as often as they do.
Listed(n) ==
  {x \in (DOMAIN dir.blocks) \X (1 .. LeafSize) :
     x[2] \in DOMAIN Records(dir, x[1]) /\ Records(dir, x[1])[x[2]].n = n}

\* Type correctness: the records of a block fill it, each with room for its name, the
\* blocks of the index are within their limits, and the keys ascend.
TypeOK ==
  /\ dir.indexed \in BOOLEAN /\ dir.levels \in 0 .. 1
  /\ there \subseteq Name /\ rd.due \subseteq there /\ rd.got \subseteq there
  /\ Len(dir.blocks) \in 1 .. MaxBlocks
  /\ \A b \in DOMAIN dir.blocks :
       /\ Total(Records(dir, b)) = LeafSize
       /\ \A i \in DOMAIN Records(dir, b) :
            Records(dir, b)[i].n # Void => Records(dir, b)[i].len >= Used(Records(dir, b)[i].n)
       /\ Len(Ents(dir, b)) <= Limit(b)
       /\ \A i, j \in 2 .. Len(Ents(dir, b)) : i < j => Ents(dir, b)[i].h <= Ents(dir, b)[j].h

\* However leaves and index have been split, with hashes that collide across leaves, a
\* name that was added and not removed is found, once and only once in the directory,
\* and no other name is.
NamesFoundOnce ==
  \A n \in Name :
    /\ Find(dir, n) # 0 <=> n \in there
    /\ Cardinality(Listed(n)) = IF n \in there THEN 1 ELSE 0

\* A reading that keeps its place while names are added and removed before, at and behind
\* it, and while leaves are split: unless an error ends it, it has returned every name
\* that was there all the time, and none of them twice.  Excepted are the names that a
\* split carried over its place, which it may repeat or miss, and those in the rest of a
\* block whose records are no longer where it goes on.
ReadingExact ==
  /\ ~rd.again
  /\ rd.at = End /\ ~rd.cut => rd.due = {}

\* A place within the bytes of a name that is in use.
Within(d, at) ==
  \E i \in DOMAIN Records(d, at[1]) :
    LET r == Records(d, at[1])[i]
        o == Start(Records(d, at[1]), i)
    IN  r.n # Void /\ o < at[2] /\ at[2] < o + Used(r.n)

\* "Directory entry id (NULL if no entry)" (ext4.h:610): when a reading whose place is
\* now within a name ends, no name of the blocks behind it is due.
NullMeansEnd ==
  [][rd.at # End /\ rd'.at = End /\ Within(dir, rd.at) => rd'.due = {}]_vars

\* "Distribute entries to two blocks (by size)": no name is in two records.
EntriesDistributed == \A n \in Name : Cardinality(Listed(n)) <= 1
=============================================================================
