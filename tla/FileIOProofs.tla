---------------------------- MODULE FileIOProofs ----------------------------
(***************************************************************************)
(* Proofs about FileIO, for every number of handles, block size, length of *)
(* the file and step of a truncation, and any number of failures.          *)
(*                                                                         *)
(* The inductive invariant is what the runs check, and that no handle is   *)
(* behind the end of the file as it knows it: from there ext4_fseek could  *)
(* go anywhere.                                                            *)
(***************************************************************************)
EXTENDS FileIO, FiniteSetTheorems, NumberFacts, TLAPS

-----------------------------------------------------------------------------
(***************************************************************************)
(* Positions and blocks.                                                   *)
(***************************************************************************)

\* The number of blocks of n bytes.
LEMMA BlocksOfSize ==
    ASSUME NEW n \in Nat
    PROVE  /\ Blocks(n) \in Nat
           /\ BlockSize * Blocks(n) \in Nat
           /\ n <= BlockSize * Blocks(n) /\ BlockSize * Blocks(n) < n + BlockSize
  <1>1. BlockSize \in Nat \ {0}
    BY SizeAssumption
  <1>2. /\ Blocks(n) \in Nat
        /\ n <= BlockSize * Blocks(n) /\ BlockSize * Blocks(n) < n + BlockSize
    BY <1>1, DivUp DEF Blocks
  <1>3. BlockSize * Blocks(n) \in Nat
    BY <1>1, <1>2
  <1> QED
    BY <1>2, <1>3

\* A block is one of the first n bytes' if it begins before n.
LEMMA BlockBegins ==
    ASSUME NEW n \in Nat, NEW j \in Nat
    PROVE  /\ BlockSize * j \in Nat
           /\ (BlockSize * j) \div BlockSize = j
           /\ j < Blocks(n) <=> BlockSize * j < n
  <1>1. BlockSize \in Nat \ {0} /\ Blocks(n) \in Nat
    BY SizeAssumption, BlocksOfSize
  <1>2. BlockSize * j \in Nat /\ (BlockSize * j) \div BlockSize = j
    <2>1. 0 \in 0 .. BlockSize - 1 /\ BlockSize * j \in Nat /\ BlockSize * j + 0 = BlockSize * j
      BY <1>1
    <2> QED
      BY <1>1, <2>1, DivModOf
  <1> DEFINE x == BlockSize * j
             y == BlockSize * Blocks(n)
  <1>3. j < Blocks(n) => x + BlockSize <= y
    BY <1>1, Times
  <1>4. Blocks(n) <= j => y <= x
    BY <1>1, Times
  <1>5. y \in Nat /\ n <= y /\ y < n + BlockSize
    BY BlocksOfSize
  <1> HIDE DEF x, y
  <1>6. j < Blocks(n) <=> x < n
    <2>1. x \in Nat
      BY <1>2 DEF x
    <2> QED
      BY <1>1, <1>3, <1>4, <1>5, <2>1
  <1> QED
    BY <1>2, <1>6 DEF x

\* The block of a byte.
LEMMA BlockOfByte ==
    ASSUME NEW n \in Nat, NEW i \in Nat
    PROVE  /\ i \div BlockSize \in Nat
           /\ i \div BlockSize < Blocks(n) <=> BlockSize * (i \div BlockSize) < n
           /\ i < n => i \div BlockSize < Blocks(n)
  <1> DEFINE j == i \div BlockSize
  <1>1. BlockSize \in Nat \ {0}
    BY SizeAssumption
  <1>2. j \in Nat /\ BlockSize * j <= i
    BY <1>1, DivMod
  <1> HIDE DEF j
  <1>3. BlockSize * j \in Nat /\ (j < Blocks(n) <=> BlockSize * j < n)
    BY <1>2, BlockBegins
  <1>4. i < n => BlockSize * j < n
    BY <1>2, <1>3
  <1> QED
    BY <1>2, <1>3, <1>4 DEF j

\* More bytes have more blocks.
LEMMA BlocksMonotonic ==
    ASSUME NEW m \in Nat, NEW n \in Nat, m <= n
    PROVE  Blocks(m) <= Blocks(n)
  <1>1. Blocks(m) \in Nat /\ Blocks(n) \in Nat
    BY BlocksOfSize
  <1>2. SUFFICES ASSUME Blocks(n) < Blocks(m)
                 PROVE  FALSE
    BY <1>1
  <1>3. BlockSize * Blocks(n) < m
    BY <1>1, <1>2, BlockBegins
  <1>4. n <= BlockSize * Blocks(n) /\ BlockSize * Blocks(n) \in Nat
    BY BlocksOfSize
  <1> QED
    BY <1>3, <1>4

\* What a write appends: whole blocks, behind the last one or behind the last byte.
LEMMA BlocksAppended ==
    ASSUME NEW n \in Nat, NEW m \in Nat
    PROVE  /\ n + BlockSize * m \in Nat /\ Blocks(n + BlockSize * m) = Blocks(n) + m
           /\ Blocks(BlockSize * m) = m
  <1> DEFINE a == n + BlockSize - 1
             r == a % BlockSize
  <1>1. BlockSize \in Nat \ {0} /\ a \in Nat /\ Blocks(n) \in Nat
    BY SizeAssumption, BlocksOfSize
  <1>2. r \in 0 .. BlockSize - 1 /\ a = BlockSize * Blocks(n) + r
    BY <1>1, DivMod DEF Blocks
  <1> HIDE DEF r
  <1>3. n + BlockSize * m \in Nat
        /\ n + BlockSize * m + BlockSize - 1 = BlockSize * (Blocks(n) + m) + r
    <2> DEFINE x == BlockSize * m
               y == BlockSize * Blocks(n)
    <2>1. x \in Nat /\ y \in Nat /\ BlockSize * (Blocks(n) + m) = y + x
      BY <1>1
    <2> HIDE DEF x, y
    <2>2. n + BlockSize - 1 = y + r
      BY <1>2 DEF y
    <2>3. n + x \in Nat /\ n + x + BlockSize - 1 = y + x + r
      BY <1>1, <1>2, <2>1, <2>2
    <2> QED
      BY <2>1, <2>3 DEF x
  <1>4. Blocks(n) + m \in Nat
    BY <1>1
  <1>5. (BlockSize * (Blocks(n) + m) + r) \div BlockSize = Blocks(n) + m
    BY <1>1, <1>2, <1>4, DivModOf
  <1>6. Blocks(n + BlockSize * m) = Blocks(n) + m
    BY <1>3, <1>5 DEF Blocks
  <1>7. Blocks(BlockSize * m) = m
    <2>1. BlockSize - 1 \in 0 .. BlockSize - 1
          /\ BlockSize * m + BlockSize - 1 = BlockSize * m + (BlockSize - 1)
      BY <1>1
    <2> QED
      BY <1>1, <2>1, DivModOf DEF Blocks
  <1> QED
    BY <1>3, <1>6, <1>7

\* The limit is at the end of a block.
LEMMA LimitBlocks == Limit \in Nat /\ BlockSize * Blocks(Limit) = Limit
  <1>1. Limit \in Nat /\ BlockSize \in Nat \ {0} /\ Limit % BlockSize = 0
    BY SizeAssumption
  <1> DEFINE m == Limit \div BlockSize
  <1>2. m \in Nat /\ Limit = BlockSize * m + 0
    BY <1>1, DivMod
  <1> HIDE DEF m
  <1>3. Limit = BlockSize * m
    BY <1>1, <1>2
  <1> QED
    BY <1>1, <1>2, <1>3, BlocksAppended

\* The parts of a transfer end between its ends.
LEMMA BetweenFacts ==
    ASSUME NEW a \in Nat, NEW b \in Nat, a <= b, NEW k \in Between(a, b)
    PROVE  k \in Nat /\ a <= k /\ k <= b
  <1>1. BlockSize \in Nat \ {0}
    BY SizeAssumption
  <1>2. HeadEnd(a, b) \in Nat /\ a <= HeadEnd(a, b) /\ HeadEnd(a, b) <= b
    <2> DEFINE x == BlockSize * Blocks(a)
    <2>1. x \in Nat /\ a <= x
      BY BlocksOfSize
    <2> HIDE DEF x
    <2>2. HeadEnd(a, b) = a \/ HeadEnd(a, b) = Min({b, x})
      BY DEF HeadEnd, x
    <2> QED
      BY <2>1, <2>2, MinMaxOfTwo
  <1>3. MiddleEnd(a, b) \in Nat /\ MiddleEnd(a, b) <= b
    <2> DEFINE x == BlockSize * (b \div BlockSize)
    <2>1. x \in Nat /\ x <= b
      <3> DEFINE q == b \div BlockSize
      <3>1. q \in Nat /\ BlockSize * q <= b
        BY <1>1, DivMod
      <3> HIDE DEF q
      <3>2. BlockSize * q \in Nat
        BY <1>1, <3>1
      <3> QED
        BY <3>1, <3>2 DEF q
    <2> HIDE DEF x
    <2>2. MiddleEnd(a, b) = Max({HeadEnd(a, b), x})
      BY DEF MiddleEnd, x
    <2> QED
      BY <1>2, <2>1, <2>2, MinMaxOfTwo
  <1>4. CASE k \in {a, b}
    BY <1>4
  <1>5. CASE k \in Bytes(HeadEnd(a, b), MiddleEnd(a, b) + 1)
    <2>1. k \in Nat /\ HeadEnd(a, b) <= k /\ k < MiddleEnd(a, b) + 1
      BY <1>5 DEF Bytes, Position
    <2> QED
      BY <1>2, <1>3, <2>1
  <1> QED
    BY <1>4, <1>5 DEF Between

-----------------------------------------------------------------------------
(***************************************************************************)
(* The inductive invariant.                                                *)
(***************************************************************************)

FileTypes ==
    /\ extents \in BOOLEAN /\ size \in Position
    /\ written \subseteq Bytes(0, size)
    /\ mapped \subseteq 0 .. Blocks(Limit) - 1
    /\ astray \subseteq Bytes(0, size)

FileInv == FileTypes /\ WrittenIsMapped /\ BlocksFollowSize /\ NoForeignBytes

HandleTypes ==
    opened \subseteq Handle /\ fpos \in [Handle -> Position] /\ fsize \in [Handle -> Position]

Counters ==
    /\ writeBack \in 0 .. MaxWriteBack
    /\ writesFailed \in Nat /\ cutsFailed \in Nat /\ writesFailed + cutsFailed <= MaxFailures
    /\ shared \in BOOLEAN /\ beyond \in BOOLEAN

\* No handle is behind the end as it knows it, nor knows an end behind the end.
Inside ==
    ~shared /\ writesFailed + cutsFailed = 0 =>
        \A h \in opened : fpos[h] <= fsize[h] /\ fsize[h] <= size

IInv == FileInv /\ HandleTypes /\ Counters /\ Inside

\* The invariant holds everything that the runs check.
LEMMA IInvGives ==
    ASSUME IInv
    PROVE  TypeOK /\ WrittenIsMapped /\ BlocksFollowSize /\ NoForeignBytes /\ PositionInside
  <1>1. TypeOK
    BY DEF IInv, FileInv, FileTypes, HandleTypes, Counters, TypeOK
  <1>2. PositionInside
    <2> SUFFICES ASSUME ~shared, writesFailed + cutsFailed = 0, NEW h \in opened
                 PROVE  fpos[h] <= size /\ fsize[h] <= size
      BY DEF PositionInside
    <2>1. fpos[h] <= fsize[h] /\ fsize[h] <= size
      BY DEF IInv, Inside
    <2>2. fpos[h] \in Nat /\ fsize[h] \in Nat /\ size \in Nat
      BY DEF IInv, HandleTypes, FileInv, FileTypes, Position
    <2> QED
      BY <2>1, <2>2
  <1> QED
    BY <1>1, <1>2 DEF IInv, FileInv

-----------------------------------------------------------------------------
(***************************************************************************)
(* Truncation.                                                             *)
(***************************************************************************)

\* The blocks that go lie behind the new end, and no step begins below it.
LEMMA CutBehind ==
    ASSUME FileTypes, NEW n \in Position, NEW steps \in SUBSET (n + 1 .. size),
           NEW c \in CutPoints(n, steps)
    PROVE  c \in Nat /\ Blocks(n) <= c
  <1>1. PICK s \in steps \cup {n} : c = Blocks(s)
    BY DEF CutPoints
  <1>2. s \in Nat /\ n \in Nat /\ n <= s
    BY DEF Position
  <1> QED
    BY <1>1, <1>2, BlocksOfSize, BlocksMonotonic

\* A block of a byte below the new end is kept.
LEMMA KeptBelow ==
    ASSUME FileTypes, NEW n \in Position, NEW steps \in SUBSET (n + 1 .. size),
           NEW i \in Nat, i < n, i \div BlockSize \in mapped
    PROVE  i \div BlockSize \in Kept(n, steps)
  <1>1. n \in Nat
    BY DEF Position
  <1>2. i \div BlockSize \in Nat /\ i \div BlockSize < Blocks(n) /\ Blocks(n) \in Nat
    BY <1>1, BlockOfByte, BlocksOfSize
  <1> DEFINE j == i \div BlockSize
  <1> HIDE DEF j
  <1>3. \A c \in CutPoints(n, steps) : j < c
    <2>1. j \in Nat /\ j < Blocks(n)
      BY <1>2 DEF j
    <2> QED
      BY <1>2, <2>1, CutBehind
  <1> QED
    BY <1>3 DEF Kept, j

\* A truncation that ends leaves a file that is as it was, but shorter.
LEMMA CutKeeps ==
    ASSUME FileInv, NEW n \in Position, n < size, Cut(n),
           cutsFailed' = cutsFailed, writesFailed' = writesFailed
    PROVE  FileInv' /\ size' = n
  <1>1. n \in Nat /\ size \in Nat /\ n <= size
    BY DEF FileInv, FileTypes, Position
  <1>2. PICK steps \in SUBSET (n + 1 .. size) : mapped' = Kept(n, steps)
    <2>1. PICK last \in Steps(n) : mapped' = Kept(n, {s \in Steps(n) : s >= last})
      BY DEF Cut
    <2>2. {s \in Steps(n) : s >= last} \in SUBSET (n + 1 .. size)
      BY DEF Steps
    <2> QED
      BY <2>1, <2>2
  <1>3. /\ size' = n /\ extents' = extents /\ written' = written \cap Bytes(0, n)
        /\ astray' = astray \cap Bytes(0, n)
    BY DEF Cut
  <1>4. mapped' \subseteq mapped
    BY <1>2 DEF Kept
  <1>5. FileTypes'
    BY <1>3, <1>4 DEF FileInv, FileTypes, Position, Bytes, Blocks
  <1>6. WrittenIsMapped'
    <2>0. extents' \/ cutsFailed' = 0 => astray' = {}
      BY <1>3 DEF FileInv, WrittenIsMapped
    <2> SUFFICES ASSUME NEW i \in written \ astray, i \in Bytes(0, n)
                 PROVE  i \div BlockSize \in mapped'
      BY <1>3, <2>0 DEF WrittenIsMapped
    <2>1. i \in Nat /\ i < n /\ i \div BlockSize \in mapped
      BY DEF Bytes, Position, FileInv, WrittenIsMapped
    <2> QED
      BY <1>2, <2>1, KeptBelow DEF FileInv
  <1>7. BlocksFollowSize'
    <2> SUFFICES ASSUME cutsFailed = 0
                 PROVE  mapped' = 0 .. Blocks(n) - 1
      BY <1>3 DEF BlocksFollowSize, Blocks
    <2>1. mapped = 0 .. Blocks(size) - 1
      BY DEF FileInv, BlocksFollowSize
    <2>2. Blocks(n) \in Nat /\ Blocks(size) \in Nat /\ Blocks(n) <= Blocks(size)
      BY <1>1, BlocksOfSize, BlocksMonotonic
    <2>3. CASE Blocks(n) = Blocks(size)
      <3>1. \A s \in steps : Blocks(s) = Blocks(size)
        <4> SUFFICES ASSUME NEW s \in steps
                     PROVE  Blocks(s) = Blocks(size)
          OBVIOUS
        <4>1. s \in Nat /\ n <= s /\ s <= size
          BY <1>1
        <4>2. Blocks(s) \in Nat /\ Blocks(n) <= Blocks(s) /\ Blocks(s) <= Blocks(size)
          BY <1>1, <4>1, BlocksOfSize, BlocksMonotonic
        <4> QED
          BY <2>2, <2>3, <4>2
      <3>2. CutPoints(n, steps) = {}
        BY <2>3, <3>1 DEF CutPoints
      <3>3. Kept(n, steps) = mapped
        BY <3>2 DEF Kept
      <3> QED
        BY <1>2, <2>1, <2>3, <3>3
    <2>4. CASE Blocks(n) < Blocks(size)
      <3>1. Blocks(n) \in mapped
        BY <2>1, <2>2, <2>4
      <3>2. Blocks(n) \in CutPoints(n, steps)
        BY <2>2, <2>4, <3>1 DEF CutPoints
      <3>3. \A b \in mapped : b < Blocks(n) <=> b \in Kept(n, steps)
        <4> SUFFICES ASSUME NEW b \in mapped
                     PROVE  b < Blocks(n) <=> \A c \in CutPoints(n, steps) : b < c
          BY DEF Kept
        <4>1. b \in Nat
          BY <2>1
        <4>2. \A c \in CutPoints(n, steps) : c \in Nat /\ Blocks(n) <= c
          BY CutBehind DEF FileInv
        <4> QED
          BY <2>2, <3>2, <4>1, <4>2
      <3> DEFINE m == Blocks(n)
                 p == Blocks(size)
                 K == Kept(n, steps)
      <3>4. K \subseteq 0 .. p - 1 /\ m \in Nat /\ p \in Nat /\ m < p
        BY <2>1, <2>2, <2>4 DEF Kept
      <3>5. \A b \in 0 .. p - 1 : b < m <=> b \in K
        BY <2>1, <3>3
      <3> HIDE DEF m, p, K
      <3>6. \A b \in K : b \in 0 .. m - 1
        <4> SUFFICES ASSUME NEW b \in K
                     PROVE  b \in 0 .. m - 1
          OBVIOUS
        <4>1. b \in 0 .. p - 1
          BY <3>4
        <4> QED
          BY <3>4, <3>5, <4>1
      <3>7. \A b \in 0 .. m - 1 : b \in 0 .. p - 1 /\ b < m
        BY <3>4
      <3>8. K = 0 .. m - 1
        BY <3>5, <3>6, <3>7
      <3> QED
        BY <1>2, <3>8 DEF m, K
    <2> QED
      BY <2>2, <2>3, <2>4
  <1>8. NoForeignBytes'
    <2> SUFFICES ASSUME writesFailed + cutsFailed = 0
                 PROVE  written' = Bytes(0, n)
      BY <1>3 DEF NoForeignBytes, Bytes, Position
    <2>1. written = Bytes(0, size)
      BY DEF FileInv, NoForeignBytes
    <2>2. Bytes(0, n) \subseteq Bytes(0, size)
      BY <1>1 DEF Bytes, Position
    <2> QED
      BY <1>3, <2>1, <2>2
  <1> QED
    BY <1>3, <1>5, <1>6, <1>7, <1>8 DEF FileInv

\* A truncation that fails has taken no block that a byte it leaves is in.
LEMMA CutStopsKeeps ==
    ASSUME FileInv, cutsFailed \in Nat, writesFailed \in Nat, NEW n \in Position, CutStops(n),
           cutsFailed' = cutsFailed + 1, writesFailed' = writesFailed
    PROVE  FileInv'
  <1>1. PICK s \in Steps(n), gone \in SUBSET Nat :
            /\ size' = s /\ extents' = extents
            /\ mapped' = Kept(s, Steps(s)) \ gone
            /\ written' = {i \in written \cap Bytes(0, s) : i \div BlockSize \notin gone}
            /\ astray' = astray \cap Bytes(0, s)
    <2>1. PICK s \in Steps(n) :
             LET next == IF s > n + MaxTruncate THEN s - MaxTruncate ELSE n
                 left == Kept(s, Steps(s))
             IN  \E gone \in SUBSET {b \in left : b >= Blocks(next)} :
                     /\ size' = s /\ extents' = extents
                     /\ mapped' = left \ gone
                     /\ written' = {i \in written \cap Bytes(0, s) : i \div BlockSize \notin gone}
                     /\ astray' = astray \cap Bytes(0, s)
      BY DEF CutStops
    <2>2. PICK gone \in SUBSET Kept(s, Steps(s)) :
              /\ size' = s /\ extents' = extents
              /\ mapped' = Kept(s, Steps(s)) \ gone
              /\ written' = {i \in written \cap Bytes(0, s) : i \div BlockSize \notin gone}
              /\ astray' = astray \cap Bytes(0, s)
      BY <2>1
    <2>3. Kept(s, Steps(s)) \subseteq Nat
      <3> DEFINE m == Blocks(Limit) - 1
      <3>1. Kept(s, Steps(s)) \subseteq 0 .. m
        BY DEF Kept, FileInv, FileTypes
      <3> HIDE DEF m
      <3> QED
        BY <3>1
    <2> QED
      BY <2>2, <2>3
  <1>2. s \in Position /\ s \in Nat /\ Steps(s) \in SUBSET (s + 1 .. size)
    <2>1. n \in Nat /\ size \in Nat /\ size <= Limit /\ Limit \in Nat
      BY SizeAssumption DEF FileInv, FileTypes, Position
    <2>2. s \in n + 1 .. size
      BY DEF Steps
    <2>3. s \in 0 .. Limit
      BY <2>1, <2>2
    <2>4. Steps(s) \in SUBSET (s + 1 .. size)
      BY DEF Steps
    <2> QED
      BY <2>3, <2>4 DEF Position
  <1>3. mapped' \subseteq mapped
    BY <1>1 DEF Kept
  <1>4. FileTypes'
    BY <1>1, <1>2, <1>3 DEF FileInv, FileTypes, Position, Bytes, Blocks
  <1>5. WrittenIsMapped'
    <2>0. extents' \/ cutsFailed' = 0 => astray' = {}
      BY <1>1 DEF FileInv, WrittenIsMapped
    <2> SUFFICES ASSUME NEW i \in written \ astray, i \in Bytes(0, s), i \div BlockSize \notin gone
                 PROVE  i \div BlockSize \in mapped'
      BY <1>1, <2>0 DEF WrittenIsMapped
    <2>1. i \in Nat /\ i < s /\ i \div BlockSize \in mapped
      BY DEF Bytes, Position, FileInv, WrittenIsMapped
    <2>2. i \div BlockSize \in Kept(s, Steps(s))
      BY <1>2, <2>1, KeptBelow DEF FileInv
    <2> QED
      BY <1>1, <2>2
  <1>6. cutsFailed' # 0 /\ writesFailed' + cutsFailed' # 0
    OBVIOUS
  <1> QED
    BY <1>4, <1>5, <1>6 DEF FileInv, BlocksFollowSize, NoForeignBytes

-----------------------------------------------------------------------------
(***************************************************************************)
(* Writing.                                                                *)
(***************************************************************************)

\* A write from a to g that does not begin behind the end leaves no hole.
LEMMA BlocksWritten ==
    ASSUME NEW n \in Position, NEW a \in Position, NEW g \in Position, a <= n, a <= g,
           NEW m, m = IF Blocks(n) >= Blocks(g) THEN Blocks(n) ELSE Blocks(g)
    PROVE  (0 .. Blocks(n) - 1) \cup BlocksOf(a, g) = 0 .. m - 1
  <1>1. /\ n \in Nat /\ a \in Nat /\ g \in Nat /\ Limit \in Nat /\ BlockSize \in Nat \ {0}
        /\ Blocks(n) \in Nat /\ Blocks(g) \in Nat
    BY SizeAssumption, BlocksOfSize DEF Position
  <1>2. \A j \in BlocksOf(a, g) : j \in Nat /\ j < Blocks(g)
    <2> SUFFICES ASSUME NEW i \in Bytes(a, g)
                 PROVE  i \div BlockSize \in Nat /\ i \div BlockSize < Blocks(g)
      BY DEF BlocksOf
    <2>1. i \in Nat /\ i < g
      BY DEF Bytes, Position
    <2> QED
      BY <1>1, <2>1, BlockOfByte
  <1>3. ASSUME NEW j \in Nat, Blocks(n) <= j, j < Blocks(g)
        PROVE  j \in BlocksOf(a, g)
    <2> DEFINE i == BlockSize * j
    <2>1. i \in Nat /\ i \div BlockSize = j /\ i < g /\ ~ (i < n)
      BY <1>1, <1>3, BlockBegins
    <2> HIDE DEF i
    <2>2. i \in Bytes(a, g)
      BY <1>1, <2>1 DEF Bytes, Position
    <2> QED
      BY <2>1, <2>2 DEF BlocksOf
  <1> HIDE DEF Blocks, BlocksOf
  <1> QED
    BY <1>1, <1>2, <1>3

\* Only a file without extents has holes that a write misses, and only after a
\* truncation that failed.
LEMMA NoneMissed ==
    ASSUME FileTypes, BlocksFollowSize, extents \/ cutsFailed = 0, NEW a \in Position,
           NEW b \in Position
    PROVE  Missed(a, b) = {}
  <1>1. CASE extents
    BY <1>1 DEF Missed
  <1>2. CASE ~extents
    <2> SUFFICES ASSUME NEW j \in BlocksOf(a, b), j < Blocks(size), j \notin mapped
                 PROVE  FALSE
      BY <1>2 DEF Missed
    <2>1. mapped = 0 .. Blocks(size) - 1
      BY <1>2 DEF BlocksFollowSize
    <2>2. size \in Nat
      BY DEF FileTypes, Position
    <2>3. j \in Nat
      <3>1. PICK i \in Bytes(a, b) : j = i \div BlockSize
        BY DEF BlocksOf
      <3>2. i \in Nat
        BY DEF Bytes, Position
      <3> QED
        BY <2>2, <3>1, <3>2, BlockOfByte
    <2>4. Blocks(size) \in Nat
      BY <2>2, BlocksOfSize
    <2> QED
      BY <2>1, <2>3, <2>4
  <1> QED
    BY <1>1, <1>2

\* The bytes up to k were written, to blocks that reach to g, and the size covers them.
LEMMA PutsKeeps ==
    ASSUME FileInv, Counters, NEW h \in Handle, NEW a \in Position, a = fpos[h], a <= size,
           NEW k \in Position, NEW g \in Position, a <= k, k <= g,
           NEW s \in Position, Puts(h, k, g, s),
           Blocks(s) = IF Blocks(size) >= Blocks(g) THEN Blocks(size) ELSE Blocks(g),
           cutsFailed' = cutsFailed,
           writesFailed' = writesFailed + 1
             \/ (writesFailed' = writesFailed /\ s = IF size >= k THEN size ELSE k)
    PROVE  FileInv'
  <1>1. /\ size' = s /\ extents' = extents
        /\ written' = (written \cup Bytes(a, k)) \cap Bytes(0, s)
        /\ mapped' = mapped \cup (BlocksOf(a, g) \ Missed(a, g))
        /\ astray' = Bytes(0, s) \cap
                       (astray \cup {i \in Bytes(a, k) : i \div BlockSize \in Missed(a, k)})
    BY DEF Puts
  <1>2. /\ size \in Nat /\ a \in Nat /\ k \in Nat /\ g \in Nat /\ s \in Nat /\ Limit \in Nat
        /\ BlockSize \in Nat \ {0} /\ g <= Limit
    BY SizeAssumption DEF FileInv, FileTypes, Position
  <1>3. \A j \in BlocksOf(a, g) : j \in 0 .. Blocks(Limit) - 1
    <2> SUFFICES ASSUME NEW i \in Bytes(a, g)
                 PROVE  i \div BlockSize \in 0 .. Blocks(Limit) - 1
      BY DEF BlocksOf
    <2>1. i \in Nat /\ i < Limit
      BY <1>2 DEF Bytes, Position
    <2>2. i \div BlockSize \in Nat /\ i \div BlockSize < Blocks(Limit) /\ Blocks(Limit) \in Nat
      BY <1>2, <2>1, BlockOfByte, BlocksOfSize
    <2> QED
      BY <2>2
  <1>4. FileTypes'
    BY <1>1, <1>3 DEF FileInv, FileTypes, Position, Bytes, Blocks
  <1>5. WrittenIsMapped'
    <2>1. extents' \/ cutsFailed' = 0 => astray' = {}
      <3> SUFFICES ASSUME extents \/ cutsFailed = 0
                   PROVE  astray' = {}
        BY <1>1
      <3>1. Missed(a, k) = {}
        BY NoneMissed, a <= k, k <= g DEF FileInv
      <3> QED
        BY <1>1, <3>1 DEF FileInv, WrittenIsMapped
    <2>2. ASSUME NEW i \in written' \ astray'
          PROVE  i \div BlockSize \in mapped'
      <3>1. CASE i \in Bytes(a, k)
        <4>1. i \in Bytes(a, g)
          BY <1>2, <3>1 DEF Bytes, Position
        <4>2. i \div BlockSize \in BlocksOf(a, k) /\ i \div BlockSize \in BlocksOf(a, g)
          BY <3>1, <4>1 DEF BlocksOf
        <4>3. i \div BlockSize \notin Missed(a, k)
          BY <1>1, <2>2, <3>1
        <4>4. i \div BlockSize \in mapped \/ i \div BlockSize \notin Missed(a, g)
          BY <4>2, <4>3 DEF Missed
        <4> QED
          BY <1>1, <4>2, <4>4
      <3>2. CASE i \notin Bytes(a, k)
        <4>1. i \in written /\ i \notin astray
          BY <1>1, <2>2, <3>2
        <4>2. i \div BlockSize \in mapped
          BY <4>1 DEF FileInv, WrittenIsMapped
        <4> QED
          BY <1>1, <4>2
      <3> QED
        BY <3>1, <3>2
    <2> QED
      BY <2>1, <2>2 DEF WrittenIsMapped
  <1>6. BlocksFollowSize'
    <2> SUFFICES ASSUME cutsFailed = 0
                 PROVE  mapped' = 0 .. Blocks(s) - 1
      BY <1>1 DEF BlocksFollowSize, Blocks
    <2>1. mapped = 0 .. Blocks(size) - 1
      BY DEF FileInv, BlocksFollowSize
    <2>2. size \in Position /\ a <= g
      BY <1>2 DEF FileInv, FileTypes
    <2>3. Missed(a, g) = {}
      BY NoneMissed DEF FileInv
    <2> QED
      BY <1>1, <2>1, <2>2, <2>3, BlocksWritten
  <1>7. NoForeignBytes'
    <2> SUFFICES ASSUME writesFailed' + cutsFailed' = 0
                 PROVE  written' = Bytes(0, s)
      BY <1>1 DEF NoForeignBytes, Bytes, Position
    <2>1. writesFailed' = writesFailed /\ writesFailed + cutsFailed = 0
      BY DEF Counters
    <2>2. s = IF size >= k THEN size ELSE k
      BY <2>1 DEF Counters
    <2>3. written = Bytes(0, size)
      BY <2>1 DEF FileInv, NoForeignBytes
    <2>4. Bytes(0, s) \subseteq Bytes(0, size) \cup Bytes(a, k)
      BY <1>2, <2>2 DEF Bytes, Position
    <2> QED
      BY <1>1, <2>3, <2>4
  <1> QED
    BY <1>4, <1>5, <1>6, <1>7 DEF FileInv

\* The size when a write is over, and the blocks it has.
LEMMA SizeAfterFacts ==
    ASSUME size \in Position, NEW k \in Position
    PROVE  /\ SizeAfter(k) \in Position
           /\ SizeAfter(k) = IF size >= k THEN size ELSE k
           /\ Blocks(SizeAfter(k)) = IF Blocks(size) >= Blocks(k) THEN Blocks(size) ELSE Blocks(k)
  <1>1. size \in Nat /\ k \in Nat
    BY DEF Position
  <1>2. SizeAfter(k) = IF size >= k THEN size ELSE k
    BY <1>1, MinMaxOfTwo DEF SizeAfter
  <1>3. Blocks(size) \in Nat /\ Blocks(k) \in Nat
    BY <1>1, BlocksOfSize
  <1>4. CASE size >= k
    <2>1. Blocks(k) <= Blocks(size)
      BY <1>1, <1>4, BlocksMonotonic
    <2> QED
      BY <1>2, <1>3, <1>4, <2>1
  <1>5. CASE ~ (size >= k)
    <2>1. Blocks(size) <= Blocks(k)
      BY <1>1, <1>5, BlocksMonotonic
    <2> QED
      BY <1>2, <1>3, <1>5, <2>1
  <1> QED
    BY <1>4, <1>5

\* The size the appended blocks make is inside the limit, and covers no other block.
LEMMA AppendedSizeFacts ==
    ASSUME size \in Position, NEW g \in Position
    PROVE  /\ AppendedSize(g) \in Position
           /\ Blocks(AppendedSize(g)) =
                  IF Blocks(size) >= Blocks(g) THEN Blocks(size) ELSE Blocks(g)
  <1>1. size \in Nat /\ g \in Nat /\ g <= Limit /\ Limit \in Nat /\ BlockSize \in Nat \ {0}
    BY SizeAssumption DEF Position
  <1> DEFINE p == Blocks(size)
             q == Blocks(g)
             m == q - p
             x == BlockSize * p
             y == BlockSize * q
             z == BlockSize * m
  <1>2. p \in Nat /\ q \in Nat /\ x \in Nat /\ size <= x
    BY <1>1, BlocksOfSize
  <1>3. y \in Nat /\ y <= Limit
    <2>1. q <= Blocks(Limit) /\ Blocks(Limit) \in Nat
      BY <1>1, BlocksMonotonic, BlocksOfSize
    <2>2. y <= BlockSize * Blocks(Limit)
      BY <1>1, <1>2, <2>1, Times
    <2> QED
      BY <1>1, <1>2, <2>2, BlocksOfSize, LimitBlocks
  <1>4. CASE q <= p
    BY <1>2, <1>4 DEF AppendedSize
  <1>5. CASE ~ (q <= p)
    <2> DEFINE from == IF extents THEN size ELSE x
    <2>1. m \in Nat /\ q = p + m /\ from \in Nat /\ from <= x
      BY <1>1, <1>2, <1>5
    <2>2. AppendedSize(g) = from + z
      BY <1>5 DEF AppendedSize
    <2>3. z \in Nat /\ y = x + z
      <3> HIDE DEF p, q, m
      <3> QED
        BY <1>1, <1>2, <2>1
    <2>4. from + z \in Position
      <3> HIDE DEF x, y, z, from
      <3> QED
        BY <1>1, <1>2, <1>3, <2>1, <2>3 DEF Position
    <2>5. Blocks(size + z) = q /\ Blocks(x + z) = q
      <3>1. Blocks(size + z) = p + m
        BY <1>1, <2>1, BlocksAppended
      <3>2. Blocks(x + z) = Blocks(x) + m /\ Blocks(x) = p
        BY <1>2, <2>1, BlocksAppended
      <3> QED
        BY <2>1, <3>1, <3>2
    <2>6. Blocks(from + z) = q
      BY <2>5
    <2> QED
      BY <1>2, <1>5, <2>2, <2>4, <2>6
  <1> QED
    BY <1>2, <1>4, <1>5

\* Looking up takes no block behind the last one.
LEMMA LookedUpInside ==
    ASSUME size \in Position, NEW g \in Position, g < BlockSize * Blocks(size)
    PROVE  Blocks(size) = IF Blocks(size) >= Blocks(g) THEN Blocks(size) ELSE Blocks(g)
  <1>1. size \in Nat /\ g \in Nat
    BY DEF Position
  <1> DEFINE m == Blocks(size)
  <1>2. m \in Nat /\ BlockSize * m \in Nat
    BY <1>1, BlocksOfSize
  <1>3. g <= BlockSize * m
    BY <1>1, <1>2
  <1>4. Blocks(g) <= Blocks(BlockSize * m)
    BY <1>1, <1>2, <1>3, BlocksMonotonic
  <1>5. Blocks(BlockSize * m) = m
    BY <1>1, <1>2, BlocksAppended
  <1> HIDE DEF m
  <1>6. Blocks(g) \in Nat
    BY <1>1, BlocksOfSize
  <1> QED
    BY <1>2, <1>4, <1>5, <1>6 DEF m

\* Where a write is when it stops.
LEMMA WriteIsAt ==
    ASSUME HandleTypes, size \in Position, NEW h \in Handle, NEW e \in Position, MayWrite(h, e),
           NEW k \in Between(fpos[h], e)
    PROVE  /\ fpos[h] \in Position /\ fpos[h] <= size
           /\ k \in Position /\ fpos[h] <= k /\ k <= e
  <1>1. fpos[h] \in Position /\ fpos[h] <= size /\ fpos[h] < e
    BY DEF HandleTypes, MayWrite
  <1>2. fpos[h] \in Nat /\ e \in Nat /\ e <= Limit /\ Limit \in Nat /\ fpos[h] <= e
    BY <1>1, SizeAssumption DEF Position
  <1>3. k \in Nat /\ fpos[h] <= k /\ k <= e
    BY <1>2, BetweenFacts
  <1> QED
    BY <1>1, <1>2, <1>3 DEF Position

-----------------------------------------------------------------------------
(***************************************************************************)
(* Every action keeps the invariant.                                       *)
(***************************************************************************)

\* What a call that leaves the file alone keeps.
LEMMA FileUnchanged ==
    ASSUME FileInv, UNCHANGED <<fileVars, writesFailed, cutsFailed>>
    PROVE  FileInv'
  BY DEF FileInv, fileVars, FileTypes, WrittenIsMapped, BlocksFollowSize, NoForeignBytes,
         Position, Bytes, Blocks

\* Truncating.
LEMMA FtruncateKeeps ==
    ASSUME IInv, NEW h \in Handle, NEW n \in Position, Ftruncate(h, n)
    PROVE  IInv'
  <1> USE DEF IInv
  <1>1. /\ h \in opened /\ opened' = opened /\ writeBack' = writeBack
        /\ writesFailed' = writesFailed /\ cutsFailed' = cutsFailed /\ beyond' = beyond
    BY DEF Ftruncate
  <1>2. /\ n \in Nat /\ size \in Nat /\ size \in Position /\ fpos[h] \in Nat
        /\ fpos[h] \in Position /\ fsize[h] \in Nat
    BY DEF FileInv, FileTypes, HandleTypes, Position
  <1>3. CASE n < size
    <2>1. /\ Cut(n) /\ fpos' = [fpos EXCEPT ![h] = Min({@, n})]
          /\ fsize' = [fsize EXCEPT ![h] = n]
          /\ shared' = (shared \/ OpenedByOthers(h))
      BY <1>3 DEF Ftruncate
    <2>2. FileInv' /\ size' = n
      BY <1>1, <1>3, <2>1, CutKeeps
    <2>3. PICK k : k = Min({fpos[h], n})
      OBVIOUS
    <2>4. k \in Position /\ k <= n /\ fpos' = [fpos EXCEPT ![h] = k]
      BY <1>2, <2>1, <2>3, MinMaxOfTwo
    <2>5. HandleTypes'
      BY <1>1, <2>1, <2>4 DEF HandleTypes, Position
    <2>6. Counters'
      BY <1>1, <2>1 DEF Counters, OpenedByOthers
    <2>7. Inside'
      <3> SUFFICES ASSUME ~shared', NEW x \in opened
                   PROVE  fpos'[x] <= fsize'[x] /\ fsize'[x] <= size'
        BY <1>1 DEF Inside
      <3>1. x = h
        BY <2>1 DEF OpenedByOthers
      <3>2. fpos'[h] = k /\ fsize'[h] = n
        BY <2>1, <2>4 DEF HandleTypes
      <3> QED
        BY <1>2, <2>2, <2>4, <3>1, <3>2
    <2> QED
      BY <2>2, <2>5, <2>6, <2>7
  <1>4. CASE ~ (n < size)
    <2>1. fsize' = [fsize EXCEPT ![h] = size] /\ UNCHANGED <<fileVars, fpos, shared>>
      BY <1>4 DEF Ftruncate
    <2>2. FileInv' /\ size' = size
      BY <1>1, <2>1, FileUnchanged DEF fileVars
    <2>3. HandleTypes'
      BY <1>1, <1>2, <2>1 DEF HandleTypes, Position
    <2>4. Counters'
      BY <1>1, <2>1 DEF Counters
    <2>5. Inside'
      <3> SUFFICES ASSUME ~shared, writesFailed + cutsFailed = 0, NEW x \in opened
                   PROVE  fpos[x] <= fsize'[x] /\ fsize'[x] <= size
        BY <1>1, <2>1, <2>2 DEF Inside
      <3>1. fpos[x] <= fsize[x] /\ fsize[x] <= size /\ fpos[x] \in Nat /\ fsize[x] \in Nat
        BY DEF Inside, HandleTypes, Position
      <3>2. fsize'[x] = IF x = h THEN size ELSE fsize[x]
        BY <2>1 DEF HandleTypes
      <3> QED
        BY <1>2, <3>1, <3>2
    <2> QED
      BY <2>2, <2>3, <2>4, <2>5
  <1> QED
    BY <1>3, <1>4

\* A truncation that fails half way.
LEMMA FtruncateFailsKeeps ==
    ASSUME IInv, NEW h \in Handle, NEW n \in Position, FtruncateFails(h, n)
    PROVE  IInv'
  <1> USE DEF IInv
  <1>1. /\ CutStops(n) /\ fsize' = [fsize EXCEPT ![h] = size] /\ writeBack' = writeBack + 1
        /\ cutsFailed' = cutsFailed + 1 /\ shared' = (shared \/ OpenedByOthers(h))
        /\ MayFail /\ writeBack < MaxWriteBack
        /\ UNCHANGED <<opened, fpos, writesFailed, beyond>>
    BY DEF FtruncateFails
  <1>2. FileInv'
    BY <1>1, CutStopsKeeps DEF Counters
  <1>3. HandleTypes'
    BY <1>1 DEF HandleTypes, Position, FileInv, FileTypes
  <1>4. Counters'
    BY <1>1, SizeAssumption DEF Counters, MayFail, OpenedByOthers
  <1>5. Inside'
    BY <1>1 DEF Inside, Counters
  <1> QED
    BY <1>2, <1>3, <1>4, <1>5

\* Opening, with or without cutting the file.
LEMMA FopenKeeps ==
    ASSUME IInv, NEW h \in Handle, NEW trunc \in BOOLEAN, NEW atEnd \in BOOLEAN,
           Fopen(h, trunc, atEnd)
    PROVE  IInv'
  <1> USE DEF IInv
  <1>1. /\ h \notin opened /\ opened' = opened \cup {h}
        /\ fsize' = [fsize EXCEPT ![h] = size']
        /\ fpos' = [fpos EXCEPT ![h] = IF atEnd THEN size' ELSE 0]
        /\ UNCHANGED <<writeBack, writesFailed, cutsFailed, beyond>>
    BY DEF Fopen, FopenHandle
  <1>2. size \in Nat /\ size \in Position /\ 0 \in Position /\ 0 \in Nat
    BY SizeAssumption DEF FileInv, FileTypes, Position
  <1>3. \/ /\ size' = 0 /\ FileInv' /\ shared' = (shared \/ OpenedByOthers(h))
        \/ size' = size /\ FileInv' /\ shared' = shared
    <2>1. CASE trunc /\ size > 0
      <3>1. Cut(0) /\ shared' = (shared \/ OpenedByOthers(h)) /\ 0 < size
        BY <1>2, <2>1 DEF Fopen
      <3> QED
        BY <1>1, <1>2, <3>1, CutKeeps
    <2>2. CASE ~ (trunc /\ size > 0)
      <3>1. UNCHANGED <<fileVars, shared>>
        BY <2>2 DEF Fopen
      <3> QED
        BY <1>1, <3>1, FileUnchanged DEF fileVars
    <2> QED
      BY <2>1, <2>2
  <1>4. size' \in Position /\ size' \in Nat
    BY <1>2, <1>3
  <1>5. HandleTypes'
    BY <1>1, <1>2, <1>4 DEF HandleTypes, Position
  <1>6. Counters'
    BY <1>1, <1>3 DEF Counters, OpenedByOthers
  <1>7. Inside'
    <2> SUFFICES ASSUME ~shared', writesFailed + cutsFailed = 0, NEW x \in opened \cup {h}
                 PROVE  fpos'[x] <= fsize'[x] /\ fsize'[x] <= size'
      BY <1>1 DEF Inside
    <2>1. CASE x = h
      <3>1. fsize'[x] = size' /\ fpos'[x] \in {size', 0}
        BY <1>1, <2>1 DEF HandleTypes
      <3> QED
        BY <1>4, <3>1
    <2>2. CASE x # h
      <3>1. size' = size /\ shared' = shared
        BY <1>1, <1>3, <2>2 DEF OpenedByOthers
      <3>2. x \in opened /\ fsize'[x] = fsize[x] /\ fpos'[x] = fpos[x]
        BY <1>1, <2>2 DEF HandleTypes
      <3> QED
        BY <3>1, <3>2 DEF Inside
    <2> QED
      BY <2>1, <2>2
  <1> QED
    BY <1>3, <1>5, <1>6, <1>7

\* Opening that fails while it cuts the file.
LEMMA FopenFailsKeeps ==
    ASSUME IInv, NEW h \in Handle, FopenFails(h)
    PROVE  IInv'
  <1> USE DEF IInv
  <1>1. /\ CutStops(0) /\ MayFail /\ cutsFailed' = cutsFailed + 1
        /\ shared' = (shared \/ OpenedByOthers(h))
        /\ UNCHANGED <<handleVars, writeBack, writesFailed, beyond>>
    BY DEF FopenFails
  <1>2. FileInv'
    <2>1. 0 \in Position
      BY SizeAssumption DEF Position
    <2> QED
      BY <1>1, <2>1, CutStopsKeeps DEF Counters
  <1>3. HandleTypes'
    BY <1>1 DEF HandleTypes, handleVars, Position
  <1>4. Counters'
    BY <1>1, SizeAssumption DEF Counters, MayFail, OpenedByOthers
  <1>5. Inside'
    BY <1>1 DEF Inside, Counters
  <1> QED
    BY <1>2, <1>3, <1>4, <1>5

\* Closing.
LEMMA FcloseKeeps ==
    ASSUME IInv, NEW h \in Handle, Fclose(h)
    PROVE  IInv'
  <1> USE DEF IInv
  <1>1. /\ opened' = opened \ {h} /\ fpos' = [fpos EXCEPT ![h] = 0]
        /\ fsize' = [fsize EXCEPT ![h] = 0]
        /\ UNCHANGED <<fileVars, writeBack, writesFailed, cutsFailed, shared, beyond>>
    BY DEF Fclose
  <1>2. FileInv' /\ size' = size
    BY <1>1, FileUnchanged DEF fileVars
  <1>3. HandleTypes'
    BY <1>1, SizeAssumption DEF HandleTypes, Position
  <1>4. Counters'
    BY <1>1 DEF Counters
  <1>5. Inside'
    BY <1>1, <1>2 DEF Inside, HandleTypes
  <1> QED
    BY <1>2, <1>3, <1>4, <1>5

\* Moving the position: not behind the end as the handle knows it.
LEMMA FseekKeeps ==
    ASSUME IInv, NEW h \in Handle, NEW p \in Position, Fseek(h, p)
    PROVE  IInv'
  <1> USE DEF IInv
  <1>1. /\ FseekAllowed(h, p) /\ fpos' = [fpos EXCEPT ![h] = p]
        /\ UNCHANGED <<fileVars, opened, fsize, writeBack, writesFailed, cutsFailed, shared, beyond>>
    BY DEF Fseek
  <1>2. FileInv' /\ size' = size
    BY <1>1, FileUnchanged DEF fileVars
  <1>3. HandleTypes'
    BY <1>1 DEF HandleTypes, Position
  <1>4. Counters'
    BY <1>1 DEF Counters
  <1>5. Inside'
    <2> SUFFICES ASSUME ~shared, writesFailed + cutsFailed = 0, NEW x \in opened
                 PROVE  fpos'[x] <= fsize[x] /\ fsize[x] <= size
      BY <1>1, <1>2 DEF Inside
    <2>1. fpos[x] <= fsize[x] /\ fsize[x] <= size /\ fpos[x] \in Nat /\ fsize[x] \in Nat /\ p \in Nat
      BY DEF Inside, HandleTypes, Position
    <2>2. fpos'[x] = IF x = h THEN p ELSE fpos[x]
      BY <1>1 DEF HandleTypes
    <2>3. x = h => p <= fsize[x] \/ p <= fpos[x] \/ fpos[x] > fsize[x]
      BY <1>1 DEF FseekAllowed
    <2> QED
      BY <2>1, <2>2, <2>3
  <1> QED
    BY <1>2, <1>3, <1>4, <1>5

\* Reading.
LEMMA FreadKeeps ==
    ASSUME IInv, NEW h \in Handle, NEW n \in 1 .. Limit - fpos[h], Fread(h, n)
    PROVE  IInv'
  <1> USE DEF IInv
  <1>1. /\ h \in opened /\ fsize' = [fsize EXCEPT ![h] = size]
        /\ UNCHANGED <<fileVars, opened, writeBack, writesFailed, cutsFailed, shared, beyond>>
    BY DEF Fread
  <1>2. PICK k \in Between(fpos[h], ReadEnd(h, n)) : fpos' = [fpos EXCEPT ![h] = k]
    BY DEF Fread
  <1>3. /\ size \in Nat /\ size \in Position /\ fpos[h] \in Nat /\ fpos[h] <= Limit
        /\ Limit \in Nat /\ n \in Nat /\ fpos[h] + n \in Nat /\ fpos[h] + n <= Limit
    BY SizeAssumption DEF FileInv, FileTypes, HandleTypes, Position
  <1>4. /\ ReadEnd(h, n) \in Nat /\ fpos[h] <= ReadEnd(h, n) /\ ReadEnd(h, n) <= Limit
        /\ fpos[h] <= size => ReadEnd(h, n) <= size
    <2>1. Min({fpos[h] + n, size}) = IF fpos[h] + n <= size THEN fpos[h] + n ELSE size
      BY <1>3, MinMaxOfTwo
    <2> QED
      BY <1>3, <2>1 DEF ReadEnd, FileInv, FileTypes, Position
  <1>5. k \in Nat /\ k <= ReadEnd(h, n)
    BY <1>3, <1>4, BetweenFacts
  <1>6. FileInv' /\ size' = size
    BY <1>1, FileUnchanged DEF fileVars
  <1>7. HandleTypes'
    <2>1. k \in Position
      BY <1>3, <1>4, <1>5 DEF Position
    <2> QED
      BY <1>1, <1>2, <1>3, <2>1 DEF HandleTypes, Position
  <1>8. Counters'
    BY <1>1 DEF Counters
  <1>9. Inside'
    <2> SUFFICES ASSUME ~shared, writesFailed + cutsFailed = 0, NEW x \in opened
                 PROVE  fpos'[x] <= fsize'[x] /\ fsize'[x] <= size
      BY <1>1, <1>6 DEF Inside
    <2>1. fpos[x] <= fsize[x] /\ fsize[x] <= size /\ fpos[x] \in Nat /\ fsize[x] \in Nat
      BY DEF Inside, HandleTypes, Position
    <2>2. fpos'[x] = (IF x = h THEN k ELSE fpos[x]) /\ fsize'[x] = (IF x = h THEN size ELSE fsize[x])
      BY <1>1, <1>2 DEF HandleTypes
    <2> QED
      BY <1>3, <1>4, <1>5, <2>1, <2>2
  <1> QED
    BY <1>6, <1>7, <1>8, <1>9

\* Writing as far as asked, or to the last block there is room for.
LEMMA WritesKeep ==
    ASSUME IInv, NEW h \in Handle, fpos[h] <= size, NEW k \in Position, fpos[h] <= k,
           Puts(h, k, k, SizeAfter(k)), fsize' = [fsize EXCEPT ![h] = SizeAfter(k)],
           writeBack' \in 0 .. MaxWriteBack,
           UNCHANGED <<opened, writesFailed, cutsFailed, shared, beyond>>
    PROVE  IInv'
  <1> USE DEF IInv
  <1>1. /\ size \in Position /\ size \in Nat /\ k \in Nat /\ fpos[h] \in Position
    BY DEF FileInv, FileTypes, HandleTypes, Position
  <1> DEFINE s == SizeAfter(k)
  <1>2. /\ s \in Position /\ s = IF size >= k THEN size ELSE k
        /\ Blocks(s) = IF Blocks(size) >= Blocks(k) THEN Blocks(size) ELSE Blocks(k)
    BY <1>1, SizeAfterFacts
  <1> HIDE DEF s
  <1>3. Puts(h, k, k, s) /\ fsize' = [fsize EXCEPT ![h] = s]
    BY DEF s
  <1>4. FileInv'
    <2>1. k <= k /\ FileInv /\ Counters
      BY <1>1
    <2>2. cutsFailed' = cutsFailed /\ writesFailed' = writesFailed
      OBVIOUS
    <2> QED
      BY ONLY <1>1, <1>2, <1>3, <2>1, <2>2, fpos[h] <= size, fpos[h] <= k, PutsKeeps
  <1>5. size' = s /\ fpos' = [fpos EXCEPT ![h] = k]
    BY <1>3 DEF Puts
  <1>6. HandleTypes'
    BY <1>2, <1>3, <1>5 DEF HandleTypes, Position
  <1>7. Counters'
    BY DEF Counters
  <1>8. Inside'
    <2> SUFFICES ASSUME ~shared, writesFailed + cutsFailed = 0, NEW x \in opened
                 PROVE  fpos'[x] <= fsize'[x] /\ fsize'[x] <= s
      BY <1>5 DEF Inside
    <2>1. fpos[x] <= fsize[x] /\ fsize[x] <= size /\ fpos[x] \in Nat /\ fsize[x] \in Nat
      BY DEF Inside, HandleTypes, Position
    <2>2. fpos'[x] = (IF x = h THEN k ELSE fpos[x]) /\ fsize'[x] = (IF x = h THEN s ELSE fsize[x])
      BY <1>3, <1>5 DEF HandleTypes
    <2> QED
      BY <1>1, <1>2, <2>1, <2>2
  <1> QED
    BY <1>4, <1>6, <1>7, <1>8

\* A write that ends where it should.
LEMMA FwriteKeeps ==
    ASSUME IInv, NEW h \in Handle, NEW e \in Position, Fwrite(h, e)
    PROVE  IInv'
  <1>1. size \in Position /\ HandleTypes /\ Counters
    BY DEF IInv, FileInv, FileTypes
  <1>2. MayWrite(h, e) /\ e \in Between(fpos[h], e)
    BY DEF Fwrite, Between
  <1>3. fpos[h] <= size /\ fpos[h] <= e
    BY <1>1, <1>2, WriteIsAt
  <1> QED
    BY <1>1, <1>3, WritesKeep DEF Fwrite, Counters

\* A write that finds no more room.
LEMMA FwriteNoSpaceKeeps ==
    ASSUME IInv, NEW h \in Handle, NEW e \in Position, FwriteNoSpace(h, e)
    PROVE  IInv'
  <1>1. size \in Position /\ HandleTypes /\ Counters
    BY DEF IInv, FileInv, FileTypes
  <1>2. PICK k \in Between(fpos[h], e) :
            /\ Puts(h, k, k, SizeAfter(k)) /\ fsize' = [fsize EXCEPT ![h] = SizeAfter(k)]
            /\ LeavesWriteBack(InWriteBack(h, e, k))
    BY DEF FwriteNoSpace
  <1>3. MayWrite(h, e) /\ UNCHANGED <<opened, writesFailed, cutsFailed, shared, beyond>>
    BY DEF FwriteNoSpace
  <1>4. k \in Position /\ fpos[h] <= k /\ fpos[h] <= size
    BY <1>1, <1>3, WriteIsAt
  <1>5. writeBack' \in 0 .. MaxWriteBack
    BY <1>1, <1>2 DEF LeavesWriteBack, Counters
  <1> QED
    BY <1>2, <1>3, <1>4, <1>5, WritesKeep

\* A write that meets a failure: the blocks up to g are there, the bytes up to k.
LEMMA FailedWritesKeep ==
    ASSUME IInv, NEW h \in Handle, fpos[h] <= size, MayFail,
           NEW k \in Position, NEW g \in Position, fpos[h] <= k, k <= g,
           NEW s \in Position, Puts(h, k, g, s),
           Blocks(s) = IF Blocks(size) >= Blocks(g) THEN Blocks(size) ELSE Blocks(g),
           fsize' = [fsize EXCEPT ![h] = size], writesFailed' = writesFailed + 1,
           writeBack' \in 0 .. MaxWriteBack, UNCHANGED <<opened, cutsFailed, shared, beyond>>
    PROVE  IInv'
  <1> USE DEF IInv
  <1>1. size \in Position /\ fpos[h] \in Position
    BY DEF FileInv, FileTypes, HandleTypes
  <1>2. FileInv'
    BY <1>1, PutsKeeps
  <1>3. HandleTypes'
    BY <1>1 DEF HandleTypes, Position, Puts
  <1>4. Counters'
    BY SizeAssumption DEF Counters, MayFail
  <1>5. Inside'
    BY DEF Inside, Counters
  <1> QED
    BY <1>2, <1>3, <1>4, <1>5

\* A write that cannot look a block up.
LEMMA FwriteLookupFailsKeeps ==
    ASSUME IInv, NEW h \in Handle, NEW e \in Position, FwriteLookupFails(h, e)
    PROVE  IInv'
  <1>1. size \in Position /\ HandleTypes /\ Counters
    BY DEF IInv, FileInv, FileTypes
  <1>2. PICK k \in Between(fpos[h], e), g \in Between(fpos[h], e) :
            /\ k <= g /\ g < BlockSize * Blocks(size)
            /\ Puts(h, k, g, size) /\ LeavesWriteBack(InWriteBack(h, e, g))
    BY DEF FwriteLookupFails
  <1>3. /\ MayWrite(h, e) /\ MayFail /\ fsize' = [fsize EXCEPT ![h] = size]
        /\ writesFailed' = writesFailed + 1 /\ UNCHANGED <<opened, cutsFailed, shared, beyond>>
    BY DEF FwriteLookupFails
  <1>4. k \in Position /\ g \in Position /\ fpos[h] <= k /\ fpos[h] <= size
    BY <1>1, <1>3, WriteIsAt
  <1>5. writeBack' \in 0 .. MaxWriteBack
    BY <1>1, <1>2 DEF LeavesWriteBack, Counters
  <1>6. Blocks(size) = IF Blocks(size) >= Blocks(g) THEN Blocks(size) ELSE Blocks(g)
    BY <1>1, <1>2, <1>4, LookedUpInside
  <1> QED
    BY <1>1, <1>2, <1>3, <1>4, <1>5, <1>6, FailedWritesKeep

\* A write whose data does not reach the device.
LEMMA FwriteDataFailsKeeps ==
    ASSUME IInv, NEW h \in Handle, NEW e \in Position, FwriteDataFails(h, e)
    PROVE  IInv'
  <1>1. size \in Position /\ HandleTypes /\ Counters
    BY DEF IInv, FileInv, FileTypes
  <1>2. PICK k \in Between(fpos[h], e), g \in Between(fpos[h], e) :
            k < g /\ Puts(h, k, g, AppendedSize(g))
    BY DEF FwriteDataFails
  <1>3. /\ MayWrite(h, e) /\ MayFail /\ fsize' = [fsize EXCEPT ![h] = size]
        /\ writesFailed' = writesFailed + 1
        /\ UNCHANGED <<opened, writeBack, cutsFailed, shared, beyond>>
    BY DEF FwriteDataFails
  <1>4. k \in Position /\ g \in Position /\ fpos[h] <= k /\ fpos[h] <= size
    BY <1>1, <1>3, WriteIsAt
  <1>5. k <= g
    BY <1>2, <1>4 DEF Position
  <1>6. AppendedSize(g) \in Position
        /\ Blocks(AppendedSize(g)) = IF Blocks(size) >= Blocks(g) THEN Blocks(size) ELSE Blocks(g)
    BY <1>1, <1>4, AppendedSizeFacts
  <1> QED
    BY <1>1, <1>2, <1>3, <1>4, <1>5, <1>6, FailedWritesKeep DEF Counters

\* A write behind the end: nothing is said of what follows.
LEMMA FwriteBeyondKeeps ==
    ASSUME IInv, NEW h \in Handle, FwriteBeyond(h)
    PROVE  IInv'
  <1> USE DEF IInv
  <1>1. /\ beyond' = TRUE
        /\ UNCHANGED <<fileVars, handleVars, writeBack, writesFailed, cutsFailed, shared>>
    BY DEF FwriteBeyond
  <1>2. FileInv' /\ size' = size
    BY <1>1, FileUnchanged DEF fileVars
  <1>3. HandleTypes' /\ Counters' /\ Inside'
    BY <1>1, <1>2 DEF HandleTypes, Counters, Inside, handleVars, Position
  <1> QED
    BY <1>2, <1>3

-----------------------------------------------------------------------------
(***************************************************************************)
(* The theorems.                                                           *)
(***************************************************************************)

\* A file that was just created.
LEMMA InitHolds == Init => IInv
  <1> SUFFICES ASSUME Init
               PROVE  IInv
    OBVIOUS
  <1>1. size = 0 /\ written = {} /\ mapped = {} /\ astray = {} /\ 0 \in Position
    BY SizeAssumption DEF Init, Position
  <1>2. Blocks(size) = 0
    <2>1. Blocks(BlockSize * 0) = 0 /\ BlockSize * 0 = 0
      BY SizeAssumption, BlocksAppended
    <2> QED
      BY <1>1, <2>1
  <1>3. FileInv
    <2>1. mapped = 0 .. Blocks(size) - 1
      BY <1>1, <1>2
    <2>2. Bytes(0, size) = {}
      BY <1>1 DEF Bytes, Position
    <2> QED
      BY <1>1, <2>1, <2>2
         DEF Init, FileInv, FileTypes, WrittenIsMapped, BlocksFollowSize, NoForeignBytes
  <1>4. HandleTypes /\ Inside
    BY <1>1 DEF Init, HandleTypes, Inside
  <1>5. Counters
    <2>1. shared \in BOOLEAN /\ beyond \in BOOLEAN
      BY Zenon DEF Init
    <2>2. /\ writeBack \in 0 .. MaxWriteBack
          /\ writesFailed \in Nat /\ cutsFailed \in Nat /\ writesFailed + cutsFailed <= MaxFailures
      BY SizeAssumption DEF Init
    <2> QED
      BY <2>1, <2>2 DEF Counters
  <1> QED
    BY <1>3, <1>4, <1>5 DEF IInv

\* Every step.
LEMMA StepKeeps ==
    ASSUME IInv, [Next]_vars
    PROVE  IInv'
  <1>1. CASE Next
    <2>1. PICK h \in Handle :
            \/ \E trunc, atEnd \in BOOLEAN : Fopen(h, trunc, atEnd)
            \/ FopenFails(h)
            \/ Fclose(h)
            \/ \E n \in Position : Ftruncate(h, n) \/ FtruncateFails(h, n)
            \/ \E p \in Position : Fseek(h, p)
            \/ \E n \in 1 .. Limit - fpos[h] : Fread(h, n)
            \/ \E e \in Position : \/ Fwrite(h, e) \/ FwriteNoSpace(h, e)
                                   \/ FwriteLookupFails(h, e) \/ FwriteDataFails(h, e)
            \/ FwriteBeyond(h)
      BY <1>1 DEF Next
    <2>2. CASE \E trunc, atEnd \in BOOLEAN : Fopen(h, trunc, atEnd)
      BY <2>2, FopenKeeps
    <2>3. CASE FopenFails(h) \/ Fclose(h) \/ FwriteBeyond(h)
      BY <2>3, FopenFailsKeeps, FcloseKeeps, FwriteBeyondKeeps
    <2>4. CASE \E n \in Position : Ftruncate(h, n) \/ FtruncateFails(h, n)
      BY <2>4, FtruncateKeeps, FtruncateFailsKeeps
    <2>5. CASE \E p \in Position : Fseek(h, p)
      BY <2>5, FseekKeeps
    <2>6. CASE \E n \in 1 .. Limit - fpos[h] : Fread(h, n)
      BY <2>6, FreadKeeps
    <2>7. CASE \E e \in Position : \/ Fwrite(h, e) \/ FwriteNoSpace(h, e)
                                   \/ FwriteLookupFails(h, e) \/ FwriteDataFails(h, e)
      BY <2>7, FwriteKeeps, FwriteNoSpaceKeeps, FwriteLookupFailsKeeps, FwriteDataFailsKeeps
    <2> QED
      BY <2>1, <2>2, <2>3, <2>4, <2>5, <2>6, <2>7
  <1>2. CASE UNCHANGED vars
    <2>1. FileInv'
      BY <1>2, FileUnchanged DEF vars, IInv
    <2>2. HandleTypes' /\ Counters' /\ Inside'
      BY <1>2 DEF vars, fileVars, handleVars, IInv, HandleTypes, Counters, Inside, Position
    <2> QED
      BY <2>1, <2>2 DEF IInv
  <1> QED
    BY <1>1, <1>2

\* The invariant holds in every state.
LEMMA InvariantKept == Spec => []IInv
  <1>1. IInv /\ [Next]_vars => IInv'
    BY StepKeeps
  <1> QED
    BY InitHolds, <1>1, PTL DEF Spec

\* Every variable has its type: no position and no size leaves the limit, for
\* every interleaving of the calls of any number of handles.
THEOREM TypesHold == Spec => []TypeOK
  <1>1. IInv => TypeOK
    BY IInvGives
  <1> QED
    BY InvariantKept, <1>1, PTL

\* Every byte that was written is in a block of the file, whatever write or
\* truncation failed and wherever: ext4_trunc_inode never releases the block that
\* the new end lies in. Bytes go astray only in a file without extents, and only
\* after a truncation that failed: what ext4_fwrite puts into a hole of such a file
\* is written outside it (WritesGoToFile, which the code does not keep).
THEOREM WrittenStaysMapped == Spec => []WrittenIsMapped
  <1>1. IInv => WrittenIsMapped
    BY IInvGives
  <1> QED
    BY InvariantKept, <1>1, PTL

\* As long as no truncation failed the file has the blocks of its bytes and no
\* others: ext4_fwrite leaves no hole, and no block behind the end.
THEOREM BlocksAreTheSizes == Spec => []BlocksFollowSize
  <1>1. IInv => BlocksFollowSize
    BY IInvGives
  <1> QED
    BY InvariantKept, <1>1, PTL

\* As long as no device access failed every byte of the file was written, also
\* when the space was used up in the middle of ext4_fwrite.
THEOREM EveryByteWritten == Spec => []NoForeignBytes
  <1>1. IInv => NoForeignBytes
    BY IInvGives
  <1> QED
    BY InvariantKept, <1>1, PTL

\* As long as nobody cut the file under a handle and nothing failed, no handle is
\* behind the end: ext4_fread and ext4_fwrite, which do not check it, are never
\* called there.
THEOREM PositionsStayInside == Spec => []PositionInside
  <1>1. IInv => PositionInside
    BY IInvGives
  <1> QED
    BY InvariantKept, <1>1, PTL
=============================================================================
