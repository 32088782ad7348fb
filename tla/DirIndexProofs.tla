---------------------------- MODULE DirIndexProofs ----------------------------
(***************************************************************************)
(* Proofs about DirIndex: a directory that is added to and removed from    *)
(* holds each of its names once, where it is looked for, and a reading     *)
(* meets every name that stays.                                            *)
(***************************************************************************)
EXTENDS DirIndex, NumberFacts, SequenceTheorems

-----------------------------------------------------------------------------
(* Sums.                                                                   *)

\* What the sum of the first numbers of a sequence is.
LEMMA SumFacts ==
    ASSUME NEW n \in Nat, NEW f \in [1 .. n -> Nat]
    PROVE  /\ SumTo(f, 0) = 0
           /\ \A k \in 0 .. n - 1 : SumTo(f, k + 1) = SumTo(f, k) + f[k + 1]
           /\ \A k \in 0 .. n : SumTo(f, k) \in Nat
  <1> DEFINE F == [x \in Nat \X Nat |-> IF x[1] \in 1 .. n THEN x[2] + f[x[1]] ELSE 0]
  <1>1. F \in [Nat \X Nat -> Nat]
    OBVIOUS
  <1>2. PICK g \in Recursive(n, Nat, 0, F) : TRUE
    <2> HIDE DEF F
    <2> QED
      BY <1>1, Recursion
  <1>3. g \in [0 .. n -> Nat] /\ g[0] = 0 /\ \A k \in 1 .. n : g[k] = g[k - 1] + f[k]
    <2>1. g \in [0 .. n -> Nat] /\ g[0] = 0 /\ \A k \in 1 .. n : g[k] = F[<<k, g[k - 1]>>]
      <3> HIDE DEF F
      <3> QED
        BY <1>2 DEF Recursive
    <2> SUFFICES ASSUME NEW k \in 1 .. n
                 PROVE  g[k] = g[k - 1] + f[k]
      BY <2>1
    <2>2. k - 1 \in 0 .. n /\ k \in Nat
      OBVIOUS
    <2>3. <<k, g[k - 1]>> \in Nat \X Nat
      BY <2>1, <2>2
    <2> QED
      BY <2>1, <2>3
  <1>4. ASSUME NEW k \in 0 .. n
        PROVE  SumTo(f, k) = g[k]
    <2> DEFINE Is(h) == h = [i \in 0 .. k |-> IF i = 0 THEN 0 ELSE h[i - 1] + f[i]]
               h0 == CHOOSE h : Is(h)
    <2>1. Is([i \in 0 .. k |-> g[i]])
      <3> DEFINE h == [i \in 0 .. k |-> g[i]]
      <3>1. ASSUME NEW i \in 0 .. k
            PROVE  h[i] = IF i = 0 THEN 0 ELSE h[i - 1] + f[i]
        <4>1. CASE i = 0
          BY <1>3, <4>1
        <4>2. CASE i # 0
          <5>1. i \in 1 .. n /\ i - 1 \in 0 .. k
            BY <1>4, <4>2
          <5> QED
            BY <1>3, <4>2, <5>1
        <4> QED
          BY <4>1, <4>2
      <3> QED
        BY <3>1
    <2>2. Is(h0)
      <3> HIDE DEF Is
      <3> QED
        BY <2>1
    <2>3. h0 = [i \in 0 .. k |-> IF i = 0 THEN 0 ELSE h0[i - 1] + f[i]]
      <3> HIDE DEF h0
      <3> QED
        BY <2>2
    <2>4. SumTo(f, k) = h0[k]
      BY DEF SumTo
    <2> HIDE DEF h0
    <2> DEFINE S == {i \in 0 .. k : h0[i] = g[i]}
    <2>5. 0 \in S
      BY <1>3, <1>4, <2>3
    <2>6. ASSUME NEW i \in 0 .. k - 1, i \in S
          PROVE  i + 1 \in S
      <3>1. i + 1 \in 1 .. n /\ i + 1 \in 0 .. k /\ i + 1 # 0 /\ i + 1 - 1 = i
        BY <1>4, <2>6
      <3>2. h0[i + 1] = h0[i] + f[i + 1]
        BY <2>3, <3>1
      <3>3. g[i + 1] = g[i] + f[i + 1]
        BY <1>3, <3>1
      <3> QED
        BY <2>6, <3>1, <3>2, <3>3
    <2>7. k \in S
      <3> HIDE DEF S
      <3>1. k \in Nat /\ k \in 0 .. k
        BY <1>4
      <3> QED
        BY <2>5, <2>6, <3>1, Induction
    <2> QED
      BY <2>4, <2>7
  <1>5. ASSUME NEW k \in 0 .. n - 1
        PROVE  SumTo(f, k + 1) = SumTo(f, k) + f[k + 1]
    <2>1. k \in 0 .. n /\ k + 1 \in 1 .. n /\ k + 1 - 1 = k /\ k + 1 \in 0 .. n
      BY <1>5
    <2>2. g[k + 1] = g[k] + f[k + 1]
      BY <1>3, <2>1
    <2>3. SumTo(f, k + 1) = g[k + 1] /\ SumTo(f, k) = g[k]
      BY <1>4, <2>1
    <2> QED
      BY <2>2, <2>3
  <1> QED
    BY <1>3, <1>4, <1>5

\* Later sums are larger.
LEMMA SumGrows ==
    ASSUME NEW n \in Nat, NEW f \in [1 .. n -> Nat], NEW i \in 0 .. n, NEW j \in i .. n
    PROVE  SumTo(f, i) <= SumTo(f, j)
  <1> DEFINE S == {k \in Nat : i + k <= n => SumTo(f, i) <= SumTo(f, i + k)}
  <1>1. 0 \in S
    BY SumFacts
  <1>2. ASSUME NEW k \in 0 .. n - 1, k \in S
        PROVE  k + 1 \in S
    <2> SUFFICES ASSUME i + (k + 1) <= n
                 PROVE  SumTo(f, i) <= SumTo(f, i + (k + 1))
      OBVIOUS
    <2> DEFINE m == i + k
    <2>1. m \in 0 .. n - 1 /\ m + 1 \in 1 .. n /\ i + (k + 1) = m + 1 /\ m <= n
      OBVIOUS
    <2>2. SumTo(f, i) <= SumTo(f, m)
      BY <1>2, <2>1
    <2> HIDE DEF m
    <2>3. SumTo(f, m + 1) = SumTo(f, m) + f[m + 1] /\ f[m + 1] \in Nat
      BY <2>1, SumFacts
    <2>4. SumTo(f, i) \in Nat /\ SumTo(f, m) \in Nat
      BY <2>1, SumFacts
    <2>5. SumTo(f, i) <= SumTo(f, m + 1)
      BY ONLY <2>2, <2>3, <2>4
    <2> QED
      BY ONLY <2>1, <2>5
  <1>3. j - i \in 0 .. n /\ i + (j - i) = j /\ j - i \in Nat
    OBVIOUS
  <1>4. j - i \in S
    <2> HIDE DEF S
    <2> QED
      BY <1>1, <1>2, <1>3, Induction
  <1> QED
    BY <1>3, <1>4

-----------------------------------------------------------------------------
(* The invariant.                                                          *)

Record == [n : Name \cup {Void, Dots}, len : Nat \ {0}]
IndexEntry == [h : Nat, b : Nat]
Directory ==
  [indexed : BOOLEAN, levels : 0 .. 1, blocks : Seq([records : Seq(Record), ents : Seq(IndexEntry)])]

\* The record of n begins at o.
InAt(s, n, o) == \E i \in DOMAIN s : s[i].n = n /\ Start(s, i) = o

\* The records of a block fill it, each has room for its name, names are apart, and a
\* record not in use is the first.
RecordsOK(s) ==
  /\ s \in Seq(Record)
  /\ Total(s) = LeafSize
  /\ \A i \in DOMAIN s : s[i].n # Void => Used(s[i].n) <= s[i].len
  /\ \A i \in DOMAIN s : s[i].n = Void => i = 1
  /\ \A i, j \in DOMAIN s : s[i].n = s[j].n => i = j

HeldIn(d, n, b) == b \in DOMAIN d.blocks /\ Holds(Records(d, b), n)

\* The place of the record of n.
Lies(d, n, b, o) == b \in DOMAIN d.blocks /\ InAt(Records(d, b), n, o)

\* What the blocks of a directory hold.
Filled(d, names) ==
  /\ d \in Directory
  /\ Len(d.blocks) \in 1 .. MaxBlocks
  /\ \A b \in DOMAIN d.blocks : RecordsOK(Records(d, b))
  /\ \A n \in Name : n \in names <=> \E b \in DOMAIN d.blocks : HeldIn(d, n, b)
  /\ \A n \in Name : \A b, c \in DOMAIN d.blocks : HeldIn(d, n, b) /\ HeldIn(d, n, c) => b = c
  /\ Lies(d, Dots, 1, 0)

\* The leaves of an index in their order, as pairs: the position in the root of the
\* block of the index that has the leaf, and the position there.
NodeSet(d) == IF d.levels = 0 THEN {1} ELSE DOMAIN Ents(d, 1)
Node(d, k) == IF d.levels = 0 THEN 1 ELSE Ents(d, 1)[k].b
Slots(d) == {x \in Nat \X Nat : x[1] \in NodeSet(d) /\ x[2] \in DOMAIN Ents(d, Node(d, x[1]))}
LeafAt(d, x) == Ents(d, Node(d, x[1]))[x[2]].b
KeyAt(d, x) ==
  IF x[2] # 1 THEN Ents(d, Node(d, x[1]))[x[2]].h
  ELSE IF x[1] # 1 THEN Ents(d, 1)[x[1]].h ELSE 0
Before(x, y) == x[1] < y[1] \/ (x[1] = y[1] /\ x[2] < y[2])

\* Blocks of the index and leaves are apart; there are no others with entries.
Shape(d) ==
  /\ Len(Ents(d, 1)) \in 1 .. RootMax
  /\ d.levels = 1 => \A k \in NodeSet(d) :
       Node(d, k) \in 2 .. Len(d.blocks) /\ Len(Ents(d, Node(d, k))) \in 1 .. NodeMax
  /\ \A k, j \in NodeSet(d) : Node(d, k) = Node(d, j) => k = j
  /\ \A x \in Slots(d) : LeafAt(d, x) \in 2 .. Len(d.blocks) /\ Ents(d, LeafAt(d, x)) = <<>>
  /\ \A x, y \in Slots(d) : LeafAt(d, x) = LeafAt(d, y) => x = y
  /\ \A b \in 1 .. Len(d.blocks) : b = 1 \/ Ents(d, b) = <<>> \/ \E k \in NodeSet(d) : b = Node(d, k)

\* The keys of the leaves ascend.
Ascending(d) == \A x, y \in Slots(d) : Before(x, y) => KeyAt(d, x) <= KeyAt(d, y)

\* A name is in a leaf whose key is not larger than its hash, or says that the leaf
\* continues this hash, and all later keys are larger.
KeyOf(d, x, h) == KeyAt(d, x) <= h + 1 /\ \A y \in Slots(d) : Before(x, y) => h < KeyAt(d, y)
InPlace(d) ==
  \A n \in Name : \A b \in DOMAIN d.blocks :
    HeldIn(d, n, b) => \E x \in Slots(d) : LeafAt(d, x) = b /\ KeyOf(d, x, Hash[n])

Indexed(d) ==
  IF d.indexed THEN Shape(d) /\ Ascending(d) /\ InPlace(d)
  ELSE d.levels = 0 /\ \A b \in DOMAIN d.blocks : Ents(d, b) = <<>>

\* A place before that of the reading.
Past(at, b, o) == b < at[1] \/ (b = at[1] /\ o < at[2])

\* Before the place of a reading are the names it has returned, those due are not; if no
\* record begins there, they are in the blocks behind.
Reading(d, r) ==
  /\ r.due \subseteq Name /\ r.got \subseteq Name /\ ~r.again
  /\ r.at = End => r.got = {} /\ (~r.cut => r.due = {})
  /\ r.at # End =>
       /\ r.at \in Nat \X Nat /\ r.at[1] \in DOMAIN d.blocks
       /\ \A n \in r.due : \E b, o \in Nat :
            Lies(d, n, b, o) /\ ~Past(r.at, b, o) /\ (b = r.at[1] => RecordAt(d, r.at) # {})
       /\ \A n \in r.got : \E b, o \in Nat : Lies(d, n, b, o) /\ Past(r.at, b, o)

IInv ==
  /\ rd \in [at : Nat \X Nat, due : SUBSET Name, got : SUBSET Name, again : BOOLEAN, cut : BOOLEAN]
  /\ there \subseteq Name /\ rd.due \subseteq there /\ rd.got \subseteq there
  /\ Filled(dir, there)
  /\ Indexed(dir)
  /\ Reading(dir, rd)

-----------------------------------------------------------------------------
(* Sequences and the records of a block.                                   *)

\* A part of a sequence.
LEMMA SubSeqFacts ==
    ASSUME NEW S, NEW s \in Seq(S), NEW m \in Nat \ {0}, NEW n \in m - 1 .. Len(s)
    PROVE  /\ SubSeq(s, m, n) \in Seq(S) /\ Len(SubSeq(s, m, n)) = n - (m - 1)
           /\ \A j \in 1 .. n - (m - 1) : SubSeq(s, m, n)[j] = s[(m - 1) + j]
  <1>1. m \in Int /\ n \in Int /\ Len(s) \in Nat
    OBVIOUS
  <1>2. \A i \in m .. n : s[i] \in S
    <2> SUFFICES ASSUME NEW i \in m .. n
                 PROVE  s[i] \in S
      OBVIOUS
    <2>1. i \in 1 .. Len(s)
      BY <1>1
    <2> QED
      BY <2>1, ElementOfSeq
  <1>3. /\ SubSeq(s, m, n) \in Seq(S)
        /\ Len(SubSeq(s, m, n)) = IF m <= n THEN n - m + 1 ELSE 0
        /\ \A i \in 1 .. n - m + 1 : SubSeq(s, m, n)[i] = s[m + i - 1]
    BY <1>1, <1>2, SubSeqProperties
  <1>4. n - m + 1 = n - (m - 1) /\ (~(m <= n) => n - (m - 1) = 0)
    BY <1>1
  <1>5. \A i \in 1 .. n - (m - 1) : m + i - 1 = (m - 1) + i
    BY <1>1
  <1> QED
    BY <1>3, <1>4, <1>5

\* What InsertAt and RemoveAt do.
LEMMA InsertAtFacts ==
    ASSUME NEW S, NEW s \in Seq(S), NEW i \in 1 .. Len(s) + 1, NEW e \in S
    PROVE  /\ InsertAt(s, i, e) \in Seq(S) /\ Len(InsertAt(s, i, e)) = Len(s) + 1
           /\ \A j \in 1 .. i - 1 : InsertAt(s, i, e)[j] = s[j]
           /\ InsertAt(s, i, e)[i] = e
           /\ \A j \in i .. Len(s) : InsertAt(s, i, e)[j + 1] = s[j]
  <1> DEFINE u == SubSeq(s, 1, i - 1)
             v == SubSeq(s, i, Len(s))
             w == <<e>>
  <1>1. Len(s) \in Nat /\ i \in Nat \ {0} /\ i - 1 \in 0 .. Len(s) /\ Len(s) \in i - 1 .. Len(s)
    OBVIOUS
  <1>2. u \in Seq(S) /\ Len(u) = i - 1 /\ \A j \in 1 .. i - 1 : u[j] = s[j]
    <2>1. /\ u \in Seq(S) /\ Len(u) = (i - 1) - (1 - 1)
          /\ \A j \in 1 .. (i - 1) - (1 - 1) : u[j] = s[(1 - 1) + j]
      BY <1>1, SubSeqFacts
    <2> QED
      BY <1>1, <2>1
  <1>3. v \in Seq(S) /\ Len(v) = Len(s) - (i - 1) /\ \A j \in 1 .. Len(s) - (i - 1) : v[j] = s[(i - 1) + j]
    BY <1>1, SubSeqFacts
  <1>4. InsertAt(s, i, e) = (u \o w) \o v
    BY DEF InsertAt
  <1>5. w \in Seq(S) /\ Len(w) = 1 /\ w[1] = e
    OBVIOUS
  <1> HIDE DEF u, v, w
  <1>6. /\ u \o w \in Seq(S) /\ Len(u \o w) = i
        /\ \A j \in 1 .. i : (u \o w)[j] = IF j <= i - 1 THEN u[j] ELSE w[j - (i - 1)]
    <2>1. /\ u \o w \in Seq(S) /\ Len(u \o w) = Len(u) + Len(w)
          /\ \A j \in 1 .. Len(u) + Len(w) : (u \o w)[j] = IF j <= Len(u) THEN u[j] ELSE w[j - Len(u)]
      BY <1>2, <1>5, ConcatProperties
    <2> QED
      BY <1>1, <1>2, <1>5, <2>1
  <1> DEFINE t == u \o w
  <1>7. t \in Seq(S) /\ Len(t) = i /\ t[i] = e /\ \A j \in 1 .. i - 1 : t[j] = s[j]
    BY <1>1, <1>2, <1>5, <1>6
  <1> HIDE DEF t
  <1>8. /\ t \o v \in Seq(S) /\ Len(t \o v) = Len(s) + 1
        /\ \A j \in 1 .. Len(s) + 1 : (t \o v)[j] = IF j <= i THEN t[j] ELSE v[j - i]
    <2>1. /\ t \o v \in Seq(S) /\ Len(t \o v) = Len(t) + Len(v)
          /\ \A j \in 1 .. Len(t) + Len(v) : (t \o v)[j] = IF j <= Len(t) THEN t[j] ELSE v[j - Len(t)]
      BY <1>3, <1>7, ConcatProperties
    <2> QED
      BY <1>1, <1>3, <1>7, <2>1
  <1>9. \A j \in i .. Len(s) : (t \o v)[j + 1] = s[j]
    <2> SUFFICES ASSUME NEW j \in i .. Len(s)
                 PROVE  (t \o v)[j + 1] = s[j]
      OBVIOUS
    <2>1. j + 1 \in 1 .. Len(s) + 1 /\ ~(j + 1 <= i) /\ (j + 1) - i \in 1 .. Len(s) - (i - 1)
          /\ (i - 1) + ((j + 1) - i) = j
      BY <1>1
    <2> QED
      BY <1>3, <1>8, <2>1
  <1>10. i \in 1 .. Len(s) + 1 /\ \A j \in 1 .. i - 1 : j \in 1 .. Len(s) + 1 /\ j <= i
    BY <1>1
  <1>11. \A j \in 1 .. i - 1 : (t \o v)[j] = s[j]
    BY <1>7, <1>8, <1>10
  <1>12. (t \o v)[i] = e
    BY <1>1, <1>7, <1>8, <1>10
  <1> QED
    BY <1>4, <1>8, <1>9, <1>11, <1>12 DEF t

\* A sequence without one of its elements.
LEMMA RemoveAtFacts ==
    ASSUME NEW S, NEW s \in Seq(S), NEW i \in 1 .. Len(s)
    PROVE  /\ RemoveAt(s, i) \in Seq(S) /\ Len(RemoveAt(s, i)) = Len(s) - 1
           /\ \A j \in 1 .. i - 1 : RemoveAt(s, i)[j] = s[j]
           /\ \A j \in i .. Len(s) - 1 : RemoveAt(s, i)[j] = s[j + 1]
  <1> DEFINE u == SubSeq(s, 1, i - 1)
             v == SubSeq(s, i + 1, Len(s))
  <1>1. /\ Len(s) \in Nat /\ i + 1 \in Nat \ {0} /\ i - 1 \in 1 - 1 .. Len(s)
        /\ Len(s) \in (i + 1) - 1 .. Len(s) /\ 1 \in Nat \ {0}
    OBVIOUS
  <1>2. u \in Seq(S) /\ Len(u) = i - 1 /\ \A j \in 1 .. i - 1 : u[j] = s[j]
    <2>1. /\ u \in Seq(S) /\ Len(u) = (i - 1) - (1 - 1)
          /\ \A j \in 1 .. (i - 1) - (1 - 1) : u[j] = s[(1 - 1) + j]
      BY <1>1, SubSeqFacts
    <2> QED
      BY <1>1, <2>1
  <1>3. v \in Seq(S) /\ Len(v) = Len(s) - i /\ \A j \in 1 .. Len(s) - i : v[j] = s[i + j]
    <2>1. /\ v \in Seq(S) /\ Len(v) = Len(s) - ((i + 1) - 1)
          /\ \A j \in 1 .. Len(s) - ((i + 1) - 1) : v[j] = s[((i + 1) - 1) + j]
      BY <1>1, SubSeqFacts
    <2>2. (i + 1) - 1 = i
      OBVIOUS
    <2> QED
      BY <2>1, <2>2
  <1>4. RemoveAt(s, i) = u \o v
    BY DEF RemoveAt
  <1> HIDE DEF u, v
  <1>5. /\ u \o v \in Seq(S) /\ Len(u \o v) = Len(s) - 1
        /\ \A j \in 1 .. Len(s) - 1 : (u \o v)[j] = IF j <= i - 1 THEN u[j] ELSE v[j - (i - 1)]
    <2>1. /\ u \o v \in Seq(S) /\ Len(u \o v) = Len(u) + Len(v)
          /\ \A j \in 1 .. Len(u) + Len(v) : (u \o v)[j] = IF j <= Len(u) THEN u[j] ELSE v[j - Len(u)]
      BY <1>2, <1>3, ConcatProperties
    <2>2. Len(u) + Len(v) = Len(s) - 1
      BY <1>1, <1>2, <1>3
    <2> QED
      BY <1>2, <2>1, <2>2
  <1>6. \A j \in 1 .. i - 1 : (u \o v)[j] = s[j]
    <2> SUFFICES ASSUME NEW j \in 1 .. i - 1
                 PROVE  (u \o v)[j] = s[j]
      OBVIOUS
    <2>1. j \in 1 .. Len(s) - 1 /\ j <= i - 1
      BY <1>1
    <2> QED
      BY <1>2, <1>5, <2>1
  <1>7. \A j \in i .. Len(s) - 1 : (u \o v)[j] = s[j + 1]
    <2> SUFFICES ASSUME NEW j \in i .. Len(s) - 1
                 PROVE  (u \o v)[j] = s[j + 1]
      OBVIOUS
    <2>1. j \in 1 .. Len(s) - 1 /\ ~(j <= i - 1) /\ j - (i - 1) \in 1 .. Len(s) - i /\ i + (j - (i - 1)) = j + 1
      BY <1>1
    <2> QED
      BY <1>3, <1>5, <2>1
  <1> QED
    BY <1>4, <1>5, <1>6, <1>7

\* The fields of a record.
LEMMA RecordFacts ==
    ASSUME NEW s \in Seq(Record), NEW i \in DOMAIN s
    PROVE  /\ s[i] \in Record /\ s[i].n \in Name \cup {Void, Dots} /\ s[i].len \in Nat /\ s[i].len > 0
           /\ i \in 1 .. Len(s) /\ Len(s) \in Nat
  <1>1. i \in 1 .. Len(s) /\ Len(s) \in Nat
    OBVIOUS
  <1>2. s[i] \in Record
    BY <1>1, ElementOfSeq
  <1> QED
    BY <1>1, <1>2 DEF Record

\* Records follow one another.
LEMMA StartFacts ==
    ASSUME NEW s \in Seq(Record)
    PROVE  /\ Start(s, 1) = 0 /\ Total(s) = Start(s, Len(s) + 1)
           /\ \A i \in DOMAIN s : Start(s, i + 1) = Start(s, i) + s[i].len
           /\ \A i \in 1 .. Len(s) + 1 : Start(s, i) \in Nat /\ i - 1 <= Start(s, i)
           /\ \A i \in DOMAIN s : \A j \in i + 1 .. Len(s) + 1 : Start(s, i) + s[i].len <= Start(s, j)
  <1> DEFINE f == [j \in DOMAIN s |-> s[j].len]
             n == Len(s)
  <1>1. n \in Nat /\ DOMAIN s = 1 .. n /\ f \in [1 .. n -> Nat]
    BY RecordFacts
  <1>2. \A i \in DOMAIN s : f[i] = s[i].len /\ f[i] \in Nat /\ f[i] > 0
    BY RecordFacts
  <1>3. \A i : Start(s, i) = SumTo(f, i - 1)
    BY DEF Start
  <1> HIDE DEF f
  <1>4. SumTo(f, 0) = 0 /\ \A k \in 0 .. n - 1 : SumTo(f, k + 1) = SumTo(f, k) + f[k + 1]
    BY <1>1, SumFacts
  <1>5. \A k \in 0 .. n : SumTo(f, k) \in Nat
    BY <1>1, SumFacts
  <1>6. \A i \in 0 .. n : \A j \in i .. n : SumTo(f, i) <= SumTo(f, j)
    BY <1>1, SumGrows
  <1>7. \A i \in DOMAIN s : Start(s, i + 1) = Start(s, i) + s[i].len
    <2> SUFFICES ASSUME NEW i \in 1 .. n
                 PROVE  Start(s, i + 1) = Start(s, i) + s[i].len
      BY <1>1
    <2>1. i - 1 \in 0 .. n - 1 /\ (i - 1) + 1 = i /\ (i + 1) - 1 = i
      BY <1>1
    <2>2. SumTo(f, (i - 1) + 1) = SumTo(f, i - 1) + f[(i - 1) + 1]
      BY <1>4, <2>1
    <2> QED
      BY <1>1, <1>2, <1>3, <2>1, <2>2
  <1>8. \A i \in DOMAIN s : \A j \in i + 1 .. Len(s) + 1 : Start(s, i) + s[i].len <= Start(s, j)
    <2> SUFFICES ASSUME NEW i \in 1 .. n, NEW j \in i + 1 .. n + 1
                 PROVE  Start(s, i) + s[i].len <= Start(s, j)
      BY <1>1
    <2>1. i \in 0 .. n /\ j - 1 \in i .. n /\ (i + 1) - 1 = i
      BY <1>1
    <2>2. SumTo(f, i) <= SumTo(f, j - 1)
      BY <1>6, <2>1
    <2> QED
      BY <1>1, <1>3, <1>7, <2>1, <2>2
  <1>9. \A i \in 1 .. n + 1 : Start(s, i) \in Nat
    <2> SUFFICES ASSUME NEW i \in 1 .. n + 1
                 PROVE  Start(s, i) \in Nat
      OBVIOUS
    <2>1. i - 1 \in 0 .. n
      BY <1>1
    <2> QED
      BY <1>3, <1>5, <2>1
  <1>10. \A i \in 1 .. n + 1 : i - 1 <= Start(s, i)
    <2> DEFINE S == {k \in 0 .. n : k <= Start(s, k + 1)}
    <2>1. 0 \in S
      BY <1>1, <1>3, <1>4
    <2>2. ASSUME NEW k \in 0 .. n - 1, k \in S
          PROVE  k + 1 \in S
      <3>1. k + 1 \in 1 .. n /\ k + 1 \in 1 .. n + 1
        BY <1>1
      <3>2. Start(s, (k + 1) + 1) = Start(s, k + 1) + s[k + 1].len /\ s[k + 1].len \in Nat /\ s[k + 1].len > 0
        BY <1>1, <1>2, <1>7, <3>1
      <3>3. Start(s, k + 1) \in Nat
        BY <1>9, <3>1
      <3> QED
        BY <1>1, <2>2, <3>1, <3>2, <3>3
    <2> HIDE DEF S
    <2>3. \A k \in 0 .. n : k \in S
      BY <1>1, <2>1, <2>2, Induction
    <2> SUFFICES ASSUME NEW i \in 1 .. n + 1
                 PROVE  i - 1 <= Start(s, i)
      OBVIOUS
    <2>4. i - 1 \in 0 .. n /\ (i - 1) + 1 = i
      BY <1>1
    <2>5. i - 1 \in S
      BY <2>3, <2>4
    <2> QED
      BY <2>4, <2>5 DEF S
  <1>11. Start(s, 1) = 0
    BY <1>3, <1>4
  <1> QED
    BY <1>7, <1>8, <1>9, <1>10, <1>11 DEF Total

\* Places that follow one another as the records do are theirs.
LEMMA StartIs ==
    ASSUME NEW s \in Seq(Record), NEW g, g[1] = 0, \A i \in DOMAIN s : g[i + 1] = g[i] + s[i].len
    PROVE  \A i \in 1 .. Len(s) + 1 : Start(s, i) = g[i]
  <1> DEFINE n == Len(s)
             S == {k \in 0 .. n : Start(s, k + 1) = g[k + 1]}
  <1>1. n \in Nat /\ DOMAIN s = 1 .. n
    OBVIOUS
  <1>2. 0 \in S
    BY <1>1, StartFacts
  <1>3. ASSUME NEW k \in 0 .. n - 1, k \in S
        PROVE  k + 1 \in S
    <2>1. k + 1 \in 1 .. n
      BY <1>1
    <2>2. Start(s, (k + 1) + 1) = Start(s, k + 1) + s[k + 1].len
      BY <1>1, <2>1, StartFacts
    <2>3. g[(k + 1) + 1] = g[k + 1] + s[k + 1].len
      BY <1>1, <2>1
    <2> QED
      BY <1>1, <1>3, <2>1, <2>2, <2>3
  <1> HIDE DEF S
  <1>4. \A k \in 0 .. n : k \in S
    BY <1>1, <1>2, <1>3, Induction
  <1> SUFFICES ASSUME NEW i \in 1 .. n + 1
               PROVE  Start(s, i) = g[i]
    OBVIOUS
  <1>5. i - 1 \in 0 .. n /\ (i - 1) + 1 = i
    BY <1>1
  <1>6. i - 1 \in S
    BY <1>4, <1>5
  <1> QED
    BY <1>5, <1>6 DEF S

\* Two records do not begin at one place.
LEMMA StartsApart ==
    ASSUME NEW s \in Seq(Record), NEW i \in DOMAIN s, NEW j \in DOMAIN s
    PROVE  /\ i < j => Start(s, i) < Start(s, j)
           /\ Start(s, i) = Start(s, j) => i = j
           /\ Start(s, i) <= Start(s, j) => i <= j
           /\ Start(s, i) \in Nat
  <1>1. i \in 1 .. Len(s) /\ j \in 1 .. Len(s) /\ Len(s) \in Nat
    OBVIOUS
  <1>2. s[i].len \in Nat /\ s[i].len > 0 /\ s[j].len \in Nat /\ s[j].len > 0
    BY RecordFacts
  <1>3. Start(s, i) \in Nat /\ Start(s, j) \in Nat
    BY <1>1, StartFacts
  <1>4. (i < j => j \in i + 1 .. Len(s) + 1) /\ (j < i => i \in j + 1 .. Len(s) + 1)
    BY <1>1
  <1>5. /\ i < j => Start(s, i) + s[i].len <= Start(s, j)
        /\ j < i => Start(s, j) + s[j].len <= Start(s, i)
    BY <1>1, <1>4, StartFacts
  <1> QED
    BY <1>1, <1>2, <1>3, <1>5

\* A name does not get the mark of records that are not in use, nor that of '.' and '..'.
LEMMA NameFacts ==
    ASSUME NEW n \in Name
    PROVE  /\ n # Void /\ n # Dots /\ Used(n) = Size[n] /\ Size[n] \in Nat /\ Size[n] > 0 /\ 2 * Size[n] <= LeafSize
           /\ Hash[n] \in Nat /\ Hash[n] % 2 = 0
  <1>1. LeafSize \in Nat
    BY DirAssumption
  <1>2. LeafSize \div 2 \in Nat /\ 2 * (LeafSize \div 2) <= LeafSize
    BY <1>1, DivMod
  <1>3. Size[n] \in 1 .. LeafSize \div 2
    BY DirAssumption
  <1>4. n # Void /\ n # Dots /\ Hash[n] \in Nat /\ Hash[n] % 2 = 0
    BY DirAssumption
  <1> QED
    BY <1>1, <1>2, <1>3, <1>4 DEF Used

\* Names keep their places, all but n.
SamePlaces(s, t, n) ==
  \A m \in (Name \cup {Dots}) \ {n} : \A o \in Nat : InAt(t, m, o) <=> InAt(s, m, o)

\* A name that is added to a block gets a place of its own, and no other name changes place.
LEMMA InsertKeeps ==
    ASSUME NEW s, RecordsOK(s), NEW n \in Name, ~Holds(s, n), Roomy(s, n) # {}
    PROVE  RecordsOK(Insert(s, n)) /\ Holds(Insert(s, n), n) /\ SamePlaces(s, Insert(s, n), n)
  <1> DEFINE i == Min(Roomy(s, n))
             l == Len(s)
             t == Insert(s, n)
  <1>1. s \in Seq(Record) /\ l \in Nat /\ DOMAIN s = 1 .. l
    BY DEF RecordsOK
  <1>2. i \in DOMAIN s /\ HasRoom(s[i], n)
    <2>1. Roomy(s, n) \in SUBSET Nat /\ Roomy(s, n) \subseteq 1 .. l
      BY <1>1 DEF Roomy
    <2>2. IsFiniteSet(Roomy(s, n))
      <3>1. IsFiniteSet(1 .. l)
        BY <1>1, FS_Interval
      <3> QED
        BY <2>1, <3>1, FS_Subset
    <2>3. i \in Roomy(s, n)
      BY <2>1, <2>2, MinFacts
    <2> QED
      BY <2>3 DEF Roomy
  <1> DEFINE r == s[i]
             rest == r.len - Used(r.n)
  <1>3. t = IF r.n = Void THEN [s EXCEPT ![i].n = n]
            ELSE InsertAt([s EXCEPT ![i].len = Used(r.n)], i + 1, Rec(n, rest))
    BY DEF Insert
  <1>4. n # Void /\ n # Dots /\ Used(n) = Size[n] /\ Size[n] \in Nat /\ Size[n] > 0
    BY NameFacts
  <1>5. /\ r \in Record /\ r.n \in Name \cup {Void, Dots} /\ r.len \in Nat /\ r.len > 0
        /\ i \in 1 .. l
    BY <1>1, <1>2, RecordFacts
  <1> HIDE DEF i
  <1>6. CASE r.n = Void
    <2> DEFINE e == [r EXCEPT !.n = n]
    <2>1. t = [s EXCEPT ![i] = e]
      BY <1>3, <1>6
    <2>2. e \in Record /\ e.n = n /\ e.len = r.len
      BY <1>5 DEF Record
    <2> HIDE DEF t, e
    <2>3. t \in Seq(Record) /\ Len(t) = l /\ \A j \in 1 .. l : t[j] = IF j = i THEN e ELSE s[j]
      BY <1>1, <1>5, <2>1, <2>2, ExceptSeq
    <2>4. DOMAIN t = 1 .. l
      BY <2>3
    <2>5. \A j \in 1 .. l : t[j].len = s[j].len /\ t[j].n = IF j = i THEN n ELSE s[j].n
      BY <2>2, <2>3
    <2>6. \A j \in 1 .. l + 1 : Start(t, j) = Start(s, j)
      <3> DEFINE g == [j \in 1 .. l + 1 |-> Start(s, j)]
      <3>1. g[1] = 0 /\ \A j \in DOMAIN t : g[j + 1] = g[j] + t[j].len
        <4>1. g[1] = Start(s, 1) /\ \A j \in 1 .. l : g[j] = Start(s, j) /\ g[j + 1] = Start(s, j + 1)
          BY <1>1
        <4>2. Start(s, 1) = 0 /\ \A j \in 1 .. l : Start(s, j + 1) = Start(s, j) + s[j].len
          BY <1>1, StartFacts
        <4> HIDE DEF g
        <4> QED
          BY <2>4, <2>5, <4>1, <4>2
      <3> HIDE DEF g
      <3>2. \A j \in 1 .. Len(t) + 1 : Start(t, j) = g[j]
        BY <2>3, <3>1, StartIs
      <3> QED
        BY <2>3, <3>2 DEF g
    <2>7. Total(t) = LeafSize
      <3>1. l + 1 \in 1 .. l + 1
        BY <1>1
      <3> QED
        BY <1>1, <2>3, <2>6, <3>1, StartFacts DEF RecordsOK
    <2>8. i = 1 /\ \A j \in 1 .. l : s[j].n = Void => j = i
      BY <1>1, <1>5, <1>6 DEF RecordsOK
    <2>9. \A j \in 1 .. l : t[j].n # Void
      BY <1>4, <2>5, <2>8
    <2>10. \A j \in 1 .. l : Used(t[j].n) <= t[j].len
      <3>1. Size[n] <= r.len
        BY <1>2, <1>4, <1>5, <1>6 DEF HasRoom
      <3> SUFFICES ASSUME NEW j \in 1 .. l
                   PROVE  Used(t[j].n) <= t[j].len
        OBVIOUS
      <3>2. CASE j = i
        BY <1>4, <2>5, <3>1, <3>2
      <3>3. CASE j # i
        BY <1>1, <2>5, <2>8, <3>3 DEF RecordsOK
      <3> QED
        BY <3>2, <3>3
    <2>11. \A j, k \in 1 .. l : t[j].n = t[k].n => j = k
      <3>1. \A j \in 1 .. l : s[j].n # n
        BY <1>1 DEF Holds
      <3>2. \A j, k \in 1 .. l : s[j].n = s[k].n => j = k
        BY <1>1 DEF RecordsOK
      <3> QED
        BY <2>5, <3>1, <3>2
    <2>12. RecordsOK(t)
      BY <2>3, <2>4, <2>7, <2>9, <2>10, <2>11 DEF RecordsOK
    <2>13. Holds(t, n)
      BY <1>5, <2>4, <2>5 DEF Holds
    <2>14. ASSUME NEW m \in (Name \cup {Dots}) \ {n}, NEW o \in Nat
           PROVE  InAt(t, m, o) <=> InAt(s, m, o)
      <3>1. m # Void
        BY DirAssumption, NameFacts DEF Void, Dots
      <3>2. \A j \in 1 .. l : t[j].n = m <=> s[j].n = m
        BY <1>6, <2>5, <3>1
      <3>3. \A j \in 1 .. l : Start(t, j) = Start(s, j)
        BY <1>1, <2>6
      <3> QED
        BY <1>1, <2>4, <3>2, <3>3 DEF InAt
    <2> QED
      BY <2>12, <2>13, <2>14 DEF SamePlaces, t
  <1>7. CASE r.n # Void
    <2> DEFINE u == Used(r.n)
               d == [r EXCEPT !.len = u]
               e == Rec(n, rest)
               a == [s EXCEPT ![i] = d]
    <2>1. t = InsertAt(a, i + 1, e)
      BY <1>3, <1>7
    <2>2. u \in Nat /\ u > 0
      BY <1>5, <1>7, NameFacts DEF Used
    <2>3. rest \in Nat /\ rest > 0 /\ Size[n] <= rest /\ r.len = u + rest
      BY <1>2, <1>4, <1>5, <1>7, <2>2 DEF HasRoom
    <2>4. d \in Record /\ d.n = r.n /\ d.len = u
      BY <1>5, <2>2 DEF Record
    <2>5. e \in Record /\ e.n = n /\ e.len = rest
      BY <2>3 DEF Record, Rec
    <2> HIDE DEF t, rest, u, d, e
    <2>6. a \in Seq(Record) /\ Len(a) = l /\ \A j \in 1 .. l : a[j] = IF j = i THEN d ELSE s[j]
      BY <1>1, <1>5, <2>4, ExceptSeq
    <2> HIDE DEF a
    <2>7. /\ t \in Seq(Record) /\ Len(t) = l + 1
          /\ \A j \in 1 .. (i + 1) - 1 : t[j] = a[j]
          /\ t[i + 1] = e
          /\ \A j \in i + 1 .. l : t[j + 1] = a[j]
      <3>1. i + 1 \in 1 .. Len(a) + 1
        BY <1>1, <1>5, <2>6
      <3> QED
        <4>1. PICK k : k = i + 1
          OBVIOUS
        <4>2. k \in 1 .. Len(a) + 1 /\ t = InsertAt(a, k, e)
          BY <2>1, <3>1, <4>1
        <4>3. /\ t \in Seq(Record) /\ Len(t) = Len(a) + 1
              /\ \A j \in 1 .. k - 1 : t[j] = a[j]
              /\ t[k] = e
              /\ \A j \in k .. Len(a) : t[j + 1] = a[j]
          BY <2>5, <2>6, <4>2, InsertAtFacts
        <4> QED
          BY <2>6, <4>1, <4>3
    <2>8. DOMAIN t = 1 .. l + 1
      BY <2>7
    <2>9. /\ \A j \in 1 .. i - 1 : t[j] = s[j]
          /\ t[i] = d /\ t[i + 1] = e
          /\ \A j \in i + 1 .. l : t[j + 1] = s[j]
      <3>1. \A j \in 1 .. i - 1 : j \in 1 .. (i + 1) - 1 /\ j \in 1 .. l /\ j # i
        BY <1>1, <1>5
      <3>2. i \in 1 .. (i + 1) - 1
        BY <1>1, <1>5
      <3>3. \A j \in i + 1 .. l : j \in 1 .. l /\ j # i
        BY <1>1, <1>5
      <3> QED
        BY <1>5, <2>6, <2>7, <3>1, <3>2, <3>3
    <2>10. ASSUME NEW j \in 1 .. l + 1
           PROVE  \/ j \in 1 .. i - 1
                  \/ j = i
                  \/ j = i + 1
                  \/ j - 1 \in i + 1 .. l /\ (j - 1) + 1 = j
      BY <1>1, <1>5
    <2> DEFINE g == [j \in 1 .. l + 2 |-> IF j <= i THEN Start(s, j)
                                          ELSE IF j = i + 1 THEN Start(s, i) + u ELSE Start(s, j - 1)]
    <2>11. /\ \A j \in 1 .. i : g[j] = Start(s, j)
           /\ g[i + 1] = Start(s, i) + u
           /\ \A j \in i + 1 .. l + 1 : g[j + 1] = Start(s, j)
      <3>1. \A j \in 1 .. i : j \in 1 .. l + 2 /\ j <= i
        BY <1>1, <1>5
      <3>2. i + 1 \in 1 .. l + 2 /\ ~(i + 1 <= i)
        BY <1>1, <1>5
      <3>3. \A j \in i + 1 .. l + 1 : j + 1 \in 1 .. l + 2 /\ ~(j + 1 <= i) /\ j + 1 # i + 1 /\ (j + 1) - 1 = j
        BY <1>1, <1>5
      <3> QED
        BY <3>1, <3>2, <3>3
    <2> HIDE DEF g
    <2>12. g[1] = 0
      BY <1>1, <1>5, <2>11, StartFacts
    <2>13. \A j \in DOMAIN t : g[j + 1] = g[j] + t[j].len
      <3> SUFFICES ASSUME NEW j \in 1 .. l + 1
                   PROVE  g[j + 1] = g[j] + t[j].len
        BY <2>8
      <3>1. CASE j \in 1 .. i - 1
        <4>1. j \in 1 .. i /\ j + 1 \in 1 .. i /\ j \in 1 .. l
          BY <1>1, <1>5, <3>1
        <4>2. Start(s, j + 1) = Start(s, j) + s[j].len
          BY <1>1, <4>1, StartFacts
        <4> QED
          BY <2>9, <2>11, <3>1, <4>1, <4>2
      <3>2. CASE j = i
        <4>1. i \in 1 .. i
          BY <1>5
        <4> QED
          BY <2>4, <2>9, <2>11, <3>2, <4>1
      <3>3. CASE j = i + 1
        <4>1. i + 1 \in i + 1 .. l + 1
          BY <1>1, <1>5
        <4>2. Start(s, i + 1) = Start(s, i) + r.len
          BY <1>1, <1>5, StartFacts
        <4>3. Start(s, i) \in Nat
          BY <1>1, <1>5, StartFacts
        <4> QED
          BY <2>2, <2>3, <2>5, <2>9, <2>11, <3>3, <4>1, <4>2, <4>3
      <3>4. CASE j - 1 \in i + 1 .. l /\ (j - 1) + 1 = j
        <4> DEFINE k == j - 1
        <4>1. k \in i + 1 .. l /\ k + 1 = j /\ k \in i + 1 .. l + 1 /\ k + 1 \in i + 1 .. l + 1 /\ k \in 1 .. l
          BY <1>1, <1>5, <3>4
        <4> HIDE DEF k
        <4>2. Start(s, k + 1) = Start(s, k) + s[k].len
          BY <1>1, <4>1, StartFacts
        <4>3. g[k + 1] = Start(s, k) /\ g[(k + 1) + 1] = Start(s, k + 1) /\ t[k + 1] = s[k]
          BY <2>9, <2>11, <4>1
        <4> QED
          BY <4>1, <4>2, <4>3
      <3> QED
        BY <2>10, <3>1, <3>2, <3>3, <3>4
    <2>14. \A j \in 1 .. l + 2 : Start(t, j) = g[j]
      <3>1. \A j \in 1 .. Len(t) + 1 : Start(t, j) = g[j]
        BY <2>7, <2>12, <2>13, StartIs
      <3>2. Len(t) + 1 = l + 2
        BY <1>1, <2>7
      <3> QED
        BY <3>1, <3>2
    <2>15. /\ \A j \in 1 .. i : Start(t, j) = Start(s, j)
           /\ \A j \in i + 1 .. l + 1 : Start(t, j + 1) = Start(s, j)
      <3>1. \A j \in 1 .. i : j \in 1 .. l + 2
        BY <1>1, <1>5
      <3>2. \A j \in i + 1 .. l + 1 : j + 1 \in 1 .. l + 2
        BY <1>1, <1>5
      <3> QED
        BY <2>11, <2>14, <3>1, <3>2
    <2>16. Total(t) = LeafSize
      <3>1. l + 1 \in i + 1 .. l + 1
        BY <1>1, <1>5
      <3>2. Total(t) = Start(t, (l + 1) + 1) /\ Total(s) = Start(s, l + 1)
        BY <1>1, <2>7, StartFacts
      <3> QED
        BY <2>15, <3>1, <3>2 DEF RecordsOK
    <2>17. /\ \A j \in 1 .. i : t[j].n = s[j].n
           /\ t[i + 1].n = n
           /\ \A j \in i + 1 .. l : t[j + 1].n = s[j].n
      <3>1. \A j \in 1 .. i : j = i \/ j \in 1 .. i - 1
        BY <1>5
      <3> QED
        BY <2>4, <2>5, <2>9, <3>1
    <2>18. \A j \in 1 .. l + 1 : t[j].n # Void => Used(t[j].n) <= t[j].len
      <3> SUFFICES ASSUME NEW j \in 1 .. l + 1, t[j].n # Void
                   PROVE  Used(t[j].n) <= t[j].len
        OBVIOUS
      <3>1. CASE j \in 1 .. i - 1
        <4>1. j \in 1 .. l /\ t[j] = s[j]
          BY <1>1, <1>5, <2>9, <3>1
        <4> QED
          BY <1>1, <4>1 DEF RecordsOK
      <3>2. CASE j = i
        <4>1. t[j].n = r.n /\ t[j].len = u
          BY <2>4, <2>9, <3>2
        <4> QED
          BY <2>2, <4>1 DEF u
      <3>3. CASE j = i + 1
        BY <1>4, <2>3, <2>5, <2>9, <3>3
      <3>4. CASE j - 1 \in i + 1 .. l /\ (j - 1) + 1 = j
        <4>1. j - 1 \in 1 .. l /\ t[(j - 1) + 1] = s[j - 1]
          BY <1>1, <1>5, <2>9, <3>4
        <4>2. t[j] = s[j - 1]
          BY <3>4, <4>1
        <4> QED
          BY <1>1, <4>1, <4>2 DEF RecordsOK
      <3> QED
        BY <2>10, <3>1, <3>2, <3>3, <3>4
    <2> DEFINE Old(j) == IF j <= i THEN j ELSE j - 1
    <2>19. ASSUME NEW j \in 1 .. l + 1, j # i + 1
           PROVE  Old(j) \in 1 .. l /\ t[j].n = s[Old(j)].n /\ Start(t, j) = Start(s, Old(j))
      <3>1. CASE j <= i
        <4>1. j \in 1 .. i /\ j \in 1 .. l /\ Old(j) = j
          BY <1>1, <1>5, <3>1
        <4> QED
          BY <2>15, <2>17, <4>1
      <3>2. CASE ~(j <= i)
        <4>1. j - 1 \in i + 1 .. l /\ (j - 1) + 1 = j /\ Old(j) = j - 1 /\ j - 1 \in 1 .. l /\ j - 1 \in i + 1 .. l + 1
          BY <1>1, <1>5, <2>19, <3>2
        <4>2. t[(j - 1) + 1].n = s[j - 1].n /\ Start(t, (j - 1) + 1) = Start(s, j - 1)
          BY <2>15, <2>17, <4>1
        <4> QED
          BY <4>1, <4>2
      <3> QED
        BY <3>1, <3>2
    <2>20. \A j, k \in 1 .. l + 1 : j # i + 1 /\ k # i + 1 /\ Old(j) = Old(k) => j = k
      BY <1>1, <1>5
    <2>21. \A j \in 1 .. l : \E k \in 1 .. l + 1 : k # i + 1 /\ Old(k) = j
      <3> SUFFICES ASSUME NEW j \in 1 .. l
                   PROVE  \E k \in 1 .. l + 1 : k # i + 1 /\ Old(k) = j
        OBVIOUS
      <3>1. CASE j <= i
        <4>1. j \in 1 .. l + 1 /\ j # i + 1 /\ Old(j) = j
          BY <1>1, <1>5, <3>1
        <4> QED
          BY <4>1
      <3>2. CASE ~(j <= i)
        <4>1. j + 1 \in 1 .. l + 1 /\ j + 1 # i + 1 /\ Old(j + 1) = j
          BY <1>1, <1>5, <3>2
        <4> QED
          BY <4>1
      <3> QED
        BY <3>1, <3>2
    <2>22. Old(1) = 1 /\ \A j \in 1 .. l + 1 : j # i + 1 /\ Old(j) = 1 => j = 1
      BY <1>1, <1>5
    <2> HIDE DEF Old
    <2>23. \A j \in 1 .. l + 1 : t[j].n = Void => j = 1
      <3> SUFFICES ASSUME NEW j \in 1 .. l + 1, t[j].n = Void
                   PROVE  j = 1
        OBVIOUS
      <3>1. j # i + 1
        BY <1>4, <2>17
      <3>2. Old(j) = 1
        BY <1>1, <2>19, <3>1 DEF RecordsOK
      <3> QED
        BY <2>22, <3>1, <3>2
    <2>24. \A j \in 1 .. l + 1 : j # i + 1 => t[j].n # n
      BY <1>1, <2>19 DEF Holds
    <2>25. \A j, k \in 1 .. l + 1 : t[j].n = t[k].n => j = k
      <3> SUFFICES ASSUME NEW j \in 1 .. l + 1, NEW k \in 1 .. l + 1, t[j].n = t[k].n
                   PROVE  j = k
        OBVIOUS
      <3>1. CASE j = i + 1 \/ k = i + 1
        BY <2>17, <2>24, <3>1
      <3>2. CASE j # i + 1 /\ k # i + 1
        <4>1. Old(j) = Old(k)
          BY <1>1, <2>19, <3>2 DEF RecordsOK
        <4> QED
          BY <2>20, <3>2, <4>1
      <3> QED
        BY <3>1, <3>2
    <2>26. RecordsOK(t)
      BY <2>7, <2>8, <2>16, <2>18, <2>23, <2>25 DEF RecordsOK
    <2>27. Holds(t, n)
      <3>1. i + 1 \in DOMAIN t
        BY <1>1, <1>5, <2>8
      <3> QED
        BY <2>17, <3>1 DEF Holds
    <2>28. ASSUME NEW m \in (Name \cup {Dots}) \ {n}, NEW o \in Nat
           PROVE  InAt(t, m, o) <=> InAt(s, m, o)
      <3>1. ASSUME InAt(t, m, o)
            PROVE  InAt(s, m, o)
        <4>1. PICK j \in 1 .. l + 1 : t[j].n = m /\ Start(t, j) = o
          BY <2>8, <3>1 DEF InAt
        <4>2. j # i + 1
          BY <2>17, <4>1
        <4> QED
          BY <1>1, <2>19, <4>1, <4>2 DEF InAt
      <3>2. ASSUME InAt(s, m, o)
            PROVE  InAt(t, m, o)
        <4>1. PICK j \in 1 .. l : s[j].n = m /\ Start(s, j) = o
          BY <1>1, <3>2 DEF InAt
        <4>2. PICK k \in 1 .. l + 1 : k # i + 1 /\ Old(k) = j
          BY <2>21
        <4> QED
          BY <2>8, <2>19, <4>1, <4>2 DEF InAt
      <3> QED
        BY <3>1, <3>2
    <2> QED
      BY <2>26, <2>27, <2>28 DEF SamePlaces, t
  <1> QED
    BY <1>6, <1>7

\* A name that is removed from a block is gone, and no other name changes place.
LEMMA CutKeeps ==
    ASSUME NEW s, RecordsOK(s), NEW n \in Name, Holds(s, n)
    PROVE  RecordsOK(Cut(s, n)) /\ ~Holds(Cut(s, n), n) /\ SamePlaces(s, Cut(s, n), n)
  <1> DEFINE I == {j \in DOMAIN s : s[j].n = n}
             i == Min(I)
             l == Len(s)
             t == Cut(s, n)
  <1>1. s \in Seq(Record) /\ l \in Nat /\ DOMAIN s = 1 .. l
    BY DEF RecordsOK
  <1>2. i \in 1 .. l /\ s[i].n = n
    <2>1. I \in SUBSET Nat /\ I \subseteq 1 .. l /\ I # {}
      BY <1>1 DEF Holds
    <2>2. IsFiniteSet(1 .. l)
      BY <1>1, FS_Interval
    <2>3. IsFiniteSet(I)
      BY <2>1, <2>2, FS_Subset
    <2>4. i \in I
      <3> HIDE DEF I
      <3> QED
        BY <2>1, <2>3, MinFacts
    <2> QED
      BY <1>1, <2>4
  <1>3. t = IF i = 1 THEN [s EXCEPT ![1].n = Void]
            ELSE RemoveAt([s EXCEPT ![i - 1].len = @ + s[i].len], i)
    BY DEF Cut
  <1>4. n # Void /\ n # Dots /\ Used(n) = Size[n] /\ Size[n] \in Nat /\ Size[n] > 0
    BY NameFacts
  <1>5. \A j \in 1 .. l : s[j].n = n => j = i
    BY <1>1, <1>2 DEF RecordsOK
  <1>6. \A j \in 1 .. l : s[j] \in Record /\ s[j].n \in Name \cup {Void, Dots} /\ s[j].len \in Nat /\ s[j].len > 0
    BY <1>1, RecordFacts
  <1> HIDE DEF i, I
  <1>7. CASE i = 1
    <2> DEFINE e == [s[1] EXCEPT !.n = Void]
    <2>1. t = [s EXCEPT ![1] = e]
      BY <1>3, <1>7
    <2>2. e \in Record /\ e.n = Void /\ e.len = s[1].len
      BY <1>2, <1>6, <1>7 DEF Record
    <2> HIDE DEF t, e
    <2>3. t \in Seq(Record) /\ Len(t) = l /\ \A j \in 1 .. l : t[j] = IF j = 1 THEN e ELSE s[j]
      BY <1>1, <1>2, <1>7, <2>1, <2>2, ExceptSeq
    <2>4. DOMAIN t = 1 .. l
      BY <2>3
    <2>5. \A j \in 1 .. l : t[j].len = s[j].len /\ t[j].n = IF j = 1 THEN Void ELSE s[j].n
      BY <2>2, <2>3
    <2>6. \A j \in 1 .. l + 1 : Start(t, j) = Start(s, j)
      <3> DEFINE g == [j \in 1 .. l + 1 |-> Start(s, j)]
      <3>1. g[1] = 0 /\ \A j \in DOMAIN t : g[j + 1] = g[j] + t[j].len
        <4>1. g[1] = Start(s, 1) /\ \A j \in 1 .. l : g[j] = Start(s, j) /\ g[j + 1] = Start(s, j + 1)
          BY <1>1
        <4>2. Start(s, 1) = 0 /\ \A j \in 1 .. l : Start(s, j + 1) = Start(s, j) + s[j].len
          BY <1>1, StartFacts
        <4> HIDE DEF g
        <4> QED
          BY <2>4, <2>5, <4>1, <4>2
      <3> HIDE DEF g
      <3>2. \A j \in 1 .. Len(t) + 1 : Start(t, j) = g[j]
        BY <2>3, <3>1, StartIs
      <3> QED
        BY <2>3, <3>2 DEF g
    <2>7. Total(t) = LeafSize
      <3>1. l + 1 \in 1 .. l + 1
        BY <1>1
      <3> QED
        BY <1>1, <2>3, <2>6, <3>1, StartFacts DEF RecordsOK
    <2>8. \A j \in 1 .. l : t[j].n # Void => Used(t[j].n) <= t[j].len
      BY <1>1, <2>5 DEF RecordsOK
    <2>9. \A j \in 1 .. l : t[j].n = Void => j = 1
      BY <1>1, <2>5 DEF RecordsOK
    <2>10. \A j, k \in 1 .. l : t[j].n = t[k].n => j = k
      BY <1>1, <2>5 DEF RecordsOK
    <2>11. RecordsOK(t)
      BY <2>3, <2>4, <2>7, <2>8, <2>9, <2>10 DEF RecordsOK
    <2>12. ~Holds(t, n)
      BY <1>4, <1>5, <1>7, <2>4, <2>5 DEF Holds
    <2>13. ASSUME NEW m \in (Name \cup {Dots}) \ {n}, NEW o \in Nat
           PROVE  InAt(t, m, o) <=> InAt(s, m, o)
      <3>1. m # Void
        BY DirAssumption, NameFacts DEF Void, Dots
      <3>2. \A j \in 1 .. l : t[j].n = m <=> s[j].n = m
        BY <1>2, <1>7, <2>5, <3>1
      <3>3. \A j \in 1 .. l : Start(t, j) = Start(s, j)
        BY <1>1, <2>6
      <3> QED
        BY <1>1, <2>4, <3>2, <3>3 DEF InAt
    <2> QED
      BY <2>11, <2>12, <2>13 DEF SamePlaces, t
  <1>8. CASE i # 1
    <2> DEFINE h == i - 1
    <2>1. h \in 1 .. l /\ h + 1 = i /\ h < i /\ h \in Nat
      BY <1>1, <1>2, <1>8
    <2> DEFINE d == [s[h] EXCEPT !.len = @ + s[i].len]
               a == [s EXCEPT ![h] = d]
    <2>2. t = RemoveAt(a, i)
      BY <1>3, <1>8
    <2>3. d \in Record /\ d.n = s[h].n /\ d.len = s[h].len + s[i].len
      <3> HIDE DEF h
      <3>1. PICK r : r = s[h]
        OBVIOUS
      <3>2. r \in Record /\ r.len \in Nat /\ r.len > 0 /\ s[i].len \in Nat
        BY <1>2, <1>6, <2>1, <3>1
      <3>3. d = [r EXCEPT !.len = r.len + s[i].len] /\ r.len + s[i].len \in Nat \ {0}
        BY <3>1, <3>2
      <3> QED
        BY <3>1, <3>2, <3>3 DEF Record
    <2> HIDE DEF t, h, d
    <2>4. a \in Seq(Record) /\ Len(a) = l /\ \A j \in 1 .. l : a[j] = IF j = h THEN d ELSE s[j]
      BY <1>1, <2>1, <2>3, ExceptSeq
    <2> HIDE DEF a
    <2>5. /\ t \in Seq(Record) /\ Len(t) = l - 1
          /\ \A j \in 1 .. i - 1 : t[j] = a[j]
          /\ \A j \in i .. l - 1 : t[j] = a[j + 1]
      <3>1. i \in 1 .. Len(a)
        BY <1>2, <2>4
      <3>2. /\ RemoveAt(a, i) \in Seq(Record) /\ Len(RemoveAt(a, i)) = Len(a) - 1
            /\ \A j \in 1 .. i - 1 : RemoveAt(a, i)[j] = a[j]
            /\ \A j \in i .. Len(a) - 1 : RemoveAt(a, i)[j] = a[j + 1]
        BY <2>4, <3>1, RemoveAtFacts
      <3> QED
        BY <2>2, <2>4, <3>2
    <2>6. DOMAIN t = 1 .. l - 1 /\ l - 1 \in Nat
      BY <1>1, <1>2, <2>5
    <2>7. /\ \A j \in 1 .. h - 1 : t[j] = s[j]
          /\ t[h] = d
          /\ \A j \in i .. l - 1 : t[j] = s[j + 1]
      <3>1. \A j \in 1 .. h - 1 : j \in 1 .. i - 1 /\ j \in 1 .. l /\ j # h
        BY <1>1, <1>2, <2>1
      <3>2. h \in 1 .. i - 1
        BY <1>1, <1>2, <2>1
      <3>3. \A j \in i .. l - 1 : j + 1 \in 1 .. l /\ j + 1 # h
        BY <1>1, <1>2, <2>1
      <3> QED
        BY <2>1, <2>4, <2>5, <3>1, <3>2, <3>3
    <2>8. ASSUME NEW j \in 1 .. l - 1
          PROVE  j \in 1 .. h - 1 \/ j = h \/ j \in i .. l - 1
      BY <1>1, <1>2, <2>1
    <2> DEFINE Old(j) == IF j <= h THEN j ELSE j + 1
    <2>9. /\ \A j \in 1 .. h : Old(j) = j
          /\ \A j \in i .. l : Old(j) = j + 1
          /\ \A j \in 1 .. l - 1 : Old(j) \in 1 .. l /\ Old(j) # i
      BY <1>1, <1>2, <2>1
    <2>10. \A j, k \in 1 .. l - 1 : Old(j) = Old(k) => j = k
      BY <1>1, <2>1
    <2>11. \A j \in 1 .. l : j # i => \E k \in 1 .. l - 1 : Old(k) = j
      <3> SUFFICES ASSUME NEW j \in 1 .. l, j # i
                   PROVE  \E k \in 1 .. l - 1 : Old(k) = j
        OBVIOUS
      <3>1. CASE j <= h
        <4>1. j \in 1 .. l - 1 /\ Old(j) = j
          BY <1>1, <1>2, <2>1, <3>1
        <4> QED
          BY <4>1
      <3>2. CASE ~(j <= h)
        <4>1. j - 1 \in 1 .. l - 1 /\ Old(j - 1) = j
          BY <1>1, <1>2, <2>1, <3>2
        <4> QED
          BY <4>1
      <3> QED
        BY <3>1, <3>2
    <2>12. \A j \in 1 .. l - 1 : Old(j) = 1 => j = 1
      BY <1>1, <2>1
    <2> DEFINE g == [j \in 1 .. l |-> Start(s, Old(j))]
    <2>13. /\ \A j \in 1 .. h : g[j] = Start(s, j)
           /\ \A j \in i .. l : g[j] = Start(s, j + 1)
           /\ \A j \in 1 .. l - 1 : g[j] = Start(s, Old(j))
      <3>1. \A j \in 1 .. h : j \in 1 .. l
        BY <1>1, <2>1
      <3>2. \A j \in i .. l : j \in 1 .. l
        BY <1>1, <1>2
      <3>3. \A j \in 1 .. l - 1 : j \in 1 .. l
        BY <1>1
      <3> HIDE DEF Old
      <3> QED
        BY <2>9, <3>1, <3>2, <3>3
    <2> HIDE DEF g, Old
    <2>14. g[1] = 0
      BY <1>1, <2>1, <2>13, StartFacts
    <2>15. \A j \in 1 .. l : Start(s, j + 1) = Start(s, j) + s[j].len /\ Start(s, j) \in Nat
      <3>1. \A j \in 1 .. l : j \in 1 .. Len(s) + 1
        BY <1>1
      <3> QED
        BY <1>1, <3>1, StartFacts
    <2>16. \A j \in DOMAIN t : g[j + 1] = g[j] + t[j].len
      <3> SUFFICES ASSUME NEW j \in 1 .. l - 1
                   PROVE  g[j + 1] = g[j] + t[j].len
        BY <2>6
      <3>1. CASE j \in 1 .. h - 1
        <4>1. j \in 1 .. h /\ j + 1 \in 1 .. h /\ j \in 1 .. l
          BY <1>1, <2>1, <3>1
        <4> QED
          BY <2>7, <2>13, <2>15, <3>1, <4>1
      <3>2. CASE j = h
        <4>1. h \in 1 .. h /\ i \in i .. l /\ j + 1 = i
          BY <1>1, <1>2, <2>1, <3>2
        <4>2. g[h] = Start(s, h) /\ g[i] = Start(s, i + 1) /\ t[h].len = s[h].len + s[i].len
          BY <2>3, <2>7, <2>13, <4>1
        <4>3. Start(s, i) = Start(s, h) + s[h].len /\ Start(s, i + 1) = Start(s, i) + s[i].len /\ Start(s, h) \in Nat
          BY <1>2, <2>1, <2>15
        <4>4. s[h].len \in Nat /\ s[i].len \in Nat
          BY <1>2, <1>6, <2>1
        <4> QED
          BY <3>2, <4>1, <4>2, <4>3, <4>4
      <3>3. CASE j \in i .. l - 1
        <4>1. j \in i .. l /\ j + 1 \in i .. l /\ j + 1 \in 1 .. l
          BY <1>1, <1>2, <3>3
        <4> QED
          BY <2>7, <2>13, <2>15, <3>3, <4>1
      <3> QED
        BY <2>8, <3>1, <3>2, <3>3
    <2>17. \A j \in 1 .. l : Start(t, j) = g[j]
      <3>1. \A j \in 1 .. Len(t) + 1 : Start(t, j) = g[j]
        BY <2>5, <2>14, <2>16, StartIs
      <3>2. Len(t) + 1 = l
        BY <1>1, <2>5
      <3> QED
        BY <3>1, <3>2
    <2>18. Total(t) = LeafSize
      <3>1. l \in i .. l /\ l \in 1 .. l /\ Len(t) + 1 = l
        BY <1>1, <1>2, <2>5
      <3>2. Total(t) = Start(t, l) /\ Total(s) = Start(s, l + 1)
        BY <1>1, <2>5, <3>1, StartFacts
      <3> QED
        BY <2>13, <2>17, <3>1, <3>2 DEF RecordsOK
    <2>19. ASSUME NEW j \in 1 .. l - 1
           PROVE  t[j].n = s[Old(j)].n /\ Start(t, j) = Start(s, Old(j)) /\ s[Old(j)].len <= t[j].len
      <3>1. j \in 1 .. l
        BY <1>1
      <3>2. t[j].n = s[Old(j)].n /\ s[Old(j)].len <= t[j].len
        <4>1. CASE j \in 1 .. h - 1
          <5>1. j \in 1 .. h
            BY <2>1, <4>1
          <5>2. t[j] = s[j] /\ Old(j) = j
            BY <2>7, <2>9, <4>1, <5>1
          <5> QED
            BY <1>6, <3>1, <5>2
        <4>2. CASE j = h
          <5>1. Old(h) = h
            BY <2>1, <2>9
          <5>2. s[h].len \in Nat /\ s[i].len \in Nat
            BY <1>2, <1>6, <2>1
          <5> QED
            BY <2>3, <2>7, <4>2, <5>1, <5>2
        <4>3. CASE j \in i .. l - 1
          <5>1. j \in i .. l /\ j + 1 \in 1 .. l
            BY <1>1, <1>2, <4>3
          <5>2. t[j] = s[j + 1] /\ Old(j) = j + 1
            BY <2>7, <2>9, <4>3, <5>1
          <5> QED
            BY <1>6, <5>1, <5>2
        <4> QED
          BY <2>8, <4>1, <4>2, <4>3
      <3> QED
        BY <2>13, <2>17, <3>1, <3>2
    <2>20. \A j \in 1 .. l - 1 : t[j].n # Void => Used(t[j].n) <= t[j].len
      <3> SUFFICES ASSUME NEW j \in 1 .. l - 1, t[j].n # Void
                   PROVE  Used(t[j].n) <= t[j].len
        OBVIOUS
      <3>1. Old(j) \in 1 .. l /\ t[j].n = s[Old(j)].n /\ s[Old(j)].len <= t[j].len
        BY <2>9, <2>19
      <3>2. Used(t[j].n) <= s[Old(j)].len
        BY <1>1, <3>1 DEF RecordsOK
      <3>3. s[Old(j)].n \in Name \cup {Dots} /\ s[Old(j)].len \in Nat /\ t[j].len \in Nat
        BY <1>6, <2>5, <2>6, <3>1, RecordFacts
      <3>4. Used(t[j].n) \in Nat
        BY <3>1, <3>3, NameFacts DEF Used
      <3> QED
        BY <3>1, <3>2, <3>3, <3>4
    <2>21. \A j \in 1 .. l - 1 : t[j].n = Void => j = 1
      <3> SUFFICES ASSUME NEW j \in 1 .. l - 1, t[j].n = Void
                   PROVE  j = 1
        OBVIOUS
      <3>1. Old(j) \in 1 .. l /\ s[Old(j)].n = Void
        BY <2>9, <2>19
      <3> QED
        BY <1>1, <2>12, <3>1 DEF RecordsOK
    <2>22. \A j, k \in 1 .. l - 1 : t[j].n = t[k].n => j = k
      <3> SUFFICES ASSUME NEW j \in 1 .. l - 1, NEW k \in 1 .. l - 1, t[j].n = t[k].n
                   PROVE  j = k
        OBVIOUS
      <3>1. Old(j) \in 1 .. l /\ Old(k) \in 1 .. l /\ s[Old(j)].n = s[Old(k)].n
        BY <2>9, <2>19
      <3>2. Old(j) = Old(k)
        BY <1>1, <3>1 DEF RecordsOK
      <3> QED
        BY <2>10, <3>2
    <2>23. RecordsOK(t)
      BY <2>5, <2>6, <2>18, <2>20, <2>21, <2>22 DEF RecordsOK
    <2>24. ~Holds(t, n)
      <3> SUFFICES ASSUME NEW j \in 1 .. l - 1, t[j].n = n
                   PROVE  FALSE
        BY <2>6 DEF Holds
      <3>1. Old(j) \in 1 .. l /\ Old(j) # i /\ s[Old(j)].n = n
        BY <2>9, <2>19
      <3> QED
        BY <1>5, <3>1
    <2>25. ASSUME NEW m \in (Name \cup {Dots}) \ {n}, NEW o \in Nat
           PROVE  InAt(t, m, o) <=> InAt(s, m, o)
      <3>1. ASSUME InAt(t, m, o)
            PROVE  InAt(s, m, o)
        <4>1. PICK j \in 1 .. l - 1 : t[j].n = m /\ Start(t, j) = o
          BY <2>6, <3>1 DEF InAt
        <4> QED
          BY <1>1, <2>9, <2>19, <4>1 DEF InAt
      <3>2. ASSUME InAt(s, m, o)
            PROVE  InAt(t, m, o)
        <4>1. PICK j \in 1 .. l : s[j].n = m /\ Start(s, j) = o
          BY <1>1, <3>2 DEF InAt
        <4>2. PICK k \in 1 .. l - 1 : Old(k) = j
          BY <1>2, <2>11, <4>1
        <4> QED
          BY <2>6, <2>19, <4>1, <4>2 DEF InAt
      <3> QED
        BY <3>1, <3>2
    <2> QED
      BY <2>23, <2>24, <2>25 DEF SamePlaces, t
  <1> QED
    BY <1>7, <1>8

-----------------------------------------------------------------------------
(* Splitting a leaf.                                                       *)

\* The room names need adds up.
LEMMA SizeFacts ==
    ASSUME NEW s \in Seq(Name)
    PROVE  /\ SizeTo(s, 0) = 0
           /\ \A k \in 0 .. Len(s) - 1 :
                SizeTo(s, k + 1) = SizeTo(s, k) + Size[s[k + 1]] /\ s[k + 1] \in Name
           /\ \A k \in 0 .. Len(s) : SizeTo(s, k) \in Nat
           /\ \A k \in 0 .. Len(s) : \A l \in k .. Len(s) : SizeTo(s, k) <= SizeTo(s, l)
  <1> DEFINE f == [j \in DOMAIN s |-> Size[s[j]]]
             n == Len(s)
  <1>1. n \in Nat /\ DOMAIN s = 1 .. n /\ \A j \in 1 .. n : s[j] \in Name
    BY ElementOfSeq
  <1>2. f \in [1 .. n -> Nat] /\ \A j \in 1 .. n : f[j] = Size[s[j]]
    BY <1>1, NameFacts
  <1>3. \A k : SizeTo(s, k) = SumTo(f, k)
    BY DEF SizeTo
  <1> HIDE DEF f
  <1>4. /\ SumTo(f, 0) = 0 /\ \A k \in 0 .. n - 1 : SumTo(f, k + 1) = SumTo(f, k) + f[k + 1]
        /\ \A k \in 0 .. n : SumTo(f, k) \in Nat
    BY <1>1, <1>2, SumFacts
  <1>5. \A k \in 0 .. n : \A l \in k .. n : SumTo(f, k) <= SumTo(f, l)
    BY <1>1, <1>2, SumGrows
  <1>6. \A k \in 0 .. n - 1 : k + 1 \in 1 .. n
    BY <1>1
  <1> QED
    BY <1>1, <1>2, <1>3, <1>4, <1>5, <1>6

\* What they need from some place on.
LEMMA SizeOfPart ==
    ASSUME NEW s \in Seq(Name), NEW a \in 0 .. Len(s), NEW b \in a .. Len(s), NEW t \in Seq(Name),
           Len(t) = b - a, \A j \in 1 .. b - a : t[j] = s[a + j]
    PROVE  \A k \in 0 .. b - a : SizeTo(t, k) = SizeTo(s, a + k) - SizeTo(s, a)
  <1> DEFINE S == {k \in 0 .. b - a : SizeTo(t, k) = SizeTo(s, a + k) - SizeTo(s, a)}
  <1>1. Len(s) \in Nat /\ b - a \in Nat
    OBVIOUS
  <1>2. 0 \in S
    BY <1>1, SizeFacts
  <1>3. ASSUME NEW k \in 0 .. b - a - 1, k \in S
        PROVE  k + 1 \in S
    <2>1. k \in 0 .. Len(t) - 1 /\ k + 1 \in 1 .. b - a /\ a + (k + 1) = (a + k) + 1 /\ a + k \in 0 .. Len(s) - 1
          /\ a + k \in 0 .. Len(s)
      BY <1>1
    <2>2. SizeTo(t, k + 1) = SizeTo(t, k) + Size[t[k + 1]]
      BY <2>1, SizeFacts
    <2>3. SizeTo(s, (a + k) + 1) = SizeTo(s, a + k) + Size[s[(a + k) + 1]] /\ s[(a + k) + 1] \in Name
      BY <2>1, SizeFacts
    <2>4. t[k + 1] = s[(a + k) + 1]
      BY <2>1
    <2>5. SizeTo(s, a + k) \in Nat /\ SizeTo(s, a) \in Nat /\ Size[s[(a + k) + 1]] \in Nat
      BY <2>1, <2>3, SizeFacts, NameFacts
    <2>6. SizeTo(t, k) = SizeTo(s, a + k) - SizeTo(s, a)
      BY <1>3
    <2>7. SizeTo(t, k + 1) = SizeTo(s, a + (k + 1)) - SizeTo(s, a)
      BY ONLY <2>1, <2>2, <2>3, <2>4, <2>5, <2>6
    <2>8. k + 1 \in 0 .. b - a
      BY ONLY <1>1, <2>1
    <2> QED
      BY <2>7, <2>8
  <1> HIDE DEF S
  <1>4. \A k \in 0 .. b - a : k \in S
    BY <1>1, <1>2, <1>3, Induction
  <1> QED
    BY <1>4 DEF S

\* What qsort makes of the names of a block.
LEMMA SortedFacts ==
    ASSUME NEW old, RecordsOK(old), NEW s \in Sorted(Names(old))
    PROVE  /\ s \in Seq(Name)
           /\ \A n \in Name : Holds(old, n) <=> \E i \in 1 .. Len(s) : s[i] = n
           /\ \A i, j \in 1 .. Len(s) : s[i] = s[j] => i = j
           /\ \A i, j \in 1 .. Len(s) : i < j => Hash[s[i]] <= Hash[s[j]]
           /\ SizeTo(s, Len(s)) <= LeafSize
  <1> DEFINE N == Names(old)
             l == Len(old)
             c == Cardinality(N)
  <1>1. old \in Seq(Record) /\ l \in Nat /\ DOMAIN old = 1 .. l
    BY DEF RecordsOK
  <1>2. \A i \in 1 .. l : old[i].n \in Name \cup {Void, Dots} /\ old[i].len \in Nat
    BY <1>1, RecordFacts
  <1>3. /\ N \subseteq Name
        /\ \A n \in Name : n \in N <=> Holds(old, n)
    BY <1>1, <1>2, NameFacts DEF Names, Holds
  <1>4. IsFiniteSet(N)
    <2>1. IsFiniteSet(1 .. l)
      BY <1>1, FS_Interval
    <2> DEFINE f == [i \in 1 .. l |-> old[i].n]
               R == {f[i] : i \in 1 .. l}
    <2>2. f \in Surjection(1 .. l, R)
      BY DEF Surjection
    <2>3. N \subseteq R
      BY <1>1 DEF Names
    <2> HIDE DEF N, f, R
    <2>4. IsFiniteSet(R)
      BY <2>1, <2>2, FS_Surjection
    <2> QED
      BY <2>3, <2>4, FS_Subset
  <1>5. c \in Nat
    BY <1>4, FS_CardinalityType
  <1>6. /\ s \in [1 .. c -> N] /\ \A i, j \in 1 .. c : i # j => s[i] # s[j]
        /\ \A i, j \in DOMAIN s : i < j => Hash[s[i]] <= Hash[s[j]]
    BY DEF Sorted, SetToSeqs
  <1> HIDE DEF N, c
  <1>7. s \in Seq(Name) /\ Len(s) = c /\ DOMAIN s = 1 .. c
    BY <1>3, <1>5, <1>6
  <1>8. \A n \in N : \E i \in 1 .. c : s[i] = n
    <2>1. s \in Injection(1 .. c, N)
      BY <1>6 DEF Injection, IsInjective
    <2>2. Cardinality(1 .. c) = c
      BY <1>5, FS_Interval
    <2>3. Cardinality(1 .. c) = Cardinality(N) <=> s \in Surjection(1 .. c, N)
      BY <1>4, <2>1, FS_Injection
    <2>4. s \in Surjection(1 .. c, N)
      BY <2>2, <2>3 DEF c
    <2> QED
      BY <2>4 DEF Surjection
  <1> DEFINE Span(n) == {o \in Nat : \E i \in 1 .. l : old[i].n = n /\ Start(old, i) <= o /\ o < Start(old, i) + Size[n]}
             U(k) == UNION {Span(s[j]) : j \in 1 .. k}
  <1>9. \A n \in N : IsFiniteSet(Span(n)) /\ Cardinality(Span(n)) = Size[n] /\ Span(n) \subseteq 0 .. LeafSize - 1
    <2> SUFFICES ASSUME NEW n \in N
                 PROVE  IsFiniteSet(Span(n)) /\ Cardinality(Span(n)) = Size[n] /\ Span(n) \subseteq 0 .. LeafSize - 1
      OBVIOUS
    <2>1. PICK i \in 1 .. l : old[i].n = n
      BY <1>1, <1>3 DEF Holds
    <2>2. \A j \in 1 .. l : old[j].n = n => j = i
      BY <1>1, <2>1 DEF RecordsOK
    <2>3. Size[n] \in Nat /\ Size[n] > 0 /\ Used(n) = Size[n] /\ n # Void
      BY <1>3, NameFacts
    <2>4. /\ Start(old, i) \in Nat /\ old[i].len \in Nat
          /\ Start(old, i) + old[i].len <= Start(old, l + 1) /\ Start(old, l + 1) = LeafSize /\ LeafSize \in Nat
      <3>1. i \in 1 .. Len(old) + 1 /\ l + 1 \in i + 1 .. Len(old) + 1
        BY <1>1
      <3>2. Start(old, l + 1) = LeafSize
        BY <1>1, StartFacts DEF RecordsOK
      <3>3. Start(old, i) + old[i].len <= Start(old, l + 1)
        BY <1>1, <3>1, StartFacts
      <3>4. Start(old, i) \in Nat
        BY <1>1, <3>1, StartFacts
      <3> QED
        BY <1>2, <3>2, <3>3, <3>4, DirAssumption
    <2>5. Size[n] <= old[i].len
      BY <1>1, <2>1, <2>3 DEF RecordsOK
    <2>6. Span(n) = Start(old, i) .. Start(old, i) + Size[n] - 1
      BY <2>1, <2>2, <2>3, <2>4
    <2> HIDE DEF Span
    <2>7. /\ IsFiniteSet(Start(old, i) .. Start(old, i) + Size[n] - 1)
          /\ Cardinality(Start(old, i) .. Start(old, i) + Size[n] - 1) = Size[n]
      <3>1. PICK a, b : a = Start(old, i) /\ b = Start(old, i) + Size[n] - 1
        OBVIOUS
      <3>2. a \in Int /\ b \in Int /\ a <= b /\ b - a + 1 = Size[n]
        BY <2>3, <2>4, <3>1
      <3>3. IsFiniteSet(a .. b) /\ Cardinality(a .. b) = IF a > b THEN 0 ELSE b - a + 1
        BY <3>2, FS_Interval
      <3> QED
        BY <3>1, <3>2, <3>3
    <2> QED
      BY <2>3, <2>4, <2>5, <2>6, <2>7
  <1>10. \A n, m \in N : n # m => Span(n) \cap Span(m) = {}
    <2> SUFFICES ASSUME NEW n \in N, NEW m \in N, n # m, NEW o \in Nat,
                        NEW i \in 1 .. l, old[i].n = n, Start(old, i) <= o, o < Start(old, i) + Size[n],
                        NEW j \in 1 .. l, old[j].n = m, Start(old, j) <= o, o < Start(old, j) + Size[m]
                 PROVE  FALSE
      OBVIOUS
    <2>1. /\ Size[n] \in Nat /\ Used(n) = Size[n] /\ n # Void
          /\ Size[m] \in Nat /\ Used(m) = Size[m] /\ m # Void
      BY <1>3, NameFacts
    <2>2. Size[n] <= old[i].len /\ Size[m] <= old[j].len
      BY <1>1, <2>1 DEF RecordsOK
    <2>3. Start(old, i) \in Nat /\ Start(old, j) \in Nat /\ old[i].len \in Nat /\ old[j].len \in Nat
      BY <1>1, <1>2, StartsApart
    <2>4. i < j \/ j < i
      BY <1>1
    <2>5. CASE i < j
      <3>1. j \in i + 1 .. Len(old) + 1
        BY <1>1, <2>5
      <3>2. Start(old, i) + old[i].len <= Start(old, j)
        BY <1>1, <3>1, StartFacts
      <3> QED
        BY <2>1, <2>2, <2>3, <3>2
    <2>6. CASE j < i
      <3>1. i \in j + 1 .. Len(old) + 1
        BY <1>1, <2>6
      <3>2. Start(old, j) + old[j].len <= Start(old, i)
        BY <1>1, <3>1, StartFacts
      <3> QED
        BY <2>1, <2>2, <2>3, <3>2
    <2> QED
      BY <2>4, <2>5, <2>6
  <1> HIDE DEF Span
  <1> DEFINE S == {k \in 0 .. c : IsFiniteSet(U(k)) /\ Cardinality(U(k)) = SizeTo(s, k)}
  <1>11. 0 \in S
    <2>1. U(0) = {}
      OBVIOUS
    <2>2. SizeTo(s, 0) = 0
      BY <1>7, SizeFacts
    <2> HIDE DEF U
    <2> QED
      BY <1>5, <2>1, <2>2, FS_EmptySet
  <1>12. ASSUME NEW k \in 0 .. c - 1, k \in S
         PROVE  k + 1 \in S
    <2>1. k \in 0 .. Len(s) - 1 /\ k + 1 \in 1 .. c /\ k + 1 \in 0 .. c
      BY <1>5, <1>7
    <2>2. s[k + 1] \in N
      BY <1>6, <2>1
    <2>3. U(k + 1) = U(k) \cup Span(s[k + 1])
      <3>1. \A j : j \in 1 .. k + 1 <=> j \in 1 .. k \/ j = k + 1
        BY <2>1
      <3> QED
        BY <3>1
    <2>4. U(k) \cap Span(s[k + 1]) = {}
      <3>1. \A j \in 1 .. k : j \in 1 .. c /\ j # k + 1
        BY <1>5
      <3>2. \A j \in 1 .. k : s[j] \in N /\ s[j] # s[k + 1]
        BY <1>6, <2>1, <3>1
      <3>3. \A j \in 1 .. k : Span(s[j]) \cap Span(s[k + 1]) = {}
        BY <1>10, <2>2, <3>2
      <3> QED
        BY <3>3
    <2>5. IsFiniteSet(U(k)) /\ Cardinality(U(k)) = SizeTo(s, k)
      BY <1>12
    <2> HIDE DEF U
    <2>6. IsFiniteSet(Span(s[k + 1])) /\ Cardinality(Span(s[k + 1])) = Size[s[k + 1]]
      BY <1>9, <2>2
    <2>7. /\ IsFiniteSet(U(k) \cup Span(s[k + 1]))
          /\ Cardinality(U(k) \cup Span(s[k + 1])) = Cardinality(U(k)) + Cardinality(Span(s[k + 1]))
      <3>1. /\ IsFiniteSet(U(k) \cup Span(s[k + 1]))
            /\ Cardinality(U(k) \cup Span(s[k + 1]))
                 = Cardinality(U(k)) + Cardinality(Span(s[k + 1])) - Cardinality(U(k) \cap Span(s[k + 1]))
        BY <2>5, <2>6, FS_Union
      <3>2. Cardinality({}) = 0 /\ Cardinality(U(k)) \in Nat /\ Cardinality(Span(s[k + 1])) \in Nat
        BY <2>5, <2>6, FS_EmptySet, FS_CardinalityType
      <3>3. Cardinality(U(k) \cap Span(s[k + 1])) = 0
        BY <2>4, <3>2, Zenon
      <3> QED
        BY <3>1, <3>2, <3>3
    <2>8. SizeTo(s, k + 1) = SizeTo(s, k) + Size[s[k + 1]]
      BY <1>7, <2>1, SizeFacts
    <2> QED
      BY <2>1, <2>3, <2>5, <2>6, <2>7, <2>8
  <1>13. IsFiniteSet(U(c)) /\ Cardinality(U(c)) = SizeTo(s, c)
    <2>1. c \in 0 .. c
      BY <1>5
    <2>2. c \in S
      <3> HIDE DEF S
      <3> QED
        BY <1>5, <1>11, <1>12, <2>1, Induction
    <2> QED
      BY <2>2
  <1>14. U(c) \subseteq 0 .. LeafSize - 1
    BY <1>6, <1>9
  <1> HIDE DEF U
  <1>15. Cardinality(U(c)) <= LeafSize
    <2>1. LeafSize \in Nat /\ LeafSize > 0
      BY DirAssumption
    <2>2. IsFiniteSet(0 .. LeafSize - 1) /\ Cardinality(0 .. LeafSize - 1) = LeafSize
      <3>1. PICK b : b = LeafSize - 1
        OBVIOUS
      <3>2. b \in Int /\ 0 <= b /\ b - 0 + 1 = LeafSize
        BY <2>1, <3>1
      <3>3. IsFiniteSet(0 .. b) /\ Cardinality(0 .. b) = IF 0 > b THEN 0 ELSE b - 0 + 1
        BY <3>2, FS_Interval
      <3> QED
        BY <3>1, <3>2, <3>3
    <2>3. PICK V, B : V = U(c) /\ B = 0 .. LeafSize - 1
      OBVIOUS
    <2>4. V \in SUBSET B /\ IsFiniteSet(B)
      BY ONLY <1>14, <2>2, <2>3
    <2>5. Cardinality(V) <= Cardinality(B)
      BY ONLY <2>4, FS_Subset
    <2> QED
      BY ONLY <2>2, <2>3, <2>5
  <1>16. \A n \in Name : Holds(old, n) <=> \E i \in 1 .. c : s[i] = n
    BY <1>3, <1>6, <1>8
  <1> QED
    BY <1>6, <1>7, <1>13, <1>15, <1>16

\* Names that fit in a block fill it when they are packed.
LEMMA PackedFacts ==
    ASSUME NEW s \in Seq(Name), Len(s) > 0, \A i, j \in 1 .. Len(s) : s[i] = s[j] => i = j,
           SizeTo(s, Len(s)) <= LeafSize
    PROVE  RecordsOK(Packed(s)) /\ \A n \in Name : Holds(Packed(s), n) <=> \E i \in 1 .. Len(s) : s[i] = n
  <1> DEFINE t == Packed(s)
  <1>0. PICK c : c = Len(s)
    OBVIOUS
  <1>1. c \in Nat /\ DOMAIN s = 1 .. c /\ c > 0 /\ LeafSize \in Nat /\ \A i \in 1 .. c : s[i] \in Name
    BY <1>0, DirAssumption, ElementOfSeq
  <1>2. \A i \in 1 .. c : Size[s[i]] \in Nat /\ Size[s[i]] > 0 /\ Used(s[i]) = Size[s[i]] /\ s[i] # Void
    BY <1>1, NameFacts
  <1>3. ASSUME NEW i \in 1 .. c
        PROVE  SizeTo(s, i - 1) \in Nat /\ SizeTo(s, i) = SizeTo(s, i - 1) + Size[s[i]]
    <2>1. i - 1 \in 0 .. c - 1 /\ (i - 1) + 1 = i /\ i - 1 \in 0 .. c
      BY <1>1
    <2>2. SizeTo(s, (i - 1) + 1) = SizeTo(s, i - 1) + Size[s[(i - 1) + 1]]
      BY <1>0, <2>1, SizeFacts
    <2> QED
      BY <1>0, <2>1, <2>2, SizeFacts
  <1>4. t = [i \in 1 .. c |-> Rec(s[i], IF i < c THEN Size[s[i]] ELSE LeafSize - SizeTo(s, i - 1))]
    BY <1>0, <1>1 DEF Packed
  <1> HIDE DEF t
  <1>5. ASSUME NEW i \in 1 .. c
        PROVE  /\ t[i] \in Record /\ t[i].n = s[i]
               /\ i < c => t[i].len = Size[s[i]]
               /\ i = c => t[i].len = LeafSize - SizeTo(s, c - 1)
               /\ Size[s[i]] <= t[i].len
    <2>1. Size[s[i]] \in Nat /\ Size[s[i]] > 0 /\ s[i] \in Name /\ i \in Nat /\ LeafSize \in Nat
      BY <1>1, <1>2
    <2>2. CASE i < c
      <3>1. t[i] = Rec(s[i], Size[s[i]])
        BY <1>4, <2>2
      <3> QED
        BY <1>1, <2>1, <2>2, <3>1 DEF Rec, Record
    <2>3. CASE i = c
      <3>1. t[i] = Rec(s[i], LeafSize - SizeTo(s, c - 1))
        BY <1>1, <1>4, <2>3
      <3>2. SizeTo(s, c) <= LeafSize /\ SizeTo(s, c - 1) \in Nat /\ SizeTo(s, c) = SizeTo(s, c - 1) + Size[s[i]]
        BY <1>0, <1>3, <2>3
      <3>3. LeafSize - SizeTo(s, c - 1) \in Nat \ {0} /\ Size[s[i]] <= LeafSize - SizeTo(s, c - 1)
        BY <2>1, <3>2
      <3> QED
        BY <1>1, <2>1, <2>3, <3>1, <3>3 DEF Rec, Record
    <2> QED
      BY <1>1, <2>2, <2>3
  <1>6. t \in Seq(Record) /\ Len(t) = c /\ DOMAIN t = 1 .. c
    <2>1. t \in [1 .. c -> Record]
      BY <1>4, <1>5
    <2> QED
      BY <1>1, <2>1
  <1> DEFINE g == [j \in 1 .. c + 1 |-> IF j <= c THEN SizeTo(s, j - 1) ELSE LeafSize]
  <1>7. \A j \in DOMAIN t : g[j + 1] = g[j] + t[j].len
    <2> SUFFICES ASSUME NEW j \in 1 .. c
                 PROVE  g[j + 1] = g[j] + t[j].len
      BY <1>6
    <2>1. g[j] = SizeTo(s, j - 1)
      BY <1>1
    <2>2. CASE j < c
      <3>1. g[j + 1] = SizeTo(s, j)
        BY <1>1, <2>2
      <3> HIDE DEF g
      <3> QED
        BY <1>3, <1>5, <2>1, <2>2, <3>1
    <2>3. CASE j = c
      <3>1. g[j + 1] = LeafSize
        <4>1. j + 1 \in 1 .. c + 1 /\ ~(j + 1 <= c)
          BY <1>1, <2>3
        <4> QED
          BY <4>1
      <3>2. t[j].len = LeafSize - SizeTo(s, c - 1) /\ SizeTo(s, c - 1) \in Nat
        BY <1>3, <1>5, <2>3
      <3> HIDE DEF g
      <3> QED
        BY <1>1, <2>1, <2>3, <3>1, <3>2
    <2> QED
      BY <1>1, <2>2, <2>3
  <1>8. g[1] = 0 /\ g[c + 1] = LeafSize
    <2>1. SizeTo(s, 0) = 0 /\ 1 \in 1 .. c + 1 /\ 1 <= c /\ 1 - 1 = 0
      BY <1>1, SizeFacts
    <2>2. g[1] = SizeTo(s, 1 - 1)
      BY <2>1
    <2>3. c + 1 \in 1 .. c + 1 /\ ~(c + 1 <= c)
      BY <1>1
    <2>4. g[c + 1] = LeafSize
      BY <2>3
    <2> QED
      BY <2>1, <2>2, <2>4
  <1>9. Total(t) = LeafSize
    <2> HIDE DEF g
    <2>0. g[1] = 0 /\ \A j \in DOMAIN t : g[j + 1] = g[j] + t[j].len
      BY <1>7, <1>8
    <2>1. \A j \in 1 .. Len(t) + 1 : Start(t, j) = g[j]
      <3>1. t \in Seq(Record)
        BY <1>6
      <3> QED
        BY ONLY <3>1, <2>0, StartIs
    <2>2. c + 1 \in 1 .. Len(t) + 1
      BY <1>1, <1>6
    <2> QED
      BY <1>6, <1>8, <2>1, <2>2, StartFacts
  <1>10. RecordsOK(t)
    <2>1. \A i \in DOMAIN t : t[i].n # Void /\ Used(t[i].n) <= t[i].len
      BY <1>2, <1>5, <1>6
    <2>2. \A i, j \in DOMAIN t : t[i].n = t[j].n => i = j
      BY <1>0, <1>5, <1>6
    <2> QED
      BY <1>6, <1>9, <2>1, <2>2 DEF RecordsOK
  <1>11. \A n \in Name : Holds(t, n) <=> \E i \in 1 .. c : s[i] = n
    <2>1. DOMAIN t = 1 .. c /\ \A i \in 1 .. c : t[i].n = s[i]
      BY <1>5, <1>6
    <2> QED
      BY ONLY <2>1 DEF Holds
  <1> QED
    BY <1>0, <1>10, <1>11 DEF t

\* The two parts of a leaf that is split hold its names, those with the smaller hashes in the
\* first.  The key of the second is the hash of its first name, or one more if the last name
\* of the first part has this hash too.
LEMMA PartsFacts ==
    ASSUME NEW old, RecordsOK(old), NEW s \in Sorted(Names(old)), NEW part \in Parts(s, old),
           ~(SizeTo(s, Len(s)) <= Half)
    PROVE  /\ RecordsOK(part.left) /\ RecordsOK(part.right) /\ part.key \in Nat
           /\ \A n \in Name : Holds(old, n) <=> Holds(part.left, n) \/ Holds(part.right, n)
           /\ \A n \in Name : ~(Holds(part.left, n) /\ Holds(part.right, n))
           /\ \A n \in Name : Holds(part.left, n) => Hash[n] < part.key
           /\ \A n \in Name : Holds(part.right, n) => part.key <= Hash[n] + 1
           /\ \E n \in Name : Holds(part.left, n)
           /\ \E n \in Name : Holds(part.right, n)
  <1> DEFINE c == Len(s)
             over == {i \in DOMAIN s : SizeTo(s, i) > Half}
             mid == Min(over) - 1
             u == SubSeq(s, 1, mid)
             v == SubSeq(s, mid + 1, c)
  <1>1. /\ s \in Seq(Name) /\ c \in Nat /\ DOMAIN s = 1 .. c
        /\ \A n \in Name : Holds(old, n) <=> \E i \in 1 .. c : s[i] = n
        /\ \A i, j \in 1 .. c : s[i] = s[j] => i = j
        /\ \A i, j \in 1 .. c : i < j => Hash[s[i]] <= Hash[s[j]]
        /\ SizeTo(s, c) <= LeafSize
        /\ \A i \in 1 .. c : s[i] \in Name
    BY SortedFacts, ElementOfSeq
  <1>2. LeafSize \in Nat /\ Half \in Nat /\ 2 * Half <= LeafSize /\ \A n \in Name : Size[n] \in 1 .. Half
    <2>1. LeafSize \in Nat
      BY DirAssumption
    <2>2. LeafSize \div 2 \in Nat /\ 2 * (LeafSize \div 2) <= LeafSize
      BY <2>1, DivMod
    <2> QED
      BY <2>1, <2>2, DirAssumption DEF Half
  <1>3. \A k \in 0 .. c : SizeTo(s, k) \in Nat
    BY <1>1, SizeFacts
  <1>4. c > 0
    <2>1. SizeTo(s, 0) = 0
      BY <1>1, SizeFacts
    <2> QED
      BY <1>1, <1>2, <2>1
  <1>5. over # {} /\ over \subseteq 1 .. c
    <2>1. SizeTo(s, c) > Half
      BY <1>1, <1>2, <1>3
    <2> QED
      BY <1>1, <1>4, <2>1
  <1>6. Min(over) \in over /\ \A z \in over : Min(over) <= z
    <2>1. IsFiniteSet(1 .. c)
      BY <1>1, FS_Interval
    <2>2. IsFiniteSet(over) /\ over \in SUBSET Nat
      BY <1>5, <2>1, FS_Subset
    <2> HIDE DEF over
    <2> QED
      BY <1>5, <2>2, MinFacts
  <1>7. mid + 1 \in 1 .. c /\ mid \in 0 .. c - 1
    BY <1>1, <1>5, <1>6
  <1>8. part = [left |-> Packed(u), right |-> Packed(v), key |-> Hash[s[mid + 1]] + Continued(s, mid)]
    BY <1>5 DEF Parts
  <1> HIDE DEF mid
  <1>9. mid >= 1 /\ mid \in Nat
    <2>1. SizeTo(s, 1) <= Half
      <3>1. 0 \in 0 .. c - 1 /\ 0 + 1 = 1
        BY <1>1, <1>4
      <3>2. SizeTo(s, 0) = 0 /\ SizeTo(s, 0 + 1) = SizeTo(s, 0) + Size[s[0 + 1]] /\ s[0 + 1] \in Name
        BY <1>1, <3>1, SizeFacts
      <3> QED
        BY <1>2, <3>2
    <2>2. mid + 1 \in over /\ SizeTo(s, mid + 1) > Half
      BY <1>1, <1>6, <1>7 DEF mid
    <2>3. mid + 1 # 1
      BY <1>2, <1>3, <1>4, <2>1, <2>2
    <2> QED
      BY <1>7, <2>3
  <1>10. SizeTo(s, mid) <= Half
    <2>1. mid \in 1 .. c /\ Min(over) = mid + 1
      BY <1>1, <1>6, <1>7, <1>9 DEF mid
    <2>2. mid \notin over
      <3> HIDE DEF over
      <3> QED
        BY <1>6, <1>9, <2>1
    <2>3. SizeTo(s, mid) \in Nat
      BY <1>3, <1>9, <2>1
    <2> QED
      BY <1>1, <1>2, <2>1, <2>2, <2>3
  <1> HIDE DEF over
  <1>11. u \in Seq(Name) /\ Len(u) = mid /\ \A j \in 1 .. mid : u[j] = s[j]
    <2>1. mid \in 1 - 1 .. Len(s) /\ 1 \in Nat \ {0}
      BY <1>1, <1>7
    <2>2. /\ u \in Seq(Name) /\ Len(u) = mid - (1 - 1)
          /\ \A j \in 1 .. mid - (1 - 1) : u[j] = s[(1 - 1) + j]
      BY <1>1, <2>1, SubSeqFacts
    <2> QED
      BY <1>9, <2>2
  <1>12. v \in Seq(Name) /\ Len(v) = c - mid /\ \A j \in 1 .. c - mid : v[j] = s[mid + j]
    <2>1. PICK m : m = mid + 1
      OBVIOUS
    <2>2. m \in Nat \ {0} /\ c \in m - 1 .. Len(s) /\ m - 1 = mid /\ v = SubSeq(s, m, c)
      BY <1>1, <1>7, <1>9, <2>1
    <2> HIDE DEF v
    <2>3. /\ v \in Seq(Name) /\ Len(v) = c - (m - 1)
          /\ \A j \in 1 .. c - (m - 1) : v[j] = s[(m - 1) + j]
      BY <1>1, <2>2, SubSeqFacts
    <2> QED
      BY <2>2, <2>3
  <1> HIDE DEF u, v
  <1>13. RecordsOK(Packed(u)) /\ \A n \in Name : Holds(Packed(u), n) <=> \E i \in 1 .. mid : s[i] = n
    <2>1. \A i \in 1 .. mid : i \in 1 .. c
      BY <1>1, <1>7
    <2>2. Len(u) > 0 /\ \A i, j \in 1 .. Len(u) : u[i] = u[j] => i = j
      BY <1>1, <1>9, <1>11, <2>1
    <2>3. SizeTo(u, Len(u)) <= LeafSize
      <3>1. PICK a, b : a = 0 /\ b = mid
        OBVIOUS
      <3>2. a \in 0 .. Len(s) /\ b \in a .. Len(s) /\ Len(u) = b - a /\ mid \in 0 .. b - a
        BY <1>1, <1>7, <1>9, <1>11, <3>1
      <3>3. \A j \in 1 .. b - a : u[j] = s[a + j]
        BY <1>9, <1>11, <3>1
      <3>4. SizeTo(u, mid) = SizeTo(s, a + mid) - SizeTo(s, a)
        <4>1. s \in Seq(Name) /\ u \in Seq(Name)
          BY <1>1, <1>11
        <4>2. \A k \in 0 .. b - a : SizeTo(u, k) = SizeTo(s, a + k) - SizeTo(s, a)
          BY <4>1, <3>2, <3>3, SizeOfPart
        <4> QED
          BY <3>2, <4>2
      <3>5. SizeTo(s, a) = 0 /\ a + mid = mid /\ SizeTo(s, mid) \in Nat
        BY <1>1, <1>3, <1>7, <1>9, <3>1, SizeFacts
      <3> QED
        BY <1>2, <1>10, <1>11, <3>4, <3>5
    <2> QED
      BY <1>11, <2>2, <2>3, PackedFacts
  <1>14. RecordsOK(Packed(v)) /\ \A n \in Name : Holds(Packed(v), n) <=> \E i \in mid + 1 .. c : s[i] = n
    <2>1. \A j \in 1 .. c - mid : mid + j \in 1 .. c /\ mid + j \in mid + 1 .. c
      BY <1>1, <1>7
    <2>2. Len(v) > 0 /\ \A i, j \in 1 .. Len(v) : v[i] = v[j] => i = j
      <3>1. Len(v) > 0
        BY <1>7, <1>12
      <3> SUFFICES ASSUME NEW i \in 1 .. c - mid, NEW j \in 1 .. c - mid, v[i] = v[j]
                   PROVE  i = j
        BY <1>12, <3>1
      <3>2. s[mid + i] = s[mid + j]
        BY <1>12
      <3>3. mid + i = mid + j
        BY <1>1, <2>1, <3>2
      <3> QED
        BY <1>9, <3>3
    <2>3. SizeTo(v, Len(v)) <= LeafSize
      <3>1. mid \in 0 .. Len(s) /\ c \in mid .. Len(s) /\ c - mid \in 0 .. c - mid
        BY <1>1, <1>7
      <3>2. SizeTo(v, c - mid) = SizeTo(s, mid + (c - mid)) - SizeTo(s, mid)
        <4>1. s \in Seq(Name) /\ v \in Seq(Name) /\ Len(v) = c - mid
          BY <1>1, <1>12
        <4>2. \A k \in 0 .. c - mid : SizeTo(v, k) = SizeTo(s, mid + k) - SizeTo(s, mid)
          BY <4>1, <3>1, <1>12, SizeOfPart
        <4> QED
          BY <3>1, <4>2
      <3>3. mid + (c - mid) = c /\ SizeTo(s, c) \in Nat /\ SizeTo(s, mid) \in Nat
        BY <1>1, <1>3, <1>7
      <3> QED
        BY <1>1, <1>2, <1>12, <3>2, <3>3
    <2>4. RecordsOK(Packed(v)) /\ \A n \in Name : Holds(Packed(v), n) <=> \E i \in 1 .. c - mid : v[i] = n
      BY <1>12, <2>2, <2>3, PackedFacts
    <2> SUFFICES ASSUME NEW n \in Name
                 PROVE  (\E i \in 1 .. c - mid : v[i] = n) <=> \E i \in mid + 1 .. c : s[i] = n
      BY <2>4
    <2>5. ASSUME NEW i \in mid + 1 .. c, s[i] = n
          PROVE  \E j \in 1 .. c - mid : v[j] = n
      <3>1. i - mid \in 1 .. c - mid /\ mid + (i - mid) = i
        BY <1>1, <1>7
      <3>2. v[i - mid] = n
        BY <1>12, <2>5, <3>1
      <3> QED
        BY <3>1, <3>2
    <2> QED
      BY <1>12, <2>1, <2>5
  <1>15. \A i \in 1 .. c : i \in 1 .. mid \/ i \in mid + 1 .. c
    BY <1>1, <1>7
  <1>16. \A i \in 1 .. mid : \A j \in mid + 1 .. c : i < j /\ i \in 1 .. c /\ j \in 1 .. c
    BY <1>1, <1>7, <1>9
  <1>17. mid \in 1 .. mid /\ mid + 1 \in mid + 1 .. c
    BY <1>7, <1>9
  <1>18. \A i \in 1 .. c : Hash[s[i]] \in Nat
    BY <1>1, NameFacts
  <1>19. /\ \A i \in 1 .. mid : Hash[s[i]] <= Hash[s[mid]]
         /\ Hash[s[mid]] <= Hash[s[mid + 1]]
         /\ \A i \in mid + 1 .. c : Hash[s[mid + 1]] <= Hash[s[i]]
    <2>1. \A i \in 1 .. mid : i = mid \/ i < mid
      BY <1>9
    <2>2. \A i \in mid + 1 .. c : i = mid + 1 \/ mid + 1 < i
      BY <1>9
    <2>3. mid \in 1 .. c /\ mid + 1 \in 1 .. c /\ mid < mid + 1
      BY <1>16, <1>17
    <2>4. \A i \in 1 .. c : Hash[s[i]] <= Hash[s[i]]
      BY <1>18
    <2> QED
      BY <1>1, <1>16, <1>17, <2>1, <2>2, <2>3, <2>4
  <1>20. Continued(s, mid) \in 0 .. 1 /\ (Hash[s[mid]] = Hash[s[mid + 1]] => Continued(s, mid) = 1)
    BY DEF Continued
  <1>21. /\ \A i \in 1 .. mid : Hash[s[i]] < Hash[s[mid + 1]] + Continued(s, mid)
         /\ \A i \in mid + 1 .. c : Hash[s[mid + 1]] + Continued(s, mid) <= Hash[s[i]] + 1
         /\ Hash[s[mid + 1]] + Continued(s, mid) \in Nat
    <2>1. Hash[s[mid + 1]] \in Nat /\ Hash[s[mid]] \in Nat
      BY <1>16, <1>17, <1>18
    <2>2. \A i \in mid + 1 .. c : Hash[s[i]] \in Nat
      BY <1>16, <1>17, <1>18
    <2>3. \A i \in 1 .. mid : Hash[s[i]] \in Nat
      BY <1>16, <1>17, <1>18
    <2>4. PICK h : h = Hash[s[mid + 1]]
      OBVIOUS
    <2>5. PICK e : e = Continued(s, mid)
      OBVIOUS
    <2>6. e \in 0 .. 1 /\ h \in Nat /\ (Hash[s[mid]] = h => e = 1)
      BY <1>20, <2>1, <2>4, <2>5
    <2>7. \A i \in 1 .. mid : Hash[s[i]] < h + e
      BY <1>19, <2>1, <2>3, <2>4, <2>6
    <2>8. \A i \in mid + 1 .. c : h + e <= Hash[s[i]] + 1
      BY <1>19, <2>2, <2>4, <2>6
    <2> QED
      BY <2>4, <2>5, <2>6, <2>7, <2>8
  <1>22. part.left = Packed(u) /\ part.right = Packed(v) /\ part.key = Hash[s[mid + 1]] + Continued(s, mid)
    BY <1>8
  <1>23. \A n \in Name : Holds(old, n) <=> Holds(part.left, n) \/ Holds(part.right, n)
    BY <1>1, <1>13, <1>14, <1>15, <1>16, <1>17, <1>22
  <1>24. \A n \in Name : ~(Holds(part.left, n) /\ Holds(part.right, n))
    <2> SUFFICES ASSUME NEW n \in Name, NEW i \in 1 .. mid, s[i] = n, NEW j \in mid + 1 .. c, s[j] = n
                 PROVE  FALSE
      BY <1>13, <1>14, <1>22
    <2>1. i < j /\ i = j
      BY <1>1, <1>16
    <2> QED
      BY <2>1
  <1>25. /\ \A n \in Name : Holds(part.left, n) => Hash[n] < part.key
         /\ \A n \in Name : Holds(part.right, n) => part.key <= Hash[n] + 1
    BY <1>13, <1>14, <1>21, <1>22
  <1>26. (\E n \in Name : Holds(part.left, n)) /\ \E n \in Name : Holds(part.right, n)
    <2>1. s[mid] \in Name /\ s[mid + 1] \in Name
      BY <1>1, <1>16, <1>17
    <2> QED
      BY <1>13, <1>14, <1>17, <1>22, <2>1
  <1> QED
    BY <1>13, <1>14, <1>21, <1>22, <1>23, <1>24, <1>25, <1>26

-----------------------------------------------------------------------------
(* The index.                                                              *)

\* A set of numbers with a bound has a largest one.
LEMMA MaxFacts ==
    ASSUME NEW S \in SUBSET Nat, S # {}, NEW n \in Nat, \A z \in S : z <= n
    PROVE  Max(S) \in S /\ \A z \in S : z <= Max(S)
  <1> DEFINE T == {m \in 0 .. n : n - m \in S}
  <1>1. PICK z0 \in S : TRUE
    OBVIOUS
  <1>2. n - z0 \in T
    <2>1. z0 \in Nat /\ z0 <= n
      OBVIOUS
    <2>2. n - z0 \in 0 .. n /\ n - (n - z0) = z0
      BY <2>1
    <2> QED
      BY <2>2
  <1>3. PICK m \in T : \A z \in T : m <= z
    <2>1. T \in SUBSET Nat /\ T # {}
      BY <1>2
    <2> HIDE DEF T
    <2> QED
      BY <2>1, Least
  <1>4. n - m \in S /\ m \in 0 .. n
    OBVIOUS
  <1>5. ASSUME NEW z \in S
        PROVE  n - m >= z
    <2>1. z \in Nat /\ z <= n
      OBVIOUS
    <2>2. n - z \in 0 .. n /\ n - (n - z) = z
      BY <2>1
    <2>3. n - z \in T
      BY <2>2
    <2> QED
      BY <1>3, <1>4, <2>1, <2>3
  <1>6. \E x \in S : \A y \in S : x >= y
    BY <1>4, <1>5
  <1>7. Max(S) \in S /\ \A y \in S : Max(S) >= y
    BY <1>6 DEF Max
  <1> QED
    BY <1>7

\* The blocks of a directory.
LEMMA BlockFacts ==
    ASSUME NEW d \in Directory, NEW b \in DOMAIN d.blocks
    PROVE  /\ Len(d.blocks) \in Nat /\ b \in 1 .. Len(d.blocks)
           /\ d.blocks[b] = Block(Records(d, b), Ents(d, b))
           /\ Records(d, b) \in Seq(Record) /\ Ents(d, b) \in Seq(IndexEntry)
           /\ Len(Ents(d, b)) \in Nat /\ DOMAIN Ents(d, b) = 1 .. Len(Ents(d, b))
           /\ \A i \in 1 .. Len(Ents(d, b)) :
                Ents(d, b)[i] \in IndexEntry /\ Ents(d, b)[i].h \in Nat /\ Ents(d, b)[i].b \in Nat
  <1>1. d.blocks \in Seq([records : Seq(Record), ents : Seq(IndexEntry)])
    BY DEF Directory
  <1>2. Len(d.blocks) \in Nat /\ b \in 1 .. Len(d.blocks)
    BY <1>1
  <1>3. d.blocks[b] \in [records : Seq(Record), ents : Seq(IndexEntry)]
    BY <1>1, <1>2, ElementOfSeq
  <1>4. d.blocks[b] = Block(Records(d, b), Ents(d, b)) /\ Records(d, b) \in Seq(Record) /\ Ents(d, b) \in Seq(IndexEntry)
    BY <1>3 DEF Block, Records, Ents
  <1>5. \A i \in 1 .. Len(Ents(d, b)) : Ents(d, b)[i] \in IndexEntry
    BY <1>4, ElementOfSeq
  <1>6. \A i \in 1 .. Len(Ents(d, b)) : Ents(d, b)[i].h \in Nat /\ Ents(d, b)[i].b \in Nat
    BY <1>5 DEF IndexEntry
  <1>7. Len(Ents(d, b)) \in Nat /\ DOMAIN Ents(d, b) = 1 .. Len(Ents(d, b))
    BY <1>4
  <1> QED
    BY <1>2, <1>4, <1>5, <1>6, <1>7

\* An index whose keys ascend.
Tree(d) == d \in Directory /\ Len(d.blocks) \in 1 .. MaxBlocks /\ Shape(d) /\ Ascending(d)

\* The path to a leaf, and the number of blocks of the index below the root.
PathTo(d, x) ==
  IF d.levels = 0 THEN <<[b |-> 1, at |-> x[2]]>>
  ELSE <<[b |-> 1, at |-> x[1]], [b |-> Node(d, x[1]), at |-> x[2]]>>
Width(d) == IF d.levels = 0 THEN 1 ELSE Len(Ents(d, 1))
Length(d, k) == Len(Ents(d, Node(d, k)))

\* What the positions need: blocks of the index with at least one entry.
Framed(d) ==
  /\ d \in Directory /\ Len(d.blocks) \in 1 .. MaxBlocks /\ Len(Ents(d, 1)) \in 1 .. RootMax
  /\ d.levels = 1 => \A k \in NodeSet(d) :
       Node(d, k) \in 2 .. Len(d.blocks) /\ Len(Ents(d, Node(d, k))) \in 1 .. NodeMax

\* The slots of an index.
LEMMA FrameFacts ==
    ASSUME NEW d, Framed(d)
    PROVE  /\ 1 \in DOMAIN d.blocks /\ DOMAIN d.blocks = 1 .. Len(d.blocks) /\ d.levels \in 0 .. 1
           /\ Width(d) \in Nat /\ Width(d) >= 1 /\ NodeSet(d) = 1 .. Width(d)
           /\ \A k \in 1 .. Width(d) :
                Node(d, k) \in DOMAIN d.blocks /\ Length(d, k) \in Nat /\ Length(d, k) >= 1
           /\ \A k, j : <<k, j>> \in Slots(d) <=> k \in 1 .. Width(d) /\ j \in 1 .. Length(d, k)
           /\ \A x \in Slots(d) : x = <<x[1], x[2]>> /\ x[1] \in 1 .. Width(d) /\ x[2] \in 1 .. Length(d, x[1])
  <1>1. /\ d \in Directory /\ Len(d.blocks) \in 1 .. MaxBlocks /\ Len(Ents(d, 1)) \in 1 .. RootMax
        /\ d.levels = 1 => \A k \in NodeSet(d) :
             Node(d, k) \in 2 .. Len(d.blocks) /\ Len(Ents(d, Node(d, k))) \in 1 .. NodeMax
    BY DEF Framed
  <1>2. 1 \in DOMAIN d.blocks /\ DOMAIN d.blocks = 1 .. Len(d.blocks) /\ d.levels \in 0 .. 1
    BY <1>1 DEF Directory
  <1>3. Ents(d, 1) \in Seq(IndexEntry) /\ Len(Ents(d, 1)) \in Nat /\ DOMAIN Ents(d, 1) = 1 .. Len(Ents(d, 1))
    BY <1>1, <1>2, BlockFacts
  <1>4. Len(Ents(d, 1)) >= 1
    BY <1>1, DirAssumption
  <1>5. Width(d) \in Nat /\ Width(d) >= 1 /\ NodeSet(d) = 1 .. Width(d)
    <2>1. CASE d.levels = 0
      <3>1. Width(d) = 1 /\ NodeSet(d) = {1} /\ 1 .. 1 = {1}
        BY <2>1 DEF Width, NodeSet
      <3> QED
        BY <3>1
    <2>2. CASE d.levels # 0
      <3>1. Width(d) = Len(Ents(d, 1)) /\ NodeSet(d) = DOMAIN Ents(d, 1)
        BY <2>2 DEF Width, NodeSet
      <3> QED
        BY <1>3, <1>4, <3>1
    <2> QED
      BY <2>1, <2>2
  <1>6. ASSUME NEW k \in 1 .. Width(d)
        PROVE  Node(d, k) \in DOMAIN d.blocks /\ Length(d, k) \in Nat /\ Length(d, k) >= 1
    <2>1. CASE d.levels = 0
      BY <1>2, <1>3, <1>4, <2>1 DEF Node, Length
    <2>2. CASE d.levels = 1
      BY <1>1, <1>2, <1>5, <2>2 DEF Length
    <2> QED
      BY <1>2, <2>1, <2>2
  <1>7. ASSUME NEW k \in 1 .. Width(d)
        PROVE  DOMAIN Ents(d, Node(d, k)) = 1 .. Length(d, k)
    BY <1>1, <1>6, BlockFacts DEF Length
  <1>8. \A k, j : <<k, j>> \in Slots(d) <=> k \in 1 .. Width(d) /\ j \in 1 .. Length(d, k)
    BY <1>5, <1>6, <1>7 DEF Slots
  <1>9. \A x \in Slots(d) : x = <<x[1], x[2]>>
    BY DEF Slots
  <1> QED
    BY <1>2, <1>5, <1>6, <1>8, <1>9

\* The same of an index whose keys ascend.
LEMMA IndexFacts ==
    ASSUME NEW d, Tree(d)
    PROVE  /\ 1 \in DOMAIN d.blocks /\ DOMAIN d.blocks = 1 .. Len(d.blocks) /\ d.levels \in 0 .. 1
           /\ Width(d) \in Nat /\ Width(d) >= 1 /\ NodeSet(d) = 1 .. Width(d)
           /\ \A k \in 1 .. Width(d) :
                Node(d, k) \in DOMAIN d.blocks /\ Length(d, k) \in Nat /\ Length(d, k) >= 1
           /\ \A k, j : <<k, j>> \in Slots(d) <=> k \in 1 .. Width(d) /\ j \in 1 .. Length(d, k)
           /\ \A x \in Slots(d) : x = <<x[1], x[2]>> /\ x[1] \in 1 .. Width(d) /\ x[2] \in 1 .. Length(d, x[1])
  <1>1. Framed(d)
    BY DEF Tree, Shape, Framed
  <1> QED
    BY <1>1, FrameFacts

\* The leaf and the key of an entry.
LEMMA SlotFacts ==
    ASSUME NEW d, Tree(d), NEW x \in Slots(d)
    PROVE  /\ LeafAt(d, x) \in 2 .. Len(d.blocks) /\ LeafAt(d, x) \in DOMAIN d.blocks
           /\ KeyAt(d, x) \in Nat
           /\ PathTo(d, x) # <<>> /\ Len(PathTo(d, x)) = d.levels + 1
           /\ Last(PathTo(d, x)) = [b |-> Node(d, x[1]), at |-> x[2]]
           /\ Target(d, PathTo(d, x)) = Ents(d, Node(d, x[1]))[x[2]]
           /\ Target(d, PathTo(d, x)).b = LeafAt(d, x)
  <1>1. d \in Directory /\ Shape(d)
    BY DEF Tree
  <1>2. x = <<x[1], x[2]>> /\ x[1] \in 1 .. Width(d) /\ x[2] \in 1 .. Length(d, x[1])
    BY IndexFacts
  <1>3. /\ 1 \in DOMAIN d.blocks /\ DOMAIN d.blocks = 1 .. Len(d.blocks) /\ d.levels \in 0 .. 1
        /\ Node(d, x[1]) \in DOMAIN d.blocks
    BY <1>2, IndexFacts
  <1>4. LeafAt(d, x) \in 2 .. Len(d.blocks)
    BY <1>1 DEF Shape
  <1>5. LeafAt(d, x) \in DOMAIN d.blocks
    BY <1>1, <1>3, <1>4, BlockFacts
  <1>6. Ents(d, Node(d, x[1]))[x[2]].h \in Nat
    BY <1>1, <1>2, <1>3, BlockFacts DEF Length
  <1>7. x[1] # 1 => Ents(d, 1)[x[1]].h \in Nat
    <2> SUFFICES ASSUME x[1] # 1
                 PROVE  Ents(d, 1)[x[1]].h \in Nat
      OBVIOUS
    <2>1. x[1] \in 1 .. Len(Ents(d, 1))
      BY <1>2 DEF Width
    <2> QED
      BY <1>1, <1>3, <2>1, BlockFacts
  <1>8. KeyAt(d, x) \in Nat
    BY <1>6, <1>7 DEF KeyAt
  <1>9. /\ PathTo(d, x) # <<>> /\ Len(PathTo(d, x)) = d.levels + 1
        /\ Last(PathTo(d, x)) = [b |-> Node(d, x[1]), at |-> x[2]]
    <2>1. CASE d.levels = 0
      BY <2>1 DEF PathTo, Node, Last
    <2>2. CASE d.levels = 1
      BY <2>2 DEF PathTo, Last
    <2> QED
      BY <1>3, <2>1, <2>2
  <1>10. Target(d, PathTo(d, x)) = Ents(d, Node(d, x[1]))[x[2]]
    BY <1>9 DEF Target
  <1> QED
    BY <1>4, <1>5, <1>8, <1>9, <1>10 DEF LeafAt

\* Position returns the last entry that begins at h or before it, or the first.
LEMMA PositionFacts ==
    ASSUME NEW es \in Seq(IndexEntry), Len(es) >= 1, NEW h \in Nat
    PROVE  /\ Position(es, h) \in 1 .. Len(es)
           /\ Position(es, h) = 1 \/ es[Position(es, h)].h <= h
           /\ \A i \in 1 .. Len(es) : i > Position(es, h) => h < es[i].h
  <1> DEFINE T == {i \in 2 .. Len(es) : es[i].h <= h}
             S == {1} \cup T
  <1>1. Len(es) \in Nat /\ \A i \in 1 .. Len(es) : es[i].h \in Nat
    <2>1. \A i \in 1 .. Len(es) : es[i] \in IndexEntry
      BY ElementOfSeq
    <2> QED
      BY <2>1 DEF IndexEntry
  <1>2. S \in SUBSET Nat /\ S # {} /\ \A z \in S : z <= Len(es)
    BY <1>1
  <1>3. Position(es, h) = Max(S)
    BY DEF Position
  <1>4. Max(S) \in S /\ \A z \in S : z <= Max(S)
    <2> HIDE DEF S
    <2> QED
      BY <1>1, <1>2, MaxFacts
  <1> DEFINE p == Position(es, h)
  <1>5. p \in 1 .. Len(es) /\ (p = 1 \/ es[p].h <= h) /\ \A z \in S : z <= p
    BY <1>1, <1>3, <1>4
  <1> HIDE DEF p
  <1>6. ASSUME NEW i \in 1 .. Len(es), i > p
        PROVE  h < es[i].h
    <2>1. i \notin S
      BY <1>1, <1>5, <1>6
    <2>2. i \in 2 .. Len(es) /\ es[i].h \in Nat
      BY <1>1, <1>5, <1>6
    <2> QED
      BY <2>1, <2>2
  <1> QED
    BY <1>5, <1>6 DEF p

\* The leaf with the last key that is not larger than h.
LastUpTo(d, x, h) ==
  x \in Slots(d) /\ KeyAt(d, x) <= h /\ \A y \in Slots(d) : Before(x, y) => h < KeyAt(d, y)

\* ext4_dir_dx_get_leaf goes to the leaf with the last key that is not larger than h.
LEMMA GetLeafFacts ==
    ASSUME NEW d, Tree(d), NEW h \in Nat
    PROVE  \E x \in Slots(d) : GetLeaf(d, h) = PathTo(d, x) /\ LastUpTo(d, x, h)
  <1>1. d \in Directory /\ Shape(d) /\ Ascending(d)
    BY DEF Tree
  <1>2. /\ 1 \in DOMAIN d.blocks /\ d.levels \in 0 .. 1 /\ Width(d) \in Nat /\ Width(d) >= 1
        /\ \A k \in 1 .. Width(d) :
             Node(d, k) \in DOMAIN d.blocks /\ Length(d, k) \in Nat /\ Length(d, k) >= 1
        /\ \A k, j : <<k, j>> \in Slots(d) <=> k \in 1 .. Width(d) /\ j \in 1 .. Length(d, k)
        /\ \A x \in Slots(d) : x = <<x[1], x[2]>> /\ x[1] \in 1 .. Width(d) /\ x[2] \in 1 .. Length(d, x[1])
    BY IndexFacts
  <1>3. \A k \in 1 .. Width(d) : Ents(d, Node(d, k)) \in Seq(IndexEntry)
    BY <1>1, <1>2, BlockFacts
  <1> DEFINE r == Position(Ents(d, 1), h)
  <1>4. ASSUME NEW k \in 1 .. Width(d), k = 1 \/ Ents(d, 1)[k].h <= h,
               NEW j, j = Position(Ents(d, Node(d, k)), h)
        PROVE  /\ <<k, j>> \in Slots(d) /\ KeyAt(d, <<k, j>>) <= h
               /\ \A i \in 1 .. Length(d, k) : i > j => h < KeyAt(d, <<k, i>>)
    <2>1. /\ j \in 1 .. Length(d, k)
          /\ j = 1 \/ Ents(d, Node(d, k))[j].h <= h
          /\ \A i \in 1 .. Length(d, k) : i > j => h < Ents(d, Node(d, k))[i].h
      BY <1>2, <1>3, <1>4, PositionFacts DEF Length
    <2>2. KeyAt(d, <<k, j>>) <= h
      BY <1>4, <2>1 DEF KeyAt
    <2>3. \A i \in 1 .. Length(d, k) : i > j => i # 1
      BY <1>2, <2>1
    <2>4. \A i \in 1 .. Length(d, k) : i > j => h < KeyAt(d, <<k, i>>)
      BY <2>1, <2>3 DEF KeyAt
    <2> QED
      BY <1>2, <2>1, <2>2, <2>4
  <1>5. CASE d.levels = 0
    <2>1. PICK j : j = Position(Ents(d, Node(d, 1)), h)
      OBVIOUS
    <2>2. Width(d) = 1 /\ Node(d, 1) = 1 /\ 1 \in 1 .. Width(d)
      BY <1>5 DEF Width, Node
    <2>3. /\ <<1, j>> \in Slots(d) /\ KeyAt(d, <<1, j>>) <= h
          /\ \A i \in 1 .. Length(d, 1) : i > j => h < KeyAt(d, <<1, i>>)
      BY <1>4, <2>1, <2>2
    <2>4. GetLeaf(d, h) = PathTo(d, <<1, j>>)
      BY <1>5, <2>1, <2>2 DEF GetLeaf, PathTo
    <2>5. ASSUME NEW y \in Slots(d), Before(<<1, j>>, y)
          PROVE  h < KeyAt(d, y)
      <3>1. y = <<y[1], y[2]>> /\ y[1] = 1 /\ y[2] \in 1 .. Length(d, 1)
        BY <1>2, <2>2
      <3>2. y[2] > j
        BY <2>5, <3>1, <1>2, <2>3 DEF Before
      <3> QED
        BY <2>3, <3>1, <3>2
    <2> QED
      BY <2>3, <2>4, <2>5 DEF LastUpTo
  <1>6. CASE d.levels = 1
    <2>1. PICK k : k = Position(Ents(d, 1), h)
      OBVIOUS
    <2>2. Width(d) = Len(Ents(d, 1)) /\ Ents(d, 1) \in Seq(IndexEntry)
      BY <1>1, <1>2, <1>6, BlockFacts DEF Width
    <2>3. /\ k \in 1 .. Width(d) /\ (k = 1 \/ Ents(d, 1)[k].h <= h)
          /\ \A i \in 1 .. Width(d) : i > k => h < Ents(d, 1)[i].h
      BY <1>2, <2>1, <2>2, PositionFacts
    <2>4. PICK j : j = Position(Ents(d, Node(d, k)), h)
      OBVIOUS
    <2>5. /\ <<k, j>> \in Slots(d) /\ KeyAt(d, <<k, j>>) <= h
          /\ \A i \in 1 .. Length(d, k) : i > j => h < KeyAt(d, <<k, i>>)
      BY <1>4, <2>3, <2>4
    <2>6. GetLeaf(d, h) = PathTo(d, <<k, j>>)
      <3>1. Node(d, k) = Ents(d, 1)[k].b
        BY <1>6 DEF Node
      <3>2. Target(d, <<[b |-> 1, at |-> k]>>).b = Node(d, k)
        BY <3>1 DEF Target, Last
      <3>3. GetLeaf(d, h) = Append(<<[b |-> 1, at |-> k]>>, [b |-> Node(d, k), at |-> j])
        BY <1>6, <2>1, <2>4, <3>2 DEF GetLeaf
      <3>4. PathTo(d, <<k, j>>) = <<[b |-> 1, at |-> k], [b |-> Node(d, k), at |-> j]>>
        BY <1>6 DEF PathTo
      <3> QED
        BY <3>3, <3>4
    <2>7. ASSUME NEW y \in Slots(d), Before(<<k, j>>, y)
          PROVE  h < KeyAt(d, y)
      <3>1. y = <<y[1], y[2]>> /\ y[1] \in 1 .. Width(d) /\ y[2] \in 1 .. Length(d, y[1])
        BY <1>2
      <3>2. CASE y[1] = k /\ y[2] > j
        BY <2>5, <3>1, <3>2
      <3>3. CASE y[1] > k
        <4> DEFINE z == <<y[1], 1>>
        <4>1. z \in Slots(d) /\ z[1] = y[1] /\ z[2] = 1
          BY <1>2, <3>1
        <4>2. y[1] # 1
          BY <1>2, <2>3, <3>1, <3>3
        <4>3. KeyAt(d, z) = Ents(d, 1)[y[1]].h
          BY <4>1, <4>2 DEF KeyAt
        <4>4. h < KeyAt(d, z)
          BY <2>3, <3>1, <3>3, <4>3
        <4>5. y = z \/ Before(z, y)
          BY <1>2, <3>1 DEF Before
        <4>6. KeyAt(d, z) \in Nat /\ KeyAt(d, y) \in Nat
          BY <4>1, SlotFacts
        <4>7. y = z \/ KeyAt(d, z) <= KeyAt(d, y)
          BY <1>1, <4>1, <4>5 DEF Ascending
        <4> HIDE DEF z
        <4> QED
          BY <4>4, <4>6, <4>7
      <3> QED
        BY <1>2, <2>3, <2>5, <2>7, <3>1, <3>2, <3>3 DEF Before
    <2> QED
      BY <2>5, <2>6, <2>7 DEF LastUpTo
  <1> QED
    BY <1>2, <1>5, <1>6
\* A sequence with one member, and with two.
LEMMA SequenceIs ==
    ASSUME NEW S, NEW s \in Seq(S)
    PROVE  /\ Len(s) = 1 => s = <<s[1]>>
           /\ Len(s) = 2 => s = <<s[1], s[2]>>
  <1>1. s = [i \in 1 .. Len(s) |-> s[i]]
    OBVIOUS
  <1>2. ASSUME Len(s) = 1
        PROVE  s = <<s[1]>>
    BY <1>1, <1>2
  <1>3. ASSUME Len(s) = 2
        PROVE  s = <<s[1], s[2]>>
    BY <1>1, <1>3
  <1> QED
    BY <1>2, <1>3

\* The beginning of a path.
LEMMA BeginningIs ==
    ASSUME NEW u, NEW v
    PROVE  SubSeq(<<u>>, 1, 1) = <<u>> /\ SubSeq(<<u, v>>, 1, 1) = <<u>> /\ SubSeq(<<u, v>>, 1, 2) = <<u, v>>
  <1> DEFINE S == {u, v}
  <1>1. ASSUME NEW s \in Seq(S), NEW n \in 1 .. 2, Len(s) >= n
        PROVE  /\ SubSeq(s, 1, n) \in Seq(S) /\ Len(SubSeq(s, 1, n)) = n
               /\ \A j \in 1 .. n : SubSeq(s, 1, n)[j] = s[j]
    <2> HIDE DEF S
    <2>1. 1 \in Nat \ {0} /\ n \in 1 - 1 .. Len(s)
      BY <1>1
    <2>2. /\ SubSeq(s, 1, n) \in Seq(S) /\ Len(SubSeq(s, 1, n)) = n - (1 - 1)
          /\ \A j \in 1 .. n - (1 - 1) : SubSeq(s, 1, n)[j] = s[(1 - 1) + j]
      BY <2>1, SubSeqFacts
    <2> QED
      BY <2>2
  <1>2. PICK w : w = <<u>>
    OBVIOUS
  <1>3. PICK t : t = <<u, v>>
    OBVIOUS
  <1>4. w \in Seq(S) /\ t \in Seq(S) /\ Len(w) = 1 /\ Len(t) = 2 /\ w[1] = u /\ t[1] = u /\ t[2] = v
    BY <1>2, <1>3
  <1> HIDE DEF S
  <1>5. SubSeq(w, 1, 1) \in Seq(S) /\ Len(SubSeq(w, 1, 1)) = 1 /\ SubSeq(w, 1, 1)[1] = u
    BY <1>1, <1>4
  <1>6. SubSeq(t, 1, 1) \in Seq(S) /\ Len(SubSeq(t, 1, 1)) = 1 /\ SubSeq(t, 1, 1)[1] = u
    BY <1>1, <1>4
  <1>7. /\ SubSeq(t, 1, 2) \in Seq(S) /\ Len(SubSeq(t, 1, 2)) = 2
        /\ SubSeq(t, 1, 2)[1] = u /\ SubSeq(t, 1, 2)[2] = v
    <2>1. 2 \in 1 .. 2 /\ 1 \in 1 .. 2 /\ Len(t) >= 2
      BY <1>4
    <2>2. /\ SubSeq(t, 1, 2) \in Seq(S) /\ Len(SubSeq(t, 1, 2)) = 2
          /\ \A j \in 1 .. 2 : SubSeq(t, 1, 2)[j] = t[j]
      BY <1>1, <1>4, <2>1
    <2> QED
      BY <1>4, <2>1, <2>2
  <1> QED
    BY <1>2, <1>3, <1>5, <1>6, <1>7, SequenceIs

\* One step further in the last block of a path, and in the first of two.
LEMMA StepInRoot ==
    ASSUME NEW b1, NEW a1, NEW p,
           p = <<[b |-> b1, at |-> a1]>> \/ \E v : p = <<[b |-> b1, at |-> a1], v>>
    PROVE  [SubSeq(p, 1, 1) EXCEPT ![1].at = @ + 1] = <<[b |-> b1, at |-> a1 + 1]>>
  <1> DEFINE u == [b |-> b1, at |-> a1]
  <1>1. [<<u>> EXCEPT ![1].at = @ + 1] = <<[b |-> b1, at |-> a1 + 1]>>
    OBVIOUS
  <1>2. SubSeq(p, 1, 1) = <<u>>
    <2> HIDE DEF u
    <2> QED
      BY BeginningIs DEF u
  <1> QED
    BY <1>1, <1>2

\* A path that goes one on in its second block.
LEMMA StepBelow ==
    ASSUME NEW u, NEW b2, NEW a2, NEW p, p = <<u, [b |-> b2, at |-> a2]>>
    PROVE  [SubSeq(p, 1, 2) EXCEPT ![2].at = @ + 1] = <<u, [b |-> b2, at |-> a2 + 1]>>
  <1> DEFINE v == [b |-> b2, at |-> a2]
  <1>1. [<<u, v>> EXCEPT ![2].at = @ + 1] = <<u, [b |-> b2, at |-> a2 + 1]>>
    OBVIOUS
  <1>2. SubSeq(p, 1, 2) = <<u, v>>
    BY BeginningIs
  <1> QED
    BY <1>1, <1>2

\* What Append does.
LEMMA AppendIs ==
    ASSUME NEW S, NEW s \in Seq(S), NEW e \in S
    PROVE  /\ Append(s, e) \in Seq(S)
           /\ Len(Append(s, e)) = Len(s) + 1
           /\ \A i \in 1 .. Len(s) : Append(s, e)[i] = s[i]
           /\ Append(s, e)[Len(s) + 1] = e
  <1>1. Append(s, e) \in Seq(S)
    OBVIOUS
  <1>2. Len(Append(s, e)) = Len(s) + 1
    OBVIOUS
  <1>3. \A i \in 1 .. Len(s) : Append(s, e)[i] = s[i]
    OBVIOUS
  <1>4. Append(s, e)[Len(s) + 1] = e
    OBVIOUS
  <1> QED
    BY <1>1, <1>2, <1>3, <1>4

\* A second element.
LEMMA AppendTwo ==
    ASSUME NEW S, NEW w \in Seq(S), NEW b \in S, Len(w) = 1
    PROVE  Append(w, b) = <<w[1], b>>
  <1>1. PICK t : t = Append(w, b)
    OBVIOUS
  <1>2. PICK l : l = Len(w)
    OBVIOUS
  <1>3. t \in Seq(S) /\ Len(t) = l + 1 /\ (\A i \in 1 .. l : t[i] = w[i]) /\ t[l + 1] = b
    BY ONLY w \in Seq(S), b \in S, <1>1, <1>2, AppendIs
  <1>4. l = 1
    BY <1>2
  <1>5. t \in Seq(S) /\ Len(t) = 2 /\ t[1] = w[1] /\ t[2] = b
    BY ONLY <1>3, <1>4
  <1>6. t = <<t[1], t[2]>>
    BY <1>5, SequenceIs
  <1> QED
    BY <1>1, <1>5, <1>6

\* The next leaf in the order of the entries is the one the search goes on with.
FollowedBy(d, x, y) ==
  y \in Slots(d) /\ Before(x, y) /\ \A z \in Slots(d) : Before(x, z) => z = y \/ Before(y, z)

\* ext4_dir_dx_next_block goes to the leaf that follows, if its key allows the hash.
LEMMA NextFacts ==
    ASSUME NEW d, Tree(d), NEW x \in Slots(d), NEW h
    PROVE  \/ /\ \A y \in Slots(d) : ~Before(x, y)
              /\ NextBlock(d, h, PathTo(d, x)) = <<>>
           \/ \E y \in Slots(d) :
                /\ FollowedBy(d, x, y)
                /\ NextBlock(d, h, PathTo(d, x)) = IF Same(KeyAt(d, y), h) THEN PathTo(d, y) ELSE <<>>
  <1>1. /\ 1 \in DOMAIN d.blocks /\ d.levels \in 0 .. 1 /\ Width(d) \in Nat
        /\ \A k \in 1 .. Width(d) :
             Node(d, k) \in DOMAIN d.blocks /\ Length(d, k) \in Nat /\ Length(d, k) >= 1
        /\ \A k, j : <<k, j>> \in Slots(d) <=> k \in 1 .. Width(d) /\ j \in 1 .. Length(d, k)
        /\ \A z \in Slots(d) : z = <<z[1], z[2]>> /\ z[1] \in 1 .. Width(d) /\ z[2] \in 1 .. Length(d, z[1])
    BY IndexFacts
  <1> DEFINE p == PathTo(d, x)
             open == {k \in DOMAIN p : p[k].at < Len(Ents(d, p[k].b))}
             k0 == Max(open)
             q == [SubSeq(p, 1, k0) EXCEPT ![k0].at = @ + 1]
  <1>2. NextBlock(d, h, p) = IF open = {} THEN <<>>
                             ELSE IF ~Same(Target(d, q).h, h) THEN <<>>
                             ELSE IF k0 = Len(p) THEN q
                             ELSE Append(q, [b |-> Target(d, q).b, at |-> 1])
    BY DEF NextBlock
  <1>3. PICK k, j : x = <<k, j>> /\ k \in 1 .. Width(d) /\ j \in 1 .. Length(d, k)
    BY <1>1
  <1>4. x[1] = k /\ x[2] = j /\ k \in Nat /\ j \in Nat /\ Length(d, k) \in Nat
    BY <1>1, <1>3
  <1>5. CASE j < Length(d, k)
    <2> DEFINE y == <<k, j + 1>>
    <2>1. y \in Slots(d) /\ y[1] = k /\ y[2] = j + 1 /\ j + 1 # 1
      BY <1>1, <1>3, <1>4, <1>5
    <2>2. FollowedBy(d, x, y)
      <3> SUFFICES ASSUME NEW z \in Slots(d), Before(x, z)
                   PROVE  z = y \/ Before(y, z)
        BY <1>4, <2>1 DEF FollowedBy, Before
      <3>1. z = <<z[1], z[2]>> /\ z[1] \in 1 .. Width(d) /\ z[2] \in 1 .. Length(d, z[1])
        BY <1>1
      <3>2. z[1] \in Nat /\ z[2] \in Nat
        BY <1>1, <3>1
      <3>3. z[1] > k \/ (z[1] = k /\ z[2] > j)
        BY <1>4, <3>2 DEF Before
      <3>4. z[1] > k \/ (z[1] = k /\ (z[2] = j + 1 \/ z[2] > j + 1))
        BY <1>4, <3>2, <3>3
      <3> QED
        BY <1>4, <2>1, <3>1, <3>2, <3>4 DEF Before
    <2>3. Ents(d, Node(d, k))[j + 1].h = KeyAt(d, y)
      BY <2>1 DEF KeyAt
    <2>4. open # {} /\ k0 = Len(p) /\ q = PathTo(d, y) /\ Target(d, q).h = KeyAt(d, y)
      <3>1. Target(d, PathTo(d, y)) = Ents(d, Node(d, k))[j + 1]
        BY <2>1, SlotFacts
      <3> HIDE DEF y
      <3>2. CASE d.levels = 0
        <4>1. p = <<[b |-> 1, at |-> j]>> /\ PathTo(d, y) = <<[b |-> 1, at |-> j + 1]>>
          BY <1>4, <2>1, <3>2 DEF PathTo
        <4>2. Len(Ents(d, 1)) = Length(d, k)
          BY <3>2 DEF Length, Node
        <4>3. DOMAIN p = {1} /\ p[1].at = j /\ p[1].b = 1 /\ Len(p) = 1
          BY <4>1
        <4> HIDE DEF p
        <4>4. open = {1}
          BY <1>5, <4>2, <4>3
        <4>5. k0 = 1
          <5> HIDE DEF open
          <5>1. {1} \in SUBSET Nat /\ {1} # {} /\ \A z \in {1} : z <= 1
            OBVIOUS
          <5>2. Max({1}) \in {1}
            BY <5>1, MaxFacts
          <5> QED
            BY <4>4, <5>2
        <4>6. q = [SubSeq(p, 1, 1) EXCEPT ![1].at = @ + 1]
          BY <4>5
        <4> HIDE DEF q, k0, open
        <4>7. q = PathTo(d, y)
          BY <4>1, <4>6, StepInRoot
        <4> QED
          BY <2>3, <3>1, <4>3, <4>4, <4>5, <4>7
      <3>3. CASE d.levels = 1
        <4>1. /\ p = <<[b |-> 1, at |-> k], [b |-> Node(d, k), at |-> j]>>
              /\ PathTo(d, y) = <<[b |-> 1, at |-> k], [b |-> Node(d, k), at |-> j + 1]>>
          BY <1>4, <2>1, <3>3 DEF PathTo
        <4>3. DOMAIN p = 1 .. 2 /\ p[2].at = j /\ p[2].b = Node(d, k) /\ Len(p) = 2
          BY <4>1
        <4> HIDE DEF p
        <4>4. 2 \in open /\ open \subseteq 1 .. 2
          BY <1>5, <4>3 DEF Length
        <4>5. k0 = 2
          <5> HIDE DEF open
          <5>1. open \in SUBSET Nat /\ open # {} /\ \A z \in open : z <= 2
            BY <4>4
          <5>2. Max(open) \in open /\ \A z \in open : z <= Max(open)
            BY <5>1, MaxFacts
          <5>3. Max(open) \in 1 .. 2 /\ 2 <= Max(open)
            BY <4>4, <5>2
          <5> QED
            BY <5>3
        <4>6. q = [SubSeq(p, 1, 2) EXCEPT ![2].at = @ + 1]
          BY <4>5
        <4> HIDE DEF q, k0, open
        <4>7. q = PathTo(d, y)
          <5>1. [SubSeq(p, 1, 2) EXCEPT ![2].at = @ + 1] = <<[b |-> 1, at |-> k], [b |-> Node(d, k), at |-> j + 1]>>
            BY <4>1, StepBelow
          <5> QED
            BY <4>1, <4>6, <5>1, Zenon
        <4> QED
          BY <2>3, <3>1, <4>3, <4>4, <4>5, <4>7
      <3> HIDE DEF p, open, k0, q
      <3> QED
        BY <1>1, <3>2, <3>3
    <2>5. NextBlock(d, h, p) = IF Same(KeyAt(d, y), h) THEN PathTo(d, y) ELSE <<>>
      <3> HIDE DEF open, k0, q, p, y
      <3> QED
        BY <1>2, <2>4
    <2> QED
      BY <2>1, <2>2, <2>5
  <1>6. CASE j = Length(d, k) /\ k < Width(d)
    <2> DEFINE y == <<k + 1, 1>>
    <2>1. y \in Slots(d) /\ y[1] = k + 1 /\ y[2] = 1 /\ k + 1 # 1 /\ k + 1 \in 1 .. Width(d)
      BY <1>1, <1>3, <1>4, <1>6
    <2>2. FollowedBy(d, x, y)
      <3> SUFFICES ASSUME NEW z \in Slots(d), Before(x, z)
                   PROVE  z = y \/ Before(y, z)
        BY <1>4, <2>1 DEF FollowedBy, Before
      <3>1. z = <<z[1], z[2]>> /\ z[1] \in 1 .. Width(d) /\ z[2] \in 1 .. Length(d, z[1])
        BY <1>1
      <3>2. z[1] \in Nat /\ z[2] \in Nat /\ z[2] >= 1
        BY <1>1, <3>1
      <3>3. z[1] > k
        BY <1>4, <1>6, <3>1, <3>2 DEF Before
      <3>4. z[1] > k + 1 \/ (z[1] = k + 1 /\ (z[2] = 1 \/ z[2] > 1))
        BY <1>4, <3>2, <3>3
      <3> QED
        BY <1>4, <2>1, <3>1, <3>2, <3>4 DEF Before
    <2>0. d.levels = 1 /\ Width(d) = Len(Ents(d, 1))
      BY <1>1, <1>4, <1>6 DEF Width
    <2>3. Ents(d, 1)[k + 1].h = KeyAt(d, y) /\ Ents(d, 1)[k + 1].b = Node(d, k + 1)
      BY <2>0, <2>1 DEF KeyAt, Node
    <2>4. /\ open # {} /\ k0 # Len(p) /\ Target(d, q).h = KeyAt(d, y)
          /\ Append(q, [b |-> Target(d, q).b, at |-> 1]) = PathTo(d, y)
      <3> HIDE DEF y
      <3>1. /\ p = <<[b |-> 1, at |-> k], [b |-> Node(d, k), at |-> j]>>
            /\ PathTo(d, y) = <<[b |-> 1, at |-> k + 1], [b |-> Node(d, k + 1), at |-> 1]>>
        BY <1>4, <2>0, <2>1 DEF PathTo
      <3>2. /\ DOMAIN p = 1 .. 2 /\ p[2].at = j /\ p[2].b = Node(d, k) /\ Len(p) = 2
            /\ p[1].at = k /\ p[1].b = 1
        BY <3>1
      <3> HIDE DEF p
      <3>3. open = {1}
        BY <1>4, <1>6, <2>0, <3>2 DEF Length
      <3>4. k0 = 1
        <4> HIDE DEF open
        <4>1. {1} \in SUBSET Nat /\ {1} # {} /\ \A z \in {1} : z <= 1
          OBVIOUS
        <4>2. Max({1}) \in {1}
          BY <4>1, MaxFacts
        <4> QED
          BY <3>3, <4>2
      <3>5. q = [SubSeq(p, 1, 1) EXCEPT ![1].at = @ + 1]
        BY <3>4
      <3> HIDE DEF q, k0, open
      <3>6. q = <<[b |-> 1, at |-> k + 1]>>
        BY <3>1, <3>5, StepInRoot
      <3>7. Target(d, q) = Ents(d, 1)[k + 1]
        BY <3>6 DEF Target, Last
      <3>8. Append(q, [b |-> Node(d, k + 1), at |-> 1]) = PathTo(d, y)
        <4>1. Append(<<[b |-> 1, at |-> k + 1]>>, [b |-> Node(d, k + 1), at |-> 1]) =
                <<[b |-> 1, at |-> k + 1], [b |-> Node(d, k + 1), at |-> 1]>>
          <5> DEFINE S == [b : Nat, at : Nat]
                     w == <<[b |-> 1, at |-> k + 1]>>
                     e == [b |-> Node(d, k + 1), at |-> 1]
          <5>1. Node(d, k + 1) \in Nat /\ k + 1 \in Nat
            BY <1>1, <1>4, <2>1, IndexFacts
          <5>2. w \in Seq(S) /\ e \in S /\ Len(w) = 1 /\ w[1] = [b |-> 1, at |-> k + 1]
            <6>1. [b |-> 1, at |-> k + 1] \in S /\ e \in S
              BY ONLY <5>1
            <6>2. PICK u : u = [b |-> 1, at |-> k + 1]
              OBVIOUS
            <6> HIDE DEF S, e
            <6>3. <<u>> \in Seq(S) /\ Len(<<u>>) = 1 /\ <<u>>[1] = u
              BY ONLY <6>1, <6>2
            <6> QED
              BY ONLY <6>1, <6>2, <6>3
          <5>3. Append(w, e) = <<w[1], e>>
            <6> HIDE DEF S, w, e
            <6> QED
              BY <5>2, AppendTwo
          <5> QED
            BY <5>2, <5>3
        <4> QED
          BY <3>1, <3>6, <4>1, Zenon
      <3> QED
        BY <2>3, <3>2, <3>3, <3>4, <3>7, <3>8
    <2>5. NextBlock(d, h, p) = IF Same(KeyAt(d, y), h) THEN PathTo(d, y) ELSE <<>>
      <3> HIDE DEF open, k0, q, p, y
      <3> QED
        BY <1>2, <2>4
    <2> QED
      BY <2>1, <2>2, <2>5
  <1>7. CASE j = Length(d, k) /\ k = Width(d)
    <2>1. ASSUME NEW y \in Slots(d), Before(x, y)
          PROVE  FALSE
      <3>1. y[1] \in 1 .. Width(d) /\ y[2] \in 1 .. Length(d, y[1])
        BY <1>1
      <3> QED
        BY <1>1, <1>4, <1>7, <2>1, <3>1 DEF Before
    <2>2. open = {}
      <3>1. CASE d.levels = 0
        <4>1. p = <<[b |-> 1, at |-> j]>>
          BY <1>4, <3>1 DEF PathTo
        <4>2. Len(Ents(d, 1)) = Length(d, k)
          BY <3>1 DEF Length, Node
        <4>3. DOMAIN p = {1} /\ p[1].at = j /\ p[1].b = 1
          BY <4>1
        <4> HIDE DEF p
        <4> QED
          BY <1>4, <1>7, <4>2, <4>3
      <3>2. CASE d.levels = 1
        <4>1. p = <<[b |-> 1, at |-> k], [b |-> Node(d, k), at |-> j]>>
          BY <1>4, <3>2 DEF PathTo
        <4>2. Len(Ents(d, 1)) = k
          BY <1>7, <3>2 DEF Width
        <4>3. DOMAIN p = 1 .. 2 /\ p[2].at = j /\ p[2].b = Node(d, k) /\ p[1].at = k /\ p[1].b = 1
          BY <4>1
        <4> HIDE DEF p
        <4> QED
          BY <1>4, <1>7, <4>2, <4>3 DEF Length
      <3> QED
        BY <1>1, <3>1, <3>2
    <2>3. NextBlock(d, h, p) = <<>>
      <3> HIDE DEF open, k0, q
      <3> QED
        BY <1>2, <2>2
    <2> QED
      BY <2>1, <2>3
  <1>8. j < Length(d, k) \/ (j = Length(d, k) /\ (k < Width(d) \/ k = Width(d)))
    BY <1>1, <1>3, <1>4
  <1> QED
    BY <1>5, <1>6, <1>7, <1>8
\* A key above an even hash continues it if it is the next number.
LEMMA SameFacts ==
    ASSUME NEW h \in Nat, h % 2 = 0, NEW key \in Nat, key > h
    PROVE  Same(key, h) <=> key = h + 1
  <1> DEFINE q == key \div 2
             r == key % 2
             a == h \div 2
  <1>1. q \in Nat /\ r \in 0 .. 1 /\ key = 2 * q + r
    BY DivMod
  <1>2. a \in Nat /\ h = 2 * a
    BY DivMod
  <1>3. Same(key, h) <=> q * 2 = h
    BY DEF Same
  <1> HIDE DEF q, r, a
  <1> QED
    BY <1>1, <1>2, <1>3

\* The leaves have an order.
LEMMA OrderFacts ==
    ASSUME NEW d, Tree(d), NEW x \in Slots(d), NEW y \in Slots(d)
    PROVE  /\ x = y \/ Before(x, y) \/ Before(y, x)
           /\ ~(Before(x, y) /\ Before(y, x)) /\ ~Before(x, x)
           /\ \A z \in Slots(d) : Before(x, y) /\ Before(y, z) => Before(x, z)
  <1>1. \A z \in Slots(d) : z = <<z[1], z[2]>> /\ z[1] \in Nat /\ z[2] \in Nat
    <2> SUFFICES ASSUME NEW z \in Slots(d)
                 PROVE  z = <<z[1], z[2]>> /\ z[1] \in Nat /\ z[2] \in Nat
      OBVIOUS
    <2>1. z = <<z[1], z[2]>> /\ z[1] \in 1 .. Width(d) /\ z[2] \in 1 .. Length(d, z[1]) /\ Width(d) \in Nat
      BY IndexFacts
    <2>2. Length(d, z[1]) \in Nat
      BY <2>1, IndexFacts
    <2> QED
      BY <2>1, <2>2
  <1> QED
    BY <1>1 DEF Before

\* The leaves behind a place, of which there are fewer than blocks.
Later(d, x) == {b \in 2 .. MaxBlocks : \E y \in Slots(d) : LeafAt(d, y) = b /\ Before(x, y)}

\* There are fewer later leaves the further a search has come.
LEMMA LaterFacts ==
    ASSUME NEW d, Tree(d), NEW x \in Slots(d)
    PROVE  /\ IsFiniteSet(Later(d, x)) /\ Cardinality(Later(d, x)) \in Nat /\ Cardinality(Later(d, x)) <= MaxBlocks - 1
           /\ \A y \in Slots(d) : Before(x, y) => Cardinality(Later(d, y)) + 1 <= Cardinality(Later(d, x))
  <1>1. MaxBlocks \in Nat /\ MaxBlocks >= 2
    BY DirAssumption
  <1>2. IsFiniteSet(2 .. MaxBlocks) /\ Cardinality(2 .. MaxBlocks) = MaxBlocks - 1
    <2>1. Cardinality(2 .. MaxBlocks) = IF 2 > MaxBlocks THEN 0 ELSE MaxBlocks - 2 + 1
      BY <1>1, FS_Interval
    <2> QED
      BY <1>1, <2>1, FS_Interval
  <1>3. \A z : Later(d, z) \subseteq 2 .. MaxBlocks
    BY DEF Later
  <1>4. \A z : IsFiniteSet(Later(d, z)) /\ Cardinality(Later(d, z)) \in Nat /\ Cardinality(Later(d, z)) <= MaxBlocks - 1
    <2> SUFFICES ASSUME NEW z
                 PROVE  /\ IsFiniteSet(Later(d, z)) /\ Cardinality(Later(d, z)) \in Nat
                        /\ Cardinality(Later(d, z)) <= MaxBlocks - 1
      OBVIOUS
    <2>1. PICK V, B : V = Later(d, z) /\ B = 2 .. MaxBlocks
      OBVIOUS
    <2>2. V \in SUBSET B /\ IsFiniteSet(B)
      BY ONLY <1>2, <1>3, <2>1
    <2>3. IsFiniteSet(V) /\ Cardinality(V) <= Cardinality(B)
      BY ONLY <2>2, FS_Subset
    <2>4. Cardinality(V) \in Nat
      BY ONLY <2>3, FS_CardinalityType
    <2> QED
      BY ONLY <1>2, <2>1, <2>3, <2>4
  <1>5. ASSUME NEW y \in Slots(d), Before(x, y)
        PROVE  Cardinality(Later(d, y)) + 1 <= Cardinality(Later(d, x))
    <2> DEFINE b == LeafAt(d, y)
    <2>1. b \in 2 .. MaxBlocks
      <3>1. b \in 2 .. Len(d.blocks) /\ Len(d.blocks) \in 1 .. MaxBlocks
        BY SlotFacts DEF Tree
      <3> QED
        BY <1>1, <3>1
    <2>2. b \in Later(d, x)
      BY <1>5, <2>1 DEF Later
    <2>3. b \notin Later(d, y)
      <3> SUFFICES ASSUME NEW z \in Slots(d), LeafAt(d, z) = b, Before(y, z)
                   PROVE  FALSE
        BY DEF Later
      <3>1. z = y
        BY DEF Tree, Shape
      <3> QED
        BY <3>1, OrderFacts
    <2>4. Later(d, y) \subseteq Later(d, x) \ {b}
      <3> SUFFICES ASSUME NEW c \in Later(d, y)
                   PROVE  c \in Later(d, x)
        BY <2>3
      <3>1. PICK z \in Slots(d) : LeafAt(d, z) = c /\ Before(y, z)
        BY DEF Later
      <3>2. Before(x, z)
        BY <1>5, <3>1, OrderFacts
      <3> QED
        BY <3>1, <3>2 DEF Later
    <2>5. IsFiniteSet(Later(d, x) \ {b}) /\ Cardinality(Later(d, x) \ {b}) = Cardinality(Later(d, x)) - 1
      BY <1>4, <2>2, FS_RemoveElement
    <2>6. Cardinality(Later(d, y)) <= Cardinality(Later(d, x) \ {b})
      BY <2>4, <2>5, FS_Subset
    <2> QED
      BY <1>4, <2>5, <2>6
  <1> QED
    BY <1>4, <1>5

\* The search: where it stands after k leaves.
Searching(d, n, k, p) ==
  \/ p = <<>> /\ \A b \in DOMAIN d.blocks : ~HeldIn(d, n, b)
  \/ \E x \in Slots(d) :
       /\ p = PathTo(d, x)
       /\ Holds(Records(d, LeafAt(d, x)), n) \/ Cardinality(Later(d, x)) + k <= MaxBlocks - 1
       /\ \A y \in Slots(d) : HeldIn(d, n, LeafAt(d, y)) => y = x \/ Before(x, y)
       /\ \A y \in Slots(d) : Before(x, y) => Hash[n] < KeyAt(d, y)

SearchStep(d, n, p) ==
  IF p = <<>> THEN p
  ELSE IF Holds(Records(d, Target(d, p).b), n) THEN p
  ELSE NextBlock(d, Hash[n], p)

\* A name is in a leaf whose key and whose followers' keys are as they should be.
LEMMA HeldFacts ==
    ASSUME NEW d, Tree(d), InPlace(d), NEW n \in Name, NEW b, HeldIn(d, n, b)
    PROVE  /\ \E x \in Slots(d) : LeafAt(d, x) = b
           /\ \A x \in Slots(d) : LeafAt(d, x) = b => KeyOf(d, x, Hash[n])
  <1>1. PICK x \in Slots(d) : LeafAt(d, x) = b /\ KeyOf(d, x, Hash[n])
    BY DEF InPlace, HeldIn
  <1>2. \A y \in Slots(d) : LeafAt(d, y) = b => y = x
    BY <1>1 DEF Tree, Shape
  <1> QED
    BY <1>1, <1>2

\* The leaf a search begins with is not behind the name.
LEMMA SearchStarts ==
    ASSUME NEW d, Tree(d), InPlace(d), NEW n \in Name
    PROVE  Searching(d, n, 0, GetLeaf(d, Hash[n]))
  <1>1. Hash[n] \in Nat
    BY NameFacts
  <1>2. PICK x \in Slots(d) : GetLeaf(d, Hash[n]) = PathTo(d, x) /\ LastUpTo(d, x, Hash[n])
    BY <1>1, GetLeafFacts
  <1>3. Cardinality(Later(d, x)) + 0 <= MaxBlocks - 1
    BY LaterFacts
  <1>4. ASSUME NEW y \in Slots(d), HeldIn(d, n, LeafAt(d, y)), ~(y = x \/ Before(x, y))
        PROVE  FALSE
    <2>1. Before(y, x)
      BY <1>4, OrderFacts
    <2>2. KeyOf(d, y, Hash[n])
      BY <1>4, HeldFacts
    <2>3. Hash[n] < KeyAt(d, x) /\ KeyAt(d, x) <= Hash[n] /\ KeyAt(d, x) \in Nat
      BY <1>2, <2>1, <2>2, SlotFacts DEF KeyOf, LastUpTo
    <2> QED
      BY <1>1, <2>3
  <1> QED
    BY <1>2, <1>3, <1>4 DEF Searching, LastUpTo

\* A step of the search passes no leaf that holds the name.
LEMMA SearchGoesOn ==
    ASSUME NEW d, Tree(d), InPlace(d), NEW n \in Name, NEW k \in Nat, NEW p, Searching(d, n, k, p)
    PROVE  Searching(d, n, k + 1, SearchStep(d, n, p))
  <1>1. Hash[n] \in Nat /\ Hash[n] % 2 = 0 /\ MaxBlocks \in Nat
    BY NameFacts, DirAssumption
  <1>2. CASE p = <<>> /\ \A b \in DOMAIN d.blocks : ~HeldIn(d, n, b)
    BY <1>2 DEF Searching, SearchStep
  <1>3. ASSUME NEW x \in Slots(d), p = PathTo(d, x),
               Holds(Records(d, LeafAt(d, x)), n) \/ Cardinality(Later(d, x)) + k <= MaxBlocks - 1,
               \A y \in Slots(d) : HeldIn(d, n, LeafAt(d, y)) => y = x \/ Before(x, y),
               \A y \in Slots(d) : Before(x, y) => Hash[n] < KeyAt(d, y)
        PROVE  Searching(d, n, k + 1, SearchStep(d, n, p))
    <2>1. p # <<>> /\ Target(d, p).b = LeafAt(d, x) /\ LeafAt(d, x) \in DOMAIN d.blocks
      BY <1>3, SlotFacts
    <2>2. CASE Holds(Records(d, LeafAt(d, x)), n)
      <3>1. SearchStep(d, n, p) = p
        BY <2>1, <2>2 DEF SearchStep
      <3> QED
        BY <1>3, <2>2, <3>1 DEF Searching
    <2>3. CASE ~Holds(Records(d, LeafAt(d, x)), n)
      <3>1. SearchStep(d, n, p) = NextBlock(d, Hash[n], p)
        BY <2>1, <2>3 DEF SearchStep
      <3>2. \A y \in Slots(d) : HeldIn(d, n, LeafAt(d, y)) => Before(x, y)
        BY <1>3, <2>3 DEF HeldIn
      <3>3. CASE (\A y \in Slots(d) : ~Before(x, y)) /\ NextBlock(d, Hash[n], p) = <<>>
        <4>1. \A b \in DOMAIN d.blocks : ~HeldIn(d, n, b)
          BY <3>2, <3>3, HeldFacts
        <4> QED
          BY <3>1, <3>3, <4>1 DEF Searching
      <3>4. ASSUME NEW y \in Slots(d), FollowedBy(d, x, y),
                   NextBlock(d, Hash[n], p) = IF Same(KeyAt(d, y), Hash[n]) THEN PathTo(d, y) ELSE <<>>
            PROVE  Searching(d, n, k + 1, SearchStep(d, n, p))
        <4>1. Before(x, y) /\ Hash[n] < KeyAt(d, y) /\ KeyAt(d, y) \in Nat
          BY <1>3, <3>4, SlotFacts DEF FollowedBy
        <4>2. Same(KeyAt(d, y), Hash[n]) <=> KeyAt(d, y) = Hash[n] + 1
          BY <1>1, <4>1, SameFacts
        <4>3. \A z \in Slots(d) : HeldIn(d, n, LeafAt(d, z)) => z = y \/ Before(y, z)
          BY <3>2, <3>4 DEF FollowedBy
        <4>4. CASE Same(KeyAt(d, y), Hash[n])
          <5>1. Cardinality(Later(d, y)) + (k + 1) <= MaxBlocks - 1
            <6>1. Cardinality(Later(d, y)) + 1 <= Cardinality(Later(d, x))
              BY <4>1, LaterFacts
            <6>2. Cardinality(Later(d, y)) \in Nat /\ Cardinality(Later(d, x)) \in Nat
              BY LaterFacts
            <6>3. Cardinality(Later(d, x)) + k <= MaxBlocks - 1
              BY <1>3, <2>3
            <6> QED
              BY <1>1, <6>1, <6>2, <6>3
          <5>2. \A z \in Slots(d) : Before(y, z) => Hash[n] < KeyAt(d, z)
            BY <1>3, <4>1, OrderFacts
          <5> QED
            BY <3>1, <3>4, <4>3, <4>4, <5>1, <5>2 DEF Searching
        <4>5. CASE ~Same(KeyAt(d, y), Hash[n])
          <5>1. Hash[n] + 1 < KeyAt(d, y)
            BY <1>1, <4>1, <4>2, <4>5
          <5>2. ASSUME NEW b \in DOMAIN d.blocks, HeldIn(d, n, b)
                PROVE  FALSE
            <6>1. PICK z \in Slots(d) : LeafAt(d, z) = b /\ KeyOf(d, z, Hash[n])
              BY <5>2, HeldFacts
            <6>2. z = y \/ Before(y, z)
              BY <4>3, <5>2, <6>1
            <6>3. KeyAt(d, z) = KeyAt(d, y) \/ KeyAt(d, y) <= KeyAt(d, z)
              BY <6>2 DEF Tree, Ascending
            <6>4. KeyAt(d, z) \in Nat /\ KeyAt(d, z) <= Hash[n] + 1
              BY <6>1, SlotFacts DEF KeyOf
            <6> QED
              BY <1>1, <4>1, <5>1, <6>3, <6>4
          <5> QED
            BY <3>1, <3>4, <4>5, <5>2 DEF Searching
        <4> QED
          BY <4>4, <4>5
      <3> QED
        BY <1>3, <3>3, <3>4, NextFacts
    <2> QED
      BY <2>2, <2>3
  <1> QED
    BY <1>2, <1>3 DEF Searching

\* The search by the index finds the leaf that holds a name, and ends without one if none does.
LEMMA DxFindFacts ==
    ASSUME NEW d, Tree(d), InPlace(d), NEW n \in Name
    PROVE  \/ DxFind(d, n) = <<>> /\ \A b \in DOMAIN d.blocks : ~HeldIn(d, n, b)
           \/ \E x \in Slots(d) : DxFind(d, n) = PathTo(d, x) /\ HeldIn(d, n, LeafAt(d, x))
  <1> DEFINE D == {<<>>} \cup {PathTo(d, x) : x \in Slots(d)}
             F == [z \in Nat \X D |-> SearchStep(d, n, z[2])]
             a == GetLeaf(d, Hash[n])
             m == MaxBlocks
  <1>1. m \in Nat /\ Hash[n] \in Nat
    BY DirAssumption, NameFacts
  <1>2. a \in D
    BY <1>1, GetLeafFacts
  <1>3. \A p \in D : SearchStep(d, n, p) \in D
    <2> SUFFICES ASSUME NEW p \in D
                 PROVE  SearchStep(d, n, p) \in D
      OBVIOUS
    <2>1. CASE p = <<>>
      BY <2>1 DEF SearchStep
    <2>2. ASSUME NEW x \in Slots(d), p = PathTo(d, x)
          PROVE  SearchStep(d, n, p) \in D
      <3>1. NextBlock(d, Hash[n], p) \in D
        BY <2>2, NextFacts DEF FollowedBy
      <3> HIDE DEF D
      <3> QED
        BY <3>1 DEF SearchStep
    <2> QED
      BY <2>1, <2>2
  <1>4. F \in [Nat \X D -> D]
    <2> HIDE DEF D
    <2> QED
      BY <1>3
  <1>5. PICK g \in Recursive(m, D, a, F) : TRUE
    <2> HIDE DEF F, D, a, m
    <2> QED
      BY <1>1, <1>2, <1>4, Recursion
  <1>6. g \in [0 .. m -> D] /\ g[0] = a /\ \A k \in 1 .. m : g[k] = SearchStep(d, n, g[k - 1])
    <2>1. g \in [0 .. m -> D] /\ g[0] = a /\ \A k \in 1 .. m : g[k] = F[<<k, g[k - 1]>>]
      <3> HIDE DEF F, D, a, m
      <3> QED
        BY <1>5 DEF Recursive
    <2> HIDE DEF D, a, m
    <2> SUFFICES ASSUME NEW k \in 1 .. m
                 PROVE  g[k] = SearchStep(d, n, g[k - 1])
      BY <2>1
    <2>2. k - 1 \in 0 .. m /\ k \in Nat
      BY <1>1
    <2>3. <<k, g[k - 1]>> \in Nat \X D
      BY <2>1, <2>2
    <2> QED
      BY <2>1, <2>3
  <1> HIDE DEF D, F
  <1> DEFINE Is(f) == f = [k \in 0 .. m |-> IF k = 0 THEN a ELSE SearchStep(d, n, f[k - 1])]
             f0 == CHOOSE f : Is(f)
  <1>7. Is(g)
    <2>1. ASSUME NEW k \in 0 .. m
          PROVE  g[k] = IF k = 0 THEN a ELSE SearchStep(d, n, g[k - 1])
      <3> HIDE DEF a, m
      <3>1. k = 0 \/ k \in 1 .. m
        BY <1>1
      <3> QED
        BY <1>6, <3>1
    <2>2. g = [k \in 0 .. m |-> g[k]]
      BY <1>6
    <2> HIDE DEF a, m
    <2> QED
      BY <2>1, <2>2
  <1>8. Is(f0)
    <2> HIDE DEF Is
    <2> QED
      BY <1>7
  <1>9. DxFind(d, n) = f0[m]
    BY DEF DxFind, SearchStep
  <1>10. f0 = [k \in 0 .. m |-> IF k = 0 THEN a ELSE SearchStep(d, n, f0[k - 1])]
    <2> HIDE DEF f0
    <2> QED
      BY <1>8
  <1> HIDE DEF f0, Is
  <1> DEFINE S == {k \in 0 .. m : Searching(d, n, k, f0[k])}
  <1>11. 0 \in S
    <2>1. f0[0] = a /\ 0 \in 0 .. m
      BY <1>1, <1>10
    <2> QED
      BY <2>1, SearchStarts
  <1>12. ASSUME NEW k \in 0 .. m - 1, k \in S
         PROVE  k + 1 \in S
    <2>1. k + 1 \in 0 .. m /\ k + 1 # 0 /\ k + 1 - 1 = k /\ k \in Nat
      BY <1>1
    <2>2. f0[k + 1] = SearchStep(d, n, f0[k])
      <3>1. \A j \in 0 .. m : f0[j] = IF j = 0 THEN a ELSE SearchStep(d, n, f0[j - 1])
        <4> HIDE DEF a, m
        <4> QED
          BY <1>10
      <3>2. PICK j : j = k + 1
        OBVIOUS
      <3>3. j \in 0 .. m /\ j # 0 /\ j - 1 = k
        BY <2>1, <3>2
      <3>4. f0[j] = SearchStep(d, n, f0[j - 1])
        BY <3>1, <3>3
      <3> QED
        BY <3>2, <3>3, <3>4
    <2>3. Searching(d, n, k + 1, f0[k + 1])
      BY <1>12, <2>1, <2>2, SearchGoesOn
    <2> QED
      BY <2>1, <2>3
  <1>13. m \in S
    <2> HIDE DEF S
    <2>1. m \in 0 .. m
      BY <1>1
    <2> QED
      BY <1>1, <1>11, <1>12, <2>1, Induction
  <1>14. Searching(d, n, m, DxFind(d, n))
    BY <1>9, <1>13
  <1>15. ASSUME NEW x \in Slots(d)
         PROVE  ~(Cardinality(Later(d, x)) + m <= m - 1)
    <2>1. Cardinality(Later(d, x)) \in Nat
      BY LaterFacts
    <2> QED
      BY <1>1, <2>1
  <1>16. \A x \in Slots(d) : Holds(Records(d, LeafAt(d, x)), n) => HeldIn(d, n, LeafAt(d, x))
    BY SlotFacts DEF HeldIn
  <1> QED
    BY <1>14, <1>15, <1>16 DEF Searching
\* A name is found if it is held, in the block that holds it.
LEMMA FindFacts ==
    ASSUME NEW d, NEW names, Filled(d, names), Indexed(d), NEW n \in Name
    PROVE  /\ Find(d, n) # 0 <=> n \in names
           /\ Find(d, n) # 0 => HeldIn(d, n, Find(d, n))
           /\ Find(d, n) # 0 /\ d.indexed => \E x \in Slots(d) : Find(d, n) = LeafAt(d, x)
  <1>1. d \in Directory /\ Len(d.blocks) \in 1 .. MaxBlocks /\ (n \in names <=> \E b \in DOMAIN d.blocks : HeldIn(d, n, b))
    BY DEF Filled
  <1>2. DOMAIN d.blocks = 1 .. Len(d.blocks) /\ MaxBlocks \in Nat
    BY <1>1, DirAssumption DEF Directory
  <1>3. CASE d.indexed
    <2>1. Tree(d) /\ InPlace(d)
      BY <1>1, <1>3 DEF Indexed, Tree
    <2>2. CASE DxFind(d, n) = <<>> /\ \A b \in DOMAIN d.blocks : ~HeldIn(d, n, b)
      BY <1>1, <1>3, <2>2 DEF Find
    <2>3. ASSUME NEW x \in Slots(d), DxFind(d, n) = PathTo(d, x), HeldIn(d, n, LeafAt(d, x))
          PROVE  Find(d, n) # 0 /\ n \in names /\ Find(d, n) = LeafAt(d, x)
      <3>1. PathTo(d, x) # <<>> /\ Target(d, PathTo(d, x)).b = LeafAt(d, x) /\ LeafAt(d, x) \in 2 .. Len(d.blocks)
        BY <2>1, SlotFacts
      <3>2. Find(d, n) = LeafAt(d, x)
        BY <1>3, <2>3, <3>1 DEF Find
      <3> QED
        BY <1>1, <1>2, <2>3, <3>1, <3>2 DEF HeldIn
    <2> QED
      BY <2>1, <2>2, <2>3, DxFindFacts
  <1>4. CASE ~d.indexed
    <2> DEFINE bs == {b \in DOMAIN d.blocks : Holds(Records(d, b), n)}
    <2>1. Find(d, n) = IF bs = {} THEN 0 ELSE Min(bs)
      BY <1>4 DEF Find
    <2>2. bs \in SUBSET Nat /\ IsFiniteSet(bs)
      <3>1. IsFiniteSet(1 .. Len(d.blocks))
        BY <1>1, FS_Interval
      <3>2. bs \subseteq 1 .. Len(d.blocks)
        BY <1>2
      <3> QED
        BY <3>1, <3>2, FS_Subset
    <2>3. bs # {} => Min(bs) \in bs
      <3> HIDE DEF bs
      <3> QED
        BY <2>2, MinFacts
    <2>4. \A b \in bs : b # 0 /\ HeldIn(d, n, b)
      BY <1>2 DEF HeldIn
    <2>5. bs # {} <=> n \in names
      BY <1>1 DEF HeldIn
    <2> HIDE DEF bs
    <2> QED
      BY <1>4, <2>1, <2>3, <2>4, <2>5
  <1> QED
    BY <1>3, <1>4

\* Where the entries stay, and blocks that come have none, the index stays.
SameEnts(d, e) ==
  /\ e \in Directory /\ Len(e.blocks) \in 1 .. MaxBlocks /\ Len(d.blocks) <= Len(e.blocks)
  /\ e.indexed = d.indexed /\ e.levels = d.levels
  /\ \A b \in 1 .. Len(d.blocks) : Ents(e, b) = Ents(d, b)
  /\ \A b \in 1 .. Len(e.blocks) : b > Len(d.blocks) => Ents(e, b) = <<>>

\* An index is the same if its entries are.
LEMMA SameIndex ==
    ASSUME NEW d, Tree(d), NEW e, SameEnts(d, e)
    PROVE  /\ Tree(e) /\ Slots(e) = Slots(d)
           /\ \A x \in Slots(d) : LeafAt(e, x) = LeafAt(d, x) /\ KeyAt(e, x) = KeyAt(d, x)
           /\ \A x \in Slots(d) : Node(e, x[1]) = Node(d, x[1])
  <1>1. d \in Directory /\ Shape(d) /\ Ascending(d) /\ Len(d.blocks) \in 1 .. MaxBlocks /\ MaxBlocks \in Nat
    BY DirAssumption DEF Tree
  <1>2. /\ 1 \in DOMAIN d.blocks /\ DOMAIN d.blocks = 1 .. Len(d.blocks) /\ d.levels \in 0 .. 1
        /\ Width(d) \in Nat /\ Width(d) >= 1 /\ NodeSet(d) = 1 .. Width(d)
        /\ \A k \in 1 .. Width(d) : Node(d, k) \in DOMAIN d.blocks
    BY IndexFacts
  <1>3. Ents(e, 1) = Ents(d, 1) /\ e.levels = d.levels
    BY <1>2 DEF SameEnts
  <1>4. NodeSet(e) = NodeSet(d) /\ \A k \in NodeSet(d) : Node(e, k) = Node(d, k)
    BY <1>3 DEF NodeSet, Node
  <1>5. \A k \in NodeSet(d) : Ents(e, Node(e, k)) = Ents(d, Node(d, k))
    BY <1>2, <1>4 DEF SameEnts
  <1>6. Slots(e) = Slots(d)
    BY <1>4, <1>5 DEF Slots
  <1>7. \A x \in Slots(d) : x[1] \in NodeSet(d)
    BY DEF Slots
  <1>8. \A x \in Slots(d) : LeafAt(e, x) = LeafAt(d, x)
    BY <1>5, <1>7 DEF LeafAt
  <1>9. \A x \in Slots(d) : KeyAt(e, x) = KeyAt(d, x)
    BY <1>3, <1>5, <1>7 DEF KeyAt
  <1>10. Len(e.blocks) \in Nat /\ Len(d.blocks) \in Nat /\ Len(d.blocks) <= Len(e.blocks)
    BY <1>1 DEF SameEnts
  <1>11. Shape(e)
    <2>1. Len(Ents(e, 1)) \in 1 .. RootMax
      BY <1>1, <1>3 DEF Shape
    <2>2. e.levels = 1 => \A k \in NodeSet(e) :
            Node(e, k) \in 2 .. Len(e.blocks) /\ Len(Ents(e, Node(e, k))) \in 1 .. NodeMax
      BY <1>1, <1>3, <1>4, <1>5, <1>10 DEF Shape
    <2>3. \A k, j \in NodeSet(e) : Node(e, k) = Node(e, j) => k = j
      BY <1>1, <1>4 DEF Shape
    <2>4. \A x \in Slots(e) : LeafAt(e, x) \in 2 .. Len(e.blocks) /\ Ents(e, LeafAt(e, x)) = <<>>
      <3> SUFFICES ASSUME NEW x \in Slots(d)
                   PROVE  LeafAt(d, x) \in 2 .. Len(e.blocks) /\ Ents(e, LeafAt(d, x)) = <<>>
        BY <1>6, <1>8
      <3>1. LeafAt(d, x) \in 2 .. Len(d.blocks) /\ Ents(d, LeafAt(d, x)) = <<>>
        BY <1>1 DEF Shape
      <3>2. LeafAt(d, x) \in 1 .. Len(d.blocks) /\ LeafAt(d, x) \in 2 .. Len(e.blocks)
        BY <1>10, <3>1
      <3> QED
        BY <3>1, <3>2 DEF SameEnts
    <2>5. \A x, y \in Slots(e) : LeafAt(e, x) = LeafAt(e, y) => x = y
      BY <1>1, <1>6, <1>8 DEF Shape
    <2>6. \A b \in 1 .. Len(e.blocks) : b = 1 \/ Ents(e, b) = <<>> \/ \E k \in NodeSet(e) : b = Node(e, k)
      <3> SUFFICES ASSUME NEW b \in 1 .. Len(e.blocks)
                   PROVE  b = 1 \/ Ents(e, b) = <<>> \/ \E k \in NodeSet(e) : b = Node(e, k)
        OBVIOUS
      <3>1. CASE b > Len(d.blocks)
        BY <3>1 DEF SameEnts
      <3>2. CASE b <= Len(d.blocks)
        <4>1. b \in 1 .. Len(d.blocks)
          BY <1>10, <3>2
        <4>2. Ents(e, b) = Ents(d, b)
          BY <4>1 DEF SameEnts
        <4> QED
          BY <1>1, <1>4, <4>1, <4>2 DEF Shape
      <3> QED
        BY <1>10, <3>1, <3>2
    <2> QED
      BY <2>1, <2>2, <2>3, <2>4, <2>5, <2>6 DEF Shape
  <1>12. Ascending(e)
    BY <1>1, <1>6, <1>9 DEF Ascending
  <1>13. \A x \in Slots(d) : Node(e, x[1]) = Node(d, x[1])
    BY <1>4, <1>7
  <1> QED
    BY <1>6, <1>8, <1>9, <1>11, <1>12, <1>13 DEF Tree, SameEnts

\* So do the places of the names, where those that come have theirs.
LEMMA SamePlace ==
    ASSUME NEW d, Tree(d), InPlace(d), NEW e, SameEnts(d, e),
           \A n \in Name : \A b \in 1 .. Len(e.blocks) :
             HeldIn(e, n, b) => HeldIn(d, n, b) \/ \E x \in Slots(d) : LeafAt(d, x) = b /\ KeyOf(d, x, Hash[n])
    PROVE  Tree(e) /\ InPlace(e)
  <1>1. /\ Tree(e) /\ Slots(e) = Slots(d)
        /\ \A x \in Slots(d) : LeafAt(e, x) = LeafAt(d, x) /\ KeyAt(e, x) = KeyAt(d, x)
    BY SameIndex
  <1>2. DOMAIN e.blocks = 1 .. Len(e.blocks)
    BY DEF SameEnts, Directory
  <1>3. ASSUME NEW n \in Name, NEW b \in DOMAIN e.blocks, HeldIn(e, n, b)
        PROVE  \E x \in Slots(e) : LeafAt(e, x) = b /\ KeyOf(e, x, Hash[n])
    <2>1. HeldIn(d, n, b) \/ \E x \in Slots(d) : LeafAt(d, x) = b /\ KeyOf(d, x, Hash[n])
      BY <1>2, <1>3
    <2>2. PICK x \in Slots(d) : LeafAt(d, x) = b /\ KeyOf(d, x, Hash[n])
      BY <2>1 DEF InPlace, HeldIn
    <2>3. KeyOf(e, x, Hash[n])
      BY <1>1, <2>2 DEF KeyOf
    <2> QED
      BY <1>1, <2>2, <2>3
  <1> QED
    BY <1>1, <1>3 DEF InPlace
-----------------------------------------------------------------------------
(* What a change of one block leaves alone.                                *)

BlockType == [records : Seq(Record), ents : Seq(IndexEntry)]

\* Other blocks for a directory.
LEMMA NewBlocks ==
    ASSUME NEW d \in Directory, NEW bs \in Seq(BlockType), NEW e, e = [d EXCEPT !.blocks = bs]
    PROVE  e \in Directory /\ e.indexed = d.indexed /\ e.levels = d.levels /\ e.blocks = bs
  <1>1. bs \in Seq([records : Seq(Record), ents : Seq(IndexEntry)])
    BY DEF BlockType
  <1> QED
    BY <1>1 DEF Directory

\* The blocks of a directory, as records.
LEMMA BlocksAre ==
    ASSUME NEW d \in Directory
    PROVE  /\ d.blocks \in Seq(BlockType) /\ Len(d.blocks) \in Nat /\ DOMAIN d.blocks = 1 .. Len(d.blocks)
           /\ \A b \in 1 .. Len(d.blocks) :
                d.blocks[b] \in BlockType /\ d.blocks[b] = Block(Records(d, b), Ents(d, b))
  <1>1. d.blocks \in Seq(BlockType)
    BY DEF Directory, BlockType
  <1>2. \A b \in 1 .. Len(d.blocks) : d.blocks[b] \in BlockType
    BY <1>1, ElementOfSeq
  <1>3. Len(d.blocks) \in Nat /\ DOMAIN d.blocks = 1 .. Len(d.blocks)
    BY <1>1
  <1> QED
    BY <1>1, <1>2, <1>3, BlockFacts

\* Changes of one block: its records, its entries, and a block more.
RecordsPut(d, e, b, t) ==
  /\ e \in Directory /\ e.indexed = d.indexed /\ e.levels = d.levels /\ Len(e.blocks) = Len(d.blocks)
  /\ \A c \in 1 .. Len(d.blocks) :
       Ents(e, c) = Ents(d, c) /\ Records(e, c) = IF c = b THEN t ELSE Records(d, c)
EntsPut(d, e, b, t) ==
  /\ e \in Directory /\ e.indexed = d.indexed /\ e.levels = d.levels /\ Len(e.blocks) = Len(d.blocks)
  /\ \A c \in 1 .. Len(d.blocks) :
       Records(e, c) = Records(d, c) /\ Ents(e, c) = IF c = b THEN t ELSE Ents(d, c)
BlockPut(d, e, r, es) ==
  /\ e \in Directory /\ e.indexed = d.indexed /\ e.levels = d.levels
  /\ Len(e.blocks) = Len(d.blocks) + 1 /\ New(d) = Len(d.blocks) + 1
  /\ \A c \in 1 .. Len(d.blocks) : Records(e, c) = Records(d, c) /\ Ents(e, c) = Ents(d, c)
  /\ Records(e, New(d)) = r /\ Ents(e, New(d)) = es

\* Other records in one block.
LEMMA PutRecords ==
    ASSUME NEW d \in Directory, NEW b \in 1 .. Len(d.blocks), NEW t \in Seq(Record),
           NEW e, e = [d EXCEPT !.blocks[b].records = t]
    PROVE  RecordsPut(d, e, b, t)
  <1> DEFINE bs == [d.blocks EXCEPT ![b] = Block(t, Ents(d, b))]
  <1>1. /\ d.blocks \in Seq(BlockType) /\ DOMAIN d.blocks = 1 .. Len(d.blocks)
        /\ d.blocks[b] = Block(Records(d, b), Ents(d, b))
    BY BlocksAre
  <1>2. Block(t, Ents(d, b)) \in BlockType
    BY <1>1, BlockFacts DEF Block, BlockType
  <1>3. /\ bs \in Seq(BlockType) /\ Len(bs) = Len(d.blocks)
        /\ \A j \in 1 .. Len(d.blocks) : bs[j] = IF j = b THEN Block(t, Ents(d, b)) ELSE d.blocks[j]
    BY <1>1, <1>2, ExceptSeq
  <1>4. [d.blocks EXCEPT ![b].records = t] = bs
    <2>1. [d.blocks[b] EXCEPT !.records = t] = Block(t, Ents(d, b))
      BY <1>1 DEF Block
    <2> QED
      BY <1>1, <2>1
  <1>5. e = [d EXCEPT !.blocks = bs]
    BY <1>4
  <1> HIDE DEF bs
  <1>6. e \in Directory /\ e.indexed = d.indexed /\ e.levels = d.levels /\ e.blocks = bs
    BY ONLY d \in Directory, <1>3, <1>5, NewBlocks
  <1>7. ASSUME NEW c \in 1 .. Len(d.blocks)
        PROVE  Ents(e, c) = Ents(d, c) /\ Records(e, c) = IF c = b THEN t ELSE Records(d, c)
    <2>1. CASE c = b
      BY <1>3, <1>6, <2>1 DEF Ents, Records, Block
    <2>2. CASE c # b
      BY <1>3, <1>6, <2>2 DEF Ents, Records
    <2> QED
      BY <2>1, <2>2
  <1> QED
    BY <1>3, <1>6, <1>7 DEF RecordsPut

\* Other entries in one block.
LEMMA PutEnts ==
    ASSUME NEW d \in Directory, NEW b \in 1 .. Len(d.blocks), NEW t \in Seq(IndexEntry),
           NEW e, e = [d EXCEPT !.blocks[b].ents = t]
    PROVE  EntsPut(d, e, b, t)
  <1> DEFINE bs == [d.blocks EXCEPT ![b] = Block(Records(d, b), t)]
  <1>1. /\ d.blocks \in Seq(BlockType) /\ DOMAIN d.blocks = 1 .. Len(d.blocks)
        /\ d.blocks[b] = Block(Records(d, b), Ents(d, b))
    BY BlocksAre
  <1>2. Block(Records(d, b), t) \in BlockType
    BY <1>1, BlockFacts DEF Block, BlockType
  <1>3. /\ bs \in Seq(BlockType) /\ Len(bs) = Len(d.blocks)
        /\ \A j \in 1 .. Len(d.blocks) : bs[j] = IF j = b THEN Block(Records(d, b), t) ELSE d.blocks[j]
    BY <1>1, <1>2, ExceptSeq
  <1>4. [d.blocks EXCEPT ![b].ents = t] = bs
    <2>1. [d.blocks[b] EXCEPT !.ents = t] = Block(Records(d, b), t)
      BY <1>1 DEF Block
    <2> QED
      BY <1>1, <2>1
  <1>5. e = [d EXCEPT !.blocks = bs]
    BY <1>4
  <1> HIDE DEF bs
  <1>6. e \in Directory /\ e.indexed = d.indexed /\ e.levels = d.levels /\ e.blocks = bs
    BY ONLY d \in Directory, <1>3, <1>5, NewBlocks
  <1>7. ASSUME NEW c \in 1 .. Len(d.blocks)
        PROVE  Records(e, c) = Records(d, c) /\ Ents(e, c) = IF c = b THEN t ELSE Ents(d, c)
    <2>1. CASE c = b
      BY <1>3, <1>6, <2>1 DEF Ents, Records, Block
    <2>2. CASE c # b
      BY <1>3, <1>6, <2>2 DEF Ents, Records
    <2> QED
      BY <2>1, <2>2
  <1> QED
    BY <1>3, <1>6, <1>7 DEF EntsPut

\* One more block.
LEMMA OneMore ==
    ASSUME NEW d \in Directory, NEW r \in Seq(Record), NEW es \in Seq(IndexEntry),
           NEW e, e = [d EXCEPT !.blocks = Append(@, Block(r, es))]
    PROVE  BlockPut(d, e, r, es)
  <1> DEFINE bs == Append(d.blocks, Block(r, es))
  <1>1. d.blocks \in Seq(BlockType) /\ Len(d.blocks) \in Nat
    BY BlocksAre
  <1>2. Block(r, es) \in BlockType
    BY DEF Block, BlockType
  <1>3. /\ bs \in Seq(BlockType) /\ Len(bs) = Len(d.blocks) + 1
        /\ \A i \in 1 .. Len(d.blocks) : bs[i] = d.blocks[i]
        /\ bs[Len(d.blocks) + 1] = Block(r, es)
    BY <1>1, <1>2, AppendIs
  <1>4. e = [d EXCEPT !.blocks = bs]
    OBVIOUS
  <1> HIDE DEF bs
  <1>5. e \in Directory /\ e.indexed = d.indexed /\ e.levels = d.levels /\ e.blocks = bs
    BY <1>3, <1>4, NewBlocks
  <1>6. New(d) = Len(d.blocks) + 1
    BY DEF New
  <1>7. \A c \in 1 .. Len(d.blocks) : Records(e, c) = Records(d, c) /\ Ents(e, c) = Ents(d, c)
    BY <1>3, <1>5 DEF Records, Ents
  <1>8. Records(e, New(d)) = r /\ Ents(e, New(d)) = es
    BY <1>3, <1>5, <1>6 DEF Records, Ents, Block
  <1> QED
    BY <1>3, <1>5, <1>6, <1>7, <1>8 DEF BlockPut

\* Blocks that hold nothing, or one name.
LEMMA WholeFacts ==
    ASSUME NEW n \in Name \cup {Void, Dots}
    PROVE  /\ RecordsOK(Whole(n)) /\ Whole(n) \in Seq(Record)
           /\ \A m : Holds(Whole(n), m) <=> m = n
           /\ InAt(Whole(n), n, 0)
  <1>1. LeafSize \in Nat /\ LeafSize > 0
    BY DirAssumption
  <1>2. Rec(n, LeafSize) \in Record
    BY <1>1 DEF Rec, Record
  <1> DEFINE w == Whole(n)
  <1>3. w \in Seq(Record) /\ Len(w) = 1 /\ DOMAIN w = {1} /\ w[1] = Rec(n, LeafSize)
    BY <1>2 DEF Whole
  <1>4. w[1].n = n /\ w[1].len = LeafSize
    BY <1>3 DEF Rec
  <1> HIDE DEF w
  <1>5. Start(w, 1) = 0 /\ Total(w) = Start(w, Len(w) + 1) /\ Start(w, 1 + 1) = Start(w, 1) + w[1].len
    BY <1>3, StartFacts
  <1>6. Total(w) = LeafSize
    BY <1>1, <1>3, <1>4, <1>5
  <1>7. n # Void => Used(n) <= LeafSize
    <2>1. CASE n \in Name
      BY <1>1, <2>1, NameFacts
    <2>2. CASE n = Dots
      BY <1>1, <2>2 DEF Used
    <2> QED
      BY <2>1, <2>2
  <1>8. RecordsOK(w)
    BY <1>3, <1>4, <1>6, <1>7 DEF RecordsOK
  <1>9. \A m : Holds(w, m) <=> m = n
    BY <1>3, <1>4 DEF Holds
  <1>10. InAt(w, n, 0)
    BY <1>3, <1>4, <1>5 DEF InAt
  <1> QED
    BY <1>3, <1>8, <1>9, <1>10 DEF w
\* A name is held where it has a place.
LEMMA HoldsIn ==
    ASSUME NEW s \in Seq(Record), NEW m
    PROVE  Holds(s, m) <=> \E o \in Nat : InAt(s, m, o)
  <1>1. \A i \in DOMAIN s : Start(s, i) \in Nat
    BY StartsApart
  <1> QED
    BY <1>1 DEF Holds, InAt

\* Other records in one block.
Put(d, b, t) == [d EXCEPT !.blocks[b].records = t]

\* What changes: entries stay, only n may come and only to b, the other names keep their places.
Changed(d, e, n, b) ==
  /\ SameEnts(d, e)
  /\ \A m \in Name : \A c \in 1 .. Len(e.blocks) : HeldIn(e, m, c) => HeldIn(d, m, c) \/ (m = n /\ c = b)
  /\ \A m \in (Name \cup {Dots}) \ {n} : \A c : \A o \in Nat : Lies(d, m, c, o) => Lies(e, m, c, o)
NamesAfter(d, names, b, n, t) ==
  IF Holds(t, n) THEN names \cup {n} ELSE IF HeldIn(d, n, b) THEN names \ {n} ELSE names

\* The names of a directory when one block changes, and n is the only one that may come or go.
LEMMA OneBlock ==
    ASSUME NEW d, NEW names, Filled(d, names), NEW b \in 1 .. Len(d.blocks), NEW n \in Name,
           NEW t, RecordsOK(t), SamePlaces(Records(d, b), t, n),
           Holds(t, n) => n \notin names
    PROVE  Filled(Put(d, b, t), NamesAfter(d, names, b, n, t)) /\ Changed(d, Put(d, b, t), n, b)
  <1>0. PICK e, new : e = Put(d, b, t) /\ new = NamesAfter(d, names, b, n, t)
    OBVIOUS
  <1>1. /\ d \in Directory /\ Len(d.blocks) \in 1 .. MaxBlocks
        /\ \A c \in DOMAIN d.blocks : RecordsOK(Records(d, c))
        /\ \A m \in Name : m \in names <=> \E c \in DOMAIN d.blocks : HeldIn(d, m, c)
        /\ \A m \in Name : \A c, f \in DOMAIN d.blocks : HeldIn(d, m, c) /\ HeldIn(d, m, f) => c = f
        /\ Lies(d, Dots, 1, 0)
    BY DEF Filled
  <1>2. DOMAIN d.blocks = 1 .. Len(d.blocks) /\ Len(d.blocks) \in Nat
    BY <1>1, BlocksAre
  <1>3. t \in Seq(Record)
    BY DEF RecordsOK
  <1>4. /\ e \in Directory /\ e.indexed = d.indexed /\ e.levels = d.levels /\ Len(e.blocks) = Len(d.blocks)
        /\ \A c \in 1 .. Len(d.blocks) :
             Ents(e, c) = Ents(d, c) /\ Records(e, c) = IF c = b THEN t ELSE Records(d, c)
    <2>1. e = [d EXCEPT !.blocks[b].records = t]
      BY <1>0 DEF Put
    <2> QED
      <3>1. RecordsPut(d, e, b, t)
        BY <1>1, <1>3, <2>1, PutRecords
      <3> QED
        BY <3>1 DEF RecordsPut
  <1>5. DOMAIN e.blocks = 1 .. Len(d.blocks)
    BY <1>4, BlocksAre
  <1>6. \A c \in 1 .. Len(d.blocks) : Records(d, c) \in Seq(Record)
    BY <1>1, <1>2, BlockFacts
  <1>7. ASSUME NEW m \in (Name \cup {Dots}) \ {n}, NEW c, NEW o \in Nat
        PROVE  Lies(e, m, c, o) <=> Lies(d, m, c, o)
    BY <1>2, <1>4, <1>5 DEF Lies, SamePlaces
  <1>8. ASSUME NEW m \in Name \ {n}, NEW c \in 1 .. Len(d.blocks)
        PROVE  HeldIn(e, m, c) <=> HeldIn(d, m, c)
    <2>1. Records(e, c) \in Seq(Record)
      BY <1>3, <1>4, <1>6
    <2>2. Holds(Records(e, c), m) <=> Holds(Records(d, c), m)
      <3>1. CASE c = b
        <4>1. \A o \in Nat : InAt(t, m, o) <=> InAt(Records(d, b), m, o)
          BY DEF SamePlaces
        <4>2. Records(e, c) = t /\ Records(d, c) = Records(d, b)
          BY <1>4, <3>1
        <4> QED
          BY <1>3, <1>6, <4>1, <4>2, HoldsIn
      <3>2. CASE c # b
        BY <1>4, <3>2
      <3> QED
        BY <3>1, <3>2
    <2> QED
      BY <1>2, <1>5, <2>2 DEF HeldIn
  <1>9. \A c \in 1 .. Len(d.blocks) : HeldIn(e, n, c) <=> IF c = b THEN Holds(t, n) ELSE HeldIn(d, n, c)
    BY <1>2, <1>4, <1>5 DEF HeldIn
  <1>10. ASSUME NEW c \in 1 .. Len(d.blocks), HeldIn(e, n, c), Holds(t, n)
         PROVE  c = b
    BY <1>1, <1>2, <1>9, <1>10
  <1>11. Filled(e, new)
    <2>0. new = IF Holds(t, n) THEN names \cup {n} ELSE IF HeldIn(d, n, b) THEN names \ {n} ELSE names
      BY <1>0 DEF NamesAfter
    <2>1. \A c \in DOMAIN e.blocks : RecordsOK(Records(e, c))
      BY <1>1, <1>2, <1>4, <1>5
    <2>2. ASSUME NEW m \in Name
          PROVE  m \in new <=> \E c \in DOMAIN e.blocks : HeldIn(e, m, c)
      <3>1. CASE m # n
        <4>1. m \in new <=> m \in names
          BY <2>0, <3>1
        <4> QED
          BY <1>1, <1>2, <1>5, <1>8, <3>1, <4>1
      <3>2. CASE m = n /\ Holds(t, n)
        BY <1>5, <1>9, <2>0, <3>2
      <3>3. CASE m = n /\ ~Holds(t, n) /\ HeldIn(d, n, b)
        <4>1. m \notin new
          BY <2>0, <3>3
        <4>2. \A c \in 1 .. Len(d.blocks) : ~HeldIn(e, n, c)
          BY <1>1, <1>2, <1>9, <3>3
        <4> QED
          BY <1>5, <3>3, <4>1, <4>2
      <3>4. CASE m = n /\ ~Holds(t, n) /\ ~HeldIn(d, n, b)
        <4>1. m \in new <=> m \in names
          BY <2>0, <3>4
        <4>2. \A c \in 1 .. Len(d.blocks) : HeldIn(e, n, c) <=> HeldIn(d, n, c)
          BY <1>9, <3>4
        <4> QED
          BY <1>1, <1>2, <1>5, <3>4, <4>1, <4>2
      <3> QED
        BY <3>1, <3>2, <3>3, <3>4
    <2>3. ASSUME NEW m \in Name, NEW c \in DOMAIN e.blocks, NEW f \in DOMAIN e.blocks,
                 HeldIn(e, m, c), HeldIn(e, m, f)
          PROVE  c = f
      <3>1. CASE m # n
        BY <1>1, <1>2, <1>5, <1>8, <2>3, <3>1
      <3>2. CASE m = n /\ Holds(t, n)
        BY <1>5, <1>10, <2>3, <3>2
      <3>3. CASE m = n /\ ~Holds(t, n)
        <4>1. HeldIn(d, n, c) /\ HeldIn(d, n, f)
          BY <1>5, <1>9, <2>3, <3>3
        <4> QED
          BY <1>1, <1>2, <1>5, <4>1
      <3> QED
        BY <3>1, <3>2, <3>3
    <2>4. Lies(e, Dots, 1, 0)
      <3>1. Dots \in (Name \cup {Dots}) \ {n} /\ 0 \in Nat
        BY NameFacts
      <3> QED
        BY <1>1, <1>7, <3>1
    <2> QED
      BY <1>1, <1>4, <2>1, <2>2, <2>3, <2>4 DEF Filled
  <1>12. SameEnts(d, e)
    <2>1. Len(e.blocks) \in 1 .. MaxBlocks /\ Len(d.blocks) <= Len(e.blocks)
      BY <1>1, <1>2, <1>4
    <2>2. \A c \in 1 .. Len(e.blocks) : ~(c > Len(d.blocks))
      BY <1>2, <1>4
    <2> QED
      BY ONLY <1>4, <2>1, <2>2 DEF SameEnts
  <1>13. \A m \in Name : \A c \in 1 .. Len(e.blocks) :
           HeldIn(e, m, c) => HeldIn(d, m, c) \/ (m = n /\ c = b /\ Holds(t, n))
    BY <1>4, <1>8, <1>9
  <1> QED
    BY <1>0, <1>7, <1>11, <1>12, <1>13 DEF Changed

\* A name is added to a block with room for it, or removed from the block that holds it.
Entering(d, b, n) == [d EXCEPT !.blocks[b].records = Insert(@, n)]
Leaving(d, b, n) == [d EXCEPT !.blocks[b].records = Cut(@, n)]

\* ext4_dir_try_insert_entry adds its name to what the directory holds.
LEMMA InsertFacts ==
    ASSUME NEW d, NEW names, Filled(d, names), NEW b \in 1 .. Len(d.blocks), NEW n \in Name, n \notin names,
           Roomy(Records(d, b), n) # {}, NEW e, e = Entering(d, b, n)
    PROVE  Filled(e, names \cup {n}) /\ Changed(d, e, n, b)
  <1>0. PICK t : t = Insert(Records(d, b), n)
    OBVIOUS
  <1>1. DOMAIN d.blocks = 1 .. Len(d.blocks)
    BY BlocksAre DEF Filled
  <1>2. RecordsOK(Records(d, b)) /\ ~Holds(Records(d, b), n)
    BY <1>1 DEF Filled, HeldIn
  <1>3. RecordsOK(t) /\ Holds(t, n) /\ SamePlaces(Records(d, b), t, n)
    BY <1>0, <1>2, InsertKeeps
  <1>4. e = Put(d, b, t)
    BY <1>0 DEF Records, Put, Entering
  <1>5. n \notin names
    OBVIOUS
  <1>6. Filled(d, names)
    OBVIOUS
  <1>7. names \cup {n} = NamesAfter(d, names, b, n, t)
    BY <1>3 DEF NamesAfter
  <1>8. Filled(Put(d, b, t), NamesAfter(d, names, b, n, t)) /\ Changed(d, Put(d, b, t), n, b)
    BY ONLY b \in 1 .. Len(d.blocks), n \in Name, <1>3, <1>5, <1>6, OneBlock
  <1> QED
    BY ONLY <1>4, <1>7, <1>8

\* The removal of a name takes it from what the directory holds.
LEMMA CutFacts ==
    ASSUME NEW d, NEW names, Filled(d, names), NEW b \in 1 .. Len(d.blocks), NEW n \in Name,
           HeldIn(d, n, b), NEW e, e = Leaving(d, b, n)
    PROVE  Filled(e, names \ {n}) /\ Changed(d, e, n, b)
  <1>0. PICK t : t = Cut(Records(d, b), n)
    OBVIOUS
  <1>1. DOMAIN d.blocks = 1 .. Len(d.blocks)
    BY BlocksAre DEF Filled
  <1>2. RecordsOK(Records(d, b)) /\ Holds(Records(d, b), n)
    BY <1>1 DEF Filled, HeldIn
  <1>3. RecordsOK(t) /\ ~Holds(t, n) /\ SamePlaces(Records(d, b), t, n)
    BY <1>0, <1>2, CutKeeps
  <1>4. e = Put(d, b, t)
    BY <1>0 DEF Records, Put, Leaving
  <1>6. Filled(d, names) /\ HeldIn(d, n, b)
    OBVIOUS
  <1>7. names \ {n} = NamesAfter(d, names, b, n, t)
    BY <1>3, <1>6 DEF NamesAfter
  <1>8. Filled(Put(d, b, t), NamesAfter(d, names, b, n, t)) /\ Changed(d, Put(d, b, t), n, b)
    BY ONLY b \in 1 .. Len(d.blocks), n \in Name, <1>3, <1>6, OneBlock
  <1> QED
    BY ONLY <1>4, <1>7, <1>8

\* A block comes that holds nothing, or a new name; the others keep their records.
LEMMA BlockComes ==
    ASSUME NEW d, NEW names, Filled(d, names), NEW v \in Name \cup {Void}, v \notin names,
           NEW e, e \in Directory, Len(e.blocks) = Len(d.blocks) + 1, Len(d.blocks) < MaxBlocks,
           \A c \in 1 .. Len(d.blocks) : Records(e, c) = Records(d, c),
           Records(e, Len(d.blocks) + 1) = Whole(v)
    PROVE  /\ Filled(e, names \cup ({v} \cap Name))
           /\ \A m \in Name : \A c \in 1 .. Len(e.blocks) :
                HeldIn(e, m, c) => HeldIn(d, m, c) \/ (m = v /\ c = Len(d.blocks) + 1)
           /\ \A m \in (Name \cup {Dots}) \ {v} : \A c : \A o \in Nat : Lies(d, m, c, o) => Lies(e, m, c, o)
           /\ \A m \in Name : \A c \in 1 .. Len(d.blocks) : HeldIn(e, m, c) <=> HeldIn(d, m, c)
  <1> DEFINE N == Len(d.blocks) + 1
             new == names \cup ({v} \cap Name)
  <1>1. /\ d \in Directory /\ Len(d.blocks) \in 1 .. MaxBlocks /\ MaxBlocks \in Nat
        /\ \A c \in DOMAIN d.blocks : RecordsOK(Records(d, c))
        /\ \A m \in Name : m \in names <=> \E c \in DOMAIN d.blocks : HeldIn(d, m, c)
        /\ \A m \in Name : \A c, f \in DOMAIN d.blocks : HeldIn(d, m, c) /\ HeldIn(d, m, f) => c = f
        /\ Lies(d, Dots, 1, 0)
    BY DirAssumption DEF Filled
  <1>2. /\ DOMAIN d.blocks = 1 .. Len(d.blocks) /\ Len(d.blocks) \in Nat /\ DOMAIN e.blocks = 1 .. N
        /\ N \in 1 .. N /\ N \in Nat /\ \A c \in 1 .. N : c = N \/ c \in 1 .. Len(d.blocks)
        /\ \A c \in 1 .. Len(d.blocks) : c \in 1 .. N /\ c # N
    BY <1>1, BlocksAre
  <1>3. RecordsOK(Whole(v)) /\ \A m : Holds(Whole(v), m) <=> m = v
    BY WholeFacts
  <1>4. /\ \A c \in 1 .. Len(d.blocks) : Records(e, c) = Records(d, c)
        /\ Records(e, N) = Whole(v) /\ Len(e.blocks) = N /\ N \in 1 .. MaxBlocks
    BY <1>1
  <1> HIDE DEF N
  <1>5. \A m \in Name : \A c \in 1 .. Len(d.blocks) : HeldIn(e, m, c) <=> HeldIn(d, m, c)
    BY <1>2, <1>4 DEF HeldIn
  <1>6. \A m \in Name : HeldIn(e, m, N) <=> m = v
    BY <1>2, <1>3, <1>4 DEF HeldIn
  <1>7. \A m : \A c : \A o \in Nat : Lies(d, m, c, o) => Lies(e, m, c, o)
    BY <1>2, <1>4 DEF Lies
  <1>8. \A m \in Name : m = v => \A c \in 1 .. Len(d.blocks) : ~HeldIn(d, m, c)
    BY <1>1, <1>2
  <1>9. \A c \in DOMAIN e.blocks : RecordsOK(Records(e, c))
    BY <1>1, <1>2, <1>3, <1>4
  <1>10. ASSUME NEW m \in Name
         PROVE  m \in new <=> \E c \in DOMAIN e.blocks : HeldIn(e, m, c)
    <2>1. m \in new <=> m \in names \/ m = v
      OBVIOUS
    <2> HIDE DEF new
    <2>2. CASE m = v
      BY <1>2, <1>6, <2>1, <2>2
    <2>3. CASE m # v
      BY <1>1, <1>2, <1>5, <1>6, <2>1, <2>3
    <2> QED
      BY <2>2, <2>3
  <1>11. ASSUME NEW m \in Name, NEW c \in DOMAIN e.blocks, NEW f \in DOMAIN e.blocks,
                HeldIn(e, m, c), HeldIn(e, m, f)
         PROVE  c = f
    BY <1>1, <1>2, <1>5, <1>6, <1>8, <1>11
  <1>12. Lies(e, Dots, 1, 0)
    BY <1>1, <1>7
  <1>13. Filled(e, new)
    <2> HIDE DEF new
    <2> QED
      BY <1>4, <1>9, <1>10, <1>11, <1>12 DEF Filled
  <1> QED
    BY <1>2, <1>4, <1>5, <1>6, <1>7, <1>13 DEF N
-----------------------------------------------------------------------------
(* Splitting a block of the index: the leaves and their order stay.        *)

\* Positions are ordered.
LEMMA PairsOrdered ==
    ASSUME NEW d, NEW x \in Slots(d), NEW e, NEW y \in Slots(e)
    PROVE  x = y \/ Before(x, y) \/ Before(y, x)
  <1>1. /\ x = <<x[1], x[2]>> /\ x[1] \in Nat /\ x[2] \in Nat
        /\ y = <<y[1], y[2]>> /\ y[1] \in Nat /\ y[2] \in Nat
    BY DEF Slots
  <1>2. x[1] = y[1] /\ x[2] = y[2] => x = y
    BY <1>1
  <1> QED
    BY <1>1, <1>2 DEF Before

\* f gives the position every entry had before.
Moved(d, e, f) ==
  /\ \A y \in Slots(e) : f[y] \in Slots(d) /\ LeafAt(e, y) = LeafAt(d, f[y]) /\ KeyAt(e, y) = KeyAt(d, f[y])
  /\ \A y, w \in Slots(e) : Before(y, w) => Before(f[y], f[w])
  /\ \A x \in Slots(d) : \E y \in Slots(e) : f[y] = x

\* What is between the split of an index and its parts: blocks, whose entries alone moved.
Nodes(e) ==
  /\ Framed(e)
  /\ \A k, j \in NodeSet(e) : Node(e, k) = Node(e, j) => k = j
  /\ \A b \in 1 .. Len(e.blocks) : b = 1 \/ Ents(e, b) = <<>> \/ \E k \in NodeSet(e) : b = Node(e, k)

\* An index whose leaves keep their order and keys stays one, with the names in place.
LEMMA MovedIndex ==
    ASSUME NEW d, Tree(d), InPlace(d), NEW e, Nodes(e), NEW f, Moved(d, e, f),
           Len(d.blocks) <= Len(e.blocks),
           \A b \in 1 .. Len(d.blocks) : Ents(d, b) = <<>> => b = 1 \/ Ents(e, b) = <<>>,
           \A n \in Name : \A b \in 1 .. Len(e.blocks) : HeldIn(e, n, b) => HeldIn(d, n, b)
    PROVE  /\ Tree(e) /\ InPlace(e)
           /\ \A y \in Slots(e) : \A h : LastUpTo(d, f[y], h) => LastUpTo(e, y, h)
  <1>1. /\ \A y \in Slots(e) :
             f[y] \in Slots(d) /\ LeafAt(e, y) = LeafAt(d, f[y]) /\ KeyAt(e, y) = KeyAt(d, f[y])
        /\ \A y, w \in Slots(e) : Before(y, w) => Before(f[y], f[w])
        /\ \A x \in Slots(d) : \E y \in Slots(e) : f[y] = x
    BY DEF Moved
  <1>2. d \in Directory /\ Len(d.blocks) \in Nat /\ Shape(d) /\ Ascending(d)
    BY DirAssumption DEF Tree
  <1>3. /\ e \in Directory /\ Len(e.blocks) \in 1 .. MaxBlocks /\ Len(Ents(e, 1)) \in 1 .. RootMax
        /\ e.levels = 1 => \A k \in NodeSet(e) :
             Node(e, k) \in 2 .. Len(e.blocks) /\ Len(Ents(e, Node(e, k))) \in 1 .. NodeMax
        /\ \A k, j \in NodeSet(e) : Node(e, k) = Node(e, j) => k = j
        /\ \A b \in 1 .. Len(e.blocks) : b = 1 \/ Ents(e, b) = <<>> \/ \E k \in NodeSet(e) : b = Node(e, k)
    BY DEF Nodes, Framed
  <1>4. Len(e.blocks) \in Nat /\ DOMAIN e.blocks = 1 .. Len(e.blocks)
    BY <1>3, BlocksAre
  <1>5. ASSUME NEW y \in Slots(e)
        PROVE  LeafAt(e, y) \in 2 .. Len(e.blocks) /\ Ents(e, LeafAt(e, y)) = <<>>
    <2>1. LeafAt(e, y) \in 2 .. Len(d.blocks) /\ Ents(d, LeafAt(e, y)) = <<>>
      BY <1>1, <1>2 DEF Shape
    <2>2. LeafAt(e, y) \in 1 .. Len(d.blocks) /\ LeafAt(e, y) # 1 /\ LeafAt(e, y) \in 2 .. Len(e.blocks)
      BY <1>2, <1>4, <2>1
    <2> QED
      BY <2>1, <2>2
  <1>6. ASSUME NEW y \in Slots(e), NEW w \in Slots(e), f[y] = f[w]
        PROVE  y = w
    <2>1. ~Before(f[y], f[w]) /\ ~Before(f[w], f[y])
      BY <1>1, <1>6, OrderFacts
    <2> QED
      BY <1>1, <2>1, PairsOrdered
  <1>7. \A y, w \in Slots(e) : LeafAt(e, y) = LeafAt(e, w) => y = w
    <2> SUFFICES ASSUME NEW y \in Slots(e), NEW w \in Slots(e), LeafAt(e, y) = LeafAt(e, w)
                 PROVE  y = w
      OBVIOUS
    <2>1. f[y] = f[w]
      BY <1>1, <1>2 DEF Shape
    <2> QED
      BY <1>6, <2>1
  <1>8. Shape(e)
    BY <1>3, <1>5, <1>7 DEF Shape
  <1>9. Ascending(e)
    BY <1>1, <1>2 DEF Ascending
  <1>10. Tree(e)
    BY <1>3, <1>8, <1>9 DEF Tree
  <1>11. ASSUME NEW n \in Name, NEW b \in DOMAIN e.blocks, HeldIn(e, n, b)
         PROVE  \E y \in Slots(e) : LeafAt(e, y) = b /\ KeyOf(e, y, Hash[n])
    <2>1. HeldIn(d, n, b)
      BY <1>4, <1>11
    <2>2. PICK x \in Slots(d) : LeafAt(d, x) = b /\ KeyOf(d, x, Hash[n])
      BY <2>1 DEF InPlace, HeldIn
    <2>3. PICK y \in Slots(e) : f[y] = x
      BY <1>1
    <2>4. KeyOf(e, y, Hash[n])
      BY <1>1, <2>2, <2>3 DEF KeyOf
    <2> QED
      BY <1>1, <2>2, <2>3, <2>4
  <1>12. InPlace(e)
    BY <1>11 DEF InPlace
  <1>13. ASSUME NEW y \in Slots(e), NEW h, LastUpTo(d, f[y], h)
         PROVE  LastUpTo(e, y, h)
    BY <1>1, <1>13 DEF LastUpTo
  <1> QED
    BY <1>10, <1>12, <1>13

\* Other entries in one block, and a block more.
Extended(d, e, b, t, r, es) ==
  /\ e \in Directory /\ e.indexed = d.indexed /\ Len(e.blocks) = Len(d.blocks) + 1
  /\ \A c \in 1 .. Len(d.blocks) :
       Records(e, c) = Records(d, c) /\ Ents(e, c) = IF c = b THEN t ELSE Ents(d, c)
  /\ Records(e, Len(d.blocks) + 1) = r /\ Ents(e, Len(d.blocks) + 1) = es

WithMore(d, b, t, r, es) == [d EXCEPT !.blocks = Append([@ EXCEPT ![b].ents = t], Block(r, es))]

\* Other entries in one block, and one more block.
LEMMA EntsAndMore ==
    ASSUME NEW d \in Directory, NEW b \in 1 .. Len(d.blocks), NEW t \in Seq(IndexEntry),
           NEW r \in Seq(Record), NEW es \in Seq(IndexEntry),
           NEW e, e = WithMore(d, b, t, r, es)
    PROVE  Extended(d, e, b, t, r, es) /\ e.levels = d.levels
  <1>1. PICK c : c = [d EXCEPT !.blocks[b].ents = t]
    OBVIOUS
  <1>2. EntsPut(d, c, b, t)
    BY <1>1, PutEnts
  <1>3. /\ c \in Directory /\ c.indexed = d.indexed /\ c.levels = d.levels /\ Len(c.blocks) = Len(d.blocks)
        /\ \A i \in 1 .. Len(d.blocks) :
             Records(c, i) = Records(d, i) /\ Ents(c, i) = IF i = b THEN t ELSE Ents(d, i)
    BY <1>2 DEF EntsPut
  <1>4. e = [c EXCEPT !.blocks = Append(@, Block(r, es))]
    BY <1>1 DEF Directory, WithMore
  <1>5. BlockPut(c, e, r, es)
    BY <1>3, <1>4, OneMore
  <1>6. /\ e \in Directory /\ e.indexed = c.indexed /\ e.levels = c.levels
        /\ Len(e.blocks) = Len(c.blocks) + 1 /\ New(c) = Len(c.blocks) + 1
        /\ \A i \in 1 .. Len(c.blocks) : Records(e, i) = Records(c, i) /\ Ents(e, i) = Ents(c, i)
        /\ Records(e, New(c)) = r /\ Ents(e, New(c)) = es
    BY <1>5 DEF BlockPut
  <1> QED
    BY <1>3, <1>6 DEF Extended

\* The names of a directory with such a block that holds none.
SameNames(d, e, names) ==
  /\ Filled(e, names) /\ Len(d.blocks) <= Len(e.blocks)
  /\ \A c \in 1 .. Len(d.blocks) : Records(e, c) = Records(d, c)
  /\ \A n \in Name : \A b \in 1 .. Len(e.blocks) : HeldIn(e, n, b) => HeldIn(d, n, b)
  /\ \A n \in Name \cup {Dots} : \A b : \A o \in Nat : Lies(d, n, b, o) => Lies(e, n, b, o)

\* A block without a name in it changes nothing of the names.
LEMMA ExtendedNames ==
    ASSUME NEW d, NEW names \in SUBSET Name, Filled(d, names), Len(d.blocks) < MaxBlocks, NEW e, e \in Directory,
           Len(e.blocks) = Len(d.blocks) + 1,
           \A c \in 1 .. Len(d.blocks) : Records(e, c) = Records(d, c),
           Records(e, Len(d.blocks) + 1) = Whole(Void)
    PROVE  SameNames(d, e, names)
  <1>1. Void \notin Name /\ Void # Dots
    BY DirAssumption DEF Void, Dots
  <1>2. PICK v : v = Void
    OBVIOUS
  <1>3. /\ v \in Name \cup {Void} /\ v \notin names /\ Records(e, Len(d.blocks) + 1) = Whole(v)
        /\ names \cup ({v} \cap Name) = names /\ (Name \cup {Dots}) \ {v} = Name \cup {Dots}
        /\ \A m \in Name : m # v
    BY <1>1, <1>2
  <1>4. /\ Filled(e, names \cup ({v} \cap Name))
        /\ \A m \in Name : \A c \in 1 .. Len(e.blocks) :
             HeldIn(e, m, c) => HeldIn(d, m, c) \/ (m = v /\ c = Len(d.blocks) + 1)
        /\ \A m \in (Name \cup {Dots}) \ {v} : \A c : \A o \in Nat : Lies(d, m, c, o) => Lies(e, m, c, o)
    BY <1>3, BlockComes
  <1>5. Filled(e, names)
    BY <1>3, <1>4
  <1>6. \A n \in Name : \A b \in 1 .. Len(e.blocks) : HeldIn(e, n, b) => HeldIn(d, n, b)
    BY <1>3, <1>4
  <1>7. \A n \in Name \cup {Dots} : \A b : \A o \in Nat : Lies(d, n, b, o) => Lies(e, n, b, o)
    BY <1>3, <1>4
  <1>8. Len(d.blocks) <= Len(e.blocks)
    <2>1. Len(d.blocks) \in Nat
      BY BlocksAre DEF Filled
    <2> QED
      BY <2>1
  <1> QED
    BY <1>5, <1>6, <1>7, <1>8 DEF SameNames

\* What the split of a block of the index leaves: the entry of leaf x is z, and there is room behind it.
RoomMade(d, e, x, z) ==
  /\ Tree(e) /\ InPlace(e) /\ e.indexed = d.indexed
  /\ z \in Slots(e) /\ LeafAt(e, z) = LeafAt(d, x)
  /\ \A h : LastUpTo(d, x, h) => LastUpTo(e, z, h)
  /\ Length(e, z[1]) < Limit(Node(e, z[1]))

\* ext4_dir_dx_split_index of the root.
LEMMA GrowFacts ==
    ASSUME NEW d, Tree(d), InPlace(d), NEW names \in SUBSET Name, Filled(d, names),
           NEW x \in Slots(d), d.levels = 0, Len(d.blocks) < MaxBlocks,
           NEW g, g = Grow(d, PathTo(d, x))
    PROVE  /\ SameNames(d, g.d, names) /\ RoomMade(d, g.d, x, x) /\ New(g.d) = New(d) + 1
           /\ Last(g.p) = [b |-> Node(g.d, x[1]), at |-> x[2]]
  <1>1. PICK e, m : e = g.d /\ m = Len(d.blocks) + 1
    OBVIOUS
  <1>2. /\ d \in Directory /\ Shape(d) /\ 1 \in DOMAIN d.blocks /\ DOMAIN d.blocks = 1 .. Len(d.blocks)
        /\ 1 \in 1 .. Len(d.blocks) /\ Len(d.blocks) \in Nat /\ m \in Nat /\ m > 1
    BY <1>1, IndexFacts, BlocksAre DEF Tree
  <1>3. PICK t, es : t = <<Entry(0, m)>> /\ es = Ents(d, 1)
    OBVIOUS
  <1>4. Entry(0, m) \in IndexEntry /\ Entry(0, m).b = m
    BY <1>2 DEF Entry, IndexEntry
  <1>5. t \in Seq(IndexEntry) /\ Len(t) = 1 /\ DOMAIN t = {1} /\ t[1].b = m
    BY <1>3, <1>4
  <1>6. /\ es \in Seq(IndexEntry) /\ Len(es) \in Nat /\ DOMAIN es = 1 .. Len(es)
        /\ Len(es) \in 1 .. RootMax
    BY <1>2, <1>3, BlockFacts DEF Shape
  <1>7. PICK c : c = WithMore(d, 1, t, Whole(Void), es)
    OBVIOUS
  <1>8. Void \in Name \cup {Void, Dots}
    OBVIOUS
  <1>9. Extended(d, c, 1, t, Whole(Void), es)
    BY <1>2, <1>5, <1>6, <1>7, <1>8, WholeFacts, EntsAndMore
  <1>10. /\ c \in Directory /\ c.indexed = d.indexed /\ Len(c.blocks) = m
         /\ \A i \in 1 .. Len(d.blocks) :
              Records(c, i) = Records(d, i) /\ Ents(c, i) = IF i = 1 THEN t ELSE Ents(d, i)
         /\ Records(c, m) = Whole(Void) /\ Ents(c, m) = es
    BY <1>1, <1>9 DEF Extended
  <1>11. e = [c EXCEPT !.levels = 1]
    BY <1>1, <1>2, <1>3, <1>7 DEF Grow, New, Directory, WithMore
  <1>12. e \in Directory /\ e.indexed = d.indexed /\ e.levels = 1 /\ e.blocks = c.blocks
    BY <1>10, <1>11 DEF Directory
  <1>13. /\ Len(e.blocks) = m
         /\ \A i \in 1 .. Len(d.blocks) :
              Records(e, i) = Records(d, i) /\ Ents(e, i) = IF i = 1 THEN t ELSE Ents(d, i)
         /\ Records(e, m) = Whole(Void) /\ Ents(e, m) = es
    BY <1>10, <1>12 DEF Records, Ents
  <1>14. SameNames(d, e, names)
    BY <1>1, <1>2, <1>12, <1>13, ExtendedNames
  <1>15. NodeSet(e) = {1} /\ NodeSet(d) = {1} /\ \A k : k = 1 => Node(e, k) = m /\ Node(d, k) = 1
    <2>1. Ents(e, 1) = t
      BY <1>2, <1>13
    <2> QED
      BY <1>5, <1>12, <2>1 DEF NodeSet, Node
  <1>16. Slots(e) = Slots(d) /\ \A y \in Slots(d) : y \in Nat \X Nat /\ y[1] = 1 /\ y[2] \in DOMAIN es
    BY <1>3, <1>13, <1>15 DEF Slots
  <1>17. RootMax \in Nat /\ RootMax > 1 /\ NodeMax \in Nat /\ RootMax < NodeMax /\ MaxBlocks \in Nat
    BY DirAssumption
  <1>18. Framed(e)
    <2>1. Len(Ents(e, 1)) \in 1 .. RootMax
      <3>1. Ents(e, 1) = t
        BY <1>2, <1>13
      <3>2. 1 \in 1 .. RootMax
        BY <1>17
      <3>3. Len(t) \in 1 .. RootMax
        BY ONLY <1>5, <3>2
      <3> QED
        BY <3>1, <3>3
    <2>2. \A k \in NodeSet(e) : Node(e, k) = m /\ Len(Ents(e, Node(e, k))) \in 1 .. NodeMax
      BY <1>6, <1>13, <1>15, <1>17
    <2>3. m \in 1 .. MaxBlocks /\ m \in 2 .. m
      BY <1>1, <1>2, <1>17
    <2> QED
      BY <1>12, <1>13, <2>1, <2>2, <2>3 DEF Framed
  <1>19. Nodes(e)
    <2>1. \A k, j \in NodeSet(e) : Node(e, k) = Node(e, j) => k = j
      BY <1>15
    <2>2. ASSUME NEW b \in 1 .. m, b # 1, ~\E k \in NodeSet(e) : b = Node(e, k)
          PROVE  Ents(e, b) = <<>>
      <3>1. b # m
        BY <1>15, <2>2
      <3>2. b \in 1 .. Len(d.blocks)
        BY <1>1, <1>2, <3>1
      <3>3. Ents(d, b) = <<>>
        BY <1>2, <1>15, <2>2, <3>2 DEF Shape
      <3> QED
        BY <1>13, <2>2, <3>2, <3>3
    <2> QED
      BY <1>13, <1>18, <2>1, <2>2 DEF Nodes
  <1>20. PICK f : f = [y \in Slots(e) |-> y]
    OBVIOUS
  <1>21. \A y \in Slots(e) : LeafAt(e, y) = LeafAt(d, y) /\ KeyAt(e, y) = KeyAt(d, y)
    BY <1>3, <1>13, <1>15, <1>16 DEF LeafAt, KeyAt
  <1>22. Moved(d, e, f)
    BY <1>16, <1>20, <1>21 DEF Moved
  <1>23. \A b \in 1 .. Len(d.blocks) : Ents(d, b) = <<>> => b = 1 \/ Ents(e, b) = <<>>
    BY <1>13
  <1>24. /\ Tree(e) /\ InPlace(e)
         /\ \A y \in Slots(e) : \A h : LastUpTo(d, f[y], h) => LastUpTo(e, y, h)
    BY <1>14, <1>19, <1>22, <1>23, MovedIndex DEF SameNames
  <1>25. Length(e, x[1]) < Limit(Node(e, x[1]))
    <2>1. x[1] = 1 /\ Node(e, x[1]) = m /\ Ents(e, m) = es /\ m # 1
      BY <1>2, <1>13, <1>15, <1>16
    <2>2. Limit(m) = NodeMax
      BY <2>1 DEF Limit
    <2> QED
      BY <1>6, <1>17, <2>1, <2>2 DEF Length
  <1>26. RoomMade(d, e, x, x)
    BY <1>12, <1>16, <1>20, <1>21, <1>24, <1>25 DEF RoomMade
  <1>27. New(e) = New(d) + 1
    BY <1>1, <1>2, <1>13 DEF New
  <1>28. Last(g.p) = [b |-> Node(e, x[1]), at |-> x[2]]
    <2>1. PathTo(d, x)[1].at = x[2]
      BY DEF PathTo
    <2>2. g.p = <<[b |-> 1, at |-> 1], [b |-> m, at |-> x[2]]>>
      BY <1>1, <2>1 DEF Grow, New
    <2>3. Node(e, x[1]) = m
      BY <1>15, <1>16
    <2> QED
      BY <2>2, <2>3 DEF Last
  <1> QED
    BY <1>1, <1>14, <1>26, <1>27, <1>28

\* ext4_dir_dx_split_index of another block: where the entries go.
Old(k, left, y) ==
  IF y[1] <= k THEN y ELSE IF y[1] = k + 1 THEN <<k, left + y[2]>> ELSE <<y[1] - 1, y[2]>>
Kept(es, left) == [SubSeq(es, left + 1, Len(es)) EXCEPT ![1].h = 0]

\* The two halves of a full block.
HalvesOK(es, left) ==
  /\ left \in Nat /\ left >= 1 /\ left < NodeMax /\ NodeMax - left < NodeMax /\ NodeMax - left >= 1
  /\ SubSeq(es, 1, left) \in Seq(IndexEntry) /\ Len(SubSeq(es, 1, left)) = left
  /\ \A j \in 1 .. left : SubSeq(es, 1, left)[j] = es[j]
  /\ Kept(es, left) \in Seq(IndexEntry) /\ Len(Kept(es, left)) = NodeMax - left
  /\ \A j \in 1 .. NodeMax - left : Kept(es, left)[j].b = es[left + j].b
  /\ \A j \in 2 .. NodeMax - left : Kept(es, left)[j].h = es[left + j].h

\* The halves of a full block of an index.
LEMMA HalvesFacts ==
    ASSUME NEW es \in Seq(IndexEntry), Len(es) = NodeMax, NEW left, left = Len(es) \div 2
    PROVE  HalvesOK(es, left)
  <1>1. RootMax \in Nat /\ RootMax > 1 /\ NodeMax \in Nat /\ RootMax < NodeMax
    BY DirAssumption
  <1>2. left \in Nat /\ 2 * left <= NodeMax /\ NodeMax < 2 * left + 2
    BY <1>1
  <1>3. left >= 1 /\ left < NodeMax /\ NodeMax - left < NodeMax /\ NodeMax - left >= 1
    BY <1>1, <1>2
  <1>4. /\ SubSeq(es, 1, left) \in Seq(IndexEntry) /\ Len(SubSeq(es, 1, left)) = left
        /\ \A j \in 1 .. left : SubSeq(es, 1, left)[j] = es[j]
    <2>1. 1 \in Nat \ {0} /\ left \in 1 - 1 .. Len(es) /\ left - (1 - 1) = left
      BY <1>1, <1>2, <1>3
    <2>2. /\ SubSeq(es, 1, left) \in Seq(IndexEntry) /\ Len(SubSeq(es, 1, left)) = left - (1 - 1)
          /\ \A j \in 1 .. left - (1 - 1) : SubSeq(es, 1, left)[j] = es[(1 - 1) + j]
      BY <2>1, SubSeqFacts
    <2>3. \A j \in 1 .. left : (1 - 1) + j = j
      BY <1>2
    <2> QED
      BY <2>1, <2>2, <2>3
  <1>5. PICK u : u = SubSeq(es, left + 1, Len(es))
    OBVIOUS
  <1>6. /\ u \in Seq(IndexEntry) /\ Len(u) = NodeMax - left
        /\ \A j \in 1 .. NodeMax - left : u[j] = es[left + j]
    <2>1. left + 1 \in Nat \ {0} /\ Len(es) \in (left + 1) - 1 .. Len(es) /\ (left + 1) - 1 = left
      BY <1>1, <1>2, <1>3
    <2>2. /\ u \in Seq(IndexEntry) /\ Len(u) = Len(es) - ((left + 1) - 1)
          /\ \A j \in 1 .. Len(es) - ((left + 1) - 1) : u[j] = es[((left + 1) - 1) + j]
      <3>1. PICK m, n : m = left + 1 /\ n = Len(es)
        OBVIOUS
      <3>2. m \in Nat \ {0} /\ n \in m - 1 .. Len(es)
        BY <2>1, <3>1
      <3>3. /\ SubSeq(es, m, n) \in Seq(IndexEntry) /\ Len(SubSeq(es, m, n)) = n - (m - 1)
            /\ \A j \in 1 .. n - (m - 1) : SubSeq(es, m, n)[j] = es[(m - 1) + j]
        BY <3>2, SubSeqFacts
      <3> QED
        BY <1>5, <3>1, <3>3
    <2> QED
      BY <2>1, <2>2
  <1>7. 1 \in 1 .. Len(u) /\ u[1] \in IndexEntry
    BY <1>3, <1>6, ElementOfSeq
  <1>8. PICK v : v = [u[1] EXCEPT !.h = 0]
    OBVIOUS
  <1>9. v \in IndexEntry /\ v.b = u[1].b
    BY <1>7, <1>8 DEF IndexEntry
  <1>10. PICK w : w = [u EXCEPT ![1] = v]
    OBVIOUS
  <1>11. /\ w \in Seq(IndexEntry) /\ Len(w) = Len(u)
         /\ \A j \in 1 .. Len(u) : w[j] = IF j = 1 THEN v ELSE u[j]
    BY <1>6, <1>7, <1>9, <1>10, ExceptSeq
  <1>12. Kept(es, left) = w
    BY <1>5, <1>8, <1>10 DEF Kept
  <1>13. \A j \in 1 .. NodeMax - left : w[j].b = es[left + j].b
    BY <1>6, <1>9, <1>11
  <1>14. \A j \in 2 .. NodeMax - left : w[j].h = es[left + j].h
    BY <1>6, <1>11
  <1> QED
    BY <1>2, <1>3, <1>4, <1>6, <1>11, <1>12, <1>13, <1>14 DEF HalvesOK

\* The blocks after the split of block k of the index, left entries of which stay.
Divided(d, e, k, left) ==
  LET old == Ents(d, Node(d, k))
      new == Len(d.blocks) + 1
  IN  /\ e \in Directory /\ e.indexed = d.indexed /\ e.levels = 1 /\ Len(e.blocks) = new
      /\ \A c \in 1 .. Len(d.blocks) : Records(e, c) = Records(d, c)
      /\ Records(e, new) = Whole(Void)
      /\ \A c \in 1 .. Len(d.blocks) : c # 1 /\ c # Node(d, k) => Ents(e, c) = Ents(d, c)
      /\ Len(Ents(e, 1)) = Len(Ents(d, 1)) + 1
      /\ \A j \in 1 .. k : Ents(e, 1)[j] = Ents(d, 1)[j]
      /\ Ents(e, 1)[k + 1].h = old[left + 1].h /\ Ents(e, 1)[k + 1].b = new
      /\ \A j \in k + 1 .. Len(Ents(d, 1)) : Ents(e, 1)[j + 1] = Ents(d, 1)[j]
      /\ Len(Ents(e, Node(d, k))) = left
      /\ \A j \in 1 .. left : Ents(e, Node(d, k))[j] = old[j]
      /\ Len(Ents(e, new)) = NodeMax - left
      /\ \A j \in 1 .. NodeMax - left : Ents(e, new)[j].b = old[left + j].b
      /\ \A j \in 2 .. NodeMax - left : Ents(e, new)[j].h = old[left + j].h

\* What ext4_dir_dx_split_index leaves of a block that is not the root.
LEMMA HalveIs ==
    ASSUME NEW d, Tree(d), NEW x \in Slots(d), d.levels = 1, Length(d, x[1]) = NodeMax,
           NEW g, g = Halve(d, PathTo(d, x)), NEW left, left = NodeMax \div 2
    PROVE  /\ Divided(d, g.d, x[1], left)
           /\ g.p = IF x[2] > left THEN [PathTo(d, x) EXCEPT ![2] = [b |-> New(d), at |-> @.at - left]]
                    ELSE PathTo(d, x)
  <1>1. PICK e, m, k : e = g.d /\ m = Len(d.blocks) + 1 /\ k = x[1]
    OBVIOUS
  <1>2. PICK o, root, es : o = Node(d, k) /\ root = Ents(d, 1) /\ es = Ents(d, o)
    OBVIOUS
  <1>3. /\ d \in Directory /\ Shape(d) /\ 1 \in DOMAIN d.blocks /\ DOMAIN d.blocks = 1 .. Len(d.blocks)
        /\ 1 \in 1 .. Len(d.blocks) /\ Len(d.blocks) \in Nat /\ m \in Nat /\ m > 1
    BY <1>1, IndexFacts, BlocksAre DEF Tree
  <1>4. /\ k \in 1 .. Len(root) /\ k \in NodeSet(d) /\ o \in 2 .. Len(d.blocks) /\ o \in 1 .. Len(d.blocks)
        /\ o # 1 /\ Len(es) = NodeMax
    <2>1. NodeSet(d) = 1 .. Width(d) /\ Width(d) = Len(root) /\ k \in 1 .. Width(d)
      BY <1>1, <1>2, IndexFacts DEF Width
    <2>2. o \in 2 .. Len(d.blocks)
      BY <1>2, <1>3, <2>1 DEF Shape
    <2> QED
      BY <1>1, <1>2, <1>3, <2>1, <2>2 DEF Length
  <1>5. root \in Seq(IndexEntry) /\ es \in Seq(IndexEntry) /\ Len(root) \in Nat
    BY <1>2, <1>3, <1>4, BlockFacts
  <1>6. /\ left \in Nat /\ left >= 1 /\ left < NodeMax /\ NodeMax - left < NodeMax /\ NodeMax - left >= 1
        /\ SubSeq(es, 1, left) \in Seq(IndexEntry) /\ Len(SubSeq(es, 1, left)) = left
        /\ \A j \in 1 .. left : SubSeq(es, 1, left)[j] = es[j]
        /\ Kept(es, left) \in Seq(IndexEntry) /\ Len(Kept(es, left)) = NodeMax - left
        /\ \A j \in 1 .. NodeMax - left : Kept(es, left)[j].b = es[left + j].b
        /\ \A j \in 2 .. NodeMax - left : Kept(es, left)[j].h = es[left + j].h
    <2>1. left = Len(es) \div 2 /\ Len(es) = NodeMax
      BY <1>4
    <2> QED
      <3>1. HalvesOK(es, left)
        BY ONLY <1>5, <2>1, HalvesFacts
      <3> QED
        BY <3>1 DEF HalvesOK
  <1>7. PICK t, u : t = SubSeq(es, 1, left) /\ u = Kept(es, left)
    OBVIOUS
  <1>8. PICK cut : cut = WithMore(d, o, t, Whole(Void), u)
    OBVIOUS
  <1>9. Extended(d, cut, o, t, Whole(Void), u) /\ cut.levels = d.levels
    <2>1. Void \in Name \cup {Void, Dots}
      OBVIOUS
    <2>2. Whole(Void) \in Seq(Record)
      BY <2>1, WholeFacts
    <2>3. t \in Seq(IndexEntry) /\ u \in Seq(IndexEntry)
      BY <1>6, <1>7
    <2>4. PICK r : r = Whole(Void)
      OBVIOUS
    <2>5. r \in Seq(Record) /\ cut = WithMore(d, o, t, r, u)
      BY <1>8, <2>2, <2>4
    <2>6. d \in Directory /\ o \in 1 .. Len(d.blocks)
      BY <1>3, <1>4
    <2>7. Extended(d, cut, o, t, r, u) /\ cut.levels = d.levels
      BY ONLY <2>3, <2>5, <2>6, EntsAndMore
    <2> QED
      BY <2>4, <2>7
  <1>10. /\ cut \in Directory /\ cut.indexed = d.indexed /\ cut.levels = 1 /\ Len(cut.blocks) = m
         /\ \A c \in 1 .. Len(d.blocks) :
              Records(cut, c) = Records(d, c) /\ Ents(cut, c) = IF c = o THEN t ELSE Ents(d, c)
         /\ Records(cut, m) = Whole(Void) /\ Ents(cut, m) = u
    BY <1>1, <1>9 DEF Extended
  <1>11. PICK y : y = Entry(es[left + 1].h, m)
    OBVIOUS
  <1>12. y \in IndexEntry /\ y.h = es[left + 1].h /\ y.b = m
    <2>1. left + 1 \in 1 .. Len(es)
      BY <1>4, <1>6, DirAssumption
    <2>2. es[left + 1] \in IndexEntry
      BY <1>5, <2>1, ElementOfSeq
    <2> QED
      BY <1>3, <1>11, <2>2 DEF IndexEntry, Entry
  <1>13. PICK w : w = InsertAt(root, k + 1, y)
    OBVIOUS
  <1>14. /\ w \in Seq(IndexEntry) /\ Len(w) = Len(root) + 1
         /\ \A j \in 1 .. k : w[j] = root[j]
         /\ w[k + 1] = y
         /\ \A j \in k + 1 .. Len(root) : w[j + 1] = root[j]
    <2>1. PICK i : i = k + 1
      OBVIOUS
    <2>2. i \in 1 .. Len(root) + 1 /\ i - 1 = k
      BY <1>4, <1>5, <2>1
    <2>3. /\ InsertAt(root, i, y) \in Seq(IndexEntry) /\ Len(InsertAt(root, i, y)) = Len(root) + 1
          /\ \A j \in 1 .. i - 1 : InsertAt(root, i, y)[j] = root[j]
          /\ InsertAt(root, i, y)[i] = y
          /\ \A j \in i .. Len(root) : InsertAt(root, i, y)[j + 1] = root[j]
      BY <1>5, <1>12, <2>2, InsertAtFacts
    <2> QED
      BY <1>13, <2>1, <2>2, <2>3
  <1>15. PathTo(d, x) = <<[b |-> 1, at |-> k], [b |-> o, at |-> x[2]]>>
    BY <1>1, <1>2 DEF PathTo
  <1>16. e = [cut EXCEPT !.blocks[1].ents = w]
    <2>1. left = Len(es) \div 2
      BY <1>4
    <2>2. e = InsertEntry(cut, [b |-> 1, at |-> k], es[left + 1].h, m)
      <3>1. PICK p : p = PathTo(d, x)
        OBVIOUS
      <3>2. p[1] = [b |-> 1, at |-> k] /\ p[2].b = o
        BY <1>15, <3>1
      <3>3. g = Halve(d, p) /\ m = New(d)
        BY <1>1, <3>1 DEF New
      <3>4. e = InsertEntry([d EXCEPT !.blocks = Append([@ EXCEPT ![o].ents = SubSeq(es, 1, left)],
                                                        Block(Whole(Void), Kept(es, left)))],
                            p[1], es[left + 1].h, m)
        BY ONLY <1>1, <1>2, <2>1, <3>2, <3>3 DEF Halve, Kept
      <3> QED
        BY ONLY <1>7, <1>8, <3>2, <3>4 DEF WithMore
    <2>3. cut.blocks[1].ents = root
      BY <1>2, <1>3, <1>4, <1>10 DEF Ents
    <2> QED
      BY <1>11, <1>13, <2>2, <2>3 DEF InsertEntry
  <1>17. EntsPut(cut, e, 1, w)
    <2>1. 1 \in 1 .. Len(cut.blocks)
      BY <1>3, <1>10
    <2> QED
      BY <1>10, <1>14, <1>16, <2>1, PutEnts
  <1>18. /\ e \in Directory /\ e.indexed = d.indexed /\ e.levels = 1 /\ Len(e.blocks) = m
         /\ \A c \in 1 .. m : Records(e, c) = Records(cut, c) /\ Ents(e, c) = IF c = 1 THEN w ELSE Ents(cut, c)
    BY <1>10, <1>17 DEF EntsPut
  <1>19. m \in 1 .. m /\ 1 \in 1 .. m /\ \A c \in 1 .. Len(d.blocks) : c \in 1 .. m
    BY <1>1, <1>3
  <1>20. Ents(e, 1) = w /\ Ents(e, o) = t /\ Ents(e, m) = u /\ Records(e, m) = Whole(Void)
    BY <1>3, <1>4, <1>10, <1>18, <1>19
  <1>21. /\ \A c \in 1 .. Len(d.blocks) : Records(e, c) = Records(d, c)
         /\ \A c \in 1 .. Len(d.blocks) : c # 1 /\ c # o => Ents(e, c) = Ents(d, c)
    BY <1>10, <1>18, <1>19
  <1>22. Divided(d, e, k, left)
    <2>1. /\ Len(Ents(e, 1)) = Len(root) + 1
          /\ \A j \in 1 .. k : Ents(e, 1)[j] = root[j]
          /\ Ents(e, 1)[k + 1].h = es[left + 1].h /\ Ents(e, 1)[k + 1].b = m
          /\ \A j \in k + 1 .. Len(root) : Ents(e, 1)[j + 1] = root[j]
      BY ONLY <1>12, <1>14, <1>20
    <2>2. /\ Len(Ents(e, o)) = left
          /\ \A j \in 1 .. left : Ents(e, o)[j] = es[j]
      BY ONLY <1>6, <1>7, <1>20
    <2>3. /\ Len(Ents(e, m)) = NodeMax - left
          /\ \A j \in 1 .. NodeMax - left : Ents(e, m)[j].b = es[left + j].b
          /\ \A j \in 2 .. NodeMax - left : Ents(e, m)[j].h = es[left + j].h
      BY ONLY <1>6, <1>7, <1>20
    <2>4. /\ e \in Directory /\ e.indexed = d.indexed /\ e.levels = 1 /\ Len(e.blocks) = m
          /\ \A c \in 1 .. Len(d.blocks) : Records(e, c) = Records(d, c)
          /\ Records(e, m) = Whole(Void)
          /\ \A c \in 1 .. Len(d.blocks) : c # 1 /\ c # o => Ents(e, c) = Ents(d, c)
      BY ONLY <1>18, <1>20, <1>21
    <2> QED
      BY ONLY <1>1, <1>2, <2>1, <2>2, <2>3, <2>4 DEF Divided
  <1>23. g.p = Halved(d, PathTo(d, x), left)
    <2>1. left = Len(Ents(d, PathTo(d, x)[2].b)) \div 2
      BY <1>2, <1>4, <1>15
    <2> QED
      BY <2>1 DEF Halve
  <1>24. PathTo(d, x)[2].at = x[2]
    BY <1>15
  <1> QED
    BY <1>1, <1>22, <1>23, <1>24 DEF Halved

\* The entries of the index after such a split.
Behind(d, x, left) == IF x[2] > left THEN <<x[1] + 1, x[2] - left>> ELSE x

DividedInto(d, e, k, left) ==
  /\ Nodes(e) /\ Width(e) = Width(d) + 1 /\ left \in Nat /\ left >= 1 /\ left < NodeMax
  /\ NodeMax - left < NodeMax
  /\ Length(e, k) = left /\ Length(e, k + 1) = NodeMax - left
  /\ \A i \in 1 .. k : Node(e, i) = Node(d, i)
  /\ Node(e, k + 1) = Len(d.blocks) + 1
  /\ \A i \in k + 1 .. Width(d) : Node(e, i + 1) = Node(d, i)
  /\ \A i \in 1 .. Width(d) : i # k => Ents(e, Node(d, i)) = Ents(d, Node(d, i))

\* The slots of an index after one of its blocks is divided.
LEMMA DividedSlots ==
    ASSUME NEW d, Tree(d), NEW x \in Slots(d), d.levels = 1, Length(d, x[1]) = NodeMax,
           Width(d) < RootMax, Len(d.blocks) < MaxBlocks, NEW k, k = x[1],
           NEW left, left = NodeMax \div 2, NEW e, Divided(d, e, k, left)
    PROVE  DividedInto(d, e, k, left)
  <1>1. PICK m, o, es : m = Len(d.blocks) + 1 /\ o = Node(d, k) /\ es = Ents(d, o)
    OBVIOUS
  <1>2. /\ d \in Directory /\ Shape(d) /\ DOMAIN d.blocks = 1 .. Len(d.blocks)
        /\ 1 \in 1 .. Len(d.blocks) /\ Len(d.blocks) \in Nat /\ m \in Nat /\ m > 1
        /\ RootMax \in Nat /\ RootMax > 1 /\ NodeMax \in Nat /\ RootMax < NodeMax /\ MaxBlocks \in Nat
    BY <1>1, IndexFacts, BlocksAre, DirAssumption DEF Tree
  <1>3. /\ Width(d) \in Nat /\ Width(d) = Len(Ents(d, 1)) /\ NodeSet(d) = 1 .. Width(d)
        /\ k \in 1 .. Width(d) /\ Width(d) >= 1
    BY <1>2, IndexFacts DEF Width
  <1>4. \A i \in 1 .. Width(d) :
          /\ Node(d, i) = Ents(d, 1)[i].b /\ Node(d, i) \in 2 .. Len(d.blocks)
          /\ Len(Ents(d, Node(d, i))) \in 1 .. NodeMax
    BY <1>2, <1>3 DEF Shape, Node
  <1>5. /\ e \in Directory /\ e.indexed = d.indexed /\ e.levels = 1 /\ Len(e.blocks) = m
        /\ \A c \in 1 .. Len(d.blocks) : c # 1 /\ c # o => Ents(e, c) = Ents(d, c)
        /\ Len(Ents(e, 1)) = Width(d) + 1
        /\ \A j \in 1 .. k : Ents(e, 1)[j] = Ents(d, 1)[j]
        /\ Ents(e, 1)[k + 1].b = m
        /\ \A j \in k + 1 .. Width(d) : Ents(e, 1)[j + 1] = Ents(d, 1)[j]
        /\ Len(Ents(e, o)) = left
        /\ Len(Ents(e, m)) = NodeMax - left
    BY <1>1, <1>3 DEF Divided
  <1>6. left \in Nat /\ left >= 1 /\ left < NodeMax /\ NodeMax - left < NodeMax /\ NodeMax - left >= 1
    BY <1>2
  <1>7. Width(e) = Width(d) + 1
    BY <1>5 DEF Width
  <1>8. DOMAIN e.blocks = 1 .. m /\ 1 \in 1 .. m
    BY <1>2, <1>5, BlocksAre
  <1>9. NodeSet(e) = 1 .. Width(d) + 1
    <2>1. DOMAIN Ents(e, 1) = 1 .. Len(Ents(e, 1))
      BY <1>5, <1>8, BlockFacts
    <2> QED
      BY <1>5, <2>1 DEF NodeSet
  <1>10. \A i : Node(e, i) = Ents(e, 1)[i].b
    BY <1>5 DEF Node
  <1>11. \A i \in 1 .. k : Node(e, i) = Node(d, i)
    <2> SUFFICES ASSUME NEW i \in 1 .. k
                 PROVE  Node(e, i) = Node(d, i)
      OBVIOUS
    <2>1. i \in 1 .. Width(d)
      BY <1>3
    <2>2. Node(e, i) = Ents(e, 1)[i].b /\ Node(d, i) = Ents(d, 1)[i].b
      BY <1>4, <1>10, <2>1
    <2>3. Ents(e, 1)[i] = Ents(d, 1)[i]
      BY <1>5
    <2> QED
      BY <2>2, <2>3
  <1>12. Node(e, k + 1) = m
    BY <1>5, <1>10
  <1>13. \A i \in k + 1 .. Width(d) : Node(e, i + 1) = Node(d, i)
    <2> SUFFICES ASSUME NEW i \in k + 1 .. Width(d)
                 PROVE  Node(e, i + 1) = Node(d, i)
      OBVIOUS
    <2>1. i \in 1 .. Width(d)
      BY <1>3
    <2>2. Node(e, i + 1) = Ents(e, 1)[i + 1].b /\ Node(d, i) = Ents(d, 1)[i].b
      BY <1>4, <1>10, <2>1
    <2>3. Ents(e, 1)[i + 1] = Ents(d, 1)[i]
      BY <1>5
    <2> QED
      BY <2>2, <2>3
  <1>14. Node(e, k) = o /\ Length(e, k) = left /\ Length(e, k + 1) = NodeMax - left
    <2>1. k \in 1 .. k
      BY ONLY <1>3
    <2>2. Node(e, k) = o
      BY ONLY <1>1, <1>11, <2>1
    <2>3. Len(Ents(e, o)) = left /\ Len(Ents(e, m)) = NodeMax - left
      BY ONLY <1>5
    <2> QED
      BY ONLY <1>12, <2>2, <2>3 DEF Length
  <1>15. ASSUME NEW i \in 1 .. Width(d) + 1
         PROVE  (i <= k /\ Node(e, i) = Node(d, i)) \/ (i = k + 1 /\ Node(e, i) = m)
                  \/ (i > k + 1 /\ i - 1 \in 1 .. Width(d) /\ Node(e, i) = Node(d, i - 1))
    <2>1. CASE i <= k
      BY <1>3, <1>11, <2>1
    <2>2. CASE i = k + 1
      BY <1>12, <2>2
    <2>3. CASE i > k + 1
      <3>1. i - 1 \in k + 1 .. Width(d) /\ (i - 1) + 1 = i
        BY <1>3, <2>3
      <3> QED
        BY <1>3, <1>13, <2>3, <3>1
    <2> QED
      BY <1>3, <2>1, <2>2, <2>3
  <1>16. \A i, j \in 1 .. Width(d) : Node(d, i) = Node(d, j) => i = j
    BY <1>2, <1>3 DEF Shape
  <1>17. \A i \in 1 .. Width(d) : i # k => Ents(e, Node(d, i)) = Ents(d, Node(d, i))
    <2> SUFFICES ASSUME NEW i \in 1 .. Width(d), i # k
                 PROVE  Ents(e, Node(d, i)) = Ents(d, Node(d, i))
      OBVIOUS
    <2>1. Node(d, i) # o
      BY <1>1, <1>3, <1>16
    <2>2. Node(d, i) \in 1 .. Len(d.blocks) /\ Node(d, i) # 1
      BY <1>2, <1>4
    <2> QED
      BY <1>5, <2>1, <2>2
  <1>18. Framed(e)
    <2>1. ASSUME NEW i \in 1 .. Width(d) + 1
          PROVE  Node(e, i) \in 2 .. m /\ Len(Ents(e, Node(e, i))) \in 1 .. NodeMax
      <3>1. CASE i = k + 1
        BY <1>2, <1>5, <1>6, <1>12, <3>1
      <3>2. CASE i = k
        <4>1. Node(e, i) = o /\ o \in 2 .. Len(d.blocks)
          BY <1>1, <1>3, <1>4, <1>14, <3>2
        <4>2. Len(Ents(e, o)) = left /\ left \in 1 .. NodeMax
          BY ONLY <1>2, <1>5, <1>6
        <4>3. o \in 2 .. m
          BY ONLY <1>1, <1>2, <4>1
        <4> QED
          BY ONLY <4>1, <4>2, <4>3
      <3>3. CASE i # k /\ i # k + 1
        <4>1. PICK j \in 1 .. Width(d) : j # k /\ Node(e, i) = Node(d, j)
          <5>1. i <= k \/ i > k + 1
            BY <1>3, <3>3
          <5>2. CASE i <= k
            <6>1. i \in 1 .. Width(d)
              BY <1>3, <5>2
            <6> QED
              BY <1>15, <3>3, <5>2, <6>1, <1>3
          <5>3. CASE i > k + 1
            <6>1. i - 1 \in 1 .. Width(d) /\ Node(e, i) = Node(d, i - 1) /\ i - 1 # k
              BY <1>3, <1>15, <5>3
            <6> QED
              BY <6>1
          <5> QED
            BY <5>1, <5>2, <5>3
        <4>2. Node(d, j) \in 2 .. Len(d.blocks) /\ Len(Ents(d, Node(d, j))) \in 1 .. NodeMax
          BY <1>4
        <4>3. Node(d, j) \in 2 .. m
          BY <1>1, <1>2, <4>2
        <4>4. Ents(e, Node(d, j)) = Ents(d, Node(d, j))
          BY <1>17, <4>1
        <4> QED
          BY <4>1, <4>2, <4>3, <4>4
      <3> QED
        BY <3>1, <3>2, <3>3
    <2>2. Width(d) + 1 \in 1 .. RootMax /\ m \in 1 .. MaxBlocks
      BY <1>1, <1>2, <1>3
    <2> QED
      BY <1>5, <1>9, <2>1, <2>2 DEF Framed
  <1>19. \A i, j \in NodeSet(e) : Node(e, i) = Node(e, j) => i = j
    <2> SUFFICES ASSUME NEW i \in 1 .. Width(d) + 1, NEW j \in 1 .. Width(d) + 1, Node(e, i) = Node(e, j)
                 PROVE  i = j
      BY <1>9
    <2>1. \A l \in 1 .. Width(d) : Node(d, l) # m
      BY <1>1, <1>2, <1>4
    <2>2. (i <= k /\ Node(e, i) = Node(d, i)) \/ (i = k + 1 /\ Node(e, i) = m)
            \/ (i > k + 1 /\ i - 1 \in 1 .. Width(d) /\ Node(e, i) = Node(d, i - 1))
      BY <1>15
    <2>3. (j <= k /\ Node(e, j) = Node(d, j)) \/ (j = k + 1 /\ Node(e, j) = m)
            \/ (j > k + 1 /\ j - 1 \in 1 .. Width(d) /\ Node(e, j) = Node(d, j - 1))
      BY <1>15
    <2> QED
      BY <1>3, <1>16, <2>1, <2>2, <2>3
  <1>20. ASSUME NEW b \in 1 .. m, b # 1, Ents(e, b) # <<>>
         PROVE  \E i \in NodeSet(e) : b = Node(e, i)
    <2>0. ASSUME NEW l \in 1 .. Width(d)
          PROVE  \E i \in NodeSet(e) : Node(d, l) = Node(e, i)
      <3>1. CASE l <= k
        <4>1. l \in 1 .. k /\ l \in 1 .. Width(d) + 1
          BY <1>3, <3>1
        <4> QED
          BY <1>9, <1>11, <4>1
      <3>2. CASE l > k
        <4>1. l \in k + 1 .. Width(d) /\ l + 1 \in 1 .. Width(d) + 1
          BY <1>3, <3>2
        <4> QED
          BY <1>9, <1>13, <4>1
      <3> QED
        BY <1>3, <3>1, <3>2
    <2>1. CASE b = m
      <3>1. k + 1 \in 1 .. Width(d) + 1
        BY <1>3
      <3> QED
        BY <1>9, <1>12, <2>1, <3>1
    <2>2. CASE b = o
      BY <1>1, <1>3, <2>0, <2>2
    <2>3. CASE b # m /\ b # o
      <3>1. b \in 1 .. Len(d.blocks)
        BY <1>1, <1>2, <2>3
      <3>2. Ents(d, b) # <<>>
        BY <1>5, <1>20, <2>3, <3>1
      <3>3. PICK l \in 1 .. Width(d) : b = Node(d, l)
        BY <1>2, <1>3, <1>20, <3>1, <3>2 DEF Shape
      <3> QED
        BY <2>0, <3>3
    <2> QED
      BY <2>1, <2>2, <2>3
  <1>21. Nodes(e)
    BY <1>5, <1>18, <1>19, <1>20 DEF Nodes
  <1> QED
    BY <1>1, <1>6, <1>7, <1>11, <1>12, <1>13, <1>14, <1>17, <1>21 DEF DividedInto

\* The division of a block moves slots, and keeps their order, leaves and keys.
LEMMA DividedMoves ==
    ASSUME NEW d, Tree(d), NEW x \in Slots(d), d.levels = 1, Length(d, x[1]) = NodeMax,
           Width(d) < RootMax, Len(d.blocks) < MaxBlocks, NEW k, k = x[1],
           NEW left, left = NodeMax \div 2, NEW e, Divided(d, e, k, left),
           NEW f, f = [y \in Slots(e) |-> Old(k, left, y)]
    PROVE  /\ Moved(d, e, f)
           /\ Behind(d, x, left) \in Slots(e) /\ f[Behind(d, x, left)] = x
  <1>1. PICK m, o, es, w : m = Len(d.blocks) + 1 /\ o = Node(d, k) /\ es = Ents(d, o) /\ w = Width(d)
    OBVIOUS
  <1>2. /\ Nodes(e) /\ Width(e) = w + 1 /\ left \in Nat /\ left >= 1 /\ left < NodeMax
        /\ NodeMax - left < NodeMax
        /\ Length(e, k) = left /\ Length(e, k + 1) = NodeMax - left
        /\ \A i \in 1 .. k : Node(e, i) = Node(d, i)
        /\ Node(e, k + 1) = m
        /\ \A i \in k + 1 .. w : Node(e, i + 1) = Node(d, i)
        /\ \A i \in 1 .. w : i # k => Ents(e, Node(d, i)) = Ents(d, Node(d, i))
    <2>1. DividedInto(d, e, k, left)
      BY DividedSlots
    <2> QED
      BY <1>1, <2>1 DEF DividedInto
  <1>3. /\ w \in Nat /\ w >= 1 /\ w = Len(Ents(d, 1))
        /\ \A i, j : <<i, j>> \in Slots(d) <=> i \in 1 .. w /\ j \in 1 .. Length(d, i)
        /\ \A y \in Slots(d) : y = <<y[1], y[2]>> /\ y[1] \in 1 .. w /\ y[2] \in 1 .. Length(d, y[1])
        /\ \A i \in 1 .. w : Length(d, i) \in Nat
    BY <1>1, IndexFacts DEF Width
  <1>4. /\ \A i, j : <<i, j>> \in Slots(e) <=> i \in 1 .. w + 1 /\ j \in 1 .. Length(e, i)
        /\ \A y \in Slots(e) : y = <<y[1], y[2]>> /\ y[1] \in 1 .. w + 1 /\ y[2] \in 1 .. Length(e, y[1])
    <2>1. Framed(e)
      BY <1>2 DEF Nodes
    <2> QED
      BY <1>2, <2>1, FrameFacts
  <1>5. /\ \A j \in 1 .. k : Ents(e, 1)[j] = Ents(d, 1)[j]
        /\ Ents(e, 1)[k + 1].h = es[left + 1].h
        /\ \A j \in k + 1 .. w : Ents(e, 1)[j + 1] = Ents(d, 1)[j]
        /\ \A j \in 1 .. left : Ents(e, o)[j] = es[j]
        /\ \A j \in 1 .. NodeMax - left : Ents(e, m)[j].b = es[left + j].b
        /\ \A j \in 2 .. NodeMax - left : Ents(e, m)[j].h = es[left + j].h
    BY <1>1, <1>3 DEF Divided
  <1>6. k \in 1 .. w /\ Length(d, k) = NodeMax /\ NodeMax \in Nat
    BY <1>3, DirAssumption
  <1>7. ASSUME NEW i, NEW j, <<i, j>> \in Slots(e), i < k
        PROVE  /\ f[<<i, j>>] = <<i, j>> /\ <<i, j>> \in Slots(d)
               /\ LeafAt(e, <<i, j>>) = LeafAt(d, <<i, j>>) /\ KeyAt(e, <<i, j>>) = KeyAt(d, <<i, j>>)
    <2>1. i \in 1 .. w /\ i \in 1 .. k /\ j \in 1 .. Length(e, i)
      BY <1>3, <1>4, <1>6, <1>7
    <2>2. Node(e, i) = Node(d, i) /\ Ents(e, Node(e, i)) = Ents(d, Node(d, i)) /\ Ents(e, 1)[i] = Ents(d, 1)[i]
      BY <1>2, <1>5, <1>7, <2>1
    <2>3. f[<<i, j>>] = <<i, j>>
      BY <1>7, <2>1 DEF Old
    <2>4. <<i, j>> \in Slots(d)
      BY <1>3, <2>1, <2>2 DEF Length
    <2> QED
      BY <2>2, <2>3, <2>4 DEF LeafAt, KeyAt
  <1>8. ASSUME NEW j, <<k, j>> \in Slots(e)
        PROVE  /\ f[<<k, j>>] = <<k, j>> /\ <<k, j>> \in Slots(d) /\ j \in 1 .. left
               /\ LeafAt(e, <<k, j>>) = LeafAt(d, <<k, j>>) /\ KeyAt(e, <<k, j>>) = KeyAt(d, <<k, j>>)
    <2>1. j \in 1 .. left /\ j \in 1 .. NodeMax
      BY <1>2, <1>4, <1>6, <1>8
    <2>2. Node(e, k) = o /\ Node(d, k) = o /\ Ents(e, 1)[k] = Ents(d, 1)[k]
      <3>1. k \in 1 .. k
        BY <1>3, <1>6
      <3> QED
        BY <1>1, <1>2, <1>5, <3>1
    <2>5. Ents(e, o)[j] = Ents(d, o)[j]
      BY <1>1, <1>5, <2>1
    <2>3. f[<<k, j>>] = <<k, j>>
      BY <1>6, <1>8 DEF Old
    <2>4. <<k, j>> \in Slots(d)
      BY <1>3, <1>6, <2>1
    <2> QED
      BY <2>1, <2>2, <2>3, <2>4, <2>5 DEF LeafAt, KeyAt
  <1>9. ASSUME NEW j, <<k + 1, j>> \in Slots(e)
        PROVE  /\ f[<<k + 1, j>>] = <<k, left + j>> /\ <<k, left + j>> \in Slots(d) /\ j \in 1 .. NodeMax - left
               /\ LeafAt(e, <<k + 1, j>>) = LeafAt(d, <<k, left + j>>)
               /\ KeyAt(e, <<k + 1, j>>) = KeyAt(d, <<k, left + j>>)
    <2>1. j \in 1 .. NodeMax - left /\ left + j \in 1 .. NodeMax /\ left + j # 1
      BY <1>2, <1>4, <1>6, <1>9
    <2>2. Node(e, k + 1) = m /\ Node(d, k) = o
      BY <1>1, <1>2
    <2>3. f[<<k + 1, j>>] = <<k, left + j>>
      BY <1>6, <1>9 DEF Old
    <2>4. <<k, left + j>> \in Slots(d)
      BY <1>3, <1>6, <2>1
    <2>5. LeafAt(e, <<k + 1, j>>) = LeafAt(d, <<k, left + j>>)
      BY <1>1, <1>5, <2>1, <2>2 DEF LeafAt
    <2>6. KeyAt(e, <<k + 1, j>>) = KeyAt(d, <<k, left + j>>)
      <3>1. KeyAt(d, <<k, left + j>>) = es[left + j].h
        BY <1>1, <2>1 DEF KeyAt
      <3>2. CASE j = 1
        BY <1>5, <1>6, <3>1, <3>2 DEF KeyAt
      <3>3. CASE j # 1
        <4>1. j \in 2 .. NodeMax - left
          BY <1>2, <1>6, <2>1, <3>3
        <4>2. Ents(e, m)[j].h = es[left + j].h
          BY <1>5, <4>1
        <4> QED
          BY <2>2, <3>1, <3>3, <4>2 DEF KeyAt
      <3> QED
        BY <3>2, <3>3
    <2> QED
      BY <2>1, <2>3, <2>4, <2>5, <2>6
  <1>10. ASSUME NEW i, NEW j, <<i, j>> \in Slots(e), i > k + 1
         PROVE  /\ f[<<i, j>>] = <<i - 1, j>> /\ <<i - 1, j>> \in Slots(d)
                /\ LeafAt(e, <<i, j>>) = LeafAt(d, <<i - 1, j>>) /\ KeyAt(e, <<i, j>>) = KeyAt(d, <<i - 1, j>>)
    <2>1. PICK l : l = i - 1
      OBVIOUS
    <2>2. i \in 1 .. w + 1 /\ j \in 1 .. Length(e, i)
      BY <1>4, <1>10
    <2>3. l \in k + 1 .. w /\ l + 1 = i /\ l \in 1 .. w /\ l # k /\ l # 1 /\ i # 1
      <3>1. w \in Nat /\ k \in 1 .. w /\ i > k + 1
        BY ONLY <1>3, <1>6, <1>10
      <3> QED
        BY ONLY <2>1, <2>2, <3>1
    <2>4. Node(e, i) = Node(d, l) /\ Ents(e, Node(e, i)) = Ents(d, Node(d, l)) /\ Ents(e, 1)[i] = Ents(d, 1)[l]
      BY <1>2, <1>5, <2>3
    <2>5. f[<<i, j>>] = <<l, j>>
      BY <1>6, <1>10, <2>1, <2>2 DEF Old
    <2>6. <<l, j>> \in Slots(d)
      BY <1>3, <2>2, <2>3, <2>4 DEF Length
    <2>7. LeafAt(e, <<i, j>>) = LeafAt(d, <<l, j>>) /\ KeyAt(e, <<i, j>>) = KeyAt(d, <<l, j>>)
      BY <2>3, <2>4 DEF LeafAt, KeyAt
    <2> QED
      BY <2>1, <2>5, <2>6, <2>7
  <1>11. ASSUME NEW y \in Slots(e)
         PROVE  \E i, j : y = <<i, j>> /\ i \in Nat /\ j \in Nat /\ (i < k \/ i = k \/ i = k + 1 \/ i > k + 1)
    <2>1. PICK i, j : i = y[1] /\ j = y[2]
      OBVIOUS
    <2>2. y = <<i, j>> /\ i \in Nat /\ j \in Nat
      BY <2>1 DEF Slots
    <2>3. i < k \/ i = k \/ i = k + 1 \/ i > k + 1
      BY <1>3, <1>6, <2>2
    <2> QED
      BY <2>2, <2>3
  <1>12. ASSUME NEW y \in Slots(e)
         PROVE  f[y] \in Slots(d) /\ LeafAt(e, y) = LeafAt(d, f[y]) /\ KeyAt(e, y) = KeyAt(d, f[y])
    <2>1. PICK i, j : y = <<i, j>> /\ (i < k \/ i = k \/ i = k + 1 \/ i > k + 1)
      BY <1>11
    <2>2. CASE i < k
      BY <1>7, <2>1, <2>2
    <2>3. CASE i = k
      BY <1>8, <2>1, <2>3
    <2>4. CASE i = k + 1
      BY <1>9, <2>1, <2>4
    <2>5. CASE i > k + 1
      BY <1>10, <2>1, <2>5
    <2> QED
      BY <2>1, <2>2, <2>3, <2>4, <2>5
  <1>13. ASSUME NEW y \in Slots(e), NEW z \in Slots(e), Before(y, z)
         PROVE  Before(f[y], f[z])
    <2>1. ASSUME NEW v \in Slots(e), NEW i, NEW j, v = <<i, j>>, i \in Nat, j \in Nat,
                 i < k \/ i = k \/ i = k + 1 \/ i > k + 1
          PROVE  \/ i < k /\ f[v] = <<i, j>>
                 \/ i = k /\ f[v] = <<k, j>> /\ j <= left
                 \/ i = k + 1 /\ f[v] = <<k, left + j>> /\ j >= 1
                 \/ i > k + 1 /\ f[v] = <<i - 1, j>>
      <3>1. CASE i < k
        BY <1>7, <2>1, <3>1
      <3>2. CASE i = k
        <4>1. f[<<k, j>>] = <<k, j>> /\ j \in 1 .. left
          BY <1>8, <2>1, <3>2
        <4>2. j <= left
          BY <1>2, <4>1
        <4> QED
          BY <2>1, <3>2, <4>1, <4>2
      <3>3. CASE i = k + 1
        <4>1. f[<<k + 1, j>>] = <<k, left + j>> /\ j \in 1 .. NodeMax - left
          BY <1>9, <2>1, <3>3
        <4>2. j >= 1
          BY <1>2, <1>6, <4>1
        <4> QED
          BY <2>1, <3>3, <4>1, <4>2
      <3>4. CASE i > k + 1
        BY <1>10, <2>1, <3>4
      <3> QED
        BY <2>1, <3>1, <3>2, <3>3, <3>4
    <2>2. PICK i, j : y = <<i, j>> /\ i \in Nat /\ j \in Nat /\ (i < k \/ i = k \/ i = k + 1 \/ i > k + 1)
      BY <1>11
    <2>3. PICK a, b : z = <<a, b>> /\ a \in Nat /\ b \in Nat /\ (a < k \/ a = k \/ a = k + 1 \/ a > k + 1)
      BY <1>11
    <2>4. i < a \/ (i = a /\ j < b)
      BY <1>13, <2>2, <2>3 DEF Before
    <2>5. PICK v, u : v = f[y] /\ u = f[z]
      OBVIOUS
    <2>6. \/ i < k /\ v = <<i, j>>
          \/ i = k /\ v = <<k, j>> /\ j <= left
          \/ i = k + 1 /\ v = <<k, left + j>> /\ j >= 1
          \/ i > k + 1 /\ v = <<i - 1, j>>
      BY <2>1, <2>2, <2>5
    <2>7. \/ a < k /\ u = <<a, b>>
          \/ a = k /\ u = <<k, b>> /\ b <= left
          \/ a = k + 1 /\ u = <<k, left + b>> /\ b >= 1
          \/ a > k + 1 /\ u = <<a - 1, b>>
      BY <2>1, <2>3, <2>5
    <2>8. k \in Nat
      BY <1>3, <1>6
    <2>9. v[1] < u[1] \/ (v[1] = u[1] /\ v[2] < u[2])
      BY ONLY <1>2, <2>2, <2>3, <2>4, <2>6, <2>7, <2>8
    <2> QED
      BY <2>5, <2>9 DEF Before
  <1>14. ASSUME NEW y \in Slots(d)
         PROVE  \E z \in Slots(e) : f[z] = y
    <2>0. PICK i, j : i = y[1] /\ j = y[2]
      OBVIOUS
    <2>1. y = <<i, j>> /\ i \in 1 .. w /\ j \in 1 .. Length(d, i)
      BY <1>3, <2>0
    <2>2. CASE i < k
      <3>1. i \in 1 .. k /\ i \in 1 .. w + 1 /\ i # k
        BY <1>3, <1>6, <2>1, <2>2
      <3>2. Length(e, i) = Length(d, i)
        BY <1>2, <2>1, <3>1 DEF Length
      <3>3. <<i, j>> \in Slots(e)
        BY <1>4, <2>1, <3>1, <3>2
      <3> QED
        BY <1>7, <2>1, <2>2, <3>3
    <2>3. CASE i = k /\ j <= left
      <3>1. j \in 1 .. left
        BY <1>2, <1>6, <2>1, <2>3
      <3>2. <<k, j>> \in Slots(e)
        <4>1. k \in 1 .. w /\ w \in Nat /\ Length(e, k) = left
          BY ONLY <1>2, <1>3, <1>6
        <4>2. k \in 1 .. w + 1 /\ j \in 1 .. Length(e, k)
          BY ONLY <3>1, <4>1
        <4> QED
          BY <1>4, <4>2
      <3> QED
        BY <1>8, <2>1, <2>3, <3>2
    <2>4. CASE i = k /\ ~(j <= left)
      <3>1. PICK l : l = j - left
        OBVIOUS
      <3>2. l \in 1 .. NodeMax - left /\ left + l = j
        BY <1>2, <1>6, <2>1, <2>4, <3>1
      <3>3. k + 1 \in 1 .. w + 1 /\ l \in 1 .. Length(e, k + 1)
        <4>1. k \in 1 .. w /\ w \in Nat /\ Length(e, k + 1) = NodeMax - left
          BY <1>2, <1>3, <1>6
        <4>2. k + 1 \in 1 .. w + 1
          BY ONLY <4>1
        <4> QED
          BY ONLY <3>2, <4>1, <4>2
      <3>4. <<k + 1, l>> \in Slots(e)
        BY <1>4, <3>3
      <3> QED
        BY <1>9, <2>1, <2>4, <3>2, <3>4
    <2>5. CASE i > k
      <3>1. PICK l : l = i + 1
        OBVIOUS
      <3>2. l \in 1 .. w + 1 /\ l > k + 1 /\ l - 1 = i /\ i \in k + 1 .. w /\ i # k
        <4>1. w \in Nat /\ k \in 1 .. w /\ i \in 1 .. w /\ i > k
          BY ONLY <1>3, <1>6, <2>1, <2>5
        <4> QED
          BY ONLY <3>1, <4>1
      <3>3. Length(e, l) = Length(d, i)
        BY <1>2, <2>1, <3>1, <3>2 DEF Length
      <3>4. <<l, j>> \in Slots(e)
        BY <1>4, <2>1, <3>2, <3>3
      <3> QED
        BY <1>10, <2>1, <3>2, <3>4
    <2>6. i < k \/ (i = k /\ j <= left) \/ (i = k /\ ~(j <= left)) \/ i > k
      BY <1>3, <1>6, <2>1
    <2> QED
      BY <2>2, <2>3, <2>4, <2>5, <2>6
  <1>15. Moved(d, e, f)
    BY <1>12, <1>13, <1>14 DEF Moved
  <1>16. Behind(d, x, left) \in Slots(e) /\ f[Behind(d, x, left)] = x
    <2>1. x = <<k, x[2]>> /\ x[2] \in 1 .. NodeMax
      BY <1>3, <1>6
    <2>2. CASE x[2] > left
      <3>1. PICK j : j = x[2] - left
        OBVIOUS
      <3>2. j \in 1 .. NodeMax - left /\ left + j = x[2] /\ Behind(d, x, left) = <<k + 1, j>>
        BY <1>2, <1>6, <2>1, <2>2, <3>1 DEF Behind
      <3>3. <<k + 1, j>> \in Slots(e)
        <4>1. k \in 1 .. w /\ w \in Nat /\ Length(e, k + 1) = NodeMax - left
          BY ONLY <1>2, <1>3, <1>6
        <4>2. k + 1 \in 1 .. w + 1 /\ j \in 1 .. Length(e, k + 1)
          BY ONLY <3>2, <4>1
        <4> QED
          BY <1>4, <4>2
      <3> QED
        BY <1>9, <2>1, <3>2, <3>3
    <2>3. CASE ~(x[2] > left)
      <3>1. x[2] \in 1 .. left /\ Behind(d, x, left) = <<k, x[2]>>
        BY <1>2, <1>6, <2>1, <2>3 DEF Behind
      <3>2. <<k, x[2]>> \in Slots(e)
        BY <1>2, <1>3, <1>4, <1>6, <3>1
      <3> QED
        BY <1>8, <2>1, <3>1, <3>2
    <2> QED
      BY <2>2, <2>3
  <1> QED
    BY <1>15, <1>16

\* ext4_dir_dx_split_index of a block that is not the root makes room in it.
LEMMA HalveFacts ==
    ASSUME NEW d, Tree(d), InPlace(d), NEW names \in SUBSET Name, Filled(d, names),
           NEW x \in Slots(d), d.levels = 1, Length(d, x[1]) = NodeMax, Width(d) < RootMax,
           Len(d.blocks) < MaxBlocks, NEW g, g = Halve(d, PathTo(d, x))
    PROVE  \E z : /\ SameNames(d, g.d, names) /\ RoomMade(d, g.d, x, z)
                  /\ Last(g.p) = [b |-> Node(g.d, z[1]), at |-> z[2]]
  <1>1. PICK e, k, left, z : e = g.d /\ k = x[1] /\ left = NodeMax \div 2 /\ z = Behind(d, x, left)
    OBVIOUS
  <1>2. /\ Divided(d, e, k, left)
        /\ g.p = IF x[2] > left THEN [PathTo(d, x) EXCEPT ![2] = [b |-> New(d), at |-> @.at - left]]
                 ELSE PathTo(d, x)
    BY <1>1, HalveIs
  <1>3. DividedInto(d, e, k, left)
    BY <1>1, <1>2, DividedSlots
  <1>4. PICK f : f = [y \in Slots(e) |-> Old(k, left, y)]
    OBVIOUS
  <1>5. Moved(d, e, f) /\ z \in Slots(e) /\ f[z] = x
    BY <1>1, <1>2, <1>4, DividedMoves
  <1>6. /\ e \in Directory /\ e.indexed = d.indexed /\ e.levels = 1 /\ Len(e.blocks) = Len(d.blocks) + 1
        /\ \A c \in 1 .. Len(d.blocks) : Records(e, c) = Records(d, c)
        /\ Records(e, Len(d.blocks) + 1) = Whole(Void)
        /\ \A c \in 1 .. Len(d.blocks) : c # 1 /\ c # Node(d, k) => Ents(e, c) = Ents(d, c)
    BY <1>2 DEF Divided
  <1>7. SameNames(d, e, names)
    BY <1>6, ExtendedNames
  <1>8. /\ Nodes(e) /\ left \in Nat /\ left < NodeMax /\ NodeMax - left < NodeMax
        /\ Length(e, k) = left /\ Length(e, k + 1) = NodeMax - left
        /\ \A i \in 1 .. k : Node(e, i) = Node(d, i)
        /\ Node(e, k + 1) = Len(d.blocks) + 1
    BY <1>3 DEF DividedInto
  <1>9. d \in Directory /\ Len(d.blocks) \in Nat /\ Shape(d)
    BY BlocksAre DEF Tree
  <1>10. k \in NodeSet(d) /\ k \in 1 .. k /\ k \in 1 .. Width(d) /\ x = <<k, x[2]>> /\ x[2] \in 1 .. NodeMax
    BY <1>1, IndexFacts
  <1>11. \A b \in 1 .. Len(d.blocks) : Ents(d, b) = <<>> => b = 1 \/ Ents(e, b) = <<>>
    <2>1. Ents(d, Node(d, k)) # <<>>
      <3>1. Len(Ents(d, Node(d, k))) \in 1 .. NodeMax
        BY <1>9, <1>10 DEF Shape
      <3>2. Len(Ents(d, Node(d, k))) # 0
        BY <3>1, DirAssumption
      <3> QED
        BY <3>2
    <2> QED
      BY <1>6, <2>1
  <1>12. /\ Tree(e) /\ InPlace(e)
         /\ \A y \in Slots(e) : \A h : LastUpTo(d, f[y], h) => LastUpTo(e, y, h)
    <2>1. /\ Len(d.blocks) <= Len(e.blocks)
          /\ \A n \in Name : \A b \in 1 .. Len(e.blocks) : HeldIn(e, n, b) => HeldIn(d, n, b)
      BY <1>7 DEF SameNames
    <2> QED
      BY <1>5, <1>8, <1>11, <2>1, MovedIndex
  <1>13. LeafAt(e, z) = LeafAt(d, x)
    BY <1>5 DEF Moved
  <1>14. PathTo(d, x) = <<[b |-> 1, at |-> k], [b |-> Node(d, k), at |-> x[2]]>>
    BY <1>1 DEF PathTo
  <1>15. z[1] = k \/ z[1] = k + 1
    BY <1>1 DEF Behind
  <1>16. Length(e, z[1]) < Limit(Node(e, z[1]))
    <2>1. Node(e, z[1]) # 1
      <3>1. e.levels = 1 => Node(e, z[1]) \in 2 .. Len(e.blocks)
        BY <1>5, <1>12 DEF Tree, Shape, Slots
      <3> QED
        BY <1>6, <1>9, <3>1
    <2>2. Limit(Node(e, z[1])) = NodeMax
      BY <2>1 DEF Limit
    <2> QED
      BY <1>8, <1>15, <2>2
  <1>17. Last(g.p) = [b |-> Node(e, z[1]), at |-> z[2]]
    <2>1. CASE x[2] > left
      <3>1. g.p = <<[b |-> 1, at |-> k], [b |-> New(d), at |-> x[2] - left]>>
        BY <1>2, <1>14, <2>1
      <3>2. z = <<k + 1, x[2] - left>> /\ New(d) = Node(e, k + 1)
        BY <1>1, <1>8, <2>1 DEF Behind, New
      <3> QED
        BY <3>1, <3>2 DEF Last
    <2>2. CASE ~(x[2] > left)
      <3>1. g.p = <<[b |-> 1, at |-> k], [b |-> Node(d, k), at |-> x[2]]>>
        BY <1>2, <1>14, <2>2
      <3>2. z = x /\ z[1] = k /\ Node(d, k) = Node(e, k)
        BY <1>1, <1>8, <1>10, <2>2 DEF Behind
      <3> QED
        BY <3>1, <3>2 DEF Last
    <2> QED
      BY <2>1, <2>2
  <1>18. RoomMade(d, e, x, z)
    BY <1>5, <1>6, <1>12, <1>13, <1>16 DEF RoomMade
  <1> QED
    BY <1>1, <1>7, <1>17, <1>18

\* ext4_dir_dx_split_index.
LEMMA SplitFacts ==
    ASSUME NEW d, Tree(d), InPlace(d), NEW names \in SUBSET Name, Filled(d, names), NEW x \in Slots(d),
           IndexFull(d, PathTo(d, x)) => CanAppend(d) /\ ~RootFull(d, PathTo(d, x)),
           NEW g, g = SplitIndex(d, PathTo(d, x))
    PROVE  \E z : /\ SameNames(d, g.d, names) /\ RoomMade(d, g.d, x, z)
                  /\ Last(g.p) = [b |-> Node(g.d, z[1]), at |-> z[2]]
  <1>1. PICK p : p = PathTo(d, x)
    OBVIOUS
  <1>2. /\ Len(p) = d.levels + 1 /\ Last(p) = [b |-> Node(d, x[1]), at |-> x[2]]
        /\ d.levels \in 0 .. 1 /\ d \in Directory /\ Shape(d)
    BY <1>1, SlotFacts, IndexFacts DEF Tree
  <1>3. /\ RootMax \in Nat /\ RootMax > 1 /\ NodeMax \in Nat /\ RootMax < NodeMax /\ MaxBlocks \in Nat
        /\ Len(d.blocks) \in Nat
    BY <1>2, DirAssumption, BlocksAre
  <1>4. IndexFull(d, p) <=> Length(d, x[1]) = Limit(Node(d, x[1]))
    BY <1>2 DEF IndexFull, Length
  <1>5. Length(d, x[1]) \in Nat /\ Length(d, x[1]) <= Limit(Node(d, x[1])) /\ Limit(Node(d, x[1])) \in Nat
    <2>1. x[1] \in NodeSet(d) /\ x[1] \in 1 .. Width(d) /\ Length(d, x[1]) \in Nat
      BY IndexFacts
    <2>2. CASE d.levels = 0
      <3>1. Node(d, x[1]) = 1
        BY <2>2 DEF Node
      <3>2. Len(Ents(d, 1)) \in 1 .. RootMax
        BY <1>2 DEF Shape
      <3> QED
        BY <1>3, <3>1, <3>2 DEF Length, Limit
    <2>3. CASE d.levels = 1
      <3>1. Node(d, x[1]) \in 2 .. Len(d.blocks) /\ Len(Ents(d, Node(d, x[1]))) \in 1 .. NodeMax
        BY <1>2, <2>1, <2>3 DEF Shape
      <3>2. Node(d, x[1]) # 1
        BY <1>3, <3>1
      <3> QED
        BY <1>3, <3>1, <3>2 DEF Length, Limit
    <2> QED
      BY <1>2, <2>2, <2>3
  <1>6. CASE ~IndexFull(d, p)
    <2>1. g.d = d /\ g.p = p
      BY <1>1, <1>6 DEF SplitIndex
    <2>2. SameNames(d, d, names)
      BY <1>3 DEF SameNames
    <2>3. RoomMade(d, d, x, x)
      BY <1>4, <1>5, <1>6 DEF RoomMade
    <2> QED
      BY <1>2, <2>1, <2>2, <2>3
  <1>7. CASE IndexFull(d, p) /\ d.levels = 0
    <2>1. Len(d.blocks) < MaxBlocks
      BY <1>1, <1>7 DEF CanAppend
    <2>2. Len(p) = 1
      BY <1>2, <1>7
    <2>3. g = Grow(d, p)
      BY <1>1, <1>7, <2>2 DEF SplitIndex
    <2> QED
      BY <1>1, <1>7, <2>1, <2>3, GrowFacts
  <1>8. CASE IndexFull(d, p) /\ d.levels = 1
    <2>1. Len(d.blocks) < MaxBlocks
      BY <1>1, <1>8 DEF CanAppend
    <2>2. Len(p) = 2 /\ Len(p) # 1
      BY <1>2, <1>8
    <2>3. g = Halve(d, p)
      BY <1>1, <1>8, <2>2 DEF SplitIndex
    <2>4. Width(d) < RootMax
      <3>1. Len(Ents(d, 1)) # RootMax
        BY <1>1, <1>8, <2>2 DEF RootFull
      <3>2. Len(Ents(d, 1)) \in 1 .. RootMax
        BY <1>2 DEF Shape
      <3>3. Width(d) = Len(Ents(d, 1))
        BY <1>8 DEF Width
      <3> QED
        BY <1>3, <3>1, <3>2, <3>3
    <2>5. Length(d, x[1]) = NodeMax
      <3>1. x[1] \in NodeSet(d)
        BY DEF Slots
      <3>2. Node(d, x[1]) \in 2 .. Len(d.blocks)
        BY <1>2, <1>8, <3>1 DEF Shape
      <3>3. Node(d, x[1]) # 1
        BY <1>3, <3>2
      <3> QED
        BY <1>4, <1>8, <3>3 DEF Limit
    <2> QED
      BY <1>1, <1>8, <2>1, <2>3, <2>4, <2>5, HalveFacts
  <1> QED
    BY <1>2, <1>6, <1>7, <1>8
-----------------------------------------------------------------------------
(* Splitting a leaf: its names go to two blocks, and the index has an entry*)
(* more.                                                                   *)

\* Other records in one block, and a block more.
MoreRecords(d, b, t, r) == [d EXCEPT !.blocks = Append([@ EXCEPT ![b].records = t], Block(r, <<>>))]
Parted(d, e, b, t, r) ==
  /\ e \in Directory /\ e.indexed = d.indexed /\ e.levels = d.levels /\ Len(e.blocks) = Len(d.blocks) + 1
  /\ \A c \in 1 .. Len(d.blocks) :
       Ents(e, c) = Ents(d, c) /\ Records(e, c) = IF c = b THEN t ELSE Records(d, c)
  /\ Records(e, Len(d.blocks) + 1) = r /\ Ents(e, Len(d.blocks) + 1) = <<>>

\* Other records in one block, and one more block.
LEMMA RecordsAndMore ==
    ASSUME NEW d \in Directory, NEW b \in 1 .. Len(d.blocks), NEW t \in Seq(Record), NEW r \in Seq(Record),
           NEW e, e = MoreRecords(d, b, t, r)
    PROVE  Parted(d, e, b, t, r)
  <1>1. PICK c : c = [d EXCEPT !.blocks[b].records = t]
    OBVIOUS
  <1>2. RecordsPut(d, c, b, t)
    BY <1>1, PutRecords
  <1>3. /\ c \in Directory /\ c.indexed = d.indexed /\ c.levels = d.levels /\ Len(c.blocks) = Len(d.blocks)
        /\ \A i \in 1 .. Len(d.blocks) :
             Ents(c, i) = Ents(d, i) /\ Records(c, i) = IF i = b THEN t ELSE Records(d, i)
    BY <1>2 DEF RecordsPut
  <1>4. PICK es : es = <<>>
    OBVIOUS
  <1>5. es \in Seq(IndexEntry)
    BY <1>4
  <1>6. e = [c EXCEPT !.blocks = Append(@, Block(r, es))]
    BY <1>1, <1>4 DEF Directory, MoreRecords
  <1>7. BlockPut(c, e, r, es)
    BY <1>3, <1>5, <1>6, OneMore
  <1>8. /\ e \in Directory /\ e.indexed = c.indexed /\ e.levels = c.levels
        /\ Len(e.blocks) = Len(c.blocks) + 1 /\ New(c) = Len(c.blocks) + 1
        /\ \A i \in 1 .. Len(c.blocks) : Records(e, i) = Records(c, i) /\ Ents(e, i) = Ents(c, i)
        /\ Records(e, New(c)) = r /\ Ents(e, New(c)) = es
    BY <1>7 DEF BlockPut
  <1> QED
    BY <1>3, <1>4, <1>8 DEF Parted

\* The halves of the records of a leaf.
Halves(old, t, r) ==
  /\ RecordsOK(t) /\ RecordsOK(r)
  /\ \A n \in Name : Holds(old, n) <=> Holds(t, n) \/ Holds(r, n)
  /\ \A n \in Name : ~(Holds(t, n) /\ Holds(r, n))

\* No name comes or goes; where the names of the leaf are now.
LEMMA PartedNames ==
    ASSUME NEW d, NEW names, Filled(d, names), NEW b \in 2 .. Len(d.blocks), Len(d.blocks) < MaxBlocks,
           NEW t, NEW r, Halves(Records(d, b), t, r),
           NEW e, e \in Directory, Len(e.blocks) = Len(d.blocks) + 1,
           \A c \in 1 .. Len(d.blocks) : Records(e, c) = IF c = b THEN t ELSE Records(d, c),
           Records(e, Len(d.blocks) + 1) = r
    PROVE  /\ Filled(e, names)
           /\ \A m \in Name : HeldIn(e, m, b) <=> Holds(t, m)
           /\ \A m \in Name : HeldIn(e, m, Len(d.blocks) + 1) <=> Holds(r, m)
           /\ \A m \in Name : \A c \in 1 .. Len(d.blocks) : c # b => (HeldIn(e, m, c) <=> HeldIn(d, m, c))
           /\ \A m \in Name : Holds(t, m) \/ Holds(r, m) => HeldIn(d, m, b)
  <1>1. /\ d \in Directory /\ Len(d.blocks) \in 1 .. MaxBlocks /\ MaxBlocks \in Nat
        /\ \A c \in DOMAIN d.blocks : RecordsOK(Records(d, c))
        /\ \A m \in Name : m \in names <=> \E c \in DOMAIN d.blocks : HeldIn(d, m, c)
        /\ \A m \in Name : \A c, f \in DOMAIN d.blocks : HeldIn(d, m, c) /\ HeldIn(d, m, f) => c = f
        /\ Lies(d, Dots, 1, 0)
    BY DirAssumption DEF Filled
  <1>2. PICK N : N = Len(d.blocks) + 1
    OBVIOUS
  <1>3. /\ DOMAIN d.blocks = 1 .. Len(d.blocks) /\ Len(d.blocks) \in Nat /\ DOMAIN e.blocks = 1 .. N
        /\ N \in 1 .. N /\ N \in Nat /\ N # b /\ b \in 1 .. Len(d.blocks) /\ b \in 1 .. N /\ b # 1
        /\ \A c \in 1 .. N : c = N \/ c \in 1 .. Len(d.blocks)
        /\ \A c \in 1 .. Len(d.blocks) : c \in 1 .. N /\ c # N
        /\ N \in 1 .. MaxBlocks /\ Len(e.blocks) = N
    BY <1>1, <1>2, BlocksAre
  <1>4. PICK old : old = Records(d, b)
    OBVIOUS
  <1>5. /\ RecordsOK(t) /\ RecordsOK(r)
        /\ \A n \in Name : Holds(old, n) <=> Holds(t, n) \/ Holds(r, n)
        /\ \A n \in Name : ~(Holds(t, n) /\ Holds(r, n))
    BY <1>4 DEF Halves
  <1>6. /\ \A c \in 1 .. Len(d.blocks) : c # b => Records(e, c) = Records(d, c)
        /\ Records(e, b) = t /\ Records(e, N) = r
    BY <1>2, <1>3
  <1>7. /\ \A m \in Name : HeldIn(e, m, b) <=> Holds(t, m)
        /\ \A m \in Name : HeldIn(e, m, N) <=> Holds(r, m)
        /\ \A m \in Name : HeldIn(d, m, b) <=> Holds(old, m)
    BY <1>3, <1>4, <1>6 DEF HeldIn
  <1>8. \A m \in Name : \A c \in 1 .. Len(d.blocks) : c # b => (HeldIn(e, m, c) <=> HeldIn(d, m, c))
    BY <1>3, <1>6 DEF HeldIn
  <1>9. \A c \in DOMAIN e.blocks : RecordsOK(Records(e, c))
    BY <1>1, <1>3, <1>5, <1>6
  <1>10. ASSUME NEW m \in Name
         PROVE  m \in names <=> \E c \in DOMAIN e.blocks : HeldIn(e, m, c)
    <2>1. ASSUME m \in names
          PROVE  \E c \in DOMAIN e.blocks : HeldIn(e, m, c)
      <3>1. PICK c \in 1 .. Len(d.blocks) : HeldIn(d, m, c)
        BY <1>1, <1>3, <2>1
      <3> QED
        BY <1>3, <1>5, <1>7, <1>8, <3>1
    <2>2. ASSUME NEW c \in 1 .. N, HeldIn(e, m, c)
          PROVE  m \in names
      <3>1. \E f \in 1 .. Len(d.blocks) : HeldIn(d, m, f)
        BY <1>3, <1>5, <1>7, <1>8, <2>2
      <3> QED
        BY <1>1, <1>3, <3>1
    <2> QED
      BY <1>3, <2>1, <2>2
  <1>11. ASSUME NEW m \in Name, NEW c \in DOMAIN e.blocks, NEW f \in DOMAIN e.blocks,
                HeldIn(e, m, c), HeldIn(e, m, f)
         PROVE  c = f
    <2>1. ASSUME NEW g \in 1 .. N, HeldIn(e, m, g)
          PROVE  (g # b /\ g # N /\ g \in 1 .. Len(d.blocks) /\ HeldIn(d, m, g))
                   \/ (g = b /\ Holds(t, m)) \/ (g = N /\ Holds(r, m))
      BY <1>3, <1>7, <1>8, <2>1
    <2>2. Holds(t, m) \/ Holds(r, m) => HeldIn(d, m, b)
      BY <1>5, <1>7
    <2> QED
      BY <1>1, <1>3, <1>5, <1>11, <2>1, <2>2
  <1>12. Lies(e, Dots, 1, 0)
    <2>1. 1 \in 1 .. Len(d.blocks) /\ 1 # b /\ 1 \in 1 .. N
      BY <1>1, <1>3
    <2> QED
      BY <1>1, <1>3, <1>6, <2>1 DEF Lies
  <1>13. Filled(e, names)
    BY <1>3, <1>9, <1>10, <1>11, <1>12 DEF Filled
  <1>14. \A m \in Name : Holds(t, m) \/ Holds(r, m) => HeldIn(d, m, b)
    BY <1>5, <1>7
  <1> QED
    BY <1>2, <1>7, <1>8, <1>13, <1>14

\* The blocks of an index with one entry more, behind z.
Entered(d, e, z, key) ==
  LET o == Node(d, z[1])
      new == Len(d.blocks) + 1
  IN  /\ e \in Directory /\ e.indexed = d.indexed /\ e.levels = d.levels /\ Len(e.blocks) = new
      /\ \A c \in 1 .. Len(d.blocks) : c # o => Ents(e, c) = Ents(d, c)
      /\ Ents(e, new) = <<>>
      /\ Len(Ents(e, o)) = Len(Ents(d, o)) + 1
      /\ \A j \in 1 .. z[2] : Ents(e, o)[j] = Ents(d, o)[j]
      /\ Ents(e, o)[z[2] + 1].h = key /\ Ents(e, o)[z[2] + 1].b = new
      /\ \A j \in z[2] + 1 .. Len(Ents(d, o)) : Ents(e, o)[j + 1] = Ents(d, o)[j]

\* The entry that comes, and the positions the others had before.
Added1(z) == <<z[1], z[2] + 1>>
Ago(z, y) == IF y[1] = z[1] /\ y[2] > z[2] + 1 THEN <<z[1], y[2] - 1>> ELSE y
OneEntry(d, e, z, key, f) ==
  /\ Added1(z) \in Slots(e) /\ LeafAt(e, Added1(z)) = Len(d.blocks) + 1 /\ KeyAt(e, Added1(z)) = key
  /\ \A y \in Slots(e) : y # Added1(z) =>
       /\ f[y] \in Slots(d) /\ LeafAt(e, y) = LeafAt(d, f[y]) /\ KeyAt(e, y) = KeyAt(d, f[y])
       /\ Before(Added1(z), y) => Before(z, f[y])
       /\ Before(y, Added1(z)) => f[y] = z \/ Before(f[y], z)
  /\ \A y, w \in Slots(e) : y # Added1(z) /\ w # Added1(z) /\ Before(y, w) => Before(f[y], f[w])
  /\ \A x \in Slots(d) : \E y \in Slots(e) : y # Added1(z) /\ f[y] = x

\* A new entry leaves the blocks of the index where they are.
LEMMA EnteredNodes ==
    ASSUME NEW d, Tree(d), NEW z \in Slots(d), Length(d, z[1]) < Limit(Node(d, z[1])),
           Len(d.blocks) < MaxBlocks, NEW key \in Nat, NEW e, Entered(d, e, z, key)
    PROVE  /\ Nodes(e) /\ Width(e) = Width(d) /\ \A i \in 1 .. Width(d) : Node(e, i) = Node(d, i)
           /\ Length(e, z[1]) = Length(d, z[1]) + 1
           /\ \A i \in 1 .. Width(d) : i # z[1] => Ents(e, Node(d, i)) = Ents(d, Node(d, i))
           /\ d.levels = 1 => Ents(e, 1) = Ents(d, 1)
  <1>1. PICK m, k, o, w : m = Len(d.blocks) + 1 /\ k = z[1] /\ o = Node(d, k) /\ w = Width(d)
    OBVIOUS
  <1>2. /\ d \in Directory /\ Shape(d) /\ DOMAIN d.blocks = 1 .. Len(d.blocks) /\ d.levels \in 0 .. 1
        /\ 1 \in 1 .. Len(d.blocks) /\ Len(d.blocks) \in Nat /\ m \in Nat /\ m > 1
        /\ RootMax \in Nat /\ RootMax > 1 /\ NodeMax \in Nat /\ RootMax < NodeMax /\ MaxBlocks \in Nat
    <2>1. d \in Directory /\ Shape(d)
      BY DEF Tree
    <2>2. 1 \in DOMAIN d.blocks /\ DOMAIN d.blocks = 1 .. Len(d.blocks) /\ d.levels \in 0 .. 1
      BY IndexFacts
    <2>3. Len(d.blocks) \in Nat
      BY <2>1, BlocksAre
    <2>4. m \in Nat /\ m > 1
      BY ONLY <1>1, <2>2, <2>3
    <2>5. /\ RootMax \in Nat /\ RootMax > 1 /\ NodeMax \in Nat /\ RootMax < NodeMax /\ MaxBlocks \in Nat
      BY ONLY DirAssumption
    <2> QED
      BY ONLY <2>1, <2>2, <2>3, <2>4, <2>5
  <1>3. /\ w \in Nat /\ w >= 1 /\ NodeSet(d) = 1 .. w /\ k \in 1 .. w
        /\ \A i \in 1 .. w : Node(d, i) \in DOMAIN d.blocks /\ Length(d, i) \in Nat /\ Length(d, i) >= 1
    BY <1>1, IndexFacts
  <1>4. /\ e \in Directory /\ e.indexed = d.indexed /\ e.levels = d.levels /\ Len(e.blocks) = m
        /\ \A c \in 1 .. Len(d.blocks) : c # o => Ents(e, c) = Ents(d, c)
        /\ Ents(e, m) = <<>>
        /\ Len(Ents(e, o)) = Len(Ents(d, o)) + 1
        /\ \A j \in 1 .. z[2] : Ents(e, o)[j] = Ents(d, o)[j]
    BY <1>1 DEF Entered
  <1>5. \A i, j \in 1 .. w : Node(d, i) = Node(d, j) => i = j
    BY <1>2, <1>3 DEF Shape
  <1>6. \A i \in 1 .. w : i # k => Ents(e, Node(d, i)) = Ents(d, Node(d, i))
    BY <1>1, <1>2, <1>3, <1>4, <1>5
  <1>7. d.levels = 1 => Ents(e, 1) = Ents(d, 1)
    <2> SUFFICES ASSUME d.levels = 1
                 PROVE  Ents(e, 1) = Ents(d, 1)
      OBVIOUS
    <2>1. o \in 2 .. Len(d.blocks)
      BY <1>1, <1>2, <1>3 DEF Shape
    <2>2. o # 1
      BY <1>2, <2>1
    <2> QED
      BY <1>2, <1>4, <2>2
  <1>8. Width(e) = w /\ \A i \in 1 .. w : Node(e, i) = Node(d, i)
    <2>1. CASE d.levels = 0
      BY <1>1, <1>4, <2>1 DEF Width, Node
    <2>2. CASE d.levels = 1
      BY <1>1, <1>4, <1>7, <2>2 DEF Width, Node
    <2> QED
      BY <1>2, <2>1, <2>2
  <1>9. Length(e, k) = Length(d, k) + 1
    BY <1>1, <1>3, <1>4, <1>8 DEF Length
  <1>10. NodeSet(e) = 1 .. w
    <2>1. CASE d.levels = 0
      <3>1. NodeSet(e) = {1} /\ NodeSet(d) = {1}
        BY <1>4, <2>1 DEF NodeSet
      <3> QED
        BY <1>3, <3>1
    <2>2. CASE d.levels = 1
      <3>1. NodeSet(e) = NodeSet(d)
        BY <1>4, <1>7, <2>2 DEF NodeSet
      <3> QED
        BY <1>3, <3>1
    <2> QED
      BY <1>2, <2>1, <2>2
  <1>11. Framed(e)
    <2>1. Len(Ents(e, 1)) \in 1 .. RootMax
      <3>1. Len(Ents(d, 1)) \in 1 .. RootMax
        BY <1>2 DEF Shape
      <3>2. CASE d.levels = 0
        <4>1. o = 1 /\ Node(d, z[1]) = 1
          BY <1>1, <3>2 DEF Node
        <4>2. Len(Ents(d, 1)) < RootMax
          BY <4>1 DEF Length, Limit
        <4> QED
          BY <1>2, <1>4, <3>1, <4>1, <4>2
      <3>3. CASE d.levels = 1
        BY <1>7, <3>1, <3>3
      <3> QED
        BY <1>2, <3>2, <3>3
    <2>2. ASSUME e.levels = 1, NEW i \in 1 .. w
          PROVE  Node(e, i) \in 2 .. m /\ Len(Ents(e, Node(e, i))) \in 1 .. NodeMax
      <3>1. Node(d, i) \in 2 .. Len(d.blocks) /\ Len(Ents(d, Node(d, i))) \in 1 .. NodeMax
        BY <1>2, <1>3, <1>4, <2>2 DEF Shape
      <3>2. Node(e, i) = Node(d, i) /\ Node(d, i) \in 2 .. m
        BY <1>1, <1>2, <1>8, <3>1
      <3>3. CASE i = k
        <4>1. Node(d, z[1]) # 1
          BY <1>1, <1>2, <3>1, <3>3
        <4>2. Length(d, k) < NodeMax
          BY <1>1, <4>1 DEF Limit
        <4>3. Len(Ents(e, Node(e, i))) = Length(d, k) + 1
          BY <1>9, <3>3 DEF Length
        <4>4. Length(d, k) \in Nat
          BY <1>3
        <4>5. Length(d, k) + 1 \in 1 .. NodeMax
          BY ONLY <1>2, <4>2, <4>4
        <4>6. Len(Ents(e, Node(e, i))) \in 1 .. NodeMax
          BY ONLY <4>3, <4>5
        <4> QED
          BY <3>2, <4>6
      <3>4. CASE i # k
        BY <1>6, <3>1, <3>2, <3>4
      <3> QED
        BY <3>3, <3>4
    <2>3. m \in 1 .. MaxBlocks
      BY <1>1, <1>2
    <2> QED
      BY <1>4, <1>10, <2>1, <2>2, <2>3 DEF Framed
  <1>12. ASSUME NEW b \in 1 .. m, b # 1, Ents(e, b) # <<>>
         PROVE  \E i \in NodeSet(e) : b = Node(e, i)
    <2>1. b # m /\ b \in 1 .. Len(d.blocks)
      BY <1>1, <1>2, <1>4, <1>12
    <2>2. CASE b = o
      BY <1>1, <1>3, <1>8, <1>10, <2>2
    <2>3. CASE b # o
      <3>1. Ents(d, b) # <<>>
        BY <1>4, <1>12, <2>1, <2>3
      <3> QED
        BY <1>2, <1>3, <1>8, <1>10, <1>12, <2>1, <3>1 DEF Shape
    <2> QED
      BY <2>2, <2>3
  <1>13. Nodes(e)
    <2>1. \A i, j \in NodeSet(e) : Node(e, i) = Node(e, j) => i = j
      BY <1>5, <1>8, <1>10
    <2> QED
      BY <1>4, <1>11, <1>12, <2>1 DEF Nodes
  <1> QED
    BY <1>1, <1>6, <1>7, <1>8, <1>9, <1>13

\* A new entry moves the slots behind it in its block by one.
LEMMA EnteredSlots ==
    ASSUME NEW d, Tree(d), NEW z \in Slots(d), Length(d, z[1]) < Limit(Node(d, z[1])),
           Len(d.blocks) < MaxBlocks, NEW key \in Nat, NEW e, Entered(d, e, z, key),
           NEW f, f = [y \in Slots(e) |-> Ago(z, y)]
    PROVE  OneEntry(d, e, z, key, f)
  <1>1. PICK k, l, m, o, w : k = z[1] /\ l = z[2] /\ m = Len(d.blocks) + 1 /\ o = Node(d, k) /\ w = Width(d)
    OBVIOUS
  <1>2. /\ Nodes(e) /\ Width(e) = w /\ \A i \in 1 .. w : Node(e, i) = Node(d, i)
        /\ Length(e, k) = Length(d, k) + 1
        /\ \A i \in 1 .. w : i # k => Ents(e, Node(d, i)) = Ents(d, Node(d, i))
        /\ d.levels = 1 => Ents(e, 1) = Ents(d, 1)
    <2>1. /\ Nodes(e) /\ Width(e) = Width(d) /\ \A i \in 1 .. Width(d) : Node(e, i) = Node(d, i)
          /\ Length(e, z[1]) = Length(d, z[1]) + 1
          /\ \A i \in 1 .. Width(d) : i # z[1] => Ents(e, Node(d, i)) = Ents(d, Node(d, i))
          /\ d.levels = 1 => Ents(e, 1) = Ents(d, 1)
      BY EnteredNodes
    <2> QED
      BY <1>1, <2>1
  <1>3. /\ w \in Nat /\ w >= 1 /\ d.levels \in 0 .. 1
        /\ \A i, j : <<i, j>> \in Slots(d) <=> i \in 1 .. w /\ j \in 1 .. Length(d, i)
        /\ \A y \in Slots(d) : y = <<y[1], y[2]>> /\ y[1] \in 1 .. w /\ y[2] \in 1 .. Length(d, y[1])
        /\ \A i \in 1 .. w : Length(d, i) \in Nat
    BY <1>1, IndexFacts
  <1>4. /\ \A i, j : <<i, j>> \in Slots(e) <=> i \in 1 .. w /\ j \in 1 .. Length(e, i)
        /\ \A y \in Slots(e) : y = <<y[1], y[2]>> /\ y[1] \in 1 .. w /\ y[2] \in 1 .. Length(e, y[1])
    <2>1. Framed(e)
      BY <1>2 DEF Nodes
    <2> QED
      BY <1>2, <2>1, FrameFacts
  <1>5. PICK n : n = Length(d, k)
    OBVIOUS
  <1>6. /\ k \in 1 .. w /\ l \in 1 .. n /\ z = <<k, l>> /\ n \in Nat /\ k \in Nat /\ l \in Nat /\ l >= 1
        /\ Length(e, k) = n + 1 /\ l + 1 # 1
    <2>1. k \in 1 .. w /\ l \in 1 .. n /\ z = <<k, l>>
      BY <1>1, <1>3, <1>5
    <2>2. n \in Nat /\ Length(e, k) = n + 1
      BY <1>2, <1>3, <1>5, <2>1
    <2> QED
      BY <1>3, <2>1, <2>2
  <1>7. /\ \A j \in 1 .. l : Ents(e, o)[j] = Ents(d, o)[j]
        /\ Ents(e, o)[l + 1].h = key /\ Ents(e, o)[l + 1].b = m
        /\ \A j \in l + 1 .. n : Ents(e, o)[j + 1] = Ents(d, o)[j]
    BY <1>1, <1>5 DEF Entered, Length
  <1>8. Node(e, k) = o /\ Node(d, k) = o
    BY <1>1, <1>2, <1>6
  <1>9. PICK v : v = Added1(z)
    OBVIOUS
  <1>10. v = <<k, l + 1>> /\ v \in Slots(e) /\ LeafAt(e, v) = m /\ KeyAt(e, v) = key
    <2>1. v = <<k, l + 1>>
      BY <1>1, <1>9 DEF Added1
    <2>2. l + 1 \in 1 .. n + 1
      BY <1>6
    <2>3. v \in Slots(e)
      BY <1>4, <1>6, <2>1, <2>2
    <2> QED
      BY <1>6, <1>7, <1>8, <2>1, <2>3 DEF LeafAt, KeyAt
  <1>11. ASSUME NEW i, i \in 1 .. w => Ents(e, 1)[i] = Ents(d, 1)[i] \/ i = 1, NEW j, NEW a,
                i \in 1 .. w, Ents(e, Node(e, i))[j] = Ents(d, Node(d, i))[a], j = 1 <=> a = 1
         PROVE  LeafAt(e, <<i, j>>) = LeafAt(d, <<i, a>>) /\ KeyAt(e, <<i, j>>) = KeyAt(d, <<i, a>>)
    BY <1>11 DEF LeafAt, KeyAt
  <1>12. \A i \in 1 .. w : Ents(e, 1)[i] = Ents(d, 1)[i] \/ i = 1
    <2>1. CASE d.levels = 0
      <3>1. w = 1
        BY <1>1, <2>1 DEF Width
      <3> QED
        BY <3>1
    <2>2. CASE d.levels = 1
      BY <1>2, <2>2
    <2> QED
      BY <1>3, <2>1, <2>2
  <1>13. ASSUME NEW i, NEW j, <<i, j>> \in Slots(e), i # k
         PROVE  /\ f[<<i, j>>] = <<i, j>> /\ <<i, j>> \in Slots(d)
                /\ LeafAt(e, <<i, j>>) = LeafAt(d, <<i, j>>) /\ KeyAt(e, <<i, j>>) = KeyAt(d, <<i, j>>)
    <2>1. i \in 1 .. w /\ j \in 1 .. Length(e, i)
      BY <1>4, <1>13
    <2>2. Node(e, i) = Node(d, i) /\ Ents(e, Node(e, i)) = Ents(d, Node(d, i))
      BY <1>2, <1>13, <2>1
    <2>3. f[<<i, j>>] = <<i, j>>
      BY <1>1, <1>13 DEF Ago
    <2>4. <<i, j>> \in Slots(d)
      BY <1>3, <2>1, <2>2 DEF Length
    <2> QED
      BY <1>11, <1>12, <2>1, <2>2, <2>3, <2>4
  <1>14. ASSUME NEW j \in 1 .. l
         PROVE  /\ <<k, j>> \in Slots(e) /\ f[<<k, j>>] = <<k, j>> /\ <<k, j>> \in Slots(d)
                /\ LeafAt(e, <<k, j>>) = LeafAt(d, <<k, j>>) /\ KeyAt(e, <<k, j>>) = KeyAt(d, <<k, j>>)
    <2>1. j \in 1 .. n + 1 /\ j \in 1 .. n /\ ~(j > l + 1)
      BY <1>6
    <2>2. <<k, j>> \in Slots(e)
      BY <1>4, <1>6, <2>1
    <2>3. f[<<k, j>>] = <<k, j>>
      BY <1>1, <2>1, <2>2 DEF Ago
    <2>4. <<k, j>> \in Slots(d)
      BY <1>3, <1>5, <1>6, <2>1
    <2>5. Ents(e, Node(e, k))[j] = Ents(d, Node(d, k))[j]
      BY <1>7, <1>8
    <2> QED
      BY <1>6, <1>11, <1>12, <2>2, <2>3, <2>4, <2>5
  <1>15. ASSUME NEW j \in l + 1 .. n
         PROVE  /\ <<k, j + 1>> \in Slots(e) /\ f[<<k, j + 1>>] = <<k, j>> /\ <<k, j>> \in Slots(d)
                /\ LeafAt(e, <<k, j + 1>>) = LeafAt(d, <<k, j>>) /\ KeyAt(e, <<k, j + 1>>) = KeyAt(d, <<k, j>>)
    <2>1. PICK a : a = j + 1
      OBVIOUS
    <2>2. a \in 1 .. n + 1 /\ j \in 1 .. n /\ a > l + 1 /\ a - 1 = j /\ a # 1 /\ j # 1
      BY <1>6, <2>1
    <2>3. <<k, a>> \in Slots(e)
      BY <1>4, <1>6, <2>2
    <2>4. f[<<k, a>>] = <<k, j>>
      BY <1>1, <2>2, <2>3 DEF Ago
    <2>5. <<k, j>> \in Slots(d)
      BY <1>3, <1>5, <1>6, <2>2
    <2>6. Ents(e, Node(e, k))[a] = Ents(d, Node(d, k))[j]
      BY <1>7, <1>8, <2>1
    <2>7. LeafAt(e, <<k, a>>) = LeafAt(d, <<k, j>>) /\ KeyAt(e, <<k, a>>) = KeyAt(d, <<k, j>>)
      BY <1>6, <1>11, <1>12, <2>2, <2>6
    <2> QED
      BY <2>1, <2>3, <2>4, <2>5, <2>7
  <1>16. ASSUME NEW y \in Slots(e), y # v
         PROVE  \E i, j \in Nat :
                  \/ i # k /\ y = <<i, j>> /\ f[y] = <<i, j>>
                  \/ i = k /\ j \in 1 .. l /\ y = <<k, j>> /\ f[y] = <<k, j>>
                  \/ i = k /\ j \in l + 1 .. n /\ y = <<k, j + 1>> /\ f[y] = <<k, j>>
    <2>0. PICK i, j : i = y[1] /\ j = y[2]
      OBVIOUS
    <2>1. y = <<i, j>> /\ i \in 1 .. w /\ j \in 1 .. Length(e, i) /\ i \in Nat /\ j \in Nat
      <3>1. y \in Nat \X Nat
        BY DEF Slots
      <3> QED
        BY <1>4, <2>0, <3>1
    <2>2. CASE i # k
      BY <1>13, <2>1, <2>2
    <2>3. CASE i = k
      <3>1. j \in 1 .. n + 1 /\ j # l + 1
        BY <1>6, <1>10, <1>16, <2>1, <2>3
      <3>2. CASE j \in 1 .. l
        BY <1>6, <1>14, <2>1, <2>3, <3>2
      <3>3. CASE j \notin 1 .. l
        <4>1. PICK a : a = j - 1
          OBVIOUS
        <4>2. a \in l + 1 .. n /\ a + 1 = j /\ a \in Nat
          BY <1>6, <2>1, <3>1, <3>3, <4>1
        <4>3. f[<<k, a + 1>>] = <<k, a>>
          BY <1>15, <4>2
        <4> QED
          BY <1>6, <2>1, <2>3, <4>2, <4>3
      <3> QED
        BY <3>2, <3>3
    <2> QED
      BY <2>2, <2>3
  <1>17. ASSUME NEW y \in Slots(e), y # v
         PROVE  f[y] \in Slots(d) /\ LeafAt(e, y) = LeafAt(d, f[y]) /\ KeyAt(e, y) = KeyAt(d, f[y])
    <2>1. PICK i, j \in Nat :
            \/ i # k /\ y = <<i, j>> /\ f[y] = <<i, j>>
            \/ i = k /\ j \in 1 .. l /\ y = <<k, j>> /\ f[y] = <<k, j>>
            \/ i = k /\ j \in l + 1 .. n /\ y = <<k, j + 1>> /\ f[y] = <<k, j>>
      BY <1>16, <1>17
    <2>2. CASE i # k
      BY <1>13, <2>1, <2>2
    <2>3. CASE i = k /\ j \in 1 .. l /\ y = <<k, j>>
      BY <1>14, <2>3
    <2>4. CASE i = k /\ j \in l + 1 .. n /\ y = <<k, j + 1>>
      BY <1>15, <2>4
    <2> QED
      BY <2>1, <2>2, <2>3, <2>4
  <1>18. ASSUME NEW y \in Slots(e), y # v
         PROVE  /\ Before(v, y) => Before(z, f[y])
                /\ Before(y, v) => f[y] = z \/ Before(f[y], z)
    <2>0. PICK u : u = f[y]
      OBVIOUS
    <2>1. PICK i, j \in Nat :
            \/ i # k /\ y = <<i, j>> /\ u = <<i, j>>
            \/ i = k /\ j \in 1 .. l /\ y = <<k, j>> /\ u = <<k, j>>
            \/ i = k /\ j \in l + 1 .. n /\ y = <<k, j + 1>> /\ u = <<k, j>>
      BY <1>16, <1>18, <2>0
    <2>2. CASE i # k /\ y = <<i, j>> /\ u = <<i, j>>
      BY <1>6, <1>10, <2>0, <2>2 DEF Before
    <2>3. CASE i = k /\ j \in 1 .. l /\ y = <<k, j>> /\ u = <<k, j>>
      <3>1. j = l \/ j < l
        BY <1>6, <2>3
      <3>2. ~Before(v, y)
        BY <1>6, <1>10, <2>3, <3>1 DEF Before
      <3>3. u = z \/ Before(u, z)
        BY <1>6, <2>3, <3>1 DEF Before
      <3> QED
        BY <2>0, <3>2, <3>3
    <2>4. CASE i = k /\ j \in l + 1 .. n /\ y = <<k, j + 1>> /\ u = <<k, j>>
      <3>1. l < j /\ ~(j + 1 < l + 1)
        BY <1>6, <2>4
      <3> QED
        BY <1>6, <1>10, <2>0, <2>4, <3>1 DEF Before
    <2> QED
      BY <2>1, <2>2, <2>3, <2>4
  <1>19. ASSUME NEW y \in Slots(e), NEW x \in Slots(e), y # v, x # v, Before(y, x)
         PROVE  Before(f[y], f[x])
    <2>0. PICK u, t : u = f[y] /\ t = f[x]
      OBVIOUS
    <2>1. PICK i, j \in Nat :
            \/ i # k /\ y = <<i, j>> /\ u = <<i, j>>
            \/ i = k /\ j \in 1 .. l /\ y = <<k, j>> /\ u = <<k, j>>
            \/ i = k /\ j \in l + 1 .. n /\ y = <<k, j + 1>> /\ u = <<k, j>>
      BY <1>16, <1>19, <2>0
    <2>2. PICK a, b \in Nat :
            \/ a # k /\ x = <<a, b>> /\ t = <<a, b>>
            \/ a = k /\ b \in 1 .. l /\ x = <<k, b>> /\ t = <<k, b>>
            \/ a = k /\ b \in l + 1 .. n /\ x = <<k, b + 1>> /\ t = <<k, b>>
      BY <1>16, <1>19, <2>0
    <2>3. i < a \/ (i = a /\ j < b)
      <3>1. y[1] = i /\ x[1] = a /\ y[2] \in Nat /\ x[2] \in Nat
        BY <2>1, <2>2
      <3>2. i < a \/ (i = a /\ y[2] < x[2])
        BY <1>19, <3>1 DEF Before
      <3>3. CASE i = a /\ i # k /\ y[2] < x[2]
        BY <2>1, <2>2, <3>3
      <3>4. CASE i = a /\ i = k /\ y[2] < x[2]
        <4>1. (j <= l /\ y[2] = j) \/ (j > l /\ y[2] = j + 1)
          BY <1>6, <2>1, <3>4
        <4>2. (b <= l /\ x[2] = b) \/ (b > l /\ x[2] = b + 1)
          BY <1>6, <2>2, <3>4
        <4> QED
          BY <1>6, <3>4, <4>1, <4>2
      <3> QED
        BY <3>2, <3>3, <3>4
    <2>4. u[1] = i /\ u[2] = j /\ t[1] = a /\ t[2] = b
      BY <2>1, <2>2
    <2> QED
      BY <2>0, <2>3, <2>4 DEF Before
  <1>20. ASSUME NEW x \in Slots(d)
         PROVE  \E y \in Slots(e) : y # v /\ f[y] = x
    <2>0. PICK i, j : i = x[1] /\ j = x[2]
      OBVIOUS
    <2>1. x = <<i, j>> /\ i \in 1 .. w /\ j \in 1 .. Length(d, i)
      BY <1>3, <2>0
    <2>2. CASE i # k
      <3>1. Length(e, i) = Length(d, i)
        BY <1>2, <2>1, <2>2 DEF Length
      <3>2. <<i, j>> \in Slots(e)
        BY <1>4, <2>1, <3>1
      <3> QED
        BY <1>10, <1>13, <2>1, <2>2, <3>2
    <2>3. CASE i = k /\ j \in 1 .. l
      <3>1. j # l + 1
        BY <1>6, <2>3
      <3> QED
        BY <1>10, <1>14, <2>1, <2>3, <3>1
    <2>4. CASE i = k /\ j \notin 1 .. l
      <3>1. j \in l + 1 .. n /\ j + 1 # l + 1
        BY <1>5, <1>6, <2>1, <2>4
      <3>2. <<k, j + 1>> \in Slots(e) /\ f[<<k, j + 1>>] = <<k, j>>
        BY <1>15, <3>1
      <3>3. <<k, j + 1>> # v
        BY <1>10, <3>1
      <3> QED
        BY <2>1, <2>4, <3>2, <3>3
    <2> QED
      BY <2>2, <2>3, <2>4
  <1> QED
    BY <1>1, <1>9, <1>10, <1>17, <1>18, <1>19, <1>20 DEF OneEntry

\* The names of leaf b are in two leaves now, those with smaller hashes in the first.
Apart(t, r, key) ==
  /\ \A n \in Name : Holds(t, n) => Hash[n] < key
  /\ \A n \in Name : Holds(r, n) => key <= Hash[n] + 1
  /\ \E n \in Name : Holds(t, n)
  /\ \E n \in Name : Holds(r, n)

\* Where the leaf the names of hash h go to is split, they go to one of its halves.
Finds(e, b, h) == \E y \in Slots(e) : LeafAt(e, y) = b /\ KeyOf(e, y, h)

\* Names parted by the key of a new entry are in place, each half in its leaf.
LEMMA EnteredPlaces ==
    ASSUME NEW d, Tree(d), InPlace(d), NEW z \in Slots(d), Length(d, z[1]) < Limit(Node(d, z[1])),
           Len(d.blocks) < MaxBlocks, NEW key \in Nat, NEW e, Entered(d, e, z, key),
           NEW t, NEW r, Apart(t, r, key), NEW b, b = LeafAt(d, z),
           \A m \in Name : Holds(t, m) \/ Holds(r, m) => HeldIn(d, m, b),
           \A m \in Name : HeldIn(e, m, b) => Holds(t, m),
           \A m \in Name : HeldIn(e, m, Len(d.blocks) + 1) => Holds(r, m),
           \A m \in Name : \A c \in 1 .. Len(d.blocks) : c # b => (HeldIn(e, m, c) => HeldIn(d, m, c))
    PROVE  /\ Tree(e) /\ InPlace(e)
           /\ \A h \in Nat : LastUpTo(d, z, h) => Finds(e, IF h >= key THEN Len(d.blocks) + 1 ELSE b, h)
  <1>1. PICK v, N, f : v = Added1(z) /\ N = Len(d.blocks) + 1 /\ f = [y \in Slots(e) |-> Ago(z, y)]
    OBVIOUS
  <1>2. OneEntry(d, e, z, key, f)
    BY <1>1, EnteredSlots
  <1>3. /\ v \in Slots(e) /\ LeafAt(e, v) = N /\ KeyAt(e, v) = key
        /\ \A y \in Slots(e) : y # v =>
             /\ f[y] \in Slots(d) /\ LeafAt(e, y) = LeafAt(d, f[y]) /\ KeyAt(e, y) = KeyAt(d, f[y])
             /\ Before(v, y) => Before(z, f[y])
             /\ Before(y, v) => f[y] = z \/ Before(f[y], z)
        /\ \A y, w \in Slots(e) : y # v /\ w # v /\ Before(y, w) => Before(f[y], f[w])
        /\ \A x \in Slots(d) : \E y \in Slots(e) : y # v /\ f[y] = x
    BY <1>1, <1>2 DEF OneEntry
  <1>4. /\ d \in Directory /\ Shape(d) /\ Ascending(d) /\ Len(d.blocks) \in Nat /\ N \in Nat
        /\ \A x \in Slots(d) : KeyAt(d, x) \in Nat /\ LeafAt(d, x) \in 2 .. Len(d.blocks)
        /\ DOMAIN d.blocks = 1 .. Len(d.blocks)
    BY <1>1, SlotFacts, BlocksAre DEF Tree
  <1>5. Nodes(e)
    BY EnteredNodes
  <1>6. /\ e \in Directory /\ Len(e.blocks) = N /\ e.levels = d.levels
        /\ \A c \in 1 .. Len(d.blocks) : c # Node(d, z[1]) => Ents(e, c) = Ents(d, c)
        /\ Ents(e, N) = <<>>
    BY <1>1 DEF Entered
  <1>7. DOMAIN e.blocks = 1 .. N /\ \A c \in 1 .. N : c = N \/ c \in 1 .. Len(d.blocks)
    BY <1>1, <1>4, <1>6, BlocksAre
  <1>8. \A m \in Name : Hash[m] \in Nat
    BY NameFacts
  <1>9. ASSUME NEW m \in Name, HeldIn(d, m, b)
        PROVE  KeyAt(d, z) <= Hash[m] + 1 /\ \A y \in Slots(d) : Before(z, y) => Hash[m] < KeyAt(d, y)
    <2>1. KeyOf(d, z, Hash[m])
      BY <1>9, HeldFacts
    <2> QED
      BY <2>1 DEF KeyOf
  <1>10. KeyAt(d, z) <= key
    <2>1. PICK m \in Name : Holds(t, m)
      BY DEF Apart
    <2>2. Hash[m] < key /\ HeldIn(d, m, b)
      BY <2>1 DEF Apart
    <2> QED
      BY <1>4, <1>8, <1>9, <2>2
  <1>11. \A y \in Slots(d) : Before(z, y) => key <= KeyAt(d, y)
    <2>1. PICK m \in Name : Holds(r, m)
      BY DEF Apart
    <2>2. key <= Hash[m] + 1 /\ HeldIn(d, m, b)
      BY <2>1 DEF Apart
    <2> QED
      BY <1>4, <1>8, <1>9, <2>2
  <1>12. ASSUME NEW y \in Slots(e)
         PROVE  LeafAt(e, y) \in 2 .. N /\ Ents(e, LeafAt(e, y)) = <<>>
    <2>1. CASE y = v
      <3>1. N \in 2 .. N
        <4>1. LeafAt(d, z) \in 2 .. Len(d.blocks)
          BY <1>4
        <4> QED
          BY <1>1, <1>4, <4>1
      <3> QED
        BY <1>3, <1>6, <2>1, <3>1
    <2>2. CASE y # v
      <3>1. f[y] \in Slots(d) /\ LeafAt(e, y) = LeafAt(d, f[y])
        BY <1>3, <2>2
      <3>2. LeafAt(d, f[y]) \in 2 .. Len(d.blocks) /\ Ents(d, LeafAt(d, f[y])) = <<>>
        BY <1>4, <3>1 DEF Shape
      <3>3. LeafAt(d, f[y]) # Node(d, z[1])
        <4>1. z[1] \in 1 .. Width(d) /\ Length(d, z[1]) >= 1
          BY IndexFacts
        <4>2. Len(Ents(d, Node(d, z[1]))) >= 1
          BY <4>1 DEF Length
        <4> QED
          BY <3>2, <4>2
      <3>4. LeafAt(d, f[y]) \in 1 .. Len(d.blocks) /\ LeafAt(d, f[y]) \in 2 .. N
        BY <1>1, <1>4, <3>2
      <3> QED
        BY <1>6, <3>1, <3>2, <3>3, <3>4
    <2> QED
      BY <2>1, <2>2
  <1>13. ASSUME NEW y \in Slots(e), NEW w \in Slots(e), y # v, w # v, f[y] = f[w]
         PROVE  y = w
    <2>1. ~Before(f[y], f[w]) /\ ~Before(f[w], f[y])
      BY <1>3, <1>13, OrderFacts
    <2> QED
      BY <1>3, <1>13, <2>1, PairsOrdered
  <1>14. ASSUME NEW y \in Slots(e), NEW w \in Slots(e), LeafAt(e, y) = LeafAt(e, w)
         PROVE  y = w
    <2>1. \A x \in Slots(d) : LeafAt(d, x) # N
      BY <1>1, <1>4
    <2>2. CASE y # v /\ w # v
      <3>1. f[y] = f[w]
        BY <1>3, <1>4, <1>14, <2>2 DEF Shape
      <3> QED
        BY <1>13, <2>2, <3>1
    <2> QED
      BY <1>3, <1>14, <2>1, <2>2
  <1>15. Shape(e)
    <2>1. \A y \in Slots(e) : LeafAt(e, y) \in 2 .. Len(e.blocks) /\ Ents(e, LeafAt(e, y)) = <<>>
      BY <1>6, <1>12
    <2>2. \A y, w \in Slots(e) : LeafAt(e, y) = LeafAt(e, w) => y = w
      BY <1>14
    <2> QED
      BY <1>5, <2>1, <2>2 DEF Shape, Nodes, Framed
  <1>16. ASSUME NEW y \in Slots(e), NEW w \in Slots(e), Before(y, w)
         PROVE  KeyAt(e, y) <= KeyAt(e, w)
    <2>1. CASE y # v /\ w # v
      BY <1>3, <1>4, <1>16, <2>1 DEF Ascending
    <2>2. CASE y = v /\ w # v
      BY <1>3, <1>11, <1>16, <2>2
    <2>3. CASE y # v /\ w = v
      <3>1. f[y] \in Slots(d) /\ KeyAt(e, y) = KeyAt(d, f[y]) /\ (f[y] = z \/ Before(f[y], z))
        BY <1>3, <1>16, <2>3
      <3>2. KeyAt(d, f[y]) <= KeyAt(d, z)
        BY <1>4, <3>1 DEF Ascending
      <3> QED
        BY <1>3, <1>4, <1>10, <2>3, <3>1, <3>2
    <2>4. CASE y = v /\ w = v
      BY <1>3, <2>4
    <2> QED
      BY <2>1, <2>2, <2>3, <2>4
  <1>17. Tree(e)
    BY <1>5, <1>15, <1>16 DEF Tree, Ascending, Nodes, Framed
  <1>18. ASSUME NEW h \in Nat, KeyAt(d, z) <= h + 1, h < key,
                \A y \in Slots(d) : Before(z, y) => h < KeyAt(d, y)
         PROVE  Finds(e, b, h)
    <2>1. PICK y \in Slots(e) : y # v /\ f[y] = z
      BY <1>3
    <2>2. ASSUME NEW w \in Slots(e), Before(y, w)
          PROVE  h < KeyAt(e, w)
      <3>1. CASE w = v
        BY <1>3, <1>18, <3>1
      <3>2. CASE w # v
        BY <1>3, <1>18, <2>1, <2>2, <3>2
      <3> QED
        BY <3>1, <3>2
    <2>3. LeafAt(e, y) = b /\ KeyAt(e, y) = KeyAt(d, z)
      BY <1>3, <2>1
    <2> QED
      BY <1>18, <2>2, <2>3 DEF Finds, KeyOf
  <1>19. ASSUME NEW h \in Nat, key <= h + 1, \A y \in Slots(d) : Before(z, y) => h < KeyAt(d, y)
         PROVE  Finds(e, N, h)
    <2>1. ASSUME NEW w \in Slots(e), Before(v, w)
          PROVE  h < KeyAt(e, w)
      <3>1. w # v
        <4>1. v \in Nat \X Nat
          BY <1>3 DEF Slots
        <4> QED
          BY <2>1, <4>1 DEF Before
      <3> QED
        BY <1>3, <1>19, <2>1, <3>1
    <2> QED
      BY <1>3, <1>19, <2>1 DEF Finds, KeyOf
  <1>20. ASSUME NEW m \in Name, NEW c \in DOMAIN e.blocks, HeldIn(e, m, c)
         PROVE  Finds(e, c, Hash[m])
    <2>1. CASE c = b
      <3>1. Holds(t, m) /\ HeldIn(d, m, b) /\ Hash[m] < key
        BY <1>20, <2>1 DEF Apart
      <3> QED
        BY <1>8, <1>9, <1>18, <2>1, <3>1
    <2>2. CASE c = N
      <3>1. Holds(r, m)
        BY <1>1, <1>20, <2>2
      <3>2. HeldIn(d, m, b) /\ key <= Hash[m] + 1
        BY <3>1 DEF Apart
      <3> QED
        BY <1>8, <1>9, <1>19, <2>2, <3>2
    <2>3. CASE c # b /\ c # N
      <3>1. c \in 1 .. Len(d.blocks) /\ HeldIn(d, m, c)
        BY <1>7, <1>20, <2>3
      <3>2. PICK x \in Slots(d) : LeafAt(d, x) = c /\ KeyOf(d, x, Hash[m])
        BY <1>4, <3>1 DEF InPlace
      <3>3. PICK y \in Slots(e) : y # v /\ f[y] = x
        BY <1>3
      <3>4. x # z
        BY <2>3, <3>2
      <3>5. ASSUME NEW w \in Slots(e), Before(y, w)
            PROVE  Hash[m] < KeyAt(e, w)
        <4>1. CASE w = v
          <5>1. Before(x, z)
            BY <1>3, <3>3, <3>4, <3>5, <4>1
          <5>2. Hash[m] < KeyAt(d, z)
            BY <3>2, <5>1 DEF KeyOf
          <5> QED
            BY <1>3, <1>4, <1>8, <1>10, <4>1, <5>2
        <4>2. CASE w # v
          BY <1>3, <3>2, <3>3, <3>5, <4>2 DEF KeyOf
        <4> QED
          BY <4>1, <4>2
      <3>6. LeafAt(e, y) = c /\ KeyAt(e, y) <= Hash[m] + 1
        BY <1>3, <3>2, <3>3 DEF KeyOf
      <3> QED
        BY <3>5, <3>6 DEF Finds, KeyOf
    <2> QED
      BY <2>1, <2>2, <2>3
  <1>21. InPlace(e)
    BY <1>20 DEF InPlace, Finds
  <1>22. ASSUME NEW h \in Nat, LastUpTo(d, z, h)
         PROVE  Finds(e, IF h >= key THEN N ELSE b, h)
    <2>1. KeyAt(d, z) <= h /\ \A y \in Slots(d) : Before(z, y) => h < KeyAt(d, y)
      BY <1>22 DEF LastUpTo
    <2>2. CASE h >= key
      <3>1. key <= h + 1
        BY <2>2
      <3> QED
        BY <1>19, <2>1, <2>2, <3>1
    <2>3. CASE ~(h >= key)
      <3>1. KeyAt(d, z) <= h + 1 /\ h < key
        BY <1>4, <2>1, <2>3
      <3> QED
        BY <1>18, <2>1, <2>3, <3>1
    <2> QED
      BY <2>2, <2>3
  <1> QED
    BY <1>1, <1>17, <1>21, <1>22

\* ext4_dir_dx_split_data: the names of the leaf are in one of the two, the others where they
\* were; it leaves a leaf for every hash that was looked for in z.
Scattered(d, e, b, part) ==
  /\ \A m \in Name : \A c : \A o \in Nat : c # b /\ Lies(d, m, c, o) => Lies(e, m, c, o)
  /\ \A m \in Name :
       HeldIn(d, m, b) => \/ Holds(part.left, m) /\ HeldIn(e, m, b)
                          \/ Holds(part.right, m) /\ HeldIn(e, m, New(d))
SplitDone(d, e, names, z, b, key) ==
  /\ Tree(e) /\ InPlace(e) /\ Filled(e, names) /\ e.indexed = d.indexed
  /\ Len(e.blocks) = Len(d.blocks) + 1
  /\ \A h \in Nat : LastUpTo(d, z, h) => Finds(e, Chosen(h, key, b, New(d)), h)

\* The split of a full leaf keeps index and names, and each name where it is looked for.
LEMMA SplitDataFacts ==
    ASSUME NEW d, Tree(d), InPlace(d), NEW names, Filled(d, names), NEW z \in Slots(d),
           Length(d, z[1]) < Limit(Node(d, z[1])), CanAppend(d),
           NEW q, Last(q) = [b |-> Node(d, z[1]), at |-> z[2]],
           NEW b, b = LeafAt(d, z), NEW old, old = Records(d, b),
           NEW s \in Sorted(Names(old)), NEW part \in Parts(s, old), ~(SizeTo(s, Len(s)) <= Half),
           NEW e, e = SplitData(d, q, b, part)
    PROVE  SplitDone(d, e, names, z, b, part.key) /\ Scattered(d, e, b, part)
  <1>1. PICK t, r, key, N, o : /\ t = part.left /\ r = part.right /\ key = part.key
                               /\ N = Len(d.blocks) + 1 /\ o = Node(d, z[1])
    OBVIOUS
  <1>2. /\ d \in Directory /\ Len(d.blocks) \in Nat /\ DOMAIN d.blocks = 1 .. Len(d.blocks)
        /\ b \in 2 .. Len(d.blocks) /\ b \in DOMAIN d.blocks /\ b \in 1 .. Len(d.blocks)
        /\ Len(d.blocks) < MaxBlocks
        /\ \A c \in DOMAIN d.blocks : RecordsOK(Records(d, c))
    BY SlotFacts, BlocksAre DEF Tree, Filled, CanAppend
  <1>3. RecordsOK(old)
    BY <1>2
  <1>4. /\ RecordsOK(t) /\ RecordsOK(r) /\ key \in Nat
        /\ \A n \in Name : Holds(old, n) <=> Holds(t, n) \/ Holds(r, n)
        /\ \A n \in Name : ~(Holds(t, n) /\ Holds(r, n))
        /\ \A n \in Name : Holds(t, n) => Hash[n] < key
        /\ \A n \in Name : Holds(r, n) => key <= Hash[n] + 1
        /\ \E n \in Name : Holds(t, n)
        /\ \E n \in Name : Holds(r, n)
    <2>1. /\ RecordsOK(part.left) /\ RecordsOK(part.right) /\ part.key \in Nat
          /\ \A n \in Name : Holds(old, n) <=> Holds(part.left, n) \/ Holds(part.right, n)
          /\ \A n \in Name : ~(Holds(part.left, n) /\ Holds(part.right, n))
          /\ \A n \in Name : Holds(part.left, n) => Hash[n] < part.key
          /\ \A n \in Name : Holds(part.right, n) => part.key <= Hash[n] + 1
          /\ \E n \in Name : Holds(part.left, n)
          /\ \E n \in Name : Holds(part.right, n)
      BY <1>3, PartsFacts
    <2> QED
      BY <1>1, <2>1
  <1>5. Halves(Records(d, b), t, r) /\ Apart(t, r, key)
    BY <1>4 DEF Halves, Apart
  <1>6. t \in Seq(Record) /\ r \in Seq(Record)
    BY <1>4 DEF RecordsOK
  <1>7. PICK c : c = MoreRecords(d, b, t, r)
    OBVIOUS
  <1>8. Parted(d, c, b, t, r)
    BY <1>2, <1>6, <1>7, RecordsAndMore
  <1>9. /\ c \in Directory /\ c.indexed = d.indexed /\ c.levels = d.levels /\ Len(c.blocks) = N
        /\ \A i \in 1 .. Len(d.blocks) :
             Ents(c, i) = Ents(d, i) /\ Records(c, i) = IF i = b THEN t ELSE Records(d, i)
        /\ Records(c, N) = r /\ Ents(c, N) = <<>>
    BY <1>1, <1>8 DEF Parted
  <1>10. /\ o \in DOMAIN d.blocks /\ o \in 1 .. Len(d.blocks) /\ o \in 1 .. N /\ N \in 1 .. N /\ o # N
         /\ z[2] \in 1 .. Len(Ents(d, o)) /\ Len(Ents(d, o)) \in Nat
         /\ \A i \in 1 .. Len(d.blocks) : i \in 1 .. N /\ i # N
    <2>1. z[1] \in 1 .. Width(d) /\ z[2] \in 1 .. Length(d, z[1])
      BY IndexFacts
    <2>2. Node(d, z[1]) \in DOMAIN d.blocks /\ Length(d, z[1]) \in Nat
      BY <2>1, IndexFacts
    <2>3. Length(d, z[1]) = Len(Ents(d, o))
      BY ONLY <1>1 DEF Length
    <2>4. o \in 1 .. Len(d.blocks) /\ Len(d.blocks) \in Nat /\ N = Len(d.blocks) + 1
      BY ONLY <1>1, <1>2, <2>2
    <2>5. /\ o \in 1 .. N /\ N \in 1 .. N /\ o # N
          /\ \A i \in 1 .. Len(d.blocks) : i \in 1 .. N /\ i # N
      BY ONLY <2>4
    <2> QED
      BY ONLY <1>2, <2>1, <2>2, <2>3, <2>4, <2>5
  <1>11. PICK es, x, w, k : es = Ents(d, o) /\ x = Entry(key, N) /\ k = z[2] + 1 /\ w = InsertAt(es, k, x)
    OBVIOUS
  <1>12. /\ es \in Seq(IndexEntry) /\ x \in IndexEntry /\ x.h = key /\ x.b = N
         /\ k \in 1 .. Len(es) + 1 /\ k - 1 = z[2]
    <2>1. es \in Seq(IndexEntry)
      BY <1>2, <1>10, <1>11, BlockFacts
    <2>2. x \in IndexEntry /\ x.h = key /\ x.b = N
      BY <1>1, <1>2, <1>4, <1>11 DEF Entry, IndexEntry
    <2>3. z[2] \in 1 .. Len(es) /\ Len(es) \in Nat
      BY <1>10, <1>11
    <2>4. k \in 1 .. Len(es) + 1 /\ k - 1 = z[2]
      BY ONLY <1>11, <2>3
    <2> QED
      BY <2>1, <2>2, <2>4
  <1>13. /\ w \in Seq(IndexEntry) /\ Len(w) = Len(es) + 1
         /\ \A j \in 1 .. z[2] : w[j] = es[j]
         /\ w[z[2] + 1] = x
         /\ \A j \in z[2] + 1 .. Len(es) : w[j + 1] = es[j]
    <2>1. /\ InsertAt(es, k, x) \in Seq(IndexEntry) /\ Len(InsertAt(es, k, x)) = Len(es) + 1
          /\ \A j \in 1 .. k - 1 : InsertAt(es, k, x)[j] = es[j]
          /\ InsertAt(es, k, x)[k] = x
          /\ \A j \in k .. Len(es) : InsertAt(es, k, x)[j + 1] = es[j]
      BY <1>12, InsertAtFacts
    <2> QED
      BY <1>11, <1>12, <2>1
  <1>14. e = [c EXCEPT !.blocks[o].ents = w]
    <2>1. PICK a : a = Last(q)
      OBVIOUS
    <2>2. a.b = o /\ a.at = z[2]
      BY <1>1, <2>1
    <2>3. e = InsertEntry(c, a, key, N)
      BY <1>1, <1>7, <2>1 DEF SplitData, MoreRecords, New
    <2>4. c.blocks[o].ents = es
      BY <1>9, <1>10, <1>11 DEF Ents
    <2>5. e = [c EXCEPT !.blocks[o].ents = InsertAt(@, z[2] + 1, x)]
      BY <1>11, <2>2, <2>3 DEF InsertEntry
    <2> QED
      BY <1>11, <2>4, <2>5
  <1>15. EntsPut(c, e, o, w)
    <2>1. o \in 1 .. Len(c.blocks)
      BY <1>9, <1>10
    <2> QED
      BY <1>9, <1>13, <1>14, <2>1, PutEnts
  <1>16. /\ e \in Directory /\ e.indexed = d.indexed /\ e.levels = d.levels /\ Len(e.blocks) = N
         /\ \A i \in 1 .. N : Records(e, i) = Records(c, i) /\ Ents(e, i) = IF i = o THEN w ELSE Ents(c, i)
    BY <1>9, <1>15 DEF EntsPut
  <1>17. Entered(d, e, z, key)
    <2>1. \A i \in 1 .. Len(d.blocks) : i # o => Ents(e, i) = Ents(d, i)
      BY <1>9, <1>10, <1>16
    <2>2. Ents(e, N) = <<>> /\ Ents(e, o) = w
      BY <1>9, <1>10, <1>16
    <2>3. /\ Len(Ents(e, o)) = Len(es) + 1
          /\ \A j \in 1 .. z[2] : Ents(e, o)[j] = es[j]
          /\ Ents(e, o)[z[2] + 1].h = key /\ Ents(e, o)[z[2] + 1].b = N
          /\ \A j \in z[2] + 1 .. Len(es) : Ents(e, o)[j + 1] = es[j]
      BY ONLY <1>12, <1>13, <2>2
    <2>4. /\ e \in Directory /\ e.indexed = d.indexed /\ e.levels = d.levels /\ Len(e.blocks) = N
      BY <1>16
    <2> QED
      BY ONLY <1>1, <1>11, <2>1, <2>2, <2>3, <2>4 DEF Entered
  <1>18. /\ \A i \in 1 .. Len(d.blocks) : Records(e, i) = IF i = b THEN t ELSE Records(d, i)
         /\ Records(e, N) = r
    BY <1>9, <1>10, <1>16
  <1>19. /\ Filled(e, names)
         /\ \A m \in Name : HeldIn(e, m, b) <=> Holds(t, m)
         /\ \A m \in Name : HeldIn(e, m, N) <=> Holds(r, m)
         /\ \A m \in Name : \A i \in 1 .. Len(d.blocks) : i # b => (HeldIn(e, m, i) <=> HeldIn(d, m, i))
         /\ \A m \in Name : Holds(t, m) \/ Holds(r, m) => HeldIn(d, m, b)
    <2>1. /\ Filled(e, names)
          /\ \A m \in Name : HeldIn(e, m, b) <=> Holds(t, m)
          /\ \A m \in Name : HeldIn(e, m, Len(d.blocks) + 1) <=> Holds(r, m)
          /\ \A m \in Name : \A i \in 1 .. Len(d.blocks) : i # b => (HeldIn(e, m, i) <=> HeldIn(d, m, i))
          /\ \A m \in Name : Holds(t, m) \/ Holds(r, m) => HeldIn(d, m, b)
      BY <1>1, <1>2, <1>5, <1>16, <1>18, PartedNames
    <2> QED
      BY <1>1, <2>1
  <1>20. /\ Tree(e) /\ InPlace(e)
         /\ \A h \in Nat : LastUpTo(d, z, h) => Finds(e, IF h >= key THEN N ELSE b, h)
    <2>1. /\ Tree(e) /\ InPlace(e)
          /\ \A h \in Nat : LastUpTo(d, z, h) => Finds(e, IF h >= key THEN Len(d.blocks) + 1 ELSE b, h)
      BY <1>1, <1>2, <1>4, <1>5, <1>17, <1>19, EnteredPlaces
    <2> QED
      BY <1>1, <2>1
  <1>21. \A h : Chosen(h, part.key, b, New(d)) = IF h >= key THEN N ELSE b
    BY <1>1 DEF Chosen, New
  <1>22. SplitDone(d, e, names, z, b, part.key)
    BY <1>1, <1>16, <1>19, <1>20, <1>21 DEF SplitDone
  <1>23. ASSUME NEW m \in Name, NEW i, NEW u \in Nat, i # b, Lies(d, m, i, u)
         PROVE  Lies(e, m, i, u)
    <2>1. i \in 1 .. Len(d.blocks) /\ InAt(Records(d, i), m, u)
      BY <1>2, <1>23 DEF Lies
    <2>2. Records(e, i) = Records(d, i)
      BY <1>18, <1>23, <2>1
    <2>3. i \in DOMAIN e.blocks
      <3>1. DOMAIN e.blocks = 1 .. Len(e.blocks)
        BY <1>16, BlocksAre
      <3>2. i \in 1 .. N
        BY <1>10, <2>1
      <3> QED
        BY <1>16, <3>1, <3>2
    <2> QED
      BY <2>1, <2>2, <2>3 DEF Lies
  <1>24. ASSUME NEW m \in Name, HeldIn(d, m, b)
         PROVE  \/ Holds(part.left, m) /\ HeldIn(e, m, b)
                \/ Holds(part.right, m) /\ HeldIn(e, m, New(d))
    <2>1. Holds(t, m) \/ Holds(r, m)
      BY <1>4, <1>24 DEF HeldIn
    <2>2. New(d) = N
      BY <1>1 DEF New
    <2> QED
      BY <1>1, <1>19, <2>1, <2>2
  <1>25. Scattered(d, e, b, part)
    BY <1>23, <1>24 DEF Scattered
  <1> QED
    BY <1>22, <1>25
-----------------------------------------------------------------------------
(* Reading.                                                                *)

Readings == [at : Nat \X Nat, due : SUBSET Name, got : SUBSET Name, again : BOOLEAN, cut : BOOLEAN]

\* The records of a block, as places.
LEMMA PlaceFacts ==
    ASSUME NEW d \in Directory, NEW b \in DOMAIN d.blocks, RecordsOK(Records(d, b)), NEW i \in DOMAIN Records(d, b)
    PROVE  /\ i \in 1 .. LeafSize /\ Start(Records(d, b), i) \in Nat
           /\ Records(d, b)[i].n \in Name \cup {Void, Dots}
           /\ Lies(d, Records(d, b)[i].n, b, Start(Records(d, b), i))
  <1>1. PICK s : s = Records(d, b)
    OBVIOUS
  <1>2. s \in Seq(Record) /\ Total(s) = LeafSize /\ LeafSize \in Nat
    BY <1>1, DirAssumption DEF RecordsOK
  <1>3. i \in 1 .. Len(s) /\ Len(s) \in Nat /\ s[i].len \in Nat /\ s[i].len > 0 /\ s[i].n \in Name \cup {Void, Dots}
    BY <1>1, <1>2, RecordFacts
  <1>4. Total(s) = Start(s, Len(s) + 1) /\ Start(s, i) \in Nat /\ i - 1 <= Start(s, i)
    BY <1>2, <1>3, StartFacts
  <1>5. Start(s, i) + s[i].len <= Start(s, Len(s) + 1)
    <2>1. Len(s) + 1 \in i + 1 .. Len(s) + 1
      BY <1>3
    <2> QED
      BY <1>1, <1>2, <2>1, StartFacts
  <1>6. i \in 1 .. LeafSize
    BY <1>2, <1>3, <1>4, <1>5
  <1>7. InAt(s, s[i].n, Start(s, i))
    BY <1>1 DEF InAt
  <1> QED
    BY <1>1, <1>3, <1>4, <1>6, <1>7 DEF Lies

\* A name that lies somewhere is held there, so in one place.
LEMMA LiesOnce ==
    ASSUME NEW d, NEW names, Filled(d, names), NEW n \in Name,
           NEW b, NEW o \in Nat, Lies(d, n, b, o), NEW c, NEW p \in Nat, Lies(d, n, c, p)
    PROVE  b = c /\ o = p
  <1>1. PICK i \in DOMAIN Records(d, b) : Records(d, b)[i].n = n /\ Start(Records(d, b), i) = o
    BY DEF Lies, InAt
  <1>2. PICK j \in DOMAIN Records(d, c) : Records(d, c)[j].n = n /\ Start(Records(d, c), j) = p
    BY DEF Lies, InAt
  <1>3. HeldIn(d, n, b) /\ HeldIn(d, n, c) /\ b \in DOMAIN d.blocks /\ c \in DOMAIN d.blocks
    BY <1>1, <1>2 DEF Lies, HeldIn, Holds
  <1>4. b = c
    BY <1>3 DEF Filled
  <1>5. i = j
    BY <1>1, <1>2, <1>3, <1>4 DEF Filled, RecordsOK
  <1> QED
    BY <1>1, <1>2, <1>4, <1>5

\* A name of the directory has a place.
LEMMA LiesSomewhere ==
    ASSUME NEW d, NEW names, Filled(d, names), NEW n \in Name, n \in names
    PROVE  \E b, o \in Nat : b >= 1 /\ Lies(d, n, b, o)
  <1>1. d \in Directory /\ DOMAIN d.blocks = 1 .. Len(d.blocks) /\ Len(d.blocks) \in Nat
    BY BlocksAre DEF Filled
  <1>2. PICK b \in DOMAIN d.blocks : HeldIn(d, n, b)
    BY DEF Filled
  <1>3. Records(d, b) \in Seq(Record)
    BY <1>1, BlockFacts
  <1>4. PICK o \in Nat : InAt(Records(d, b), n, o)
    BY <1>2, <1>3, HoldsIn DEF HeldIn
  <1> QED
    BY <1>1, <1>2, <1>4 DEF Lies

\* A reading of a directory with these names; those kept stay on their side of a place.
ReadsOn(d, names, r) == r \in Readings /\ r.due \subseteq names /\ r.got \subseteq names /\ Reading(d, r)
Steady(d, e, at, kept) ==
  \A n \in kept \cap Name : \A b, o \in Nat :
    Lies(d, n, b, o) => \E c, p \in Nat : Lies(e, n, c, p) /\ (Past(at, c, p) <=> Past(at, b, o))

\* Names that lie where they did are on their side.
LEMMA StaySteady ==
    ASSUME NEW d, NEW e, NEW at, NEW kept,
           \A n \in kept \cap Name : \A b : \A o \in Nat : Lies(d, n, b, o) => Lies(e, n, b, o)
    PROVE  Steady(d, e, at, kept)
  BY DEF Steady

\* A reading goes on in a changed directory.
LEMMA ReadingGoesOn ==
    ASSUME NEW names, Filled(dir, names), ReadsOn(dir, names, rd),
           NEW d, NEW new, Filled(d, new), Len(dir.blocks) <= Len(d.blocks), NEW kept, kept \in SUBSET new,
           NEW carried, Steady(dir, d, rd.at, kept \ carried), NEW r, r = ReadingIn(d, carried, kept)
    PROVE  ReadsOn(d, new, r)
  <1>1. /\ rd \in Readings /\ rd.due \subseteq names /\ rd.got \subseteq names /\ Reading(dir, rd)
        /\ rd.at \in Nat \X Nat /\ rd.due \subseteq Name /\ rd.got \subseteq Name /\ ~rd.again
    BY DEF ReadsOn, Reading, Readings
  <1>2. PICK missed : missed = IF Outdated(d) THEN Names(Records(d, rd.at[1])) ELSE {}
    OBVIOUS
  <1>3. r = [rd EXCEPT !.due = (@ \cap kept) \ (carried \cup missed), !.got = (@ \cap kept) \ carried]
    BY <1>2 DEF ReadingIn
  <1>4. /\ r.at = rd.at /\ r.again = rd.again /\ r.cut = rd.cut
        /\ r.due = (rd.due \cap kept) \ (carried \cup missed) /\ r.got = (rd.got \cap kept) \ carried
    BY <1>1, <1>3 DEF Readings
  <1>5. r \in Readings
    BY <1>1, <1>3 DEF Readings
  <1>6. r.due \subseteq new /\ r.got \subseteq new /\ r.due \subseteq Name /\ r.got \subseteq Name
    BY <1>1, <1>4
  <1>7. CASE rd.at = End
    <2>1. rd.got = {} /\ (~rd.cut => rd.due = {})
      BY <1>1, <1>7 DEF Reading
    <2>2. r.got = {} /\ (~r.cut => r.due = {})
      BY <1>4, <2>1
    <2> QED
      BY <1>1, <1>4, <1>5, <1>6, <1>7, <2>2 DEF Reading, ReadsOn
  <1>8. CASE rd.at # End
    <2>1. PICK a, o : a = rd.at[1] /\ o = rd.at[2]
      OBVIOUS
    <2>2. a \in Nat /\ o \in Nat /\ rd.at = <<a, o>>
      BY <1>1, <2>1
    <2>3. a \in DOMAIN d.blocks
      <3>1. DOMAIN d.blocks = 1 .. Len(d.blocks) /\ DOMAIN dir.blocks = 1 .. Len(dir.blocks)
              /\ Len(d.blocks) \in Nat /\ Len(dir.blocks) \in Nat
        BY BlocksAre DEF Filled
      <3>2. a \in 1 .. Len(dir.blocks)
        BY <1>1, <1>8, <2>1, <3>1 DEF Reading
      <3> QED
        BY <3>1, <3>2
    <2>4. ASSUME NEW n \in r.due
          PROVE  \E b, p \in Nat : Lies(d, n, b, p) /\ ~Past(r.at, b, p) /\ (b = r.at[1] => RecordAt(d, r.at) # {})
      <3>1. n \in rd.due /\ n \in (kept \ carried) \cap Name /\ n \notin missed /\ n \in Name
        BY <1>1, <1>4
      <3>2. PICK b, p \in Nat : Lies(dir, n, b, p) /\ ~Past(rd.at, b, p)
        BY <1>1, <1>8, <3>1 DEF Reading
      <3>3. PICK c, q \in Nat : Lies(d, n, c, q) /\ (Past(rd.at, c, q) <=> Past(rd.at, b, p))
        BY <3>1, <3>2 DEF Steady
      <3>4. ASSUME c = rd.at[1], RecordAt(d, rd.at) = {}
            PROVE  FALSE
        <4>1. missed = Names(Records(d, rd.at[1]))
          BY <1>2, <1>8, <3>4 DEF Outdated
        <4>2. \E i \in DOMAIN Records(d, rd.at[1]) : Records(d, rd.at[1])[i].n = n
          BY <3>3, <3>4 DEF Lies, InAt
        <4>3. n \in Names(Records(d, rd.at[1]))
          BY <3>1, <4>2, NameFacts DEF Names
        <4> QED
          BY <3>1, <4>1, <4>3
      <3>5. c = r.at[1] => RecordAt(d, r.at) # {}
        BY <1>4, <3>4
      <3>6. ~Past(r.at, c, q)
        BY <1>4, <3>2, <3>3
      <3> QED
        BY <3>3, <3>5, <3>6
    <2>5. ASSUME NEW n \in r.got
          PROVE  \E b, p \in Nat : Lies(d, n, b, p) /\ Past(r.at, b, p)
      <3>1. n \in rd.got /\ n \in (kept \ carried) \cap Name
        BY <1>1, <1>4
      <3>2. PICK b, p \in Nat : Lies(dir, n, b, p) /\ Past(rd.at, b, p)
        BY <1>1, <1>8, <3>1 DEF Reading
      <3>3. PICK c, q \in Nat : Lies(d, n, c, q) /\ (Past(rd.at, c, q) <=> Past(rd.at, b, p))
        BY <3>1, <3>2 DEF Steady
      <3>4. Past(r.at, c, q)
        BY <1>4, <3>2, <3>3
      <3> QED
        BY <3>3, <3>4
    <2>6. r.at # End /\ r.at \in Nat \X Nat /\ r.at[1] \in DOMAIN d.blocks /\ ~r.again
      BY <1>1, <1>4, <1>8, <2>1, <2>3
    <2>7. Reading(d, r)
      BY <1>6, <2>4, <2>5, <2>6 DEF Reading
    <2> QED
      BY <1>5, <1>6, <2>7 DEF ReadsOn
  <1> QED
    BY <1>7, <1>8

\* The records in use behind one, and the first of them.
LEMMA AfterFacts ==
    ASSUME NEW d, NEW names, Filled(d, names), NEW b \in DOMAIN d.blocks, NEW i \in Nat
    PROVE  \/ Ahead(d, b, i) = {} /\ After(d, b, i) = End
           \/ \E c \in DOMAIN d.blocks : \E j \in DOMAIN Records(d, c) :
                /\ After(d, b, i) = <<c, Start(Records(d, c), j)>>
                /\ c > b \/ (c = b /\ j > i)
                /\ Records(d, c)[j].n # Void
                /\ \A x \in Ahead(d, b, i) : x[1] > c \/ (x[1] = c /\ x[2] >= j)
  <1>1. PICK ahead : ahead = Ahead(d, b, i)
    OBVIOUS
  <1>2. /\ d \in Directory /\ DOMAIN d.blocks = 1 .. Len(d.blocks) /\ Len(d.blocks) \in Nat
        /\ LeafSize \in Nat /\ b \in Nat /\ i \in Nat
    <2>1. d \in Directory
      BY DEF Filled
    <2> QED
      BY <2>1, BlocksAre, DirAssumption
  <1>3. \A x \in ahead : /\ x[1] \in b .. Len(d.blocks) /\ x[1] \in Nat /\ x[2] \in Nat
                         /\ x[1] > b \/ x[2] > i
                         /\ x[2] \in DOMAIN Records(d, x[1]) /\ Records(d, x[1])[x[2]].n # Void
    BY <1>1, <1>2 DEF Ahead
  <1>4. After(d, b, i) = FirstOf(d, ahead)
    BY <1>1 DEF After
  <1>5. CASE ahead = {}
    BY <1>1, <1>4, <1>5 DEF FirstOf
  <1>6. CASE ahead # {}
    <2>1. PICK B : B = {x[1] : x \in ahead}
      OBVIOUS
    <2>2. B \in SUBSET Nat /\ B # {} /\ IsFiniteSet(B)
      <3>1. B \in SUBSET Nat /\ B # {} /\ B \subseteq b .. Len(d.blocks)
        BY <1>3, <1>6, <2>1
      <3>2. IsFiniteSet(b .. Len(d.blocks))
        <4>1. b \in Int /\ Len(d.blocks) \in Int
          BY <1>2
        <4> QED
          BY ONLY <4>1, FS_Interval
      <3> QED
        BY <3>1, <3>2, FS_Subset
    <2>3. PICK c : c = Min(B)
      OBVIOUS
    <2>4. c \in B /\ \A a \in B : c <= a
      BY <2>2, <2>3, MinFacts
    <2>5. PICK C : C = {x[2] : x \in {y \in ahead : y[1] = c}}
      OBVIOUS
    <2>6. PICK x \in ahead : x[1] = c
      BY <2>1, <2>4
    <2>7. C \in SUBSET Nat /\ C # {} /\ IsFiniteSet(C)
      <3>1. C \in SUBSET Nat /\ C # {} /\ C \subseteq 1 .. LeafSize
        BY <1>1, <1>3, <2>5, <2>6 DEF Ahead
      <3>2. IsFiniteSet(1 .. LeafSize)
        BY <1>2, FS_Interval
      <3> QED
        BY <3>1, <3>2, FS_Subset
    <2>8. PICK j : j = Min(C)
      OBVIOUS
    <2>9. j \in C /\ \A a \in C : j <= a
      BY <2>7, <2>8, MinFacts
    <2>10. PICK y \in ahead : y[1] = c /\ y[2] = j
      BY <2>5, <2>9
    <2>11. /\ c \in b .. Len(d.blocks)
           /\ c > b \/ j > i
           /\ j \in DOMAIN Records(d, c) /\ Records(d, c)[j].n # Void /\ c \in Nat /\ j \in Nat
      BY <1>3, <2>10
    <2>12. FirstOf(d, ahead) = <<c, Start(Records(d, c), j)>>
      BY <1>6, <2>1, <2>3, <2>5, <2>8 DEF FirstOf
    <2>13. ASSUME NEW a \in ahead
           PROVE  a[1] > c \/ (a[1] = c /\ a[2] >= j)
      <3>1. c <= a[1] /\ a[1] \in Nat /\ a[2] \in Nat
        BY <1>3, <2>1, <2>4
      <3>2. a[1] = c => j <= a[2]
        BY <2>5, <2>9
      <3> QED
        BY <2>11, <3>1, <3>2
    <2>14. c \in DOMAIN d.blocks /\ (c > b \/ (c = b /\ j > i))
      <3>1. b \in 1 .. Len(d.blocks)
        BY <1>2
      <3>2. c \in b .. Len(d.blocks) /\ (c > b \/ j > i)
        BY <2>11
      <3>3. c \in 1 .. Len(d.blocks) /\ (c > b \/ (c = b /\ j > i))
        BY ONLY <1>2, <3>1, <3>2
      <3> QED
        BY <1>2, <3>3
    <2> QED
      BY <1>1, <1>4, <2>11, <2>12, <2>13, <2>14
  <1> QED
    BY <1>5, <1>6

\* A name that lies not before a record, and is not that record's, is ahead.
LEMMA AheadFacts ==
    ASSUME NEW d, NEW names, Filled(d, names), NEW b \in DOMAIN d.blocks, NEW i \in DOMAIN Records(d, b),
           NEW at, at = <<b, Start(Records(d, b), i)>>, NEW m \in Name, m # Records(d, b)[i].n,
           NEW c \in Nat, NEW o \in Nat, Lies(d, m, c, o), ~Past(at, c, o)
    PROVE  \E j \in DOMAIN Records(d, c) : <<c, j>> \in Ahead(d, b, i) /\ Start(Records(d, c), j) = o
  <1>1. PICK j \in DOMAIN Records(d, c) : Records(d, c)[j].n = m /\ Start(Records(d, c), j) = o
    BY DEF Lies, InAt
  <1>2. /\ d \in Directory /\ DOMAIN d.blocks = 1 .. Len(d.blocks) /\ Len(d.blocks) \in Nat
        /\ c \in DOMAIN d.blocks /\ RecordsOK(Records(d, c)) /\ RecordsOK(Records(d, b))
    BY BlocksAre DEF Filled, Lies
  <1>3. j \in 1 .. LeafSize
    BY <1>2, PlaceFacts
  <1>4. Records(d, c)[j].n # Void
    BY <1>1, NameFacts
  <1>5. Start(Records(d, b), i) \in Nat
    BY <1>2, PlaceFacts
  <1>6. c > b \/ (c = b /\ Start(Records(d, b), i) <= o)
    BY <1>2, <1>5 DEF Past
  <1>7. c = b => j > i
    <2> SUFFICES ASSUME c = b
                 PROVE  j > i
      OBVIOUS
    <2>1. PICK s : s = Records(d, b)
      OBVIOUS
    <2>2. s \in Seq(Record) /\ i \in DOMAIN s /\ j \in DOMAIN s /\ i # j
      BY <1>1, <1>2, <2>1 DEF RecordsOK
    <2>3. Start(s, i) <= Start(s, j)
      BY <1>1, <1>2, <1>6, <2>1
    <2>4. i <= j
      BY <2>2, <2>3, StartsApart
    <2> QED
      BY <2>2, <2>4
  <1>8. c \in b .. Len(d.blocks)
    BY <1>2, <1>6
  <1>9. <<c, j>> \in Ahead(d, b, i)
    <2>1. c > b \/ j > i
      BY <1>6, <1>7
    <2> QED
      BY <1>1, <1>3, <1>4, <1>8, <2>1 DEF Ahead
  <1> QED
    BY <1>1, <1>9

\* ext4_dir_entry_rewind.
LEMMA RewindKeeps ==
    ASSUME NEW d, NEW names \in SUBSET Name, Filled(d, names),
           NEW r \in Readings, r.at = <<1, 0>>, r.due = names, r.got = {}, r.again = FALSE
    PROVE  r \in Readings /\ Reading(d, r) /\ r.due \subseteq names /\ r.got \subseteq names
  <1>1. r.at = <<1, 0>> /\ r.due = names /\ r.got = {} /\ r.again = FALSE
    OBVIOUS
  <1>2. r \in Readings
    OBVIOUS
  <1>3. r.at # End /\ r.at[1] = 1 /\ r.at[2] = 0
    BY <1>1 DEF End
  <1>4. r.at[1] \in DOMAIN d.blocks /\ RecordAt(d, r.at) # {}
    <2>1. Lies(d, Dots, r.at[1], r.at[2])
      BY <1>3 DEF Filled
    <2> QED
      BY <2>1 DEF Lies, InAt, RecordAt
  <1>5. \A n \in r.due : \E b, o \in Nat :
          Lies(d, n, b, o) /\ ~Past(r.at, b, o) /\ (b = r.at[1] => RecordAt(d, r.at) # {})
    <2> SUFFICES ASSUME NEW n \in names
                 PROVE  \E b, o \in Nat :
                          Lies(d, n, b, o) /\ ~Past(r.at, b, o) /\ (b = r.at[1] => RecordAt(d, r.at) # {})
      BY <1>1
    <2>1. PICK b, o \in Nat : b >= 1 /\ Lies(d, n, b, o)
      BY LiesSomewhere
    <2>2. ~Past(r.at, b, o)
      BY <1>3, <2>1 DEF Past
    <2> QED
      BY <1>4, <2>1, <2>2
  <1> QED
    BY <1>1, <1>2, <1>3, <1>4, <1>5 DEF Reading

\* A reading that goes on to the first record in use behind the i-th of block b: the names
\* due are behind that, those returned before all that are.
Awaits(d, b, i, due) ==
  \A m \in due : \E c \in DOMAIN d.blocks : \E j \in DOMAIN Records(d, c) :
    <<c, j>> \in Ahead(d, b, i) /\ Lies(d, m, c, Start(Records(d, c), j))
Leaves(d, b, i, got) ==
  \A m \in got : \E a, u \in Nat :
    /\ Lies(d, m, a, u)
    /\ a < b \/ (a = b /\ \A j \in DOMAIN Records(d, b) : j > i => u < Start(Records(d, b), j))
Comes(d, b, i, due, got, r) ==
  /\ due \subseteq Name /\ got \subseteq Name /\ Awaits(d, b, i, due) /\ Leaves(d, b, i, got)
  /\ r.at = After(d, b, i) /\ r.due = due /\ r.again = FALSE
  /\ r.at = End => r.got = {}
  /\ r.at # End => r.got = got
LEMMA ComesTo ==
    ASSUME NEW d, NEW names, Filled(d, names), NEW b \in DOMAIN d.blocks, NEW i \in Nat,
           NEW due, NEW got, NEW r, Comes(d, b, i, due, got, r)
    PROVE  r.at \in Nat \X Nat /\ Reading(d, r)
  <1>5. PICK next : next = After(d, b, i)
    OBVIOUS
  <1>6. /\ due \subseteq Name /\ got \subseteq Name /\ Awaits(d, b, i, due) /\ Leaves(d, b, i, got)
        /\ r.at = next /\ r.due = due /\ r.again = FALSE
        /\ next = End => r.got = {}
        /\ next # End => r.got = got
    BY <1>5 DEF Comes
  <1>1. d \in Directory /\ DOMAIN d.blocks = 1 .. Len(d.blocks) /\ Len(d.blocks) \in Nat /\ b \in Nat
    BY BlocksAre DEF Filled
  <1>2. ASSUME NEW m \in r.due
        PROVE  \E c \in DOMAIN d.blocks : \E j \in DOMAIN Records(d, c) :
                 <<c, j>> \in Ahead(d, b, i) /\ Lies(d, m, c, Start(Records(d, c), j))
    BY <1>6, <1>2 DEF Awaits
  <1>7. \/ Ahead(d, b, i) = {} /\ next = End
        \/ \E c \in DOMAIN d.blocks : \E j \in DOMAIN Records(d, c) :
             /\ next = <<c, Start(Records(d, c), j)>>
             /\ c > b \/ (c = b /\ j > i)
             /\ Records(d, c)[j].n # Void
             /\ \A x \in Ahead(d, b, i) : x[1] > c \/ (x[1] = c /\ x[2] >= j)
    <2>1. Filled(d, names) /\ b \in DOMAIN d.blocks /\ i \in Nat /\ next = After(d, b, i)
      BY <1>5
    <2> QED
      BY ONLY <2>1, AfterFacts
  <1>3. CASE Ahead(d, b, i) = {}
    <2>1. next = End
      <3>1. ASSUME NEW c \in DOMAIN d.blocks, NEW j \in DOMAIN Records(d, c), next = <<c, Start(Records(d, c), j)>>,
                   c > b \/ (c = b /\ j > i), Records(d, c)[j].n # Void
            PROVE  <<c, j>> \in Ahead(d, b, i)
        <4>1. j \in 1 .. LeafSize /\ RecordsOK(Records(d, c))
          BY <1>1, PlaceFacts DEF Filled
        <4>2. c \in b .. Len(d.blocks) /\ (c > b \/ j > i)
          BY <1>1, <3>1
        <4> QED
          BY <3>1, <4>1, <4>2 DEF Ahead
      <3> QED
        BY <1>3, <1>7, <3>1
    <2>2. r.due = {} /\ r.got = {}
      BY <1>6, <1>2, <1>3, <2>1
    <2>3. r.at \in Nat \X Nat
      BY <1>6, <2>1 DEF End
    <2> QED
      BY <1>6, <2>1, <2>2, <2>3 DEF Reading
  <1>4. CASE Ahead(d, b, i) # {}
    <2>0. PICK c \in DOMAIN d.blocks : \E j \in DOMAIN Records(d, c) :
            /\ next = <<c, Start(Records(d, c), j)>>
            /\ c > b \/ (c = b /\ j > i)
            /\ Records(d, c)[j].n # Void
            /\ \A x \in Ahead(d, b, i) : x[1] > c \/ (x[1] = c /\ x[2] >= j)
      BY <1>4, <1>7
    <2>1. PICK j \in DOMAIN Records(d, c) :
            /\ next = <<c, Start(Records(d, c), j)>>
            /\ c > b \/ (c = b /\ j > i)
            /\ Records(d, c)[j].n # Void
            /\ \A x \in Ahead(d, b, i) : x[1] > c \/ (x[1] = c /\ x[2] >= j)
      BY <2>0
    <2>2. PICK p : p = Start(Records(d, c), j)
      OBVIOUS
    <2>3. p \in Nat /\ c \in Nat /\ c >= 1 /\ RecordsOK(Records(d, c))
      <3>1. RecordsOK(Records(d, c)) /\ c \in Nat /\ c >= 1
        BY <1>1 DEF Filled
      <3> QED
        BY <1>1, <2>2, <3>1, PlaceFacts
    <2>4. next = <<c, p>> /\ next # End /\ next[1] = c /\ next[2] = p
      BY <2>1, <2>2, <2>3 DEF End
    <2>5. r.at = next /\ r.got = got
      BY <1>6, <2>4
    <2>6. RecordAt(d, r.at) # {}
      BY <2>2, <2>4, <2>5 DEF RecordAt
    <2>7. ASSUME NEW m \in r.due
          PROVE  \E a, u \in Nat : Lies(d, m, a, u) /\ ~Past(r.at, a, u) /\ (a = r.at[1] => RecordAt(d, r.at) # {})
      <3>0. PICK a \in DOMAIN d.blocks : \E k \in DOMAIN Records(d, a) :
              <<a, k>> \in Ahead(d, b, i) /\ Lies(d, m, a, Start(Records(d, a), k))
        BY <1>2
      <3>1. PICK k \in DOMAIN Records(d, a) :
              <<a, k>> \in Ahead(d, b, i) /\ Lies(d, m, a, Start(Records(d, a), k))
        BY <3>0
      <3>2. a > c \/ (a = c /\ k >= j)
        BY <2>1, <3>1
      <3>3. PICK u : u = Start(Records(d, a), k)
        OBVIOUS
      <3>4. a \in Nat /\ u \in Nat
        <4>1. RecordsOK(Records(d, a)) /\ a \in Nat
          BY <1>1 DEF Filled
        <4> QED
          BY <1>1, <3>3, <4>1, PlaceFacts
      <3>5. a = c => p <= u
        <4> SUFFICES ASSUME a = c
                     PROVE  p <= u
          OBVIOUS
        <4>1. PICK t : t = Records(d, c)
          OBVIOUS
        <4>2. t \in Seq(Record) /\ j \in DOMAIN t /\ k \in DOMAIN t /\ p = Start(t, j) /\ u = Start(t, k)
          BY <2>2, <2>3, <3>3, <4>1 DEF RecordsOK
        <4>3. j = k \/ j < k
          <5>1. j \in Nat /\ k \in Nat
            BY <4>2
          <5> QED
            BY <2>3, <3>2, <5>1
        <4>4. j < k => p < u
          BY <4>2, StartsApart
        <4> QED
          BY <2>3, <3>4, <4>2, <4>3, <4>4
      <3>6. ~Past(r.at, a, u)
        BY <2>3, <2>4, <2>5, <3>2, <3>4, <3>5 DEF Past
      <3> QED
        BY <2>6, <3>1, <3>3, <3>4, <3>6
    <2>8. ASSUME NEW m \in r.got
          PROVE  \E a, u \in Nat : Lies(d, m, a, u) /\ Past(r.at, a, u)
      <3>1. PICK a, u \in Nat :
              /\ Lies(d, m, a, u)
              /\ a < b \/ (a = b /\ \A k \in DOMAIN Records(d, b) : k > i => u < Start(Records(d, b), k))
        BY <1>6, <2>5, <2>8 DEF Leaves
      <3>2. a < c \/ (a = c /\ u < p)
        <4>1. CASE c = b
          BY <2>1, <2>2, <3>1, <4>1
        <4>2. CASE c > b
          BY <1>1, <2>3, <3>1, <4>2
        <4> QED
          BY <2>1, <4>1, <4>2
      <3>3. Past(r.at, a, u)
        BY <2>4, <2>5, <3>2 DEF Past
      <3> QED
        BY <3>1, <3>3
    <2>9. r.at \in Nat \X Nat /\ r.at[1] \in DOMAIN d.blocks /\ r.at # End
      BY <2>3, <2>4, <2>5
    <2>10. r.due \subseteq Name /\ r.got \subseteq Name /\ ~r.again
      BY <1>6, <2>5
    <2> QED
      BY <2>7, <2>8, <2>9, <2>10 DEF Reading
  <1> QED
    BY <1>3, <1>4

\* ext4_dir_entry_next: the name is not one it has returned, those due are still ahead.
LEMMA EntryNextKeeps ==
    ASSUME NEW d, NEW names \in SUBSET Name, Filled(d, names), NEW q \in Readings, Reading(d, q),
           q.due \subseteq names, q.got \subseteq names, q.at # End,
           NEW i \in RecordAt(d, q.at), NEW n, n = Records(d, q.at[1])[i].n,
           NEW next, next = After(d, q.at[1], i),
           NEW r, r = [at |-> next, due |-> q.due \ {n}, again |-> q.again \/ n \in q.got,
                       got |-> IF next = End THEN {} ELSE q.got \cup ({n} \cap q.due), cut |-> FALSE]
    PROVE  r \in Readings /\ Reading(d, r) /\ r.due \subseteq names /\ r.got \subseteq names
  <1>1. PICK b, o : b = q.at[1] /\ o = q.at[2]
    OBVIOUS
  <1>2. q.at = <<b, o>> /\ b \in Nat /\ o \in Nat /\ q.due \subseteq Name /\ q.got \subseteq Name /\ ~q.again
    BY <1>1 DEF Reading, Readings
  <1>3. /\ b \in DOMAIN d.blocks
        /\ \A m \in q.due : \E c, p \in Nat : Lies(d, m, c, p) /\ ~Past(q.at, c, p)
        /\ \A m \in q.got : \E c, p \in Nat : Lies(d, m, c, p) /\ Past(q.at, c, p)
    <2>1. b \in DOMAIN d.blocks
      BY <1>1 DEF Reading
    <2>2. \A m \in q.due : \E c, p \in Nat : Lies(d, m, c, p) /\ ~Past(q.at, c, p)
      BY DEF Reading
    <2>3. \A m \in q.got : \E c, p \in Nat : Lies(d, m, c, p) /\ Past(q.at, c, p)
      BY DEF Reading
    <2> QED
      BY <2>1, <2>2, <2>3
  <1>4. d \in Directory /\ RecordsOK(Records(d, b)) /\ DOMAIN d.blocks = 1 .. Len(d.blocks) /\ Len(d.blocks) \in Nat
    BY <1>3, BlocksAre DEF Filled
  <1>5. PICK s : s = Records(d, b)
    OBVIOUS
  <1>6. i \in DOMAIN s /\ Start(s, i) = o /\ n = s[i].n
    BY <1>1, <1>5 DEF RecordAt
  <1>7. Lies(d, n, b, o) /\ n \in Name \cup {Void, Dots} /\ i \in Nat
    <2>1. Lies(d, n, b, o) /\ n \in Name \cup {Void, Dots} /\ i \in 1 .. LeafSize
      BY <1>3, <1>4, <1>5, <1>6, PlaceFacts
    <2> QED
      BY <2>1
  <1>8. n \notin q.got
    <2> SUFFICES ASSUME n \in q.got
                 PROVE  FALSE
      OBVIOUS
    <2>1. PICK c, p \in Nat : Lies(d, n, c, p) /\ Past(q.at, c, p)
      BY <1>3
    <2>2. n \in Name
      BY <1>2
    <2>3. c = b /\ p = o
      BY <1>2, <1>7, <2>1, <2>2, LiesOnce
    <2> QED
      BY <1>2, <2>1, <2>3 DEF Past
  <1>9. PICK due, got : due = q.due \ {n} /\ got = q.got \cup ({n} \cap q.due)
    OBVIOUS
  <1>10. /\ r.at = next /\ r.due = due /\ r.again = FALSE /\ r.cut = FALSE
         /\ next = End => r.got = {}
         /\ next # End => r.got = got
    BY <1>2, <1>8, <1>9
  <1>11. /\ due \in SUBSET Name /\ got \in SUBSET Name /\ r.due \subseteq names /\ r.got \subseteq names
         /\ r.due \subseteq Name /\ r.got \subseteq Name
    BY <1>2, <1>9, <1>10
  <1>12. Awaits(d, b, i, due)
    <2> SUFFICES ASSUME NEW m \in due
                 PROVE  \E c \in DOMAIN d.blocks : \E j \in DOMAIN Records(d, c) :
                          <<c, j>> \in Ahead(d, b, i) /\ Lies(d, m, c, Start(Records(d, c), j))
      BY DEF Awaits
    <2>1. m \in q.due /\ m # n /\ m \in Name
      BY <1>2, <1>9
    <2>2. PICK c, p \in Nat : Lies(d, m, c, p) /\ ~Past(q.at, c, p)
      BY <1>3, <2>1
    <2>3. q.at = <<b, Start(Records(d, b), i)>> /\ i \in DOMAIN Records(d, b) /\ m # Records(d, b)[i].n
      BY <1>2, <1>5, <1>6, <2>1
    <2>4. \E j \in DOMAIN Records(d, c) : <<c, j>> \in Ahead(d, b, i) /\ Start(Records(d, c), j) = p
      <3>1. Filled(d, names) /\ b \in DOMAIN d.blocks
        BY <1>3
      <3> QED
        BY ONLY <2>1, <2>2, <2>3, <3>1, AheadFacts
    <2>5. c \in DOMAIN d.blocks
      BY <2>2 DEF Lies
    <2> QED
      BY <2>2, <2>4, <2>5
  <1>13. ASSUME NEW j \in DOMAIN Records(d, b), j > i
         PROVE  o < Start(Records(d, b), j)
    <2>1. s \in Seq(Record) /\ i \in DOMAIN s /\ j \in DOMAIN s
      BY <1>4, <1>5, <1>6, <1>13 DEF RecordsOK
    <2>2. Start(s, i) < Start(s, j)
      BY <1>13, <2>1, StartsApart
    <2> QED
      BY <1>5, <1>6, <2>2
  <1>14. Leaves(d, b, i, got)
    <2> SUFFICES ASSUME NEW m \in got
                 PROVE  \E a, u \in Nat :
                          /\ Lies(d, m, a, u)
                          /\ a < b \/ (a = b /\ \A j \in DOMAIN Records(d, b) : j > i => u < Start(Records(d, b), j))
      BY DEF Leaves
    <2>1. CASE m \in q.got
      <3>1. PICK a, u \in Nat : Lies(d, m, a, u) /\ Past(q.at, a, u)
        BY <1>3, <2>1
      <3>2. a < b \/ (a = b /\ u < o)
        BY <1>2, <3>1 DEF Past
      <3>3. ASSUME u < o, NEW j \in DOMAIN Records(d, b), j > i
            PROVE  u < Start(Records(d, b), j)
        <4>1. o < Start(Records(d, b), j) /\ Start(Records(d, b), j) \in Nat
          BY <1>3, <1>4, <1>13, <3>3, PlaceFacts
        <4> QED
          BY <1>2, <3>3, <4>1
      <3> QED
        BY <3>1, <3>2, <3>3
    <2>2. CASE m = n
      BY <1>2, <1>7, <1>13, <2>2
    <2> QED
      BY <1>9, <2>1, <2>2
  <1>15. next = After(d, b, i)
    BY <1>1
  <1>16. r.at \in Nat \X Nat /\ Reading(d, r)
    <2>1. Filled(d, names) /\ b \in DOMAIN d.blocks /\ i \in Nat
      BY <1>3, <1>7
    <2>2. Comes(d, b, i, due, got, r)
      BY <1>10, <1>11, <1>12, <1>14, <1>15 DEF Comes
    <2> QED
      BY ONLY <2>1, <2>2, ComesTo
  <1>17. r \in Readings
    BY <1>10, <1>11, <1>16 DEF Readings
  <1> QED
    BY <1>11, <1>16, <1>17

\* What ext4_dir_entry_next makes of a reading where no record begins.
GoesTo(q, next, r) ==
  \/ \E o \in q.at[2] + 1 .. LeafSize - 1 : r = [q EXCEPT !.at[2] = o]
  \/ r = [q EXCEPT !.at = next, !.got = IF next = End THEN {} ELSE @]
  \/ r = [q EXCEPT !.at = End, !.got = {}, !.cut = TRUE]

\* ext4_dir_entry_next where no record begins: the names due are in the blocks behind.
LEMMA OutdatedKeeps ==
    ASSUME NEW d, NEW names \in SUBSET Name, Filled(d, names), NEW q \in Readings, Reading(d, q),
           q.due \subseteq names, q.got \subseteq names, q.at # End, RecordAt(d, q.at) = {},
           NEW next, next = After(d, q.at[1], LeafSize), NEW r, GoesTo(q, next, r)
    PROVE  r \in Readings /\ Reading(d, r) /\ r.due \subseteq names /\ r.got \subseteq names
  <1>1. PICK b, o : b = q.at[1] /\ o = q.at[2]
    OBVIOUS
  <1>2. /\ q.at = <<b, o>> /\ b \in Nat /\ o \in Nat /\ q.due \subseteq Name /\ q.got \subseteq Name /\ ~q.again
        /\ q.again = FALSE /\ q.cut \in BOOLEAN /\ LeafSize \in Nat
    BY <1>1, DirAssumption DEF Reading, Readings
  <1>3. /\ b \in DOMAIN d.blocks
        /\ \A m \in q.due : \E c, p \in Nat : Lies(d, m, c, p) /\ c > b
        /\ \A m \in q.got : \E c, p \in Nat : Lies(d, m, c, p) /\ (c < b \/ (c = b /\ p < o))
    <2>1. b \in DOMAIN d.blocks
      BY <1>1 DEF Reading
    <2>2. ASSUME NEW m \in q.due
          PROVE  \E c, p \in Nat : Lies(d, m, c, p) /\ c > b
      <3>1. PICK c, p \in Nat : Lies(d, m, c, p) /\ ~Past(q.at, c, p) /\ (c = q.at[1] => RecordAt(d, q.at) # {})
        BY DEF Reading
      <3>2. c # b /\ ~(c < b)
        BY <1>1, <3>1 DEF Past
      <3> QED
        BY <1>2, <3>1, <3>2
    <2>3. ASSUME NEW m \in q.got
          PROVE  \E c, p \in Nat : Lies(d, m, c, p) /\ (c < b \/ (c = b /\ p < o))
      <3>1. PICK c, p \in Nat : Lies(d, m, c, p) /\ Past(q.at, c, p)
        BY DEF Reading
      <3> QED
        BY <1>1, <3>1 DEF Past
    <2> QED
      BY <2>1, <2>2, <2>3
  <1>4. ASSUME NEW p \in o + 1 .. LeafSize - 1, r = [q EXCEPT !.at[2] = p]
        PROVE  r \in Readings /\ Reading(d, r) /\ r.due \subseteq names /\ r.got \subseteq names
    <2>1. p \in Nat /\ p > o
      BY <1>2
    <2>2. r = [q EXCEPT !.at = <<b, p>>]
      BY <1>2, <1>4 DEF Readings
    <2>3. r.at = <<b, p>> /\ r.due = q.due /\ r.got = q.got /\ r.again = FALSE
      BY <1>2, <2>2 DEF Readings
    <2>4. r \in Readings
      BY <1>2, <2>1, <2>2 DEF Readings
    <2>5. r.at # End /\ r.at \in Nat \X Nat /\ r.at[1] = b /\ r.at[2] = p
      BY <1>2, <2>1, <2>3 DEF End
    <2>6. ASSUME NEW m \in r.due
          PROVE  \E c, u \in Nat : Lies(d, m, c, u) /\ ~Past(r.at, c, u) /\ (c = r.at[1] => RecordAt(d, r.at) # {})
      <3>1. PICK c, u \in Nat : Lies(d, m, c, u) /\ c > b
        BY <1>3, <2>3
      <3>2. c # b /\ ~(c < b)
        BY <1>2, <3>1
      <3> QED
        BY <2>5, <3>1, <3>2 DEF Past
    <2>7. ASSUME NEW m \in r.got
          PROVE  \E c, u \in Nat : Lies(d, m, c, u) /\ Past(r.at, c, u)
      <3>1. PICK c, u \in Nat : Lies(d, m, c, u) /\ (c < b \/ (c = b /\ u < o))
        BY <1>3, <2>3
      <3>2. c < b \/ (c = b /\ u < p)
        BY <1>2, <2>1, <3>1
      <3> QED
        BY <2>5, <3>1, <3>2 DEF Past
    <2>8. r.due \subseteq Name /\ r.got \subseteq Name /\ ~r.again /\ r.at[1] \in DOMAIN d.blocks
      BY <1>2, <1>3, <2>3, <2>5
    <2>9. Reading(d, r)
      BY <2>5, <2>6, <2>7, <2>8 DEF Reading
    <2> QED
      BY <2>3, <2>4, <2>9
  <1>5. ASSUME r = [q EXCEPT !.at = next, !.got = IF next = End THEN {} ELSE @]
        PROVE  r \in Readings /\ Reading(d, r) /\ r.due \subseteq names /\ r.got \subseteq names
    <2>1. /\ r.at = next /\ r.due = q.due /\ r.again = FALSE /\ r.cut = q.cut
          /\ next = End => r.got = {}
          /\ next # End => r.got = q.got
      BY <1>2, <1>5 DEF Readings
    <2>2. d \in Directory /\ DOMAIN d.blocks = 1 .. Len(d.blocks) /\ Len(d.blocks) \in Nat
      BY BlocksAre DEF Filled
    <2>3. Awaits(d, b, LeafSize, q.due)
      <3> SUFFICES ASSUME NEW m \in q.due
                   PROVE  \E c \in DOMAIN d.blocks : \E j \in DOMAIN Records(d, c) :
                            <<c, j>> \in Ahead(d, b, LeafSize) /\ Lies(d, m, c, Start(Records(d, c), j))
        BY DEF Awaits
      <3>1. PICK c, u \in Nat : Lies(d, m, c, u) /\ c > b
        BY <1>3
      <3>2. PICK j \in DOMAIN Records(d, c) : Records(d, c)[j].n = m /\ Start(Records(d, c), j) = u
        BY <3>1 DEF Lies, InAt
      <3>3. c \in DOMAIN d.blocks /\ RecordsOK(Records(d, c))
        BY <3>1 DEF Lies, Filled
      <3>4. j \in 1 .. LeafSize
        BY <2>2, <3>3, PlaceFacts
      <3>5. Records(d, c)[j].n # Void
        BY <1>2, <3>2, NameFacts
      <3>6. c \in b .. Len(d.blocks)
        BY <1>2, <2>2, <3>1, <3>3
      <3>7. <<c, j>> \in Ahead(d, b, LeafSize)
        BY <3>1, <3>2, <3>4, <3>5, <3>6 DEF Ahead
      <3> QED
        BY <3>1, <3>2, <3>3, <3>7
    <2>4. Leaves(d, b, LeafSize, q.got)
      <3> SUFFICES ASSUME NEW m \in q.got
                   PROVE  \E a, u \in Nat :
                            /\ Lies(d, m, a, u)
                            /\ a < b \/ (a = b /\ \A j \in DOMAIN Records(d, b) :
                                                    j > LeafSize => u < Start(Records(d, b), j))
        BY DEF Leaves
      <3>1. ASSUME NEW j \in DOMAIN Records(d, b), j > LeafSize
            PROVE  FALSE
        <4>1. RecordsOK(Records(d, b))
          BY <1>3 DEF Filled
        <4>2. j \in 1 .. LeafSize
          BY <1>3, <2>2, <4>1, PlaceFacts
        <4> QED
          BY <1>2, <3>1, <4>2
      <3> QED
        BY <1>3, <3>1
    <2>5. next = After(d, b, LeafSize)
      BY <1>1
    <2>6. r.at \in Nat \X Nat /\ Reading(d, r)
      <3>1. Comes(d, b, LeafSize, q.due, q.got, r)
        BY <1>2, <2>1, <2>3, <2>4, <2>5 DEF Comes
      <3>2. Filled(d, names) /\ b \in DOMAIN d.blocks /\ LeafSize \in Nat
        BY <1>2, <1>3
      <3> QED
        BY ONLY <3>1, <3>2, ComesTo
    <2>7. r.got \subseteq names /\ r.got \subseteq Name
      BY <1>2, <2>1
    <2>8. r \in Readings
      BY <1>5, <2>1, <2>6, <2>7 DEF Readings
    <2> QED
      BY <2>1, <2>6, <2>7, <2>8
  <1>6. ASSUME r = [q EXCEPT !.at = End, !.got = {}, !.cut = TRUE]
        PROVE  r \in Readings /\ Reading(d, r) /\ r.due \subseteq names /\ r.got \subseteq names
    <2>1. r.at = End /\ r.due = q.due /\ r.got = {} /\ r.again = FALSE /\ r.cut = TRUE
      BY <1>2, <1>6 DEF Readings
    <2>2. r \in Readings
      BY <1>2, <1>6 DEF Readings, End
    <2> QED
      BY <1>2, <2>1, <2>2 DEF Reading
  <1> QED
    BY <1>1, <1>4, <1>5, <1>6 DEF GoesTo

-----------------------------------------------------------------------------
(* The calls.                                                              *)

\* What a directory with an index is made of.
LEMMA IndexedIs ==
    ASSUME NEW d, NEW names, Filled(d, names), d.indexed
    PROVE  Indexed(d) <=> Tree(d) /\ InPlace(d)
  BY DEF Indexed, Tree, Filled

\* A call that leaves the directory d with these names, its reading as ReadingIn has it.
LEMMA CallKeeps ==
    ASSUME IInv, NEW d, NEW names \in SUBSET Name, Filled(d, names), Indexed(d),
           Len(dir.blocks) <= Len(d.blocks), NEW kept, kept \in SUBSET names,
           NEW carried, Steady(dir, d, rd.at, kept \ carried),
           dir' = d, there' = names, rd' = ReadingIn(d, carried, kept)
    PROVE  IInv'
  <1>1. Filled(dir, there) /\ ReadsOn(dir, there, rd)
    BY DEF IInv, Readings, ReadsOn
  <1>2. PICK r : r = ReadingIn(d, carried, kept)
    OBVIOUS
  <1>3. ReadsOn(d, names, r)
    BY <1>1, <1>2, ReadingGoesOn
  <1>4. rd' = r
    BY <1>2
  <1>5. Reading(dir, rd)'
    BY <1>3, <1>4 DEF ReadsOn
  <1>6. Filled(dir, there)'
    OBVIOUS
  <1>7. Indexed(dir)'
    OBVIOUS
  <1> QED
    BY <1>3, <1>4, <1>5, <1>6, <1>7 DEF IInv, Readings, ReadsOn

\* Where there is no index, none comes.
LEMMA PlainStays ==
    ASSUME NEW d, ~d.indexed, Indexed(d), d \in Directory, NEW e, SameEnts(d, e)
    PROVE  Indexed(e)
  <1>1. d.levels = 0 /\ \A b \in DOMAIN d.blocks : Ents(d, b) = <<>>
    BY DEF Indexed
  <1>2. /\ e \in Directory /\ ~e.indexed /\ e.levels = 0
        /\ \A b \in 1 .. Len(d.blocks) : Ents(e, b) = Ents(d, b)
        /\ \A b \in 1 .. Len(e.blocks) : b > Len(d.blocks) => Ents(e, b) = <<>>
    BY <1>1 DEF SameEnts
  <1>3. DOMAIN d.blocks = 1 .. Len(d.blocks) /\ DOMAIN e.blocks = 1 .. Len(e.blocks)
        /\ Len(d.blocks) \in Nat /\ Len(e.blocks) \in Nat
    BY <1>2, BlocksAre
  <1>4. ASSUME NEW b \in DOMAIN e.blocks
        PROVE  Ents(e, b) = <<>>
    <2>1. CASE b \in 1 .. Len(d.blocks)
      BY <1>1, <1>2, <1>3, <2>1
    <2>2. CASE b \notin 1 .. Len(d.blocks)
      BY <1>2, <1>3, <2>2
    <2> QED
      BY <2>1, <2>2
  <1> QED
    BY <1>2, <1>4 DEF Indexed

\* The facts about the present directory that every call begins with.
LEMMA Present ==
    ASSUME IInv
    PROVE  /\ there \in SUBSET Name /\ Filled(dir, there) /\ Indexed(dir) /\ dir \in Directory
           /\ DOMAIN dir.blocks = 1 .. Len(dir.blocks) /\ Len(dir.blocks) \in Nat
           /\ Len(dir.blocks) <= Len(dir.blocks)
           /\ \A n \in Name : Find(dir, n) = 0 => n \notin there
  <1>1. there \in SUBSET Name /\ Filled(dir, there) /\ Indexed(dir) /\ dir \in Directory
    BY DEF IInv, Filled
  <1>2. DOMAIN dir.blocks = 1 .. Len(dir.blocks) /\ Len(dir.blocks) \in Nat
    BY <1>1, BlocksAre
  <1>3. \A n \in Name : Find(dir, n) = 0 => n \notin there
    BY <1>1, FindFacts
  <1> QED
    BY <1>1, <1>2, <1>3

\* ext4_dir_add_entry without an index.
LEMMA AddPlainKeeps ==
    ASSUME IInv, NEW n \in Name, AddPlain(n)
    PROVE  IInv'
  <1>1. /\ there \in SUBSET Name /\ Filled(dir, there) /\ Indexed(dir) /\ dir \in Directory
        /\ DOMAIN dir.blocks = 1 .. Len(dir.blocks) /\ Len(dir.blocks) \in Nat
        /\ ~dir.indexed /\ n \notin there
    BY Present DEF AddPlain
  <1>2. PICK B : B = {c \in DOMAIN dir.blocks : Roomy(Records(dir, c), n) # {}}
    OBVIOUS
  <1>3. there \cup {n} \in SUBSET Name /\ there \in SUBSET (there \cup {n}) /\ n \notin there \cap Name
    BY <1>1
  <1>4. CASE B # {}
    <2>1. PICK b : b = Min(B)
      OBVIOUS
    <2>2. b \in B
      <3>1. B \in SUBSET (1 .. Len(dir.blocks)) /\ B \in SUBSET Nat
        BY <1>1, <1>2
      <3>2. IsFiniteSet(1 .. Len(dir.blocks))
        <4>1. 1 \in Int /\ Len(dir.blocks) \in Int
          BY <1>1
        <4> QED
          BY ONLY <4>1, FS_Interval
      <3>3. IsFiniteSet(B)
        BY <3>1, <3>2, FS_Subset
      <3> QED
        BY <1>4, <2>1, <3>1, <3>3, MinFacts
    <2>3. b \in 1 .. Len(dir.blocks) /\ Roomy(Records(dir, b), n) # {}
      BY <1>1, <1>2, <2>2
    <2>4. PICK e : e = Entering(dir, b, n)
      OBVIOUS
    <2>5. Filled(e, there \cup {n}) /\ Changed(dir, e, n, b)
      BY <1>1, <2>3, <2>4, InsertFacts
    <2>6. Added(e, n, {})
      BY <1>2, <1>4, <2>1, <2>4 DEF AddPlain, Entering
    <2>7. dir' = e /\ there' = there \cup {n} /\ rd' = ReadingIn(e, {}, there)
      BY <2>6 DEF Added
    <2>8. SameEnts(dir, e)
      BY <2>5 DEF Changed
    <2>9. Indexed(e) /\ Len(dir.blocks) <= Len(e.blocks)
      BY <1>1, <2>8, PlainStays DEF SameEnts
    <2>10. Steady(dir, e, rd.at, there \ {})
      BY <1>3, <2>5, StaySteady DEF Changed
    <2> QED
      BY <1>3, <2>5, <2>7, <2>9, <2>10, CallKeeps
  <1>5. CASE B = {}
    <2>1. PICK e, es : es = <<>> /\ e = [dir EXCEPT !.blocks = Append(@, Block(Whole(n), es))]
      OBVIOUS
    <2>2. CanAppend(dir) /\ Added(e, n, {})
      BY <1>2, <1>5, <2>1 DEF AddPlain
    <2>3. dir' = e /\ there' = there \cup {n} /\ rd' = ReadingIn(e, {}, there)
      BY <2>2 DEF Added
    <2>4. Len(dir.blocks) < MaxBlocks /\ MaxBlocks \in Nat
      BY <2>2, DirAssumption DEF CanAppend
    <2>5. BlockPut(dir, e, Whole(n), es)
      <3>1. Whole(n) \in Seq(Record) /\ es \in Seq(IndexEntry)
        BY <2>1, WholeFacts
      <3> QED
        BY <1>1, <2>1, <3>1, OneMore
    <2>6. /\ e \in Directory /\ e.indexed = dir.indexed /\ e.levels = dir.levels
          /\ Len(e.blocks) = Len(dir.blocks) + 1
          /\ \A c \in 1 .. Len(dir.blocks) : Records(e, c) = Records(dir, c) /\ Ents(e, c) = Ents(dir, c)
          /\ Records(e, Len(dir.blocks) + 1) = Whole(n) /\ Ents(e, Len(dir.blocks) + 1) = <<>>
      BY <2>1, <2>5 DEF BlockPut
    <2>7. /\ Filled(e, there \cup ({n} \cap Name))
          /\ \A m \in (Name \cup {Dots}) \ {n} : \A c : \A o \in Nat : Lies(dir, m, c, o) => Lies(e, m, c, o)
      BY <1>1, <2>4, <2>6, BlockComes
    <2>8. Filled(e, there \cup {n})
      <3>1. {n} \cap Name = {n}
        OBVIOUS
      <3> QED
        BY <2>7, <3>1
    <2>9. SameEnts(dir, e)
      BY <1>1, <2>4, <2>6 DEF SameEnts
    <2>10. Indexed(e) /\ Len(dir.blocks) <= Len(e.blocks)
      BY <1>1, <2>9, PlainStays DEF SameEnts
    <2>11. Steady(dir, e, rd.at, there \ {})
      BY <1>3, <2>7, StaySteady
    <2> QED
      BY <1>3, <2>3, <2>8, <2>10, <2>11, CallKeeps
  <1> QED
    BY <1>4, <1>5

\* ext4_dir_remove_entry.
LEMMA RemoveEntryKeeps ==
    ASSUME IInv, NEW n \in Name, RemoveEntry(n)
    PROVE  IInv'
  <1>1. /\ there \in SUBSET Name /\ Filled(dir, there) /\ Indexed(dir) /\ dir \in Directory
        /\ DOMAIN dir.blocks = 1 .. Len(dir.blocks)
    BY Present
  <1>2. PICK b : b = Find(dir, n)
    OBVIOUS
  <1>3. PICK e : e = Leaving(dir, b, n)
    OBVIOUS
  <1>4. b # 0 /\ dir' = e /\ there' = there \ {n} /\ rd' = ReadingIn(e, {}, there \ {n})
    BY <1>2, <1>3 DEF RemoveEntry, Leaving
  <1>5. HeldIn(dir, n, b) /\ b \in 1 .. Len(dir.blocks)
    <2>1. HeldIn(dir, n, b)
      BY <1>1, <1>2, <1>4, FindFacts
    <2> QED
      BY <1>1, <2>1 DEF HeldIn
  <1>6. Filled(e, there \ {n}) /\ Changed(dir, e, n, b)
    BY <1>1, <1>3, <1>5, CutFacts
  <1>7. /\ SameEnts(dir, e) /\ Len(dir.blocks) <= Len(e.blocks)
        /\ \A m \in Name : \A c \in 1 .. Len(e.blocks) : HeldIn(e, m, c) => HeldIn(dir, m, c)
        /\ Steady(dir, e, rd.at, (there \ {n}) \ {})
    <2>1. Steady(dir, e, rd.at, (there \ {n}) \ {})
      BY <1>6, StaySteady DEF Changed
    <2> QED
      BY <1>5, <1>6, <2>1 DEF Changed, SameEnts
  <1>8. Indexed(e)
    <2>1. CASE dir.indexed
      <3>1. Tree(dir) /\ InPlace(dir)
        BY <1>1, <2>1, IndexedIs
      <3>2. Tree(e) /\ InPlace(e)
        BY <1>7, <3>1, SamePlace
      <3>3. e.indexed
        BY <1>7, <2>1 DEF SameEnts
      <3> QED
        BY <1>6, <3>2, <3>3, IndexedIs
    <2>2. CASE ~dir.indexed
      BY <1>1, <1>7, <2>2, PlainStays
    <2> QED
      BY <2>1, <2>2
  <1>9. there \ {n} \in SUBSET Name /\ there \ {n} \in SUBSET (there \ {n})
    BY <1>1
  <1> QED
    BY <1>4, <1>6, <1>7, <1>8, <1>9, CallKeeps

\* ext4_dir_open and ext4_dir_entry_rewind.
LEMMA RewindStep ==
    ASSUME IInv, Rewind
    PROVE  IInv'
  <1>1. there \in SUBSET Name /\ Filled(dir, there) /\ Indexed(dir)
    BY Present
  <1>2. PICK r : r = [NotReading EXCEPT !.at = <<1, 0>>, !.due = there]
    OBVIOUS
  <1>3. rd' = r /\ dir' = dir /\ there' = there
    BY <1>2 DEF Rewind
  <1>4. r \in Readings /\ Reading(dir, r) /\ r.due \subseteq there /\ r.got \subseteq there
    <2>1. r \in Readings
      BY <1>1, <1>2 DEF Readings, NotReading
    <2>2. r.at = <<1, 0>> /\ r.due = there /\ r.got = {} /\ r.again = FALSE
      BY <1>2 DEF NotReading
    <2> QED
      BY <1>1, <2>1, <2>2, RewindKeeps
  <1>5. Reading(dir, rd)' /\ Filled(dir, there)' /\ Indexed(dir)'
    BY <1>1, <1>3, <1>4
  <1> QED
    BY <1>1, <1>3, <1>4, <1>5 DEF IInv, Readings

\* ext4_dir_entry_next.
LEMMA EntryNextStep ==
    ASSUME IInv, EntryNext
    PROVE  IInv'
  <1>1. there \in SUBSET Name /\ Filled(dir, there) /\ Indexed(dir)
    BY Present
  <1>2. rd \in Readings /\ Reading(dir, rd) /\ rd.due \subseteq there /\ rd.got \subseteq there
    BY DEF IInv, Readings
  <1>3. rd.at # End /\ dir' = dir /\ there' = there
    BY DEF EntryNext
  <1>4. PICK i \in RecordAt(dir, rd.at) :
          LET n == Records(dir, rd.at[1])[i].n
              next == After(dir, rd.at[1], i)
          IN  rd' = [at |-> next, due |-> rd.due \ {n}, again |-> rd.again \/ n \in rd.got,
                     got |-> IF next = End THEN {} ELSE rd.got \cup ({n} \cap rd.due), cut |-> FALSE]
    BY DEF EntryNext
  <1>5. PICK n, next : n = Records(dir, rd.at[1])[i].n /\ next = After(dir, rd.at[1], i)
    OBVIOUS
  <1>6. PICK r : r = [at |-> next, due |-> rd.due \ {n}, again |-> rd.again \/ n \in rd.got,
                      got |-> IF next = End THEN {} ELSE rd.got \cup ({n} \cap rd.due), cut |-> FALSE]
    OBVIOUS
  <1>7. rd' = r
    BY <1>4, <1>5, <1>6
  <1>8. r \in Readings /\ Reading(dir, r) /\ r.due \subseteq there /\ r.got \subseteq there
    BY <1>1, <1>2, <1>3, <1>5, <1>6, EntryNextKeeps
  <1>9. Reading(dir, rd)' /\ Filled(dir, there)' /\ Indexed(dir)'
    BY <1>1, <1>3, <1>7, <1>8
  <1> QED
    BY <1>1, <1>3, <1>7, <1>8, <1>9 DEF IInv, Readings

\* ext4_dir_entry_next where no record begins.
LEMMA EntryNextOutdatedStep ==
    ASSUME IInv, EntryNextOutdated
    PROVE  IInv'
  <1>1. there \in SUBSET Name /\ Filled(dir, there) /\ Indexed(dir)
    BY Present
  <1>2. rd \in Readings /\ Reading(dir, rd) /\ rd.due \subseteq there /\ rd.got \subseteq there
    BY DEF IInv, Readings
  <1>3. rd.at # End /\ RecordAt(dir, rd.at) = {} /\ dir' = dir /\ there' = there
    BY DEF EntryNextOutdated, Outdated
  <1>4. PICK next, r : next = After(dir, rd.at[1], LeafSize) /\ r = rd'
    OBVIOUS
  <1>5. GoesTo(rd, next, r)
    BY <1>4 DEF EntryNextOutdated, GoesTo
  <1>6. r \in Readings /\ Reading(dir, r) /\ r.due \subseteq there /\ r.got \subseteq there
    BY <1>1, <1>2, <1>3, <1>4, <1>5, OutdatedKeeps
  <1>7. Reading(dir, rd)' /\ Filled(dir, there)' /\ Indexed(dir)'
    BY <1>1, <1>3, <1>4, <1>6
  <1> QED
    BY <1>1, <1>3, <1>4, <1>6, <1>7 DEF IInv, Readings

\* What ext4_dir_dx_add_entry begins with, the index split: z is the entry of the leaf b
\* in which h is looked for, and there is room for one more behind it.
Ready(e, q, z, b, h) ==
  /\ SameNames(dir, e, there) /\ Tree(e) /\ InPlace(e) /\ e.indexed
  /\ z \in Slots(e) /\ LeafAt(e, z) = b /\ LastUpTo(e, z, h)
  /\ Length(e, z[1]) < Limit(Node(e, z[1])) /\ Last(q) = [b |-> Node(e, z[1]), at |-> z[2]]
  /\ b \in 1 .. Len(dir.blocks) /\ b \in 1 .. Len(e.blocks)

\* Where an addition can begin, the split of the index succeeds.
LEMMA DxBegins ==
    ASSUME IInv, NEW n \in Name, DxMayAdd(n)
    PROVE  n \notin there /\ \E z : Ready(Split(n).d, Split(n).p, z, Leaf(n), Hash[n])
  <1>1. /\ there \in SUBSET Name /\ Filled(dir, there) /\ Indexed(dir) /\ dir \in Directory
        /\ DOMAIN dir.blocks = 1 .. Len(dir.blocks) /\ Len(dir.blocks) \in Nat
        /\ dir.indexed /\ n \notin there
        /\ IndexFull(dir, Path(n)) => CanAppend(dir) /\ ~RootFull(dir, Path(n))
    BY Present DEF DxMayAdd
  <1>2. Tree(dir) /\ InPlace(dir)
    BY <1>1, IndexedIs
  <1>3. PICK h : h = Hash[n]
    OBVIOUS
  <1>4. h \in Nat
    BY <1>3, NameFacts
  <1>5. PICK x \in Slots(dir) : GetLeaf(dir, h) = PathTo(dir, x) /\ LastUpTo(dir, x, h)
    BY <1>2, <1>4, GetLeafFacts
  <1>6. Path(n) = PathTo(dir, x)
    BY <1>3, <1>5 DEF Path
  <1>7. PICK b : b = LeafAt(dir, x)
    OBVIOUS
  <1>8. Leaf(n) = b /\ b \in 2 .. Len(dir.blocks)
    BY <1>2, <1>6, <1>7, SlotFacts DEF Leaf
  <1>9. PICK g : g = SplitIndex(dir, PathTo(dir, x))
    OBVIOUS
  <1>10. PICK z : /\ SameNames(dir, g.d, there) /\ RoomMade(dir, g.d, x, z)
                  /\ Last(g.p) = [b |-> Node(g.d, z[1]), at |-> z[2]]
    <2>1. IndexFull(dir, PathTo(dir, x)) => CanAppend(dir) /\ ~RootFull(dir, PathTo(dir, x))
      BY <1>1, <1>6
    <2> QED
      BY <1>1, <1>2, <1>5, <1>9, <2>1, SplitFacts
  <1>11. PICK e, q : e = g.d /\ q = g.p
    OBVIOUS
  <1>12. /\ SameNames(dir, e, there) /\ RoomMade(dir, e, x, z)
         /\ Last(q) = [b |-> Node(e, z[1]), at |-> z[2]]
    BY <1>10, <1>11
  <1>13. /\ Tree(e) /\ InPlace(e) /\ e.indexed = dir.indexed
         /\ z \in Slots(e) /\ LeafAt(e, z) = LeafAt(dir, x) /\ LastUpTo(e, z, h)
         /\ Length(e, z[1]) < Limit(Node(e, z[1]))
    BY <1>5, <1>12 DEF RoomMade
  <1>14. b \in 1 .. Len(dir.blocks) /\ b \in 1 .. Len(e.blocks)
    <2>1. LeafAt(e, z) \in 2 .. Len(e.blocks)
      BY <1>13, SlotFacts
    <2> QED
      BY <1>1, <1>7, <1>8, <1>13, <2>1
  <1>15. Ready(e, q, z, b, h)
    BY <1>1, <1>7, <1>12, <1>13, <1>14 DEF Ready
  <1>16. Split(n).d = e /\ Split(n).p = q /\ Leaf(n) = b /\ Hash[n] = h
    BY <1>3, <1>6, <1>8, <1>9, <1>11 DEF Split
  <1> QED
    BY <1>1, <1>15, <1>16

\* The name enters a leaf in which it is looked for.
LEMMA EnteringKeeps ==
    ASSUME IInv, NEW n \in Name, n \notin there, NEW e, Tree(e), InPlace(e), e.indexed, Filled(e, there),
           Len(dir.blocks) <= Len(e.blocks), NEW carried, Steady(dir, e, rd.at, there \ carried),
           NEW b \in 1 .. Len(e.blocks), Finds(e, b, Hash[n]), Roomy(Records(e, b), n) # {},
           NEW f, f = Entering(e, b, n), Added(f, n, carried)
    PROVE  IInv'
  <1>1. /\ there \in SUBSET Name /\ there \cup {n} \in SUBSET Name /\ there \in SUBSET (there \cup {n})
    BY Present
  <1>2. Filled(f, there \cup {n}) /\ Changed(e, f, n, b)
    BY InsertFacts
  <1>3. /\ SameEnts(e, f)
        /\ \A m \in Name : \A c \in 1 .. Len(f.blocks) : HeldIn(f, m, c) => HeldIn(e, m, c) \/ (m = n /\ c = b)
        /\ \A m \in (Name \cup {Dots}) \ {n} : \A c : \A o \in Nat : Lies(e, m, c, o) => Lies(f, m, c, o)
    BY <1>2 DEF Changed
  <1>4. Tree(f) /\ InPlace(f)
    <2>1. \E x \in Slots(e) : LeafAt(e, x) = b /\ KeyOf(e, x, Hash[n])
      BY DEF Finds
    <2>2. \A m \in Name : \A c \in 1 .. Len(f.blocks) :
            HeldIn(f, m, c) => HeldIn(e, m, c) \/ \E x \in Slots(e) : LeafAt(e, x) = c /\ KeyOf(e, x, Hash[m])
      BY <1>3, <2>1
    <2> QED
      BY <1>3, <2>2, SamePlace
  <1>5. f.indexed /\ Len(dir.blocks) <= Len(f.blocks)
    <2>1. f.indexed /\ Len(e.blocks) <= Len(f.blocks) /\ f \in Directory
      BY <1>3 DEF SameEnts
    <2>2. Len(dir.blocks) \in Nat /\ Len(e.blocks) \in Nat /\ Len(f.blocks) \in Nat
      BY <2>1, Present, BlocksAre DEF Filled
    <2> QED
      BY <2>1, <2>2
  <1>6. Indexed(f)
    BY <1>2, <1>4, <1>5, IndexedIs
  <1>7. Steady(dir, f, rd.at, there \ carried)
    <2>1. \A m \in (there \ carried) \cap Name : m \in (Name \cup {Dots}) \ {n}
      OBVIOUS
    <2> QED
      BY <1>3, <2>1 DEF Steady
  <1>8. dir' = f /\ there' = there \cup {n} /\ rd' = ReadingIn(f, carried, there)
    BY DEF Added
  <1> QED
    BY <1>1, <1>2, <1>5, <1>6, <1>7, <1>8, CallKeeps

\* ext4_dir_dx_add_entry, where the leaf has room.
LEMMA DxAddInLeafKeeps ==
    ASSUME IInv, NEW n \in Name, DxAddInLeaf(n)
    PROVE  IInv'
  <1>1. PICK e, q, b, h : e = Split(n).d /\ q = Split(n).p /\ b = Leaf(n) /\ h = Hash[n]
    OBVIOUS
  <1>2. n \notin there /\ \E z : Ready(e, q, z, b, h)
    BY <1>1, DxBegins DEF DxAddInLeaf
  <1>3. PICK z : Ready(e, q, z, b, h)
    BY <1>2
  <1>4. PICK f : f = Entering(e, b, n)
    OBVIOUS
  <1>5. Added(f, n, {}) /\ Roomy(Records(dir, b), n) # {}
    BY <1>1, <1>4 DEF DxAddInLeaf, Entering
  <1>6. /\ Tree(e) /\ InPlace(e) /\ e.indexed /\ Filled(e, there) /\ Len(dir.blocks) <= Len(e.blocks)
        /\ b \in 1 .. Len(e.blocks) /\ Records(e, b) = Records(dir, b)
        /\ z \in Slots(e) /\ LeafAt(e, z) = b /\ LastUpTo(e, z, h)
        /\ \A m \in Name \cup {Dots} : \A c : \A o \in Nat : Lies(dir, m, c, o) => Lies(e, m, c, o)
    BY <1>3 DEF Ready, SameNames
  <1>7. Finds(e, b, Hash[n])
    <2>1. KeyAt(e, z) \in Nat /\ h \in Nat
      BY <1>1, <1>6, SlotFacts, NameFacts
    <2>2. KeyOf(e, z, h)
      BY <1>6, <2>1 DEF LastUpTo, KeyOf
    <2> QED
      BY <1>1, <1>6, <2>2 DEF Finds
  <1>8. Steady(dir, e, rd.at, there \ {})
    BY <1>6, StaySteady
  <1> QED
    BY <1>2, <1>4, <1>5, <1>6, <1>7, <1>8, EnteringKeeps

\* ext4_dir_dx_add_entry, where the leaf is full and no block can be appended.
LEMMA DxAddFailsKeeps ==
    ASSUME IInv, NEW n \in Name, DxAddFails(n)
    PROVE  IInv'
  <1>1. PICK e, q, b, h : e = Split(n).d /\ q = Split(n).p /\ b = Leaf(n) /\ h = Hash[n]
    OBVIOUS
  <1>2. PICK z : Ready(e, q, z, b, h)
    BY <1>1, DxBegins DEF DxAddFails
  <1>3. /\ Tree(e) /\ InPlace(e) /\ e.indexed /\ Filled(e, there) /\ Len(dir.blocks) <= Len(e.blocks)
        /\ \A m \in Name \cup {Dots} : \A c : \A o \in Nat : Lies(dir, m, c, o) => Lies(e, m, c, o)
    BY <1>2 DEF Ready, SameNames
  <1>4. Indexed(e)
    BY <1>3, IndexedIs
  <1>5. dir' = e /\ there' = there /\ rd' = ReadingIn(e, {}, there)
    BY <1>1 DEF DxAddFails
  <1>6. Steady(dir, e, rd.at, there \ {})
    BY <1>3, StaySteady
  <1>7. there \in SUBSET Name /\ there \in SUBSET there
    BY Present
  <1> QED
    BY <1>3, <1>4, <1>5, <1>6, <1>7, CallKeeps

\* The names that a split does not carry over the place of the reading stay on their side.
LEMMA SplitSteady ==
    ASSUME NEW at \in Nat \X Nat, rd.at = at, NEW names, NEW c, NEW d, NEW e, SameNames(c, d, names),
           Filled(e, names), NEW b \in 1 .. Len(d.blocks), NEW part, Scattered(d, e, b, part), d \in Directory
    PROVE  Steady(c, e, at, names \ Carried(b, part))
  <1>1. Len(d.blocks) \in Nat /\ b \in Nat /\ at[1] \in Nat /\ New(d) \in Nat /\ New(d) > b
    <2>1. Len(d.blocks) \in Nat
      BY BlocksAre
    <2> QED
      BY <2>1 DEF New
  <1> SUFFICES ASSUME NEW n \in (names \ Carried(b, part)) \cap Name, NEW a \in Nat, NEW o \in Nat, Lies(c, n, a, o)
               PROVE  \E f, p \in Nat : Lies(e, n, f, p) /\ (Past(at, f, p) <=> Past(at, a, o))
    BY DEF Steady
  <1>2. Lies(d, n, a, o) /\ n \in Name /\ n # Void /\ n # Dots
    BY NameFacts DEF SameNames
  <1>3. CASE a # b
    BY <1>2, <1>3 DEF Scattered
  <1>4. CASE a = b
    <2>1. HeldIn(d, n, b)
      BY <1>2, <1>4 DEF HeldIn, Lies, InAt, Holds
    <2>2. ASSUME NEW f, HeldIn(e, n, f)
          PROVE  \E p \in Nat : Lies(e, n, f, p)
      <3>1. Records(e, f) \in Seq(Record) /\ Holds(Records(e, f), n) /\ f \in DOMAIN e.blocks
        BY <2>2, BlockFacts DEF HeldIn, Filled
      <3> QED
        BY <3>1, HoldsIn DEF Lies
    <2>3. CASE Holds(part.left, n) /\ HeldIn(e, n, b)
      <3>1. PICK p \in Nat : Lies(e, n, b, p)
        BY <2>2, <2>3
      <3>2. n \in Names(part.left)
        BY <1>2, <2>3 DEF Holds, Names
      <3>3. at[1] # b
        BY <3>2 DEF Carried
      <3>4. Past(at, b, p) <=> Past(at, a, o)
        BY <1>4, <3>3 DEF Past
      <3> QED
        BY <1>1, <3>1, <3>4
    <2>4. CASE Holds(part.right, n) /\ HeldIn(e, n, New(d))
      <3>1. PICK p \in Nat : Lies(e, n, New(d), p)
        BY <2>2, <2>4
      <3>2. n \in Names(part.right)
        BY <1>2, <2>4 DEF Holds, Names
      <3>3. ~(at[1] >= b)
        BY <3>2 DEF Carried
      <3>4. at[1] < b /\ at[1] < New(d)
        BY <1>1, <3>3
      <3>5. ~Past(at, a, o)
        BY <1>1, <1>4, <3>4 DEF Past
      <3>6. ~Past(at, New(d), p)
        BY <1>1, <3>4 DEF Past
      <3> QED
        BY <1>1, <3>1, <3>5, <3>6
    <2> QED
      BY <2>1, <2>3, <2>4 DEF Scattered
  <1> QED
    BY <1>3, <1>4

\* ext4_dir_dx_add_entry, where the leaf is split.
LEMMA DxAddSplittingKeeps ==
    ASSUME Departures = {}, IInv, NEW n \in Name, DxAddSplitting(n)
    PROVE  IInv'
  <1>1. PICK e, q, b, h, old : /\ e = Split(n).d /\ q = Split(n).p /\ b = Leaf(n) /\ h = Hash[n]
                               /\ old = Records(dir, Leaf(n))
    OBVIOUS
  <1>2. n \notin there /\ \E z : Ready(e, q, z, b, h)
    BY <1>1, DxBegins DEF DxAddSplitting
  <1>3. PICK z : Ready(e, q, z, b, h)
    BY <1>2
  <1>4. /\ Tree(e) /\ InPlace(e) /\ e.indexed /\ Filled(e, there) /\ Len(dir.blocks) <= Len(e.blocks)
        /\ z \in Slots(e) /\ b = LeafAt(e, z) /\ LastUpTo(e, z, h)
        /\ Length(e, z[1]) < Limit(Node(e, z[1])) /\ Last(q) = [b |-> Node(e, z[1]), at |-> z[2]]
        /\ old = Records(e, b)
    BY <1>1, <1>3 DEF Ready, SameNames
  <1>5. CanAppend(e)
    BY <1>1 DEF DxAddSplitting
  <1>6. PICK s \in Sorted(Names(old)) : \E p \in Parts(s, old) :
          LET d == SplitData(e, q, b, p)
              c == Chosen(h, p.key, b, New(e))
              fits == Roomy(Records(d, c), n) # {}
          IN  /\ SizeTo(s, Len(s)) <= Half => May("sparse")
              /\ fits \/ May("unplaced")
              /\ Added(IF fits THEN [d EXCEPT !.blocks[c].records = Insert(@, n)] ELSE d, n, Carried(b, p))
    BY <1>1 DEF DxAddSplitting
  <1>60. PICK part \in Parts(s, old) :
          LET d == SplitData(e, q, b, part)
              c == Chosen(h, part.key, b, New(e))
              fits == Roomy(Records(d, c), n) # {}
          IN  /\ SizeTo(s, Len(s)) <= Half => May("sparse")
              /\ fits \/ May("unplaced")
              /\ Added(IF fits THEN [d EXCEPT !.blocks[c].records = Insert(@, n)] ELSE d, n, Carried(b, part))
    BY <1>6
  <1>7. PICK d, c : d = SplitData(e, q, b, part) /\ c = Chosen(h, part.key, b, New(e))
    OBVIOUS
  <1>8. ~May("sparse") /\ ~May("unplaced")
    BY DEF May
  <1>9. /\ ~(SizeTo(s, Len(s)) <= Half) /\ Roomy(Records(d, c), n) # {}
        /\ Added([d EXCEPT !.blocks[c].records = Insert(@, n)], n, Carried(b, part))
    BY <1>60, <1>7, <1>8
  <1>10. PICK f : f = Entering(d, c, n)
    OBVIOUS
  <1>11. Added(f, n, Carried(b, part))
    BY <1>9, <1>10 DEF Entering
  <1>12. SplitDone(e, d, there, z, b, part.key) /\ Scattered(e, d, b, part)
    BY <1>4, <1>5, <1>7, <1>9, SplitDataFacts
  <1>13. h \in Nat
    BY <1>1, NameFacts
  <1>14. /\ Tree(d) /\ InPlace(d) /\ Filled(d, there) /\ d.indexed /\ Len(d.blocks) = Len(e.blocks) + 1
         /\ Finds(d, c, h)
    BY <1>4, <1>7, <1>12, <1>13 DEF SplitDone
  <1>15. c \in 1 .. Len(d.blocks)
    <2>1. PICK y \in Slots(d) : LeafAt(d, y) = c
      BY <1>14 DEF Finds
    <2>2. c \in 2 .. Len(d.blocks)
      BY <1>14, <2>1, SlotFacts
    <2> QED
      BY <2>2
  <1>16. Len(dir.blocks) <= Len(d.blocks)
    <2>1. Len(dir.blocks) \in Nat /\ Len(e.blocks) \in Nat
      BY <1>4, Present, BlocksAre DEF Tree
    <2> QED
      BY <1>4, <1>14, <2>1
  <1>17. Finds(d, c, Hash[n])
    BY <1>1, <1>14
  <1>18. Steady(dir, d, rd.at, there \ Carried(b, part))
    <2>1. rd.at \in Nat \X Nat
      BY DEF IInv
    <2>2. SameNames(dir, e, there) /\ b \in 1 .. Len(e.blocks) /\ e \in Directory
      BY <1>3, <1>4 DEF Ready, Tree
    <2> QED
      BY <1>12, <1>14, <2>1, <2>2, SplitSteady
  <1> QED
    BY <1>2, <1>9, <1>10, <1>11, <1>14, <1>15, <1>16, <1>17, <1>18, EnteringKeeps

-----------------------------------------------------------------------------
(* The theorems.                                                           *)

\* A new directory.
LEMMA NewDirectory ==
    ASSUME NEW d, NEW hashed, hashed \in BOOLEAN,
           d.indexed = hashed, d.levels = 0, d \in Directory,
           DOMAIN d.blocks = 1 .. Len(d.blocks), Len(d.blocks) \in 1 .. MaxBlocks,
           Records(d, 1) = Whole(Dots),
           \A b \in 2 .. Len(d.blocks) : Records(d, b) = Whole(Void) /\ Ents(d, b) = <<>>,
           IF hashed THEN Ents(d, 1) = <<Entry(0, 2)>> /\ Len(d.blocks) = 2 ELSE Ents(d, 1) = <<>>
    PROVE  Filled(d, {}) /\ Indexed(d)
  <1>1. MaxBlocks \in Nat /\ Len(d.blocks) \in Nat /\ 1 \in 1 .. Len(d.blocks)
        /\ \A b \in 1 .. Len(d.blocks) : b = 1 \/ b \in 2 .. Len(d.blocks)
    BY DirAssumption
  <1>2. /\ RecordsOK(Whole(Dots)) /\ RecordsOK(Whole(Void)) /\ InAt(Whole(Dots), Dots, 0)
        /\ \A m : Holds(Whole(Dots), m) <=> m = Dots
        /\ \A m : Holds(Whole(Void), m) <=> m = Void
    BY WholeFacts
  <1>3. \A b \in DOMAIN d.blocks : RecordsOK(Records(d, b))
    BY <1>1, <1>2
  <1>4. \A m \in Name : \A b \in DOMAIN d.blocks : ~HeldIn(d, m, b)
    <2>1. \A m \in Name : m # Dots /\ m # Void
      BY DirAssumption
    <2> QED
      BY <1>1, <1>2, <2>1 DEF HeldIn
  <1>5. Lies(d, Dots, 1, 0)
    BY <1>1, <1>2 DEF Lies
  <1>6. Filled(d, {})
    BY <1>3, <1>4, <1>5 DEF Filled
  <1>7. CASE hashed
    <2>1. /\ Ents(d, 1) = <<Entry(0, 2)>> /\ Len(Ents(d, 1)) = 1 /\ DOMAIN Ents(d, 1) = {1}
          /\ Ents(d, 1)[1].b = 2 /\ Len(d.blocks) = 2 /\ d.indexed /\ d.levels = 0
      <3>1. Len(<<Entry(0, 2)>>) = 1 /\ DOMAIN <<Entry(0, 2)>> = {1} /\ <<Entry(0, 2)>>[1].b = 2
        BY DEF Entry
      <3> QED
        BY <1>7, <3>1
    <2>2. NodeSet(d) = {1} /\ \A k : Node(d, k) = 1
      BY <2>1 DEF NodeSet, Node
    <2>3. \A x \in Slots(d) : x = <<1, 1>> /\ LeafAt(d, x) = 2
      BY <2>1, <2>2 DEF Slots, LeafAt
    <2>4. Ents(d, 2) = <<>> /\ 2 \in 2 .. Len(d.blocks)
      BY <2>1
    <2>5. 1 \in 1 .. RootMax
      BY DirAssumption
    <2>6. \A k, j \in NodeSet(d) : Node(d, k) = Node(d, j) => k = j
      BY <2>2
    <2>7. \A x \in Slots(d) : LeafAt(d, x) \in 2 .. Len(d.blocks) /\ Ents(d, LeafAt(d, x)) = <<>>
      BY <2>3, <2>4
    <2>8. \A x, y \in Slots(d) : x = y
      BY <2>3
    <2>9. \A b \in 1 .. Len(d.blocks) : b = 1 \/ Ents(d, b) = <<>>
      BY <1>1
    <2>10. Shape(d)
      <3>1. Len(Ents(d, 1)) \in 1 .. RootMax /\ d.levels # 1
        <4>1. Len(Ents(d, 1)) = 1 /\ d.levels = 0
          BY <2>1
        <4>2. Len(Ents(d, 1)) \in 1 .. RootMax
          BY ONLY <2>5, <4>1
        <4>3. d.levels # 1
          BY ONLY <4>1
        <4> QED
          BY <4>2, <4>3
      <3>2. \A x, y \in Slots(d) : LeafAt(d, x) = LeafAt(d, y) => x = y
        BY <2>8
      <3>3. \A b \in 1 .. Len(d.blocks) : b = 1 \/ Ents(d, b) = <<>> \/ \E k \in NodeSet(d) : b = Node(d, k)
        BY <2>9
      <3> QED
        BY ONLY <2>6, <2>7, <3>1, <3>2, <3>3 DEF Shape
    <2>11. Ascending(d)
      <3>1. ~Before(<<1, 1>>, <<1, 1>>)
        BY DEF Before
      <3> QED
        BY <2>3, <3>1 DEF Ascending
    <2>12. InPlace(d)
      BY <1>4 DEF InPlace
    <2> QED
      BY <1>6, <2>1, <2>10, <2>11, <2>12 DEF Indexed
  <1>8. CASE ~hashed
    BY <1>1, <1>6, <1>8 DEF Indexed
  <1> QED
    BY <1>7, <1>8

\* The invariant holds in a new directory.
LEMMA InitHolds == Init => IInv
  <1> SUFFICES ASSUME Init
               PROVE  IInv
    OBVIOUS
  <1>1. /\ there = {} /\ rd = NotReading /\ (dir = Hashed \/ dir = Plain)
    BY DEF Init
  <1>2. PICK first, void : first = Whole(Dots) /\ void = Whole(Void)
    OBVIOUS
  <1>3. first \in Seq(Record) /\ void \in Seq(Record)
    BY <1>2, WholeFacts
  <1>4. MaxBlocks \in Nat /\ MaxBlocks >= 2
    BY DirAssumption
  <1>5. Filled(dir, {}) /\ Indexed(dir)
    <2>1. CASE dir = Hashed
      <3>1. PICK es, none : es = <<Entry(0, 2)>> /\ none = <<>>
        OBVIOUS
      <3>2. es \in Seq(IndexEntry) /\ none \in Seq(IndexEntry)
        BY <3>1 DEF Entry, IndexEntry
      <3>3. dir = [indexed |-> TRUE, levels |-> 0, blocks |-> <<Block(first, es), Block(void, none)>>]
        BY <1>2, <2>1, <3>1 DEF Hashed
      <3>4. Block(first, es) \in BlockType /\ Block(void, none) \in BlockType
        BY <1>3, <3>2 DEF Block, BlockType
      <3>5. dir.blocks \in Seq(BlockType) /\ Len(dir.blocks) = 2 /\ DOMAIN dir.blocks = 1 .. 2
        BY <3>3, <3>4
      <3>6. dir \in Directory /\ dir.indexed = TRUE /\ dir.levels = 0
        BY <3>3, <3>5 DEF Directory, BlockType
      <3>7. /\ Records(dir, 1) = first /\ Records(dir, 2) = void
            /\ Ents(dir, 1) = es /\ Ents(dir, 2) = none
        BY <3>3 DEF Records, Ents, Block
      <3>8. \A b \in 2 .. Len(dir.blocks) : b = 2
        BY <3>5
      <3>9. Len(dir.blocks) \in 1 .. MaxBlocks
        BY <1>4, <3>5
      <3> QED
        BY <1>2, <3>1, <3>5, <3>6, <3>7, <3>8, <3>9, NewDirectory
    <2>2. CASE dir = Plain
      <3>1. PICK none : none = <<>>
        OBVIOUS
      <3>2. none \in Seq(IndexEntry)
        BY <3>1
      <3>3. dir = [indexed |-> FALSE, levels |-> 0, blocks |-> <<Block(first, none)>>]
        BY <1>2, <2>2, <3>1 DEF Plain
      <3>4. Block(first, none) \in BlockType
        BY <1>3, <3>2 DEF Block, BlockType
      <3>5. dir.blocks \in Seq(BlockType) /\ Len(dir.blocks) = 1 /\ DOMAIN dir.blocks = 1 .. 1
        BY <3>3, <3>4
      <3>6. dir \in Directory /\ dir.indexed = FALSE /\ dir.levels = 0
        BY <3>3, <3>5 DEF Directory, BlockType
      <3>7. Records(dir, 1) = first /\ Ents(dir, 1) = none
        BY <3>3 DEF Records, Ents, Block
      <3>8. \A b \in 2 .. Len(dir.blocks) : FALSE
        BY <3>5
      <3>9. Len(dir.blocks) \in 1 .. MaxBlocks
        BY <1>4, <3>5
      <3> QED
        BY <1>2, <3>1, <3>5, <3>6, <3>7, <3>8, <3>9, NewDirectory
    <2> QED
      BY <1>1, <2>1, <2>2
  <1>6. rd.at = End /\ rd.due = {} /\ rd.got = {} /\ rd.again = FALSE /\ rd \in Readings
    BY <1>1 DEF NotReading, End, Readings
  <1>7. Reading(dir, rd)
    BY <1>6 DEF Reading
  <1> QED
    BY <1>1, <1>5, <1>6, <1>7 DEF IInv, Readings

\* One step of the directory.
LEMMA StepKeeps == Departures = {} /\ IInv /\ [Next]_vars => IInv'
  <1> SUFFICES ASSUME Departures = {}, IInv, [Next]_vars
               PROVE  IInv'
    OBVIOUS
  <1>1. CASE \E n \in Name : AddPlain(n)
    BY <1>1, AddPlainKeeps
  <1>2. CASE \E n \in Name : DxAddInLeaf(n)
    BY <1>2, DxAddInLeafKeeps
  <1>3. CASE \E n \in Name : DxAddFails(n)
    BY <1>3, DxAddFailsKeeps
  <1>4. CASE \E n \in Name : DxAddSplitting(n)
    BY <1>4, DxAddSplittingKeeps
  <1>5. CASE \E n \in Name : RemoveEntry(n)
    BY <1>5, RemoveEntryKeeps
  <1>6. CASE Rewind
    BY <1>6, RewindStep
  <1>7. CASE EntryNext
    BY <1>7, EntryNextStep
  <1>8. CASE EntryNextOutdated
    BY <1>8, EntryNextOutdatedStep
  <1>9. CASE UNCHANGED vars
    <2>1. dir' = dir /\ there' = there /\ rd' = rd
      BY <1>9 DEF vars
    <2>2. Filled(dir, there)' /\ Indexed(dir)' /\ Reading(dir, rd)'
      BY <2>1 DEF IInv
    <2> QED
      BY <2>1, <2>2 DEF IInv
  <1> QED
    BY <1>1, <1>2, <1>3, <1>4, <1>5, <1>6, <1>7, <1>8, <1>9 DEF Next

\* The entries of a block of an index: within their limit, and their keys ascend.
LEMMA EntsFacts ==
    ASSUME NEW d, NEW names, Filled(d, names), Indexed(d), NEW b \in DOMAIN d.blocks
    PROVE  /\ Len(Ents(d, b)) <= Limit(b)
           /\ \A i, j \in 2 .. Len(Ents(d, b)) : i < j => Ents(d, b)[i].h <= Ents(d, b)[j].h
  <1>1. /\ RootMax \in Nat /\ NodeMax \in Nat /\ Limit(b) \in Nat /\ d \in Directory
        /\ DOMAIN d.blocks = 1 .. Len(d.blocks) /\ Len(d.blocks) \in Nat
    BY DirAssumption, BlocksAre DEF Limit, Filled
  <1>2. CASE Ents(d, b) = <<>>
    <2>1. Len(Ents(d, b)) = 0
      BY <1>2
    <2> QED
      BY <1>1, <2>1
  <1>3. CASE Ents(d, b) # <<>>
    <2>1. d.indexed
      BY <1>3 DEF Indexed
    <2>2. Tree(d) /\ Shape(d) /\ Ascending(d)
      BY <2>1, IndexedIs DEF Tree
    <2>3. /\ d.levels \in 0 .. 1 /\ Width(d) \in Nat /\ Width(d) >= 1 /\ NodeSet(d) = 1 .. Width(d)
          /\ \A k \in 1 .. Width(d) : Length(d, k) \in Nat /\ Length(d, k) >= 1
          /\ \A k, j : <<k, j>> \in Slots(d) <=> k \in 1 .. Width(d) /\ j \in 1 .. Length(d, k)
      BY <2>2, IndexFacts
    <2>4. ASSUME NEW k \in 1 .. Width(d), b = Node(d, k), NEW i \in 2 .. Len(Ents(d, b)),
                 NEW j \in 2 .. Len(Ents(d, b)), i < j
          PROVE  Ents(d, b)[i].h <= Ents(d, b)[j].h
      <3>1. /\ Len(Ents(d, b)) = Length(d, k) /\ i \in 1 .. Length(d, k) /\ j \in 1 .. Length(d, k)
            /\ i # 1 /\ j # 1
        BY <2>3, <2>4 DEF Length
      <3>2. <<k, i>> \in Slots(d) /\ <<k, j>> \in Slots(d) /\ Before(<<k, i>>, <<k, j>>)
        BY <2>3, <2>4, <3>1 DEF Before
      <3>3. KeyAt(d, <<k, i>>) = Ents(d, b)[i].h /\ KeyAt(d, <<k, j>>) = Ents(d, b)[j].h
        BY <2>4, <3>1 DEF KeyAt
      <3> QED
        BY <2>2, <3>2, <3>3 DEF Ascending
    <2>5. CASE b = 1 /\ d.levels = 0
      <3>1. 1 \in 1 .. Width(d) /\ b = Node(d, 1)
        BY <2>3, <2>5 DEF Node
      <3>2. Len(Ents(d, b)) <= Limit(b)
        BY <1>1, <2>2, <2>5 DEF Shape, Limit
      <3> QED
        BY <2>4, <3>1, <3>2
    <2>6. CASE b = 1 /\ d.levels = 1
      <3>1. Len(Ents(d, b)) <= Limit(b) /\ Width(d) = Len(Ents(d, b))
        BY <1>1, <2>2, <2>6 DEF Shape, Limit, Width
      <3>2. ASSUME NEW i \in 2 .. Len(Ents(d, b)), NEW j \in 2 .. Len(Ents(d, b)), i < j
            PROVE  Ents(d, b)[i].h <= Ents(d, b)[j].h
        <4>1. /\ i \in 1 .. Width(d) /\ j \in 1 .. Width(d) /\ i # 1 /\ j # 1
              /\ 1 \in 1 .. Length(d, i) /\ 1 \in 1 .. Length(d, j)
          BY <2>3, <3>1
        <4>2. <<i, 1>> \in Slots(d) /\ <<j, 1>> \in Slots(d) /\ Before(<<i, 1>>, <<j, 1>>)
          BY <2>3, <3>2, <4>1 DEF Before
        <4>3. KeyAt(d, <<i, 1>>) = Ents(d, b)[i].h /\ KeyAt(d, <<j, 1>>) = Ents(d, b)[j].h
          BY <2>6, <4>1 DEF KeyAt
        <4> QED
          BY <2>2, <4>2, <4>3 DEF Ascending
      <3> QED
        BY <3>1, <3>2
    <2>7. CASE b # 1
      <3>1. PICK k \in 1 .. Width(d) : b = Node(d, k)
        BY <1>1, <1>3, <2>2, <2>3, <2>7 DEF Shape
      <3>2. d.levels = 1
        BY <2>3, <2>7, <3>1 DEF Node
      <3>3. Len(Ents(d, b)) <= Limit(b)
        BY <1>1, <2>2, <2>3, <2>7, <3>1, <3>2 DEF Shape, Limit
      <3> QED
        BY <2>4, <3>1, <3>3
    <2> QED
      BY <2>3, <2>5, <2>6, <2>7
  <1> QED
    BY <1>2, <1>3

\* The invariant implies the properties.
LEMMA TypeFollows == IInv => TypeOK
  <1> SUFFICES ASSUME IInv
               PROVE  TypeOK
    OBVIOUS
  <1>1. /\ there \subseteq Name /\ rd.due \subseteq there /\ rd.got \subseteq there
        /\ Filled(dir, there) /\ Indexed(dir)
    BY DEF IInv
  <1>2. /\ dir.indexed \in BOOLEAN /\ dir.levels \in 0 .. 1 /\ Len(dir.blocks) \in 1 .. MaxBlocks
        /\ \A b \in DOMAIN dir.blocks : RecordsOK(Records(dir, b))
    BY <1>1 DEF Filled, Directory
  <1>3. ASSUME NEW b \in DOMAIN dir.blocks
        PROVE  /\ Total(Records(dir, b)) = LeafSize
               /\ \A i \in DOMAIN Records(dir, b) :
                    Records(dir, b)[i].n # Void => Records(dir, b)[i].len >= Used(Records(dir, b)[i].n)
    <2>1. PICK s : s = Records(dir, b)
      OBVIOUS
    <2>2. RecordsOK(s)
      BY <1>2, <2>1
    <2>3. Total(s) = LeafSize /\ \A i \in DOMAIN s : s[i].n # Void => Used(s[i].n) <= s[i].len
      BY <2>2 DEF RecordsOK
    <2>4. \A i \in DOMAIN s : s[i].n # Void => s[i].len >= Used(s[i].n)
      BY ONLY <2>3
    <2> QED
      BY <2>1, <2>3, <2>4
  <1>4. ASSUME NEW b \in DOMAIN dir.blocks
        PROVE  /\ Len(Ents(dir, b)) <= Limit(b)
               /\ \A i, j \in 2 .. Len(Ents(dir, b)) : i < j => Ents(dir, b)[i].h <= Ents(dir, b)[j].h
    BY <1>1, EntsFacts
  <1> QED
    BY <1>1, <1>2, <1>3, <1>4 DEF TypeOK

\* A name that is there is found, and its record is the only one.
LEMMA NamesFollow == IInv => NamesFoundOnce
  <1> SUFFICES ASSUME IInv, NEW n \in Name
               PROVE  /\ Find(dir, n) # 0 <=> n \in there
                      /\ Cardinality(Listed(n)) = IF n \in there THEN 1 ELSE 0
    BY DEF NamesFoundOnce
  <1>1. Filled(dir, there) /\ Indexed(dir)
    BY DEF IInv
  <1>2. Find(dir, n) # 0 <=> n \in there
    BY <1>1, FindFacts
  <1>3. /\ dir \in Directory /\ \A b \in DOMAIN dir.blocks : RecordsOK(Records(dir, b))
        /\ n \in there <=> \E b \in DOMAIN dir.blocks : HeldIn(dir, n, b)
        /\ \A b, c \in DOMAIN dir.blocks : HeldIn(dir, n, b) /\ HeldIn(dir, n, c) => b = c
    BY <1>1 DEF Filled
  <1>4. ASSUME NEW x \in Listed(n)
        PROVE  /\ x = <<x[1], x[2]>> /\ x[1] \in DOMAIN dir.blocks /\ x[2] \in DOMAIN Records(dir, x[1])
               /\ Records(dir, x[1])[x[2]].n = n /\ HeldIn(dir, n, x[1])
    BY DEF Listed, HeldIn, Holds
  <1>5. CASE n \notin there
    <2>1. Listed(n) = {}
      BY <1>3, <1>4, <1>5
    <2> QED
      BY <1>2, <1>5, <2>1, FS_EmptySet
  <1>6. CASE n \in there
    <2>1. PICK b \in DOMAIN dir.blocks : HeldIn(dir, n, b)
      BY <1>3, <1>6
    <2>2. PICK i \in DOMAIN Records(dir, b) : Records(dir, b)[i].n = n
      BY <2>1 DEF HeldIn, Holds
    <2>3. i \in 1 .. LeafSize
      BY <1>3, <2>2, PlaceFacts
    <2>4. <<b, i>> \in Listed(n)
      BY <2>2, <2>3 DEF Listed
    <2>5. ASSUME NEW x \in Listed(n)
          PROVE  x = <<b, i>>
      <3>1. x = <<x[1], x[2]>> /\ x[1] = b
        BY <1>3, <1>4, <2>1
      <3>2. x[2] \in DOMAIN Records(dir, b) /\ Records(dir, b)[x[2]].n = n
        BY <1>4, <3>1
      <3>3. x[2] = i
        BY <1>3, <2>2, <3>2 DEF RecordsOK
      <3> QED
        BY <3>1, <3>3
    <2>6. Listed(n) = {<<b, i>>}
      BY <2>4, <2>5
    <2> QED
      BY <1>2, <1>6, <2>6, FS_Singleton
  <1> QED
    BY <1>5, <1>6

\* A reading that has ended without an error has nothing due.
LEMMA ReadingFollows == IInv => ReadingExact
  BY DEF IInv, Reading, ReadingExact

\* Where neither departure is followed, the inductive invariant holds in every state.
THEOREM InvariantKept ==
    ASSUME Departures = {}
    PROVE  Spec => []IInv
  <1>1. Init => IInv
    BY InitHolds
  <1>2. IInv /\ [Next]_vars => IInv'
    BY StepKeeps
  <1> QED
    BY <1>1, <1>2, PTL DEF Spec

\* The records of every block fill it, each with room for its name; the blocks of the index
\* stay within their limits, and their keys ascend.
THEOREM TypesHold ==
    ASSUME Departures = {}
    PROVE  Spec => []TypeOK
  BY InvariantKept, TypeFollows, PTL

\* However leaves and index have been split, a name that was added and not removed is found,
\* in one record and no second, and no other name is.
THEOREM EveryNameIsFound ==
    ASSUME Departures = {}
    PROVE  Spec => []NamesFoundOnce
  BY InvariantKept, NamesFollow, PTL

\* A reading keeps its place while names come and go and leaves are split.  If no error ends
\* it, it has returned every name that was there all the time, and none twice; excepted are
\* the names a split carried over its place, and those in the rest of a block in which no
\* record begins any more where it goes on.
THEOREM ReadingsAreExact ==
    ASSUME Departures = {}
    PROVE  Spec => []ReadingExact
  BY InvariantKept, ReadingFollows, PTL
=============================================================================
