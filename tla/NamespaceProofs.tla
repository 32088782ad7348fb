-------------------------- MODULE NamespaceProofs --------------------------
(***************************************************************************)
(* Proofs about Namespace, for every set of names and inodes, every depth  *)
(* and every limit of links, where no departure is followed: what names    *)
(* lead to is a tree, no file or directory is out of reach but the inodes  *)
(* that freeing lost, and links are counted exactly, after any sequence of *)
(* calls that succeed or fail and of removals that an error ends early.    *)
(*                                                                         *)
(* The tree is proved sound by a depth of each directory, one more than    *)
(* that of the directory it is in; paths come in only where a call takes   *)
(* one, and lead to directories of the depth of their length.              *)
(***************************************************************************)
EXTENDS Namespace, NumberFacts, SequenceTheorems, TLAPS

InodeRec == [kind : Kind \cup {"none", "lost"}, links : Nat, up : Inode \cup {0}]
EntryRec == [d : Inode, n : Name, c : Inode]
FsRec == [ino : [Inode -> InodeRec], ents : SUBSET EntryRec]
Place == [p : Seq(Name), c : Inode]

IsFile(x, i) == x.ino[i].kind = "file"
InUse(x, i) == x.ino[i].kind \in Kind
Links(x, i) == x.ino[i].links
Up(x, i) == x.ino[i].up

\* The names of an inode, and the directories in a directory.
NamesOf(x, i) == {e \in x.ents : e.c = i}
Subdirs(x, i) == {e \in x.ents : e.d = i /\ IsDir(x, e.c)}

-----------------------------------------------------------------------------
(* The inductive invariant.                                                *)

\* The tree: as TreeSound, but for the paths, and with the mount point in it.
Linked(x) ==
  /\ \A e, f \in x.ents : (e.d = f.d /\ e.n = f.n) \/ (e.c = f.c /\ IsDir(x, e.c)) => e = f
  /\ \A e \in x.ents : IsDir(x, e.d) /\ InUse(x, e.c) /\ e.c # Root
  /\ \A e \in x.ents : IsDir(x, e.c) => Up(x, e.c) = e.d
  /\ IsDir(x, Root) /\ Up(x, Root) = Root
  /\ \A i \in Inode \ {Root} : InUse(x, i) => \E e \in x.ents : e.c = i

\* The link count of a directory with k directories in it.
DirCount(l, k) ==
  /\ l = 2 + k \/ (DirIndex /\ l = 1)
  /\ DirIndex => l < LinkMax

\* The link counts.
Counted(x) ==
  \A i \in Inode :
    /\ IsFile(x, i) => Links(x, i) = Cardinality(NamesOf(x, i))
    /\ IsDir(x, i) => DirCount(Links(x, i), Cardinality(Subdirs(x, i)))
    /\ ~InUse(x, i) => Links(x, i) = 0 /\ Up(x, i) = 0

\* Each directory is one deeper than the one it is in.
Deeper(x, dep) ==
  /\ dep[Root] = 0
  /\ \A e \in x.ents : IsDir(x, e.c) => dep[e.c] = dep[e.d] + 1

\* The tree with the depths of its directories, nothing in one at the bound.
Sound(x, dep) ==
  /\ x \in FsRec /\ dep \in [Inode -> Nat]
  /\ Linked(x) /\ Counted(x) /\ Deeper(x, dep)
  /\ \A e \in x.ents : dep[e.d] < MaxDepth

\* A recursive removal of top: T are the directories it has still to remove.  It
\* leaves them only upwards, and meets nothing there that has another name; their paths
\* begin with its own; its count of levels is how deep it is below top.
Removal(x, dep, top, T, r) ==
  /\ top \in T /\ T \subseteq Inode /\ r.cur \in T
  /\ \A i \in T : IsDir(x, i) /\ dep[top] <= dep[i]
  /\ \A e \in x.ents : e.d \in T => e.c \in T \/ (IsFile(x, e.c) /\ Links(x, e.c) = 1)
  /\ \A i \in T \ {top} : Up(x, i) \in T
  /\ \A t \in Located(x) : t.c \in T => IsPrefix(r.path, t.p)
  /\ Links(x, top) # 1
  /\ r.path = <<>> => top = Root
  /\ r.path # <<>> => Entry(Up(x, top), Last(r.path), top) \in x.ents
  /\ r.depth > 0 => r.depth = dep[r.cur] - dep[top] + 1
  /\ r.depth = 0 => r.cur = top /\ Content(x, top) = {}

RmRec == [on : BOOLEAN, path : Seq(Name), cur : Inode \cup {0}, depth : 0 .. MaxDepth + 1]

IInv ==
  /\ rm \in RmRec
  /\ \E dep \in [Inode -> Nat] :
       /\ Sound(now, dep)
       /\ rm.on => \E top \in Inode, T \in SUBSET Inode : Removal(now, dep, top, T, rm)

-----------------------------------------------------------------------------
(* Sequences: the last element, what comes before it, prefixes.            *)

\* Appending, and taking away what was appended.
LEMMA AppendFacts ==
    ASSUME NEW S, NEW p \in Seq(S), NEW n \in S
    PROVE  /\ Append(p, n) \in Seq(S) /\ Append(p, n) # <<>>
           /\ Len(Append(p, n)) = Len(p) + 1
           /\ Front(Append(p, n)) = p /\ Last(Append(p, n)) = n
  BY DEF Front, Last

\* A sequence that is not empty has a last element.
LEMMA FrontFacts ==
    ASSUME NEW S, NEW p \in Seq(S), p # <<>>
    PROVE  /\ Front(p) \in Seq(S) /\ Last(p) \in S
           /\ Len(p) \in Nat \ {0} /\ Len(Front(p)) = Len(p) - 1
           /\ Append(Front(p), Last(p)) = p
  <1>1. PICK q \in Seq(S), n \in S : p = Append(q, n)
    BY SequenceEmptyOrAppend
  <1> QED
    BY <1>1, AppendFacts

\* Prefixes of sequences and of what they become by appending.
LEMMA PrefixFacts ==
    ASSUME NEW S, NEW p \in Seq(S)
    PROVE  /\ IsPrefix(p, p) /\ IsPrefix(<<>>, p)
           /\ \A q \in Seq(S) : IsPrefix(p, q) => Len(p) <= Len(q) /\ (Len(p) = Len(q) => p = q)
           /\ \A q \in Seq(S), n \in S : IsPrefix(p, q) => IsPrefix(p, Append(q, n))
           /\ \A q \in Seq(S) : IsPrefix(p, q) /\ p # q => q # <<>> /\ IsPrefix(p, Front(q))
  <1>1. ASSUME NEW q \in Seq(S), Len(p) <= Len(q)
        PROVE  IsPrefix(p, q) <=> \A i \in 1 .. Len(p) : p[i] = q[i]
    <2>1. SubSeq(p, 1, Len(p)) = p
      BY SubSeqFull
    <2>2. /\ SubSeq(q, 1, Len(p)) \in Seq(S) /\ Len(SubSeq(q, 1, Len(p))) = Len(p)
          /\ \A i \in 1 .. Len(p) : SubSeq(q, 1, Len(p))[i] = q[i]
      <3>1. \A i \in 1 .. Len(p) : q[i] \in S
        BY <1>1
      <3>2. Len(p) \in Int
        OBVIOUS
      <3> QED
        BY <3>1, <3>2, SubSeqProperties
    <2>3. (\A i \in 1 .. Len(p) : p[i] = q[i]) => p = SubSeq(q, 1, Len(p))
      BY <2>2, SeqEqual
    <2> QED
      BY <1>1, <2>1, <2>2, <2>3 DEF IsPrefix
  <1>2. IsPrefix(p, p) /\ IsPrefix(<<>>, p)
    BY DEF IsPrefix
  <1>3. ASSUME NEW q \in Seq(S), IsPrefix(p, q)
        PROVE  Len(p) <= Len(q) /\ (Len(p) = Len(q) => p = q)
    <2>1. Len(p) <= Len(q)
      BY <1>3 DEF IsPrefix
    <2> QED
      BY <1>1, <1>3, <2>1, SeqEqual
  <1>4. ASSUME NEW q \in Seq(S), NEW n \in S, IsPrefix(p, q)
        PROVE  IsPrefix(p, Append(q, n))
    <2>1. /\ Append(q, n) \in Seq(S) /\ Len(Append(q, n)) = Len(q) + 1
          /\ \A i \in 1 .. Len(q) : Append(q, n)[i] = q[i]
      BY AppendProperties
    <2>2. Len(p) <= Len(q) /\ \A i \in 1 .. Len(p) : p[i] = q[i]
      BY <1>1, <1>3, <1>4
    <2>3. \A i \in 1 .. Len(p) : p[i] = Append(q, n)[i]
      BY <2>1, <2>2
    <2>4. Len(p) <= Len(Append(q, n))
      BY <2>1, <2>2
    <2> QED
      BY <1>1, <2>1, <2>3, <2>4
  <1>5. ASSUME NEW q \in Seq(S), IsPrefix(p, q), p # q
        PROVE  q # <<>> /\ IsPrefix(p, Front(q))
    <2>1. Len(p) < Len(q) /\ \A i \in 1 .. Len(p) : p[i] = q[i]
      BY <1>1, <1>3, <1>5
    <2>2. q # <<>>
      BY <2>1
    <2>3. PICK r \in Seq(S), n \in S : q = Append(r, n)
      BY <2>2, SequenceEmptyOrAppend
    <2>4. /\ Front(q) = r /\ Len(q) = Len(r) + 1
          /\ \A i \in 1 .. Len(r) : q[i] = r[i]
      BY <2>3, AppendFacts, AppendProperties
    <2>5. Len(p) <= Len(r) /\ \A i \in 1 .. Len(p) : p[i] = r[i]
      BY <2>1, <2>4
    <2> QED
      BY <1>1, <2>2, <2>4, <2>5
  <1> QED
    BY <1>2, <1>3, <1>4, <1>5

-----------------------------------------------------------------------------
(* What paths lead to.                                                     *)

\* The mount point is an inode.
LEMMA RootIn == Root \in Inode
  <1>1. Inode \in SUBSET Nat /\ Inode # {} /\ IsFiniteSet(Inode)
    BY NamespaceAssumption
  <1> QED
    BY <1>1, MinFacts DEF Root

\* What a record of a file system is made of.
LEMMA FsFacts ==
    ASSUME NEW x \in FsRec
    PROVE  /\ x.ino \in [Inode -> InodeRec] /\ x.ents \subseteq EntryRec
           /\ \A e \in x.ents : e.d \in Inode /\ e.n \in Name /\ e.c \in Inode
           /\ \A e \in x.ents : e = Entry(e.d, e.n, e.c)
           /\ \A i \in Inode : /\ Links(x, i) \in Nat /\ Up(x, i) \in Inode \cup {0}
                               /\ IsDir(x, i) \in BOOLEAN /\ IsFile(x, i) \in BOOLEAN
                               /\ InUse(x, i) <=> IsDir(x, i) \/ IsFile(x, i)
                               /\ ~(IsDir(x, i) /\ IsFile(x, i))
  <1>1. x.ino \in [Inode -> InodeRec] /\ x.ents \subseteq EntryRec
    BY DEF FsRec
  <1>2. \A e \in EntryRec : e.d \in Inode /\ e.n \in Name /\ e.c \in Inode /\ e = Entry(e.d, e.n, e.c)
    BY DEF EntryRec, Entry
  <1>3. \A i \in Inode : x.ino[i] \in InodeRec
    BY <1>1
  <1>4. \A r \in InodeRec : r.links \in Nat /\ r.up \in Inode \cup {0}
    BY DEF InodeRec
  <1>5. \A i \in Inode : Links(x, i) \in Nat /\ Up(x, i) \in Inode \cup {0}
    BY <1>3, <1>4 DEF Links, Up
  <1>6. ASSUME NEW i \in Inode
        PROVE  /\ IsDir(x, i) \in BOOLEAN /\ IsFile(x, i) \in BOOLEAN
               /\ InUse(x, i) <=> IsDir(x, i) \/ IsFile(x, i)
               /\ ~(IsDir(x, i) /\ IsFile(x, i))
    <2>1. IsDir(x, i) \in BOOLEAN /\ IsFile(x, i) \in BOOLEAN
      BY Zenon DEF IsDir, IsFile
    <2> QED
      BY <2>1 DEF IsDir, IsFile, InUse, Kind
  <1> QED
    BY <1>1, <1>2, <1>5, <1>6

\* The next places of a set of places.
Further(x, S) ==
  UNION {{[p |-> Append(s.p, e.n), c |-> e.c] : e \in Content(x, s.c)} : s \in {r \in S : IsDir(x, r.c)}}

\* The recursion in Located, as a sequence of sets of places.
LEMMA LocatedUnfolds ==
    ASSUME NEW x \in FsRec
    PROVE  \E at \in [0 .. MaxDepth -> SUBSET Place] :
             /\ at[0] = {[p |-> <<>>, c |-> Root]}
             /\ \A k \in 1 .. MaxDepth : at[k] = Further(x, at[k - 1])
             /\ Located(x) = UNION {at[k] : k \in 0 .. MaxDepth}
  <1> DEFINE D == SUBSET Place
             a == {[p |-> <<>>, c |-> Root]}
             F == [z \in Nat \X D |-> Further(x, z[2])]
             Eq(f) == f = [k \in 0 .. MaxDepth |->
                        IF k = 0 THEN {[p |-> <<>>, c |-> Root]}
                        ELSE UNION {{[p |-> Append(s.p, e.n), c |-> e.c] : e \in Content(x, s.c)} :
                                      s \in {r \in f[k - 1] : IsDir(x, r.c)}}]
             ct == CHOOSE f : Eq(f)
  <1>1. a \in D
    BY RootIn DEF Place
  <1>2. ASSUME NEW S \in D
        PROVE  Further(x, S) \in D
    <2>1. ASSUME NEW s \in S, NEW e \in x.ents
          PROVE  [p |-> Append(s.p, e.n), c |-> e.c] \in Place
      <3>1. s.p \in Seq(Name) /\ e.n \in Name /\ e.c \in Inode
        BY FsFacts DEF Place
      <3>2. Append(s.p, e.n) \in Seq(Name)
        BY <3>1
      <3> QED
        BY <3>1, <3>2 DEF Place
    <2> QED
      BY <2>1 DEF Further, Content
  <1>3. F \in [Nat \X D -> D]
    BY <1>2
  <1>4. MaxDepth \in Nat
    BY NamespaceAssumption
  <1>5. PICK g \in [0 .. MaxDepth -> D] : g[0] = a /\ \A k \in 1 .. MaxDepth : g[k] = F[<<k, g[k - 1]>>]
    <2>1. Recursive(MaxDepth, D, a, F) # {}
      <3> HIDE DEF D, a, F
      <3> QED
        BY <1>1, <1>3, <1>4, Recursion, Zenon
    <2> HIDE DEF D, a, F
    <2> QED
      BY <2>1 DEF Recursive
  <1>6. ASSUME NEW k \in 1 .. MaxDepth
        PROVE  g[k] = Further(x, g[k - 1])
    <2>1. k \in Nat /\ k - 1 \in 0 .. MaxDepth
      BY <1>4
    <2>2. g[k - 1] \in D
      BY <2>1
    <2>3. <<k, g[k - 1]>> \in Nat \X D
      BY <2>1, <2>2
    <2>4. F[<<k, g[k - 1]>>] = Further(x, <<k, g[k - 1]>>[2])
      BY <2>3
    <2> QED
      BY <1>5, <2>4
  <1>7. Eq(g)
    <2>1. ASSUME NEW k \in 0 .. MaxDepth
          PROVE  g[k] = IF k = 0 THEN a ELSE Further(x, g[k - 1])
      <3>1. k # 0 => k \in 1 .. MaxDepth
        BY <1>4
      <3> QED
        BY <1>5, <1>6, <3>1
    <2>2. g = [k \in 0 .. MaxDepth |-> IF k = 0 THEN a ELSE Further(x, g[k - 1])]
      <3> HIDE DEF a
      <3> QED
        BY <2>1
    <2> QED
      BY <2>2 DEF Further
  <1>8. Eq(ct)
    <2> HIDE DEF Eq
    <2> QED
      BY <1>7
  <1>9. Located(x) = UNION {ct[k] : k \in 0 .. MaxDepth}
    BY Zenon DEF Located
  <1>10. ct = [k \in 0 .. MaxDepth |-> IF k = 0 THEN a ELSE Further(x, ct[k - 1])]
    BY <1>8 DEF Further
  <1> HIDE DEF ct, a, Eq, F
  <1>11. ct[0] = a /\ \A k \in 1 .. MaxDepth : ct[k] = Further(x, ct[k - 1])
    <2>1. 0 \in 0 .. MaxDepth
      BY <1>4
    <2>2. ct[0] = a
      BY <1>10, <2>1
    <2>3. ASSUME NEW k \in 1 .. MaxDepth
          PROVE  ct[k] = Further(x, ct[k - 1])
      <3>1. k \in 0 .. MaxDepth /\ k # 0
        BY <1>4
      <3> QED
        BY <1>10, <3>1
    <2> QED
      BY <2>2, <2>3
  <1>12. \A k \in 0 .. MaxDepth : ct[k] \in D
    <2> DEFINE S == {k \in 0 .. MaxDepth : ct[k] \in D}
    <2>1. 0 \in S
      BY <1>1, <1>4, <1>11
    <2>2. ASSUME NEW n \in 0 .. MaxDepth - 1, n \in S
          PROVE  n + 1 \in S
      <3>1. n + 1 \in 1 .. MaxDepth /\ n + 1 \in 0 .. MaxDepth /\ (n + 1) - 1 = n
        BY <1>4
      <3>2. ct[n + 1] = Further(x, ct[n])
        BY <1>11, <3>1
      <3> QED
        BY <1>2, <2>2, <3>1, <3>2
    <2>3. \A n \in 0 .. MaxDepth : n \in S
      <3> HIDE DEF S
      <3> QED
        BY <1>4, <2>1, <2>2, Induction
    <2> QED
      BY <2>3
  <1>13. ct \in [0 .. MaxDepth -> D]
    <2>1. ct = [k \in 0 .. MaxDepth |-> ct[k]]
      BY <1>10
    <2> QED
      BY <1>12, <2>1
  <1> QED
    BY <1>9, <1>11, <1>13 DEF a

\* The places a path can lead to: the mount point, and what is in a directory that is
\* not at the bound; and each of them comes from such a directory.
LEMMA LocatedFacts ==
    ASSUME NEW x \in FsRec
    PROVE  /\ \A s \in Located(x) : s \in Place /\ Len(s.p) <= MaxDepth
           /\ [p |-> <<>>, c |-> Root] \in Located(x)
           /\ \A s \in Located(x), e \in x.ents :
                IsDir(x, s.c) /\ e.d = s.c /\ Len(s.p) < MaxDepth
                => [p |-> Append(s.p, e.n), c |-> e.c] \in Located(x)
           /\ \A s \in Located(x) : s.p = <<>> => s.c = Root
           /\ \A s \in Located(x) : s.p # <<>> =>
                \E r \in Located(x) : /\ r.p = Front(s.p) /\ IsDir(x, r.c)
                                      /\ Entry(r.c, Last(s.p), s.c) \in x.ents
  <1>1. MaxDepth \in Nat
    BY NamespaceAssumption
  <1>2. PICK at \in [0 .. MaxDepth -> SUBSET Place] :
             /\ at[0] = {[p |-> <<>>, c |-> Root]}
             /\ \A k \in 1 .. MaxDepth : at[k] = Further(x, at[k - 1])
             /\ Located(x) = UNION {at[k] : k \in 0 .. MaxDepth}
    BY LocatedUnfolds
  <1>3. \A k \in 0 .. MaxDepth : \A s \in at[k] : s \in Place /\ s.p \in Seq(Name) /\ s.c \in Inode
    BY <1>2 DEF Place
  <1>4. ASSUME NEW k \in 1 .. MaxDepth, NEW s
        PROVE  s \in at[k] <=> \E r \in at[k - 1], e \in x.ents :
                 IsDir(x, r.c) /\ e.d = r.c /\ s = [p |-> Append(r.p, e.n), c |-> e.c]
    <2>1. at[k] = Further(x, at[k - 1])
      BY <1>2
    <2> QED
      BY <2>1 DEF Further, Content
  <1>5. \A k \in 0 .. MaxDepth : \A s \in at[k] : Len(s.p) = k
    <2> DEFINE S == {k \in 0 .. MaxDepth : \A s \in at[k] : Len(s.p) = k}
    <2>1. 0 \in S
      BY <1>1, <1>2
    <2>2. ASSUME NEW n \in 0 .. MaxDepth - 1, n \in S
          PROVE  n + 1 \in S
      <3>1. n + 1 \in 1 .. MaxDepth /\ n + 1 \in 0 .. MaxDepth /\ (n + 1) - 1 = n /\ n \in 0 .. MaxDepth
        BY <1>1
      <3>2. ASSUME NEW s \in at[n + 1]
            PROVE  Len(s.p) = n + 1
        <4>1. PICK r \in at[n], e \in x.ents : s = [p |-> Append(r.p, e.n), c |-> e.c]
          BY <1>4, <3>1
        <4>2. r.p \in Seq(Name) /\ Len(r.p) = n
          BY <1>3, <2>2, <3>1
        <4>3. s.p = Append(r.p, e.n) /\ e.n \in Name
          BY <4>1, FsFacts
        <4> QED
          BY <4>2, <4>3, AppendFacts
      <3> QED
        BY <3>1, <3>2
    <2>3. \A n \in 0 .. MaxDepth : n \in S
      <3> HIDE DEF S
      <3> QED
        BY <1>1, <2>1, <2>2, Induction
    <2> QED
      BY <2>3
  <1>6. ASSUME NEW s \in Located(x)
        PROVE  /\ s \in Place /\ Len(s.p) <= MaxDepth /\ Len(s.p) \in 0 .. MaxDepth
               /\ s \in at[Len(s.p)]
    <2>1. PICK k \in 0 .. MaxDepth : s \in at[k]
      BY <1>2
    <2>2. Len(s.p) = k
      BY <1>5, <2>1
    <2> QED
      BY <1>1, <1>3, <2>1, <2>2
  <1>7. [p |-> <<>>, c |-> Root] \in Located(x)
    BY <1>1, <1>2
  <1>8. ASSUME NEW s \in Located(x), NEW e \in x.ents,
               IsDir(x, s.c), e.d = s.c, Len(s.p) < MaxDepth
        PROVE  [p |-> Append(s.p, e.n), c |-> e.c] \in Located(x)
    <2>1. Len(s.p) + 1 \in 1 .. MaxDepth /\ Len(s.p) + 1 \in 0 .. MaxDepth /\ (Len(s.p) + 1) - 1 = Len(s.p)
      BY <1>1, <1>6, <1>8
    <2>2. [p |-> Append(s.p, e.n), c |-> e.c] \in at[Len(s.p) + 1]
      BY <1>4, <1>6, <1>8, <2>1
    <2> QED
      BY <1>2, <2>1, <2>2
  <1>9. ASSUME NEW s \in Located(x), s.p = <<>>
        PROVE  s.c = Root
    <2>1. s \in at[0]
      BY <1>6, <1>9
    <2> QED
      BY <1>2, <2>1
  <1>10. ASSUME NEW s \in Located(x), s.p # <<>>
         PROVE  \E r \in Located(x) : /\ r.p = Front(s.p) /\ IsDir(x, r.c)
                                      /\ Entry(r.c, Last(s.p), s.c) \in x.ents
    <2>1. s.p \in Seq(Name)
      BY <1>6 DEF Place
    <2>2. Len(s.p) \in 1 .. MaxDepth /\ Len(s.p) - 1 \in 0 .. MaxDepth
      BY <1>1, <1>6, <1>10, <2>1, FrontFacts
    <2>3. PICK r \in at[Len(s.p) - 1], e \in x.ents :
                 IsDir(x, r.c) /\ e.d = r.c /\ s = [p |-> Append(r.p, e.n), c |-> e.c]
      BY <1>4, <1>6, <2>2
    <2>4. r.p \in Seq(Name) /\ e.n \in Name /\ e = Entry(e.d, e.n, e.c)
      BY <1>3, <2>2, FsFacts
    <2>5. r.p = Front(s.p) /\ e.n = Last(s.p) /\ e.c = s.c
      BY <2>3, <2>4, AppendFacts
    <2>6. r \in Located(x)
      BY <1>2, <2>2
    <2> QED
      BY <2>3, <2>4, <2>5, <2>6
  <1> QED
    BY <1>6, <1>7, <1>8, <1>9, <1>10

\* In a tree a path leads to one place, at the depth of its length; a directory has
\* one path, and has it if it is not too deep.
LEMMA PathFacts ==
    ASSUME NEW x \in FsRec, NEW dep \in [Inode -> Nat], Linked(x), Deeper(x, dep)
    PROVE  /\ \A r, s \in Located(x) : r.p = s.p => r = s
           /\ \A s \in Located(x) : InUse(x, s.c)
           /\ \A s \in Located(x) : IsDir(x, s.c) => dep[s.c] = Len(s.p)
           /\ \A r, s \in Located(x) : r.c = s.c /\ IsDir(x, s.c) => r = s
           /\ \A i \in Inode : IsDir(x, i) /\ dep[i] <= MaxDepth => \E s \in Located(x) : s.c = i
  <1>1. MaxDepth \in Nat
    BY NamespaceAssumption
  <1>2. \A s \in Located(x) : /\ s = [p |-> s.p, c |-> s.c] /\ s.p \in Seq(Name) /\ s.c \in Inode
                              /\ Len(s.p) \in 0 .. MaxDepth /\ (Len(s.p) = 0 <=> s.p = <<>>)
    <2>1. \A s \in Place : s = [p |-> s.p, c |-> s.c] /\ s.p \in Seq(Name) /\ s.c \in Inode
      BY DEF Place
    <2>2. ASSUME NEW s \in Located(x)
          PROVE  Len(s.p) \in 0 .. MaxDepth /\ (Len(s.p) = 0 <=> s.p = <<>>)
      <3>1. s.p \in Seq(Name) /\ Len(s.p) <= MaxDepth
        BY <2>1, LocatedFacts
      <3> QED
        BY <1>1, <3>1
    <2> QED
      BY <2>1, <2>2, LocatedFacts
  <1>3. \A e \in x.ents : /\ e.d \in Inode /\ e.n \in Name /\ e.c \in Inode /\ e = Entry(e.d, e.n, e.c)
                          /\ IsDir(x, e.d) /\ InUse(x, e.c) /\ e.c # Root
    BY FsFacts DEF Linked
  <1>4. \A d1, n1, c1 : LET e == Entry(d1, n1, c1) IN e.d = d1 /\ e.n = n1 /\ e.c = c1
    BY DEF Entry
  <1>5. ASSUME NEW s \in Located(x), s.p # <<>>
        PROVE  \E r \in Located(x), e \in x.ents :
                  /\ r.p = Front(s.p) /\ IsDir(x, r.c) /\ e.d = r.c /\ e.n = Last(s.p) /\ e.c = s.c
                  /\ Len(r.p) = Len(s.p) - 1
    <2>1. PICK r \in Located(x) : r.p = Front(s.p) /\ IsDir(x, r.c) /\ Entry(r.c, Last(s.p), s.c) \in x.ents
      BY <1>5, LocatedFacts
    <2>2. Len(r.p) = Len(s.p) - 1
      BY <1>2, <1>5, <2>1, FrontFacts
    <2> QED
      BY <1>4, <2>1, <2>2
  <1>6. \A s \in Located(x) : s.p = <<>> => s.c = Root
    BY LocatedFacts
  <1>7. ASSUME NEW r \in Located(x), NEW s \in Located(x), r.p # <<>>, s.p # <<>>,
               Front(r.p) = Front(s.p), Last(r.p) = Last(s.p)
        PROVE  r.p = s.p
    BY <1>2, <1>7, FrontFacts
  <1>8. \A r, s \in Located(x) : r.p = s.p => r.c = s.c
    <2> DEFINE S == {k \in 0 .. MaxDepth : \A r, s \in Located(x) : Len(r.p) = k /\ r.p = s.p => r.c = s.c}
    <2>1. 0 \in S
      BY <1>1, <1>2, <1>6
    <2>2. ASSUME NEW n \in 0 .. MaxDepth - 1, n \in S
          PROVE  n + 1 \in S
      <3>1. ASSUME NEW r \in Located(x), NEW s \in Located(x), Len(r.p) = n + 1, r.p = s.p
            PROVE  r.c = s.c
        <4>1. r.p # <<>> /\ s.p # <<>>
          BY <1>2, <3>1
        <4>2. PICK r1 \in Located(x), e \in x.ents :
                  /\ r1.p = Front(r.p) /\ e.d = r1.c /\ e.n = Last(r.p) /\ e.c = r.c
                  /\ Len(r1.p) = Len(r.p) - 1
          BY <1>5, <4>1
        <4>3. PICK s1 \in Located(x), f \in x.ents :
                  s1.p = Front(s.p) /\ f.d = s1.c /\ f.n = Last(s.p) /\ f.c = s.c
          BY <1>5, <4>1
        <4>4. r1.c = s1.c
          BY <2>2, <3>1, <4>2, <4>3
        <4>5. e = f
          BY <3>1, <4>2, <4>3, <4>4 DEF Linked
        <4> QED
          BY <4>2, <4>3, <4>5
      <3>2. n + 1 \in 0 .. MaxDepth
        BY <1>1
      <3> QED
        BY <3>1, <3>2
    <2>3. \A n \in 0 .. MaxDepth : n \in S
      <3> HIDE DEF S
      <3> QED
        BY <1>1, <2>1, <2>2, Induction
    <2> QED
      BY <1>2, <2>3
  <1>9. \A r, s \in Located(x) : r.p = s.p => r = s
    BY <1>2, <1>8
  <1>10. ASSUME NEW s \in Located(x)
         PROVE  InUse(x, s.c)
    <2>1. CASE s.p = <<>>
      BY <1>6, <2>1, RootIn, FsFacts DEF Linked
    <2>2. CASE s.p # <<>>
      BY <1>3, <1>5, <2>2
    <2> QED
      BY <2>1, <2>2
  <1>11. \A s \in Located(x) : IsDir(x, s.c) => dep[s.c] = Len(s.p)
    <2> DEFINE S == {k \in 0 .. MaxDepth : \A s \in Located(x) : Len(s.p) = k /\ IsDir(x, s.c) => dep[s.c] = k}
    <2>1. 0 \in S
      BY <1>1, <1>2, <1>6 DEF Deeper
    <2>2. ASSUME NEW n \in 0 .. MaxDepth - 1, n \in S
          PROVE  n + 1 \in S
      <3>1. ASSUME NEW s \in Located(x), Len(s.p) = n + 1, IsDir(x, s.c)
            PROVE  dep[s.c] = n + 1
        <4>1. s.p # <<>>
          BY <1>2, <3>1
        <4>2. PICK r \in Located(x), e \in x.ents :
                  IsDir(x, r.c) /\ e.d = r.c /\ e.c = s.c /\ Len(r.p) = Len(s.p) - 1
          BY <1>5, <4>1
        <4>3. dep[r.c] = n
          BY <2>2, <3>1, <4>2
        <4> QED
          BY <3>1, <4>2, <4>3 DEF Deeper
      <3>2. n + 1 \in 0 .. MaxDepth
        BY <1>1
      <3> QED
        BY <3>1, <3>2
    <2>3. \A n \in 0 .. MaxDepth : n \in S
      <3> HIDE DEF S
      <3> QED
        BY <1>1, <2>1, <2>2, Induction
    <2> QED
      BY <1>2, <2>3
  <1>12. \A r, s \in Located(x) : r.c = s.c /\ IsDir(x, s.c) => r.p = s.p
    <2> DEFINE S == {k \in 0 .. MaxDepth : \A r, s \in Located(x) :
                          Len(s.p) = k /\ r.c = s.c /\ IsDir(x, s.c) => r.p = s.p}
    <2>1. 0 \in S
      BY <1>1, <1>2, <1>11
    <2>2. ASSUME NEW n \in 0 .. MaxDepth - 1, n \in S
          PROVE  n + 1 \in S
      <3>1. ASSUME NEW r \in Located(x), NEW s \in Located(x), Len(s.p) = n + 1, r.c = s.c, IsDir(x, s.c)
            PROVE  r.p = s.p
        <4>1. Len(r.p) = n + 1
          BY <1>11, <3>1
        <4>2. r.p # <<>> /\ s.p # <<>>
          BY <1>2, <3>1, <4>1
        <4>3. PICK r1 \in Located(x), e \in x.ents :
                  r1.p = Front(r.p) /\ e.d = r1.c /\ e.n = Last(r.p) /\ e.c = r.c
          BY <1>5, <4>2
        <4>4. PICK s1 \in Located(x), f \in x.ents :
                  /\ s1.p = Front(s.p) /\ f.d = s1.c /\ f.n = Last(s.p) /\ f.c = s.c
                  /\ IsDir(x, s1.c) /\ Len(s1.p) = Len(s.p) - 1
          BY <1>5, <4>2
        <4>5. e = f
          BY <3>1, <4>3, <4>4 DEF Linked
        <4>6. r1.p = s1.p
          BY <2>2, <3>1, <4>3, <4>4, <4>5
        <4> QED
          BY <1>7, <4>2, <4>3, <4>4, <4>5, <4>6
      <3>2. n + 1 \in 0 .. MaxDepth
        BY <1>1
      <3> QED
        BY <3>1, <3>2
    <2>3. \A n \in 0 .. MaxDepth : n \in S
      <3> HIDE DEF S
      <3> QED
        BY <1>1, <2>1, <2>2, Induction
    <2> QED
      BY <1>2, <2>3
  <1>13. \A i \in Inode : IsDir(x, i) /\ dep[i] <= MaxDepth => \E s \in Located(x) : s.c = i
    <2> DEFINE S == {k \in 0 .. MaxDepth : \A i \in Inode :
                          dep[i] = k /\ IsDir(x, i) => \E s \in Located(x) : s.c = i}
    <2>1. ASSUME NEW i \in Inode, IsDir(x, i), i # Root
          PROVE  \E e \in x.ents : e.c = i /\ dep[i] = dep[e.d] + 1
      BY <2>1, FsFacts DEF Linked, Deeper
    <2>2. 0 \in S
      <3>1. ASSUME NEW i \in Inode, dep[i] = 0, IsDir(x, i)
            PROVE  \E s \in Located(x) : s.c = i
        <4>1. i = Root
          <5>1. \A e \in x.ents : dep[e.d] \in Nat
            BY <1>3
          <5> QED
            BY <2>1, <3>1, <5>1
        <4> QED
          BY <4>1, LocatedFacts
      <3> QED
        BY <1>1, <3>1
    <2>3. ASSUME NEW n \in 0 .. MaxDepth - 1, n \in S
          PROVE  n + 1 \in S
      <3>1. ASSUME NEW i \in Inode, dep[i] = n + 1, IsDir(x, i)
            PROVE  \E s \in Located(x) : s.c = i
        <4>1. i # Root
          BY <3>1 DEF Deeper
        <4>2. PICK e \in x.ents : e.c = i /\ dep[i] = dep[e.d] + 1
          BY <2>1, <3>1, <4>1
        <4>3. dep[e.d] = n /\ e.d \in Inode /\ IsDir(x, e.d)
          BY <1>3, <3>1, <4>2
        <4>4. PICK s \in Located(x) : s.c = e.d
          BY <2>3, <4>3
        <4>5. Len(s.p) < MaxDepth
          BY <1>1, <1>11, <4>3, <4>4
        <4>6. [p |-> Append(s.p, e.n), c |-> e.c] \in Located(x)
          BY <4>3, <4>4, <4>5, LocatedFacts
        <4> QED
          BY <4>2, <4>6
      <3>2. n + 1 \in 0 .. MaxDepth
        BY <1>1
      <3> QED
        BY <3>1, <3>2
    <2>4. \A n \in 0 .. MaxDepth : n \in S
      <3> HIDE DEF S
      <3> QED
        BY <1>1, <2>2, <2>3, Induction
    <2>5. \A i \in Inode : dep[i] \in Nat
      OBVIOUS
    <2> QED
      BY <1>1, <2>4, <2>5
  <1> QED
    BY <1>9, <1>10, <1>11, <1>12, <1>13

\* Whatever is in use is found by a path.
LEMMA AllReached ==
    ASSUME NEW x, NEW dep, Sound(x, dep)
    PROVE  /\ \A i \in Inode : IsDir(x, i) => dep[i] \in 0 .. MaxDepth
           /\ \A i \in Inode : InUse(x, i) => \E s \in Located(x) : s.c = i
  <1>1. x \in FsRec /\ dep \in [Inode -> Nat] /\ Linked(x) /\ Deeper(x, dep) /\ MaxDepth \in Nat
    BY NamespaceAssumption DEF Sound
  <1>2. \A e \in x.ents : /\ e.d \in Inode /\ e.n \in Name /\ e.c \in Inode /\ IsDir(x, e.d)
                          /\ dep[e.d] \in Nat /\ dep[e.d] < MaxDepth
    BY <1>1, FsFacts DEF Linked, Sound
  <1>3. \A i \in Inode : InUse(x, i) <=> IsDir(x, i) \/ IsFile(x, i)
    BY <1>1, FsFacts
  <1>4. ASSUME NEW i \in Inode, IsDir(x, i)
        PROVE  dep[i] \in 0 .. MaxDepth
    <2>1. CASE i = Root
      BY <1>1, <2>1 DEF Deeper
    <2>2. CASE i # Root
      <3>1. PICK e \in x.ents : e.c = i
        BY <1>1, <1>3, <1>4, <2>2 DEF Linked
      <3>2. dep[i] = dep[e.d] + 1
        BY <1>1, <1>4, <3>1 DEF Deeper
      <3> QED
        BY <1>1, <1>2, <3>2
    <2> QED
      BY <2>1, <2>2
  <1>5. ASSUME NEW i \in Inode, IsDir(x, i)
        PROVE  \E s \in Located(x) : s.c = i
    BY <1>1, <1>4, <1>5, PathFacts
  <1>6. ASSUME NEW i \in Inode, InUse(x, i), ~IsDir(x, i)
        PROVE  \E s \in Located(x) : s.c = i
    <2>1. i # Root
      BY <1>1, <1>6 DEF Linked
    <2>2. PICK e \in x.ents : e.c = i
      BY <1>1, <1>6, <2>1 DEF Linked
    <2>3. PICK s \in Located(x) : s.c = e.d
      BY <1>2, <1>5
    <2>4. IsDir(x, s.c) /\ Len(s.p) < MaxDepth
      BY <1>1, <1>2, <2>3, PathFacts
    <2>5. [p |-> Append(s.p, e.n), c |-> e.c] \in Located(x)
      BY <1>1, <2>3, <2>4, LocatedFacts
    <2> QED
      BY <2>2, <2>5
  <1> QED
    BY <1>4, <1>5, <1>6

\* The directory of a path, as CHOOSE finds it, and its entry.
LEMMA DirectoryOf ==
    ASSUME NEW x, NEW dep, Sound(x, dep), NEW s \in Located(x), s.p # <<>>
    PROVE  LET o == (CHOOSE r \in Located(x) : r.p = Front(s.p)).c
           IN  o \in Inode /\ IsDir(x, o) /\ Last(s.p) \in Name /\ Entry(o, Last(s.p), s.c) \in x.ents
  <1>1. x \in FsRec /\ dep \in [Inode -> Nat] /\ Linked(x) /\ Deeper(x, dep)
    BY DEF Sound
  <1>2. PICK r \in Located(x) : r.p = Front(s.p) /\ IsDir(x, r.c) /\ Entry(r.c, Last(s.p), s.c) \in x.ents
    BY <1>1, LocatedFacts
  <1>3. (CHOOSE q \in Located(x) : q.p = Front(s.p)) = r
    BY <1>1, <1>2, PathFacts
  <1>4. r.c \in Inode /\ s.p \in Seq(Name)
    BY <1>1, LocatedFacts DEF Place
  <1>5. Last(s.p) \in Name
    BY <1>4, FrontFacts
  <1> QED
    BY <1>2, <1>3, <1>4, <1>5

\* The directories at and below a place.
Sub(x, s) == {i \in Inode : IsDir(x, i) /\ \E t \in Located(x) : t.c = i /\ IsPrefix(s.p, t.p)}

\* They are closed downwards, and upwards as far as the place; their paths are the
\* directories' paths that begin with that of the place.
LEMMA SubtreeFacts ==
    ASSUME NEW x, NEW dep, Sound(x, dep), NEW s \in Located(x), IsDir(x, s.c)
    PROVE  /\ s.c \in Sub(x, s)
           /\ \A i \in Sub(x, s) : dep[s.c] <= dep[i]
           /\ \A e \in x.ents : e.d \in Sub(x, s) /\ IsDir(x, e.c) => e.c \in Sub(x, s)
           /\ \A e \in x.ents : e.d \in Sub(x, s) => \E t \in Located(x) : t.c = e.c /\ IsPrefix(s.p, t.p)
           /\ \A i \in Sub(x, s) \ {s.c} : Up(x, i) \in Sub(x, s)
           /\ \A t \in Located(x) : t.c \in Sub(x, s) => IsPrefix(s.p, t.p)
           /\ Root \in Sub(x, s) => s.c = Root
  <1>1. /\ x \in FsRec /\ dep \in [Inode -> Nat] /\ Linked(x) /\ Deeper(x, dep) /\ MaxDepth \in Nat
        /\ \A e \in x.ents : dep[e.d] < MaxDepth
    BY NamespaceAssumption DEF Sound
  <1>2. \A t \in Located(x) : t.p \in Seq(Name) /\ t.c \in Inode /\ t = [p |-> t.p, c |-> t.c]
    BY <1>1, LocatedFacts DEF Place
  <1>3. \A e \in x.ents : /\ e.d \in Inode /\ e.n \in Name /\ e.c \in Inode
                          /\ IsDir(x, e.d) /\ dep[e.d] < MaxDepth
    BY <1>1, FsFacts DEF Linked
  <1>4. \A t \in Located(x) : IsDir(x, t.c) => dep[t.c] = Len(t.p)
    BY <1>1, PathFacts
  <1>5. s.c \in Sub(x, s)
    BY <1>2, PrefixFacts DEF Sub
  <1>6. ASSUME NEW i \in Sub(x, s)
        PROVE  /\ dep[s.c] <= dep[i]
               /\ \E t \in Located(x) : t.c = i /\ IsPrefix(s.p, t.p)
    <2>1. PICK t \in Located(x) : t.c = i /\ IsPrefix(s.p, t.p)
      BY DEF Sub
    <2>2. Len(s.p) <= Len(t.p)
      BY <1>2, <2>1, PrefixFacts
    <2> QED
      BY <1>4, <2>1, <2>2 DEF Sub
  <1>7. ASSUME NEW e \in x.ents, e.d \in Sub(x, s)
        PROVE  \E t \in Located(x) : t.c = e.c /\ IsPrefix(s.p, t.p)
    <2>1. PICK t \in Located(x) : t.c = e.d /\ IsPrefix(s.p, t.p)
      BY <1>6, <1>7
    <2>2. Len(t.p) < MaxDepth
      BY <1>3, <1>4, <2>1
    <2>3. [p |-> Append(t.p, e.n), c |-> e.c] \in Located(x)
      BY <1>1, <1>3, <2>1, <2>2, LocatedFacts
    <2>4. IsPrefix(s.p, Append(t.p, e.n))
      BY <1>2, <1>3, <2>1, PrefixFacts
    <2> QED
      BY <2>3, <2>4
  <1>8. \A e \in x.ents : e.d \in Sub(x, s) /\ IsDir(x, e.c) => e.c \in Sub(x, s)
    BY <1>3, <1>7 DEF Sub
  <1>9. ASSUME NEW i \in Sub(x, s), i # s.c
        PROVE  Up(x, i) \in Sub(x, s)
    <2>1. PICK t \in Located(x) : t.c = i /\ IsPrefix(s.p, t.p)
      BY <1>6
    <2>2. t.p # s.p
      BY <1>1, <1>9, <2>1, PathFacts
    <2>3. t.p # <<>> /\ IsPrefix(s.p, Front(t.p))
      BY <1>2, <2>1, <2>2, PrefixFacts
    <2>4. PICK r \in Located(x) : r.p = Front(t.p) /\ IsDir(x, r.c) /\ Entry(r.c, Last(t.p), t.c) \in x.ents
      BY <1>1, <2>3, LocatedFacts
    <2>5. r.c \in Sub(x, s)
      BY <1>2, <2>3, <2>4 DEF Sub
    <2>6. Up(x, i) = r.c
      <3>1. \A d1, n1, c1 : Entry(d1, n1, c1).d = d1 /\ Entry(d1, n1, c1).c = c1
        BY DEF Entry
      <3>2. IsDir(x, i)
        BY DEF Sub
      <3> QED
        BY <1>1, <2>1, <2>4, <3>1, <3>2 DEF Linked
    <2> QED
      BY <2>5, <2>6
  <1>10. ASSUME NEW t \in Located(x), t.c \in Sub(x, s)
         PROVE  IsPrefix(s.p, t.p)
    <2>1. PICK u \in Located(x) : u.c = t.c /\ IsPrefix(s.p, u.p)
      BY <1>6, <1>10
    <2>2. u = t
      BY <1>1, <1>10, <2>1, PathFacts DEF Sub
    <2> QED
      BY <2>1, <2>2
  <1>11. Root \in Sub(x, s) => s.c = Root
    <2>1. [p |-> <<>>, c |-> Root] \in Located(x) /\ [p |-> <<>>, c |-> Root].c = Root
      BY <1>1, LocatedFacts
    <2>2. ASSUME Root \in Sub(x, s)
          PROVE  s.c = Root
      <3>1. dep[s.c] <= 0
        BY <1>1, <1>6, <2>2 DEF Deeper
      <3>2. Len(s.p) = 0
        BY <1>1, <1>2, <1>4, <3>1
      <3>3. s.p = <<>>
        BY <1>2, <3>2
      <3> QED
        BY <1>1, <3>3, LocatedFacts
    <2> QED
      BY <2>2
  <1> QED
    BY <1>5, <1>6, <1>7, <1>8, <1>9, <1>10, <1>11

\* A tree of which no path gets longer than the bound has nothing in a directory at
\* the bound, nor below: a directory deeper than that would be in one at the bound.
LEMMA ShallowBounds ==
    ASSUME NEW x \in FsRec, NEW dep \in [Inode -> Nat], Linked(x), Deeper(x, dep), Shallow(x)
    PROVE  \A e \in x.ents : dep[e.d] < MaxDepth
  <1>1. MaxDepth \in Nat
    BY NamespaceAssumption
  <1>2. \A e \in x.ents : e.d \in Inode /\ dep[e.d] \in Nat /\ IsDir(x, e.d)
    BY FsFacts DEF Linked
  <1> DEFINE S == {dep[e.d] : e \in {f \in x.ents : MaxDepth <= dep[f.d]}}
  <1>3. SUFFICES ASSUME S # {}
                 PROVE  FALSE
    BY <1>1, <1>2
  <1>4. S \in SUBSET Nat
    BY <1>2
  <1>5. PICK m \in S : \A z \in S : m <= z
    <2> HIDE DEF S
    <2> QED
      BY <1>3, <1>4, Least
  <1>6. PICK e \in x.ents : m = dep[e.d] /\ MaxDepth <= dep[e.d]
    OBVIOUS
  <1>7. m = MaxDepth
    <2> SUFFICES ASSUME MaxDepth < dep[e.d]
                 PROVE  FALSE
      BY <1>1, <1>2, <1>6
    <2>1. e.d # Root
      BY <1>1 DEF Deeper
    <2>2. InUse(x, e.d)
      BY <1>2, FsFacts
    <2>3. PICK f \in x.ents : f.c = e.d
      BY <1>2, <2>1, <2>2 DEF Linked
    <2>4. dep[e.d] = dep[f.d] + 1
      BY <1>2, <2>3 DEF Deeper
    <2>5. MaxDepth <= dep[f.d]
      BY <1>1, <1>2, <2>4
    <2>6. dep[f.d] \in S
      BY <2>5
    <2>7. m <= dep[f.d]
      BY <1>5, <2>6
    <2> QED
      BY <1>2, <1>6, <2>4, <2>7
  <1> HIDE DEF S
  <1>8. e.d \in Inode /\ IsDir(x, e.d) /\ dep[e.d] = MaxDepth /\ dep[e.d] <= MaxDepth
    BY <1>1, <1>2, <1>6, <1>7
  <1>9. PICK s \in Located(x) : s.c = e.d
    BY <1>8, PathFacts
  <1>10. Len(s.p) = MaxDepth
    BY <1>8, <1>9, PathFacts
  <1>11. e \in Content(x, s.c)
    BY <1>9 DEF Content
  <1> QED
    BY <1>9, <1>10, <1>11 DEF Shallow

-----------------------------------------------------------------------------
(* Counting entries.                                                       *)

\* There are finitely many entries, and no more in a tree than names in directories.
LEMMA EntriesFinite ==
    ASSUME NEW x \in FsRec
    PROVE  /\ \A E \in SUBSET x.ents : IsFiniteSet(E) /\ Cardinality(E) \in Nat
           /\ (\A e, f \in x.ents : e.d = f.d /\ e.n = f.n => e = f) =>
                \A E \in SUBSET x.ents : Cardinality(E) <= Cardinality(Inode) * Cardinality(Name)
  <1>1. /\ IsFiniteSet(Inode) /\ IsFiniteSet(Name)
        /\ IsFiniteSet(Inode \X Name) /\ Cardinality(Inode \X Name) = Cardinality(Inode) * Cardinality(Name)
        /\ IsFiniteSet((Inode \X Name) \X Inode)
    BY NamespaceAssumption, FS_Product
  <1>2. \A e \in x.ents : e.d \in Inode /\ e.n \in Name /\ e.c \in Inode /\ e = Entry(e.d, e.n, e.c)
    BY FsFacts
  <1>3. ASSUME NEW E \in SUBSET x.ents
        PROVE  IsFiniteSet(E) /\ Cardinality(E) \in Nat
    <2> DEFINE f == [e \in E |-> <<<<e.d, e.n>>, e.c>>]
    <2>1. f \in Injection(E, (Inode \X Name) \X Inode)
      <3>1. f \in [E -> (Inode \X Name) \X Inode]
        BY <1>2
      <3>2. \A a, b \in E : f[a] = f[b] => a = b
        BY <1>2
      <3> QED
        BY <3>1, <3>2 DEF Injection, IsInjective
    <2>2. IsFiniteSet(E)
      <3> HIDE DEF f
      <3> QED
        BY <1>1, <2>1, FS_Injection
    <2> QED
      BY <2>2, FS_CardinalityType
  <1>4. ASSUME \A e, f \in x.ents : e.d = f.d /\ e.n = f.n => e = f, NEW E \in SUBSET x.ents
        PROVE  Cardinality(E) <= Cardinality(Inode) * Cardinality(Name)
    <2> DEFINE f == [e \in E |-> <<e.d, e.n>>]
    <2>1. f \in Injection(E, Inode \X Name)
      <3>1. f \in [E -> Inode \X Name]
        BY <1>2
      <3>2. \A a, b \in E : f[a] = f[b] => a = b
        BY <1>2, <1>4
      <3> QED
        BY <3>1, <3>2 DEF Injection, IsInjective
    <2>2. Cardinality(E) <= Cardinality(Inode \X Name)
      <3> HIDE DEF f
      <3> QED
        BY <1>1, <2>1, FS_Injection
    <2> QED
      BY <1>1, <2>2
  <1> QED
    BY <1>3, <1>4

-----------------------------------------------------------------------------
(* What the operations on inodes and entries change.                       *)

\* An inode that is as it was.
SameAt(x, y, j) ==
  /\ IsDir(y, j) <=> IsDir(x, j)
  /\ IsFile(y, j) <=> IsFile(x, j)
  /\ Links(y, j) = Links(x, j)
  /\ Up(y, j) = Up(x, j)

\* Writing one inode.
LEMMA WriteFacts ==
    ASSUME NEW x \in FsRec, NEW i \in Inode, NEW r \in InodeRec, NEW y, y = [x EXCEPT !.ino[i] = r]
    PROVE  /\ y \in FsRec /\ y.ents = x.ents
           /\ \A j \in Inode \ {i} : SameAt(x, y, j)
           /\ IsDir(y, i) <=> r.kind = "dir"
           /\ IsFile(y, i) <=> r.kind = "file"
           /\ Links(y, i) = r.links /\ Up(y, i) = r.up
  <1>1. y \in FsRec /\ y.ents = x.ents /\ y.ino = [x.ino EXCEPT ![i] = r]
    BY DEF FsRec
  <1>2. y.ino[i] = r /\ \A j \in Inode \ {i} : y.ino[j] = x.ino[j]
    BY <1>1, FsFacts
  <1>3. \A j \in Inode \ {i} : SameAt(x, y, j)
    BY <1>2 DEF SameAt, IsDir, IsFile, Links, Up
  <1> QED
    BY <1>1, <1>2, <1>3 DEF IsDir, IsFile, Links, Up

\* Counting a link more.
LEMMA LinkIncFacts ==
    ASSUME NEW x \in FsRec, NEW i \in Inode, NEW y, y = LinkInc(x, i)
    PROVE  /\ y \in FsRec /\ y.ents = x.ents
           /\ \A j \in Inode \ {i} : SameAt(x, y, j)
           /\ IsDir(y, i) <=> IsDir(x, i)
           /\ IsFile(y, i) <=> IsFile(x, i)
           /\ Up(y, i) = Up(x, i)
           /\ LET n == Links(x, i) + 1
              IN  Links(y, i) = IF IsDir(x, i) /\ DirIndex /\ (n >= LinkMax \/ n = 2) THEN 1 ELSE n
  <1> DEFINE n == Links(x, i) + 1
             v == IF IsDir(x, i) /\ DirIndex /\ (n >= LinkMax \/ n = 2) THEN 1 ELSE n
             r == [x.ino[i] EXCEPT !.links = v]
  <1>1. x.ino \in [Inode -> InodeRec] /\ x.ino[i] \in InodeRec /\ Links(x, i) \in Nat
    BY FsFacts
  <1>2. v \in Nat
    BY <1>1
  <1>3. y = [x EXCEPT !.ino[i].links = v]
    BY DEF LinkInc, Links
  <1> HIDE DEF v
  <1>4. y = [x EXCEPT !.ino[i] = r]
    BY <1>3
  <1>5. r \in InodeRec /\ r.links = v /\ r.kind = x.ino[i].kind /\ r.up = x.ino[i].up
    BY <1>1, <1>2 DEF InodeRec
  <1> HIDE DEF r
  <1>6. /\ y \in FsRec /\ y.ents = x.ents
        /\ \A j \in Inode \ {i} : SameAt(x, y, j)
        /\ IsDir(y, i) <=> r.kind = "dir"
        /\ IsFile(y, i) <=> r.kind = "file"
        /\ Links(y, i) = r.links /\ Up(y, i) = r.up
    BY <1>4, <1>5, WriteFacts
  <1> QED
    BY <1>5, <1>6 DEF IsDir, IsFile, Up, v

\* Counting a link less.
LEMMA LinkDecFacts ==
    ASSUME NEW x \in FsRec, NEW i \in Inode, NEW y, y = LinkDec(x, i)
    PROVE  /\ y \in FsRec /\ y.ents = x.ents
           /\ \A j \in Inode \ {i} : SameAt(x, y, j)
           /\ IsDir(y, i) <=> IsDir(x, i)
           /\ IsFile(y, i) <=> IsFile(x, i)
           /\ Up(y, i) = Up(x, i)
           /\ LET n == Links(x, i)
              IN  Links(y, i) = IF n > (IF IsDir(x, i) THEN 2 ELSE 0) THEN n - 1 ELSE n
  <1> DEFINE n == Links(x, i)
             v == IF n > (IF IsDir(x, i) THEN 2 ELSE 0) THEN n - 1 ELSE n
             r == [x.ino[i] EXCEPT !.links = v]
  <1>1. x.ino \in [Inode -> InodeRec] /\ x.ino[i] \in InodeRec /\ Links(x, i) \in Nat
    BY FsFacts
  <1>2. v \in Nat
    BY <1>1
  <1>3. y = [x EXCEPT !.ino[i].links = v]
    BY DEF LinkDec, Links
  <1> HIDE DEF v
  <1>4. y = [x EXCEPT !.ino[i] = r]
    BY <1>3
  <1>5. r \in InodeRec /\ r.links = v /\ r.kind = x.ino[i].kind /\ r.up = x.ino[i].up
    BY <1>1, <1>2 DEF InodeRec
  <1> HIDE DEF r
  <1>6. /\ y \in FsRec /\ y.ents = x.ents
        /\ \A j \in Inode \ {i} : SameAt(x, y, j)
        /\ IsDir(y, i) <=> r.kind = "dir"
        /\ IsFile(y, i) <=> r.kind = "file"
        /\ Links(y, i) = r.links /\ Up(y, i) = r.up
    BY <1>4, <1>5, WriteFacts
  <1> QED
    BY <1>5, <1>6 DEF IsDir, IsFile, Up, v

\* Freeing an inode, or losing it.
LEMMA FreeFacts ==
    ASSUME NEW x \in FsRec, NEW i \in Inode, NEW ok, NEW y, y = Free(x, i, ok)
    PROVE  /\ y \in FsRec /\ y.ents = x.ents
           /\ \A j \in Inode \ {i} : SameAt(x, y, j)
           /\ ~IsDir(y, i) /\ ~IsFile(y, i) /\ Links(y, i) = 0 /\ Up(y, i) = 0
  <1>1. \A r \in {Unused, Lost} : r \in InodeRec /\ r.kind \notin {"dir", "file"} /\ r.links = 0 /\ r.up = 0
    BY DEF InodeRec, Kind, Unused, Lost
  <1>2. PICK r \in {Unused, Lost} : y = [x EXCEPT !.ino[i] = r]
    BY Zenon DEF Free
  <1> HIDE DEF Unused, Lost
  <1>3. r \in InodeRec /\ r.kind # "dir" /\ r.kind # "file" /\ r.links = 0 /\ r.up = 0
    BY <1>1
  <1> QED
    BY <1>2, <1>3, WriteFacts

\* Adding an entry and removing one.
LEMMA EntryFacts ==
    ASSUME NEW x \in FsRec, NEW d \in Inode, NEW n \in Name, NEW c \in Inode
    PROVE  /\ Add(x, d, n, c) \in FsRec /\ Add(x, d, n, c).ents = x.ents \cup {Entry(d, n, c)}
           /\ Drop(x, d, n) \in FsRec
           /\ Drop(x, d, n).ents = {e \in x.ents : ~(e.d = d /\ e.n = n)}
           /\ \A j \in Inode : SameAt(x, Add(x, d, n, c), j) /\ SameAt(x, Drop(x, d, n), j)
           /\ Entry(d, n, c) \in EntryRec
           /\ Entry(d, n, c).d = d /\ Entry(d, n, c).n = n /\ Entry(d, n, c).c = c
  <1>1. Entry(d, n, c) \in EntryRec /\ Entry(d, n, c).d = d /\ Entry(d, n, c).n = n /\ Entry(d, n, c).c = c
    BY DEF Entry, EntryRec
  <1>2. /\ Add(x, d, n, c) = [x EXCEPT !.ents = x.ents \cup {Entry(d, n, c)}]
        /\ Drop(x, d, n) = [x EXCEPT !.ents = {e \in x.ents : ~(e.d = d /\ e.n = n)}]
    BY Zenon DEF Add, Drop
  <1> DEFINE E == x.ents \cup {Entry(d, n, c)}
             G == {e \in x.ents : ~(e.d = d /\ e.n = n)}
  <1>3. E \in SUBSET EntryRec /\ G \in SUBSET EntryRec
    BY <1>1, FsFacts
  <1> HIDE DEF E, G
  <1>4. \A H \in SUBSET EntryRec : [x EXCEPT !.ents = H] \in FsRec /\ [x EXCEPT !.ents = H].ents = H
                                   /\ [x EXCEPT !.ents = H].ino = x.ino
    BY DEF FsRec
  <1>5. \A z : z.ino = x.ino => \A j \in Inode : SameAt(x, z, j)
    BY DEF SameAt, IsDir, IsFile, Links, Up
  <1>6. /\ Add(x, d, n, c) \in FsRec /\ Add(x, d, n, c).ents = E /\ Add(x, d, n, c).ino = x.ino
        /\ Drop(x, d, n) \in FsRec /\ Drop(x, d, n).ents = G /\ Drop(x, d, n).ino = x.ino
    BY <1>2, <1>3, <1>4 DEF E, G
  <1> QED
    BY <1>1, <1>5, <1>6 DEF E, G

\* Taking an entry away, on its own.
LEMMA DropFacts ==
    ASSUME NEW x \in FsRec, NEW d \in Inode, NEW n \in Name
    PROVE  /\ Drop(x, d, n) \in FsRec
           /\ Drop(x, d, n).ents = {e \in x.ents : ~(e.d = d /\ e.n = n)}
           /\ \A j \in Inode : SameAt(x, Drop(x, d, n), j)
  BY EntryFacts, RootIn

\* Looking for a name.
LEMMA ChildFacts ==
    ASSUME NEW x \in FsRec, NEW d, NEW n
    PROVE  /\ Child(x, d, n) = 0 <=> \A e \in x.ents : ~(e.d = d /\ e.n = n)
           /\ Child(x, d, n) # 0 => \E e \in x.ents : e.d = d /\ e.n = n /\ e.c = Child(x, d, n)
  <1> DEFINE found == {e \in x.ents : e.d = d /\ e.n = n}
  <1>1. \A e \in x.ents : e.c # 0
    BY FsFacts, NamespaceAssumption
  <1>2. CASE found = {}
    BY <1>2 DEF Child
  <1>3. CASE found # {}
    <2>1. (CHOOSE e \in found : TRUE) \in found
      BY <1>3
    <2>2. Child(x, d, n) = (CHOOSE e \in found : TRUE).c
      BY <1>3 DEF Child
    <2> QED
      BY <1>1, <2>1, <2>2
  <1> QED
    BY <1>2, <1>3

\* The link count of a directory with a directory in it more, or less.
IncOf(l) == IF DirIndex /\ (l + 1 >= LinkMax \/ l + 1 = 2) THEN 1 ELSE l + 1
DecOf(l) == IF l > 2 THEN l - 1 ELSE l

\* Naming a directory: its '..' is set, and its new parent counts it.
LEMMA LinkDirFacts ==
    ASSUME NEW x \in FsRec, NEW d \in Inode, NEW c \in Inode, NEW n \in Name, d # c,
           IsDir(x, d), IsDir(x, c), NEW rename \in BOOLEAN, NEW y, y = Link(x, d, c, n, rename)
    PROVE  /\ y \in FsRec /\ y.ents = x.ents \cup {Entry(d, n, c)}
           /\ \A j \in Inode \ {d, c} : SameAt(x, y, j)
           /\ IsDir(y, c) /\ ~IsFile(y, c) /\ Up(y, c) = d
           /\ Links(y, c) = IF rename THEN Links(x, c) ELSE 2
           /\ IsDir(y, d) /\ ~IsFile(y, d) /\ Up(y, d) = Up(x, d)
           /\ Links(y, d) = IncOf(Links(x, d))
  <1> DEFINE a == Add(x, d, n, c)
             v == IF rename THEN a.ino[c].links ELSE 2
             r == [a.ino[c] EXCEPT !.up = d, !.links = v]
             b == [a EXCEPT !.ino[c] = r]
  <1>1. a \in FsRec /\ a.ents = x.ents \cup {Entry(d, n, c)} /\ \A j \in Inode : SameAt(x, a, j)
    BY EntryFacts
  <1>2. y = LinkInc([a EXCEPT !.ino[c].up = d, !.ino[c].links = IF rename THEN @ ELSE 2], d)
    BY Zenon DEF Link
  <1>3. y = LinkInc(b, d)
    <2> HIDE DEF a
    <2>1. a.ino \in [Inode -> InodeRec] /\ a.ino[c] \in InodeRec
      BY <1>1, FsFacts
    <2>2. [a EXCEPT !.ino[c].up = d, !.ino[c].links = IF rename THEN @ ELSE 2] = b
      BY <1>1, <2>1 DEF FsRec, InodeRec
    <2> QED
      BY <1>2, <2>2, Zenon
  <1>4. r \in InodeRec /\ r.kind = a.ino[c].kind /\ r.up = d /\ r.links = v
    <2> HIDE DEF a
    <2>1. a.ino[c] \in InodeRec
      BY <1>1, FsFacts
    <2>2. v \in Nat
      BY <2>1 DEF InodeRec
    <2> HIDE DEF v
    <2> QED
      BY <2>1, <2>2 DEF InodeRec
  <1>5. v = IF rename THEN Links(x, c) ELSE 2
    <2> HIDE DEF a
    <2> QED
      BY <1>1 DEF SameAt, Links
  <1>6. r.kind = "dir" /\ r.kind # "file"
    <2> HIDE DEF a, r
    <2>1. IsDir(a, c)
      BY <1>1 DEF SameAt
    <2> QED
      BY <1>4, <2>1 DEF IsDir
  <1> HIDE DEF a, v, r
  <1>7. /\ b \in FsRec /\ b.ents = a.ents
        /\ \A j \in Inode \ {c} : SameAt(a, b, j)
        /\ IsDir(b, c) /\ ~IsFile(b, c) /\ Links(b, c) = v /\ Up(b, c) = d
    BY <1>1, <1>4, <1>6, WriteFacts
  <1> HIDE DEF b
  <1>8. /\ \A j \in Inode \ {c} : SameAt(x, b, j)
        /\ IsDir(b, d) /\ ~IsFile(b, d) /\ Links(b, d) = Links(x, d) /\ Up(b, d) = Up(x, d)
    <2>1. ~IsFile(x, d)
      BY FsFacts
    <2> QED
      BY <1>1, <1>7, <2>1 DEF SameAt
  <1>9. /\ y \in FsRec /\ y.ents = b.ents
        /\ \A j \in Inode \ {d} : SameAt(b, y, j)
        /\ IsDir(y, d) <=> IsDir(b, d)
        /\ IsFile(y, d) <=> IsFile(b, d)
        /\ Up(y, d) = Up(b, d)
        /\ Links(y, d) = IncOf(Links(b, d))
    BY <1>3, <1>7, <1>8, LinkIncFacts DEF IncOf
  <1> QED
    BY <1>1, <1>5, <1>7, <1>8, <1>9 DEF SameAt

\* Naming a file, with another name or in place of one.
LEMMA LinkFileFacts ==
    ASSUME NEW x \in FsRec, NEW d \in Inode, NEW c \in Inode, NEW n \in Name,
           ~IsDir(x, c), NEW rename \in BOOLEAN, NEW y, y = Link(x, d, c, n, rename)
    PROVE  /\ y \in FsRec /\ y.ents = x.ents \cup {Entry(d, n, c)}
           /\ \A j \in Inode \ {c} : SameAt(x, y, j)
           /\ ~IsDir(y, c) /\ (IsFile(y, c) <=> IsFile(x, c))
           /\ Links(y, c) = IF rename THEN Links(x, c) ELSE Links(x, c) + 1
  <1> DEFINE a == Add(x, d, n, c)
  <1>1. a \in FsRec /\ a.ents = x.ents \cup {Entry(d, n, c)} /\ \A j \in Inode : SameAt(x, a, j)
    BY EntryFacts
  <1>2. y = IF rename THEN a ELSE LinkInc(a, c)
    BY Zenon DEF Link
  <1> HIDE DEF a
  <1>3. CASE rename
    BY <1>1, <1>2, <1>3 DEF SameAt
  <1>4. CASE ~rename
    <2>1. /\ y \in FsRec /\ y.ents = a.ents
          /\ \A j \in Inode \ {c} : SameAt(a, y, j)
          /\ IsDir(y, c) <=> IsDir(a, c)
          /\ IsFile(y, c) <=> IsFile(a, c)
          /\ ~IsDir(a, c) => Links(y, c) = Links(a, c) + 1
      BY <1>1, <1>2, <1>4, LinkIncFacts
    <2> QED
      BY <1>1, <1>4, <2>1 DEF SameAt
  <1> QED
    BY <1>3, <1>4

\* Making something new: a directory with two links, a file with one.
LEMMA NewChildFacts ==
    ASSUME NEW x \in FsRec, FreeInodes(x) # {}, NEW d \in Inode, IsDir(x, d), NEW n \in Name,
           NEW kind \in Kind, NEW y, y = NewChild(x, d, n, kind)
    PROVE  \E i \in Inode :
             /\ ~IsDir(x, i) /\ ~IsFile(x, i) /\ i # d
             /\ y \in FsRec /\ y.ents = x.ents \cup {Entry(d, n, i)}
             /\ \A j \in Inode \ {d, i} : SameAt(x, y, j)
             /\ IsDir(y, d) /\ ~IsFile(y, d) /\ Up(y, d) = Up(x, d)
             /\ kind = "dir"  => /\ IsDir(y, i) /\ ~IsFile(y, i) /\ Up(y, i) = d /\ Links(y, i) = 2
                                 /\ Links(y, d) = IncOf(Links(x, d))
             /\ kind = "file" => /\ IsFile(y, i) /\ ~IsDir(y, i) /\ Links(y, i) = 1
                                 /\ Links(y, d) = Links(x, d)
  <1> DEFINE i == Min(FreeInodes(x))
             r == [kind |-> kind, links |-> 0, up |-> 0]
             a == [x EXCEPT !.ino[i] = r]
  <1>1. i \in FreeInodes(x)
    <2>1. FreeInodes(x) \in SUBSET Nat /\ FreeInodes(x) \in SUBSET Inode /\ IsFiniteSet(Inode)
      BY NamespaceAssumption DEF FreeInodes
    <2>2. IsFiniteSet(FreeInodes(x))
      BY <2>1, FS_Subset
    <2> QED
      BY <2>1, <2>2, MinFacts
  <1>2. PICK no \in BOOLEAN : ~no /\ y = Link(a, d, i, n, no)
    <2>1. y = Link(a, d, i, n, FALSE)
      BY Zenon DEF NewChild
    <2> QED
      BY <2>1, Zenon
  <1> HIDE DEF i
  <1>3. i \in Inode /\ ~IsDir(x, i) /\ ~IsFile(x, i) /\ i # d
    BY <1>1 DEF FreeInodes, IsDir, IsFile
  <1>4. r \in InodeRec /\ r.kind = kind /\ r.links = 0
    BY DEF InodeRec
  <1> HIDE DEF r
  <1>5. /\ a \in FsRec /\ a.ents = x.ents
        /\ \A j \in Inode \ {i} : SameAt(x, a, j)
        /\ IsDir(a, i) <=> r.kind = "dir"
        /\ IsFile(a, i) <=> r.kind = "file"
        /\ Links(a, i) = 0
    BY <1>3, <1>4, WriteFacts
  <1> HIDE DEF a
  <1>6. IsDir(a, d) /\ ~IsFile(a, d) /\ Up(a, d) = Up(x, d) /\ Links(a, d) = Links(x, d)
    <2>1. ~IsFile(x, d)
      BY FsFacts
    <2> QED
      BY <1>3, <1>5, <2>1 DEF SameAt
  <1>7. CASE kind = "dir"
    <2>1. IsDir(a, i)
      BY <1>4, <1>5, <1>7
    <2>2. /\ y \in FsRec /\ y.ents = a.ents \cup {Entry(d, n, i)}
          /\ \A j \in Inode \ {d, i} : SameAt(a, y, j)
          /\ IsDir(y, i) /\ ~IsFile(y, i) /\ Up(y, i) = d
          /\ Links(y, i) = 2
          /\ IsDir(y, d) /\ ~IsFile(y, d) /\ Up(y, d) = Up(a, d)
          /\ Links(y, d) = IncOf(Links(a, d))
      BY <1>2, <1>3, <1>5, <1>6, <2>1, LinkDirFacts
    <2>3. \A j \in Inode \ {d, i} : SameAt(x, y, j)
      BY <1>5, <2>2 DEF SameAt
    <2> QED
      BY <1>3, <1>5, <1>6, <1>7, <2>2, <2>3
  <1>8. CASE kind = "file"
    <2>1. ~IsDir(a, i) /\ IsFile(a, i)
      BY <1>4, <1>5, <1>8
    <2>2. /\ y \in FsRec /\ y.ents = a.ents \cup {Entry(d, n, i)}
          /\ \A j \in Inode \ {i} : SameAt(a, y, j)
          /\ ~IsDir(y, i) /\ IsFile(y, i)
          /\ Links(y, i) = Links(a, i) + 1
      BY <1>2, <1>3, <1>5, <2>1, LinkFileFacts
    <2>3. \A j \in Inode \ {d, i} : SameAt(x, y, j)
      BY <1>5, <2>2 DEF SameAt
    <2>4. IsDir(y, d) /\ ~IsFile(y, d) /\ Up(y, d) = Up(x, d) /\ Links(y, d) = Links(x, d)
      BY <1>3, <1>6, <2>2 DEF SameAt
    <2>5. Links(y, i) = 1
      BY <1>5, <2>2
    <2> QED
      BY <1>3, <1>5, <1>8, <2>2, <2>3, <2>4, <2>5
  <1> QED
    BY <1>7, <1>8 DEF Kind

\* Taking a name from a directory without children: its own two links stay.
LEMMA UnlinkDirFacts ==
    ASSUME NEW x \in FsRec, NEW d \in Inode, NEW c \in Inode, NEW n \in Name, d # c,
           IsDir(x, d), IsDir(x, c), NEW y, y = Unlink(x, d, c, n)
    PROVE  /\ y \in FsRec /\ y.ents = {e \in x.ents : ~(e.d = d /\ e.n = n)}
           /\ \A j \in Inode \ {d, c} : SameAt(x, y, j)
           /\ IsDir(y, c) /\ ~IsFile(y, c) /\ Up(y, c) = Up(x, c)
           /\ Links(y, c) = DecOf(Links(x, c))
           /\ IsDir(y, d) /\ ~IsFile(y, d) /\ Up(y, d) = Up(x, d)
           /\ Links(y, d) = DecOf(Links(x, d))
  <1> DEFINE a == Drop(x, d, n)
             b == LinkDec(a, d)
  <1>1. /\ a \in FsRec /\ a.ents = {e \in x.ents : ~(e.d = d /\ e.n = n)}
        /\ \A j \in Inode : SameAt(x, a, j)
    BY EntryFacts
  <1>2. y = LinkDec(b, c)
    BY Zenon DEF Unlink
  <1> HIDE DEF a
  <1>3. /\ b \in FsRec /\ b.ents = a.ents
        /\ \A j \in Inode \ {d} : SameAt(a, b, j)
        /\ IsDir(b, d) <=> IsDir(a, d)
        /\ IsFile(b, d) <=> IsFile(a, d)
        /\ Up(b, d) = Up(a, d)
        /\ IsDir(a, d) => Links(b, d) = DecOf(Links(a, d))
    BY <1>1, LinkDecFacts DEF DecOf
  <1> HIDE DEF b
  <1>4. /\ y \in FsRec /\ y.ents = b.ents
        /\ \A j \in Inode \ {c} : SameAt(b, y, j)
        /\ IsDir(y, c) <=> IsDir(b, c)
        /\ IsFile(y, c) <=> IsFile(b, c)
        /\ Up(y, c) = Up(b, c)
        /\ IsDir(b, c) => Links(y, c) = DecOf(Links(b, c))
    BY <1>2, <1>3, LinkDecFacts DEF DecOf
  <1>5. ~IsFile(x, d) /\ ~IsFile(x, c)
    BY FsFacts
  <1>6. \A j \in Inode \ {d} : SameAt(x, b, j)
    BY <1>1, <1>3 DEF SameAt
  <1>7. IsDir(b, d) /\ ~IsFile(b, d) /\ Up(b, d) = Up(x, d) /\ Links(b, d) = DecOf(Links(x, d))
    BY <1>1, <1>3, <1>5 DEF SameAt
  <1>8. IsDir(b, c) /\ ~IsFile(b, c) /\ Up(b, c) = Up(x, c) /\ Links(b, c) = Links(x, c)
    BY <1>5, <1>6 DEF SameAt
  <1> QED
    BY <1>1, <1>3, <1>4, <1>6, <1>7, <1>8 DEF SameAt

\* Taking a name from a file.
LEMMA UnlinkFileFacts ==
    ASSUME NEW x \in FsRec, NEW d \in Inode, NEW c \in Inode, NEW n \in Name,
           ~IsDir(x, c), NEW y, y = Unlink(x, d, c, n)
    PROVE  /\ y \in FsRec /\ y.ents = {e \in x.ents : ~(e.d = d /\ e.n = n)}
           /\ \A j \in Inode \ {c} : SameAt(x, y, j)
           /\ ~IsDir(y, c) /\ (IsFile(y, c) <=> IsFile(x, c))
           /\ Links(y, c) = IF Links(x, c) > 0 THEN Links(x, c) - 1 ELSE Links(x, c)
           /\ y.ino[c].links = Links(y, c)
  <1> DEFINE a == Drop(x, d, n)
  <1>1. /\ a \in FsRec /\ a.ents = {e \in x.ents : ~(e.d = d /\ e.n = n)}
        /\ \A j \in Inode : SameAt(x, a, j)
    BY EntryFacts
  <1>2. y = LinkDec(a, c)
    BY Zenon DEF Unlink
  <1> HIDE DEF a
  <1>3. /\ y \in FsRec /\ y.ents = a.ents
        /\ \A j \in Inode \ {c} : SameAt(a, y, j)
        /\ IsDir(y, c) <=> IsDir(a, c)
        /\ IsFile(y, c) <=> IsFile(a, c)
        /\ LET l == Links(a, c)
           IN  Links(y, c) = IF l > (IF IsDir(a, c) THEN 2 ELSE 0) THEN l - 1 ELSE l
    BY <1>1, <1>2, LinkDecFacts
  <1>4. y.ino[c].links = Links(y, c)
    BY DEF Links
  <1> QED
    BY <1>1, <1>3, <1>4 DEF SameAt

-----------------------------------------------------------------------------
(* What keeps the tree sound.                                              *)

\* A directory more is counted, or the count gives up; one less is.
LEMMA CountsMove ==
    ASSUME NEW l \in Nat, NEW k \in Nat, DirCount(l, k)
    PROVE  /\ DirCount(IncOf(l), k + 1)
           /\ k > 0 => DirCount(DecOf(l), k - 1)
           /\ l # 1 => l = 2 + k
  <1>1. LinkMax \in Nat /\ LinkMax > 2 /\ DirIndex \in BOOLEAN
    BY NamespaceAssumption
  <1>2. CASE DirIndex
    BY <1>1, <1>2 DEF DirCount, IncOf, DecOf
  <1>3. CASE ~DirIndex
    BY <1>1, <1>3 DEF DirCount, IncOf, DecOf
  <1> QED
    BY <1>2, <1>3

\* The sets that are counted are finite.
CountsFinite(x, i) ==
  /\ IsFiniteSet(NamesOf(x, i)) /\ Cardinality(NamesOf(x, i)) \in Nat
  /\ IsFiniteSet(Subdirs(x, i)) /\ Cardinality(Subdirs(x, i)) \in Nat

\* What is sound of an entry and of an inode, for the other proofs to cite.
LEMMA SoundFacts ==
    ASSUME NEW x, NEW dep, Sound(x, dep)
    PROVE  /\ x \in FsRec /\ dep \in [Inode -> Nat] /\ Linked(x) /\ Counted(x) /\ Deeper(x, dep)
           /\ \A e, f \in x.ents : e.d = f.d /\ e.n = f.n => e = f
           /\ \A e, f \in x.ents : e.c = f.c /\ IsDir(x, e.c) => e = f
           /\ \A e \in x.ents : /\ e.d \in Inode /\ e.n \in Name /\ e.c \in Inode /\ e = Entry(e.d, e.n, e.c)
                                /\ IsDir(x, e.d) /\ InUse(x, e.c) /\ e.c # Root
                                /\ IsDir(x, e.c) => /\ Up(x, e.c) = e.d /\ dep[e.c] = dep[e.d] + 1
                                                    /\ e.d # e.c
                                /\ dep[e.d] \in Nat /\ dep[e.d] < MaxDepth
           /\ Root \in Inode /\ IsDir(x, Root) /\ Up(x, Root) = Root /\ dep[Root] = 0
           /\ \A i \in Inode \ {Root} : InUse(x, i) => \E e \in x.ents : e.c = i
           /\ \A i \in Inode : /\ InUse(x, i) <=> IsDir(x, i) \/ IsFile(x, i)
                               /\ ~(IsDir(x, i) /\ IsFile(x, i))
                               /\ Links(x, i) \in Nat /\ dep[i] \in Nat
                               /\ CountsFinite(x, i)
  <1>1. /\ x \in FsRec /\ dep \in [Inode -> Nat] /\ Linked(x) /\ Counted(x) /\ Deeper(x, dep)
        /\ \A e \in x.ents : dep[e.d] < MaxDepth
    BY DEF Sound
  <1>2. ASSUME NEW e \in x.ents
        PROVE  /\ e.d \in Inode /\ e.n \in Name /\ e.c \in Inode /\ e = Entry(e.d, e.n, e.c)
               /\ IsDir(x, e.d) /\ InUse(x, e.c) /\ e.c # Root
               /\ IsDir(x, e.c) => /\ Up(x, e.c) = e.d /\ dep[e.c] = dep[e.d] + 1
                                   /\ e.d # e.c
               /\ dep[e.d] \in Nat /\ dep[e.d] < MaxDepth
    <2>1. e.d \in Inode /\ e.n \in Name /\ e.c \in Inode /\ e = Entry(e.d, e.n, e.c)
      BY <1>1, FsFacts
    <2>2. IsDir(x, e.d) /\ InUse(x, e.c) /\ e.c # Root /\ (IsDir(x, e.c) => Up(x, e.c) = e.d)
      BY <1>1 DEF Linked
    <2>3. IsDir(x, e.c) => dep[e.c] = dep[e.d] + 1
      BY <1>1 DEF Deeper
    <2>4. dep[e.d] \in Nat
      BY <1>1, <2>1
    <2> QED
      BY <1>1, <2>1, <2>2, <2>3, <2>4
  <1>3. \A i \in Inode : CountsFinite(x, i)
    BY <1>1, EntriesFinite DEF CountsFinite, NamesOf, Subdirs
  <1>4. /\ Root \in Inode /\ IsDir(x, Root) /\ Up(x, Root) = Root /\ dep[Root] = 0
        /\ \A i \in Inode \ {Root} : InUse(x, i) => \E e \in x.ents : e.c = i
    BY <1>1, RootIn DEF Linked, Deeper
  <1>5. \A i \in Inode : /\ InUse(x, i) <=> IsDir(x, i) \/ IsFile(x, i)
                         /\ ~(IsDir(x, i) /\ IsFile(x, i))
                         /\ Links(x, i) \in Nat /\ dep[i] \in Nat
    BY <1>1, FsFacts
  <1>6. /\ \A e, f \in x.ents : e.d = f.d /\ e.n = f.n => e = f
        /\ \A e, f \in x.ents : e.c = f.c /\ IsDir(x, e.c) => e = f
    BY <1>1 DEF Linked
  <1> QED
    BY <1>1, <1>2, <1>3, <1>4, <1>5, <1>6

\* A new file or directory, with a depth for it.
LEMMA NewChildKeeps ==
    ASSUME NEW x, NEW dep, Sound(x, dep), FreeInodes(x) # {},
           NEW d \in Inode, IsDir(x, d), dep[d] < MaxDepth,
           NEW n \in Name, Child(x, d, n) = 0, NEW kind \in Kind, NEW y, y = NewChild(x, d, n, kind)
    PROVE  \E nd : /\ Sound(y, nd)
                   /\ Child(y, d, n) \in Inode /\ nd[Child(y, d, n)] = dep[d] + 1
                   /\ kind = "dir" => IsDir(y, Child(y, d, n))
  <1>1. x \in FsRec /\ dep \in [Inode -> Nat] /\ Linked(x) /\ Counted(x) /\ Deeper(x, dep)
    BY SoundFacts
  <1>2. PICK i \in Inode :
             /\ ~IsDir(x, i) /\ ~IsFile(x, i) /\ i # d
             /\ y \in FsRec /\ y.ents = x.ents \cup {Entry(d, n, i)}
             /\ \A j \in Inode \ {d, i} : SameAt(x, y, j)
             /\ IsDir(y, d) /\ ~IsFile(y, d) /\ Up(y, d) = Up(x, d)
             /\ kind = "dir"  => /\ IsDir(y, i) /\ ~IsFile(y, i) /\ Up(y, i) = d /\ Links(y, i) = 2
                                 /\ Links(y, d) = IncOf(Links(x, d))
             /\ kind = "file" => /\ IsFile(y, i) /\ ~IsDir(y, i) /\ Links(y, i) = 1
                                 /\ Links(y, d) = Links(x, d)
    BY <1>1, NewChildFacts
  <1> DEFINE g == Entry(d, n, i)
             nd == [dep EXCEPT ![i] = dep[d] + 1]
  <1>3. g.d = d /\ g.n = n /\ g.c = i /\ y.ents = x.ents \cup {g}
    BY <1>1, <1>2, EntryFacts
  <1> HIDE DEF g
  <1>4. \A e \in x.ents : /\ e.d \in Inode /\ e.c \in Inode /\ e.d # i /\ e.c # i
                          /\ ~(e.d = d /\ e.n = n) /\ e # g
    <2>1. ~InUse(x, i)
      BY <1>2, SoundFacts
    <2>2. \A e \in x.ents : ~(e.d = d /\ e.n = n)
      BY <1>1, ChildFacts
    <2> QED
      BY <1>2, <1>3, <2>1, <2>2, SoundFacts
  <1>5. nd \in [Inode -> Nat] /\ nd[i] = dep[d] + 1 /\ \A j \in Inode \ {i} : nd[j] = dep[j]
    BY <1>1
  <1> HIDE DEF nd
  <1>6. \A j \in Inode \ {i} : /\ IsDir(y, j) <=> IsDir(x, j)
                               /\ IsFile(y, j) <=> IsFile(x, j)
                               /\ Up(y, j) = Up(x, j)
                               /\ j # d => Links(y, j) = Links(x, j)
    <2>1. ~IsFile(x, d)
      BY SoundFacts
    <2> QED
      BY <1>2, <2>1 DEF SameAt
  <1>7. kind = "dir" \/ kind = "file"
    BY DEF Kind
  <1>8. \A j \in Inode : InUse(y, j) <=> IsDir(y, j) \/ IsFile(y, j)
    BY <1>2, FsFacts
  <1>9. Linked(y)
    <2>1. \A e, f \in y.ents : (e.d = f.d /\ e.n = f.n) \/ (e.c = f.c /\ IsDir(y, e.c)) => e = f
      BY <1>3, <1>4, <1>6, SoundFacts
    <2>2. \A e \in y.ents : IsDir(y, e.d) /\ InUse(y, e.c) /\ e.c # Root
      <3>1. InUse(y, i) /\ i # Root
        BY <1>2, <1>7, <1>8, SoundFacts
      <3> QED
        BY <1>2, <1>3, <1>4, <1>6, <1>8, <3>1, SoundFacts
    <2>3. \A e \in y.ents : IsDir(y, e.c) => Up(y, e.c) = e.d
      BY <1>2, <1>3, <1>4, <1>6, <1>7, SoundFacts
    <2>4. IsDir(y, Root) /\ Up(y, Root) = Root
      BY <1>2, <1>6, SoundFacts
    <2>5. \A j \in Inode \ {Root} : InUse(y, j) => \E e \in y.ents : e.c = j
      BY <1>3, <1>6, <1>8, SoundFacts
    <2> QED
      BY <2>1, <2>2, <2>3, <2>4, <2>5 DEF Linked
  <1>10. Counted(y)
    <2>1. ASSUME NEW j \in Inode \ {i}
          PROVE  NamesOf(y, j) = NamesOf(x, j)
      BY <1>3 DEF NamesOf
    <2>2. ASSUME NEW j \in Inode \ {i}, j # d \/ kind = "file"
          PROVE  Subdirs(y, j) = Subdirs(x, j)
      BY <1>2, <1>3, <1>4, <1>6, <2>2 DEF Subdirs
    <2>3. NamesOf(y, i) = {g} /\ Cardinality(NamesOf(y, i)) = 1
      <3>1. NamesOf(y, i) = {g}
        BY <1>3, <1>4 DEF NamesOf
      <3> QED
        BY <3>1, FS_Singleton
    <2>4. Subdirs(y, i) = {} /\ Cardinality(Subdirs(y, i)) = 0
      <3>1. Subdirs(y, i) = {}
        BY <1>2, <1>3, <1>4 DEF Subdirs
      <3> QED
        BY <3>1, FS_EmptySet
    <2>5. ASSUME kind = "dir"
          PROVE  Cardinality(Subdirs(y, d)) = Cardinality(Subdirs(x, d)) + 1
      <3>1. Subdirs(y, d) = Subdirs(x, d) \cup {g} /\ g \notin Subdirs(x, d)
        BY <1>2, <1>3, <1>4, <1>6, <2>5 DEF Subdirs
      <3>2. IsFiniteSet(Subdirs(x, d))
        BY SoundFacts DEF CountsFinite
      <3> QED
        BY <3>1, <3>2, FS_AddElement
    <2>6. LinkMax \in Nat /\ LinkMax > 2 /\ DirCount(2, 0) 
      BY NamespaceAssumption DEF DirCount
    <2>7. ASSUME NEW j \in Inode, IsFile(y, j)
          PROVE  Links(y, j) = Cardinality(NamesOf(y, j))
      <3>1. CASE j = i
        BY <1>2, <1>7, <2>3, <2>7, <3>1
      <3>2. CASE j # i
        <4>1. j # d
          BY <1>2, <2>7
        <4> QED
          BY <1>1, <1>6, <2>1, <2>7, <3>2, <4>1 DEF Counted
      <3> QED
        BY <3>1, <3>2
    <2>8. ASSUME NEW j \in Inode, IsDir(y, j)
          PROVE  DirCount(Links(y, j), Cardinality(Subdirs(y, j)))
      <3>1. CASE j = i
        BY <1>2, <1>7, <2>4, <2>6, <2>8, <3>1
      <3>2. CASE j # i /\ (j # d \/ kind = "file")
        <4>1. Links(y, j) = Links(x, j)
          BY <1>2, <1>6, <3>2
        <4> QED
          BY <1>1, <1>6, <2>2, <2>8, <3>2, <4>1 DEF Counted
      <3>3. CASE j = d /\ kind = "dir"
        <4>1. /\ DirCount(Links(x, d), Cardinality(Subdirs(x, d)))
              /\ Links(x, d) \in Nat /\ Cardinality(Subdirs(x, d)) \in Nat
          BY <1>1, SoundFacts DEF Counted, CountsFinite
        <4> QED
          BY <1>2, <2>5, <3>3, <4>1, CountsMove
      <3> QED
        BY <1>7, <3>1, <3>2, <3>3
    <2>9. ASSUME NEW j \in Inode, ~InUse(y, j)
          PROVE  Links(y, j) = 0 /\ Up(y, j) = 0
      <3>1. j # i /\ j # d
        BY <1>2, <1>7, <1>8, <2>9
      <3>2. ~InUse(x, j)
        BY <1>6, <1>8, <2>9, <3>1, SoundFacts
      <3> QED
        BY <1>1, <1>6, <3>1, <3>2 DEF Counted
    <2> QED
      BY <2>7, <2>8, <2>9 DEF Counted
  <1>11. Deeper(y, nd) /\ \A e \in y.ents : nd[e.d] < MaxDepth
    <2>1. nd[Root] = 0
      BY <1>2, <1>5, SoundFacts
    <2>2. ASSUME NEW e \in y.ents
          PROVE  nd[e.d] < MaxDepth /\ (IsDir(y, e.c) => nd[e.c] = nd[e.d] + 1)
      <3>1. CASE e = g
        BY <1>2, <1>3, <1>5, <3>1
      <3>2. CASE e \in x.ents
        BY <1>4, <1>5, <1>6, <3>2, SoundFacts
      <3> QED
        BY <1>3, <3>1, <3>2
    <2> QED
      BY <2>1, <2>2 DEF Deeper
  <1>12. Child(y, d, n) = i
    <2>1. Child(y, d, n) # 0
      BY <1>2, <1>3, ChildFacts
    <2>2. PICK e \in y.ents : e.d = d /\ e.n = n /\ e.c = Child(y, d, n)
      BY <1>2, <2>1, ChildFacts
    <2> QED
      BY <1>3, <1>4, <2>2
  <1>13. Sound(y, nd)
    BY <1>2, <1>5, <1>9, <1>10, <1>11 DEF Sound
  <1>14. kind = "dir" => IsDir(y, i)
    BY <1>2
  <1> QED
    BY <1>5, <1>12, <1>13, <1>14

\* Another name for a file.
LEMMA LinkFileKeeps ==
    ASSUME NEW x, NEW dep, Sound(x, dep), NEW c \in Inode, IsFile(x, c),
           NEW d \in Inode, IsDir(x, d), dep[d] < MaxDepth,
           NEW n \in Name, Child(x, d, n) = 0,
           NEW rename \in BOOLEAN, ~rename, NEW y, y = Link(x, d, c, n, rename)
    PROVE  Sound(y, dep)
  <1>1. /\ x \in FsRec /\ dep \in [Inode -> Nat] /\ Linked(x) /\ Counted(x) /\ Deeper(x, dep)
        /\ ~IsDir(x, c)
    BY SoundFacts
  <1> DEFINE g == Entry(d, n, c)
  <1>2. /\ y \in FsRec /\ y.ents = x.ents \cup {g}
        /\ \A j \in Inode \ {c} : SameAt(x, y, j)
        /\ ~IsDir(y, c) /\ (IsFile(y, c) <=> IsFile(x, c))
        /\ Links(y, c) = Links(x, c) + 1
    BY <1>1, LinkFileFacts
  <1>3. g.d = d /\ g.n = n /\ g.c = c
    BY <1>1, EntryFacts
  <1> HIDE DEF g
  <1>4. \A e \in x.ents : ~(e.d = d /\ e.n = n) /\ e # g
    BY <1>1, <1>3, ChildFacts
  <1>5. \A j \in Inode : /\ IsDir(y, j) <=> IsDir(x, j)
                         /\ IsFile(y, j) <=> IsFile(x, j)
                         /\ j # c => Up(y, j) = Up(x, j) /\ Links(y, j) = Links(x, j)
    BY <1>1, <1>2 DEF SameAt
  <1>6. \A j \in Inode : /\ InUse(y, j) <=> IsDir(y, j) \/ IsFile(y, j)
                         /\ InUse(y, j) <=> InUse(x, j)
    BY <1>2, <1>5, FsFacts, SoundFacts
  <1>7. Linked(y)
    <2>1. \A e, f \in y.ents : (e.d = f.d /\ e.n = f.n) \/ (e.c = f.c /\ IsDir(y, e.c)) => e = f
      BY <1>1, <1>2, <1>3, <1>4, <1>5, SoundFacts
    <2>2. \A e \in y.ents : IsDir(y, e.d) /\ InUse(y, e.c) /\ e.c # Root
      BY <1>1, <1>2, <1>3, <1>5, <1>6, SoundFacts
    <2>3. \A e \in y.ents : IsDir(y, e.c) => Up(y, e.c) = e.d
      BY <1>2, <1>3, <1>5, SoundFacts
    <2>4. IsDir(y, Root) /\ Up(y, Root) = Root
      BY <1>1, <1>5, SoundFacts
    <2>5. \A j \in Inode \ {Root} : InUse(y, j) => \E e \in y.ents : e.c = j
      BY <1>2, <1>6, SoundFacts
    <2> QED
      BY <2>1, <2>2, <2>3, <2>4, <2>5 DEF Linked
  <1>8. Counted(y)
    <2>1. ASSUME NEW j \in Inode, IsFile(y, j)
          PROVE  Links(y, j) = Cardinality(NamesOf(y, j))
      <3>1. Links(x, j) = Cardinality(NamesOf(x, j)) /\ IsFiniteSet(NamesOf(x, j))
        BY <1>1, <1>5, <2>1, SoundFacts DEF Counted, CountsFinite
      <3>2. CASE j = c
        <4> DEFINE N == NamesOf(x, c)
        <4>1. NamesOf(y, c) = N \cup {g} /\ g \notin N
          BY <1>2, <1>3, <1>4 DEF NamesOf
        <4>2. IsFiniteSet(N)
          BY <3>1, <3>2
        <4> HIDE DEF N
        <4>3. Cardinality(N \cup {g}) = Cardinality(N) + 1
          BY <4>1, <4>2, FS_AddElement
        <4>4. Cardinality(NamesOf(y, c)) = Cardinality(NamesOf(x, c)) + 1
          BY <4>1, <4>3 DEF N
        <4> QED
          BY <1>2, <3>1, <3>2, <4>4
      <3>3. CASE j # c
        <4>1. NamesOf(y, j) = NamesOf(x, j)
          BY <1>2, <1>3, <3>3 DEF NamesOf
        <4> QED
          BY <1>5, <3>1, <3>3, <4>1
      <3> QED
        BY <3>2, <3>3
    <2>2. ASSUME NEW j \in Inode, IsDir(y, j)
          PROVE  DirCount(Links(y, j), Cardinality(Subdirs(y, j)))
      <3>1. Subdirs(y, j) = Subdirs(x, j)
        BY <1>2, <1>3, <1>5, SoundFacts DEF Subdirs
      <3>2. Links(y, j) = Links(x, j) /\ IsDir(x, j)
        BY <1>1, <1>5, <2>2
      <3> QED
        BY <1>1, <3>1, <3>2 DEF Counted
    <2>3. ASSUME NEW j \in Inode, ~InUse(y, j)
          PROVE  Links(y, j) = 0 /\ Up(y, j) = 0
      <3>1. ~InUse(x, j) /\ j # c
        BY <1>6, <2>3, SoundFacts
      <3> QED
        BY <1>1, <1>5, <3>1 DEF Counted
    <2> QED
      BY <2>1, <2>2, <2>3 DEF Counted
  <1>9. Deeper(y, dep) /\ \A e \in y.ents : dep[e.d] < MaxDepth
    <2>1. \A e \in y.ents : dep[e.d] < MaxDepth /\ (IsDir(y, e.c) => dep[e.c] = dep[e.d] + 1)
      BY <1>1, <1>2, <1>3, <1>5, SoundFacts
    <2> QED
      BY <2>1, SoundFacts DEF Deeper
  <1> QED
    BY <1>1, <1>2, <1>7, <1>8, <1>9 DEF Sound

\* The tree without an entry and without what it named, if that had no other name and
\* nothing in it: one link of a file less, or one of the directory it was in.
LEMMA RemovedKeeps ==
    ASSUME NEW x, NEW dep, Sound(x, dep), NEW e \in x.ents, Content(x, e.c) = {},
           NEW y \in FsRec, y.ents = x.ents \ {e},
           \A j \in Inode \ {e.d, e.c} : SameAt(x, y, j),
           IsDir(y, e.d), Up(y, e.d) = Up(x, e.d),
           Links(y, e.d) = IF IsDir(x, e.c) THEN DecOf(Links(x, e.d)) ELSE Links(x, e.d),
           \/ ~InUse(y, e.c) /\ Links(y, e.c) = 0 /\ Up(y, e.c) = 0 /\ (IsFile(x, e.c) => Links(x, e.c) = 1)
           \/ IsFile(x, e.c) /\ IsFile(y, e.c) /\ Links(y, e.c) = Links(x, e.c) - 1 /\ Links(x, e.c) # 1
    PROVE  Sound(y, dep)
  <1>1. /\ x \in FsRec /\ dep \in [Inode -> Nat] /\ Linked(x) /\ Counted(x) /\ Deeper(x, dep)
        /\ e.d \in Inode /\ e.c \in Inode /\ e.c # Root /\ IsDir(x, e.d) /\ e.d # e.c /\ InUse(x, e.c)
    <2>1. IsDir(x, e.c) => e.d # e.c
      BY SoundFacts
    <2> QED
      BY <2>1, SoundFacts
  <1>2. \A j \in Inode : /\ InUse(y, j) <=> IsDir(y, j) \/ IsFile(y, j)
                         /\ ~(IsDir(y, j) /\ IsFile(y, j))
    BY FsFacts
  <1>3. \A j \in Inode \ {e.c} : /\ IsDir(y, j) <=> IsDir(x, j)
                                 /\ IsFile(y, j) <=> IsFile(x, j)
                                 /\ InUse(y, j) <=> InUse(x, j)
                                 /\ Up(y, j) = Up(x, j)
                                 /\ j # e.d => Links(y, j) = Links(x, j)
    BY <1>1, <1>2, SoundFacts DEF SameAt
  <1>4. \A f \in y.ents : f \in x.ents /\ f # e /\ f.d # e.c /\ f.d \in Inode /\ f.c \in Inode
    BY SoundFacts DEF Content
  <1>5. ~IsDir(y, e.c)
    BY <1>1, <1>2
  <1>6. IsFile(x, e.c) => Links(x, e.c) = Cardinality(NamesOf(x, e.c))
    BY <1>1 DEF Counted
  <1>7. ASSUME NEW f \in y.ents, f.c = e.c
        PROVE  IsFile(y, e.c)
    <2>1. f \in x.ents /\ f # e
      BY <1>4
    <2>2. ~IsDir(x, e.c)
      BY <1>7, <2>1, SoundFacts
    <2>3. IsFile(x, e.c)
      BY <1>1, <2>2, SoundFacts
    <2>4. Cardinality(NamesOf(x, e.c)) # 1
      <3>1. e \in NamesOf(x, e.c) /\ f \in NamesOf(x, e.c)
        BY <1>7, <2>1 DEF NamesOf
      <3>2. IsFiniteSet(NamesOf(x, e.c))
        BY <1>1, SoundFacts DEF CountsFinite
      <3> QED
        BY <2>1, <3>1, <3>2, FS_Singleton
    <2> QED
      BY <1>6, <2>3, <2>4
  <1>8. Linked(y)
    <2>1. \A f, g \in y.ents : (f.d = g.d /\ f.n = g.n) \/ (f.c = g.c /\ IsDir(y, f.c)) => f = g
      <3>1. \A j \in Inode : IsDir(y, j) => IsDir(x, j)
        BY <1>3, <1>5
      <3> QED
        BY <1>4, <3>1, SoundFacts
    <2>2. \A f \in y.ents : IsDir(y, f.d) /\ InUse(y, f.c) /\ f.c # Root
      BY <1>2, <1>3, <1>4, <1>7, SoundFacts
    <2>3. \A f \in y.ents : IsDir(y, f.c) => Up(y, f.c) = f.d
      BY <1>3, <1>4, <1>5, SoundFacts
    <2>4. IsDir(y, Root) /\ Up(y, Root) = Root
      BY <1>1, <1>3, SoundFacts
    <2>5. ASSUME NEW j \in Inode \ {Root}, InUse(y, j)
          PROVE  \E f \in y.ents : f.c = j
      <3>1. CASE j # e.c
        <4>1. PICK f \in x.ents : f.c = j
          BY <1>3, <2>5, <3>1, SoundFacts
        <4> QED
          BY <3>1, <4>1
      <3>2. CASE j = e.c
        <4>1. IsFile(x, e.c) /\ Links(x, e.c) # 1
          BY <2>5, <3>2
        <4>2. IsFiniteSet(NamesOf(x, e.c)) /\ Cardinality(NamesOf(x, e.c)) # 1
          BY <1>1, <1>6, <4>1, SoundFacts DEF CountsFinite
        <4>3. NamesOf(x, e.c) # {e}
          BY <4>2, FS_Singleton
        <4>4. e \in NamesOf(x, e.c)
          BY DEF NamesOf
        <4>5. PICK f \in NamesOf(x, e.c) : f # e
          BY <4>3, <4>4
        <4> QED
          BY <3>2, <4>5 DEF NamesOf
      <3> QED
        BY <3>1, <3>2
    <2> QED
      BY <2>1, <2>2, <2>3, <2>4, <2>5 DEF Linked
  <1>9. Counted(y)
    <2>1. ASSUME NEW j \in Inode, IsFile(y, j)
          PROVE  Links(y, j) = Cardinality(NamesOf(y, j))
      <3>1. CASE j # e.c
        <4>1. NamesOf(y, j) = NamesOf(x, j)
          BY <3>1 DEF NamesOf
        <4>2. j # e.d
          BY <1>2, <2>1
        <4> QED
          BY <1>1, <1>3, <2>1, <3>1, <4>1, <4>2 DEF Counted
      <3>2. CASE j = e.c
        <4> DEFINE N == NamesOf(x, e.c)
        <4>1. NamesOf(y, e.c) = N \ {e} /\ e \in N
          BY DEF NamesOf
        <4>2. IsFiniteSet(N)
          BY <1>1, SoundFacts DEF CountsFinite
        <4> HIDE DEF N
        <4>3. Cardinality(N \ {e}) = Cardinality(N) - 1
          BY <4>1, <4>2, FS_RemoveElement
        <4>4. Cardinality(NamesOf(y, e.c)) = Cardinality(NamesOf(x, e.c)) - 1
          BY <4>1, <4>3 DEF N
        <4>5. IsFile(x, e.c) /\ Links(y, e.c) = Links(x, e.c) - 1
          BY <1>1, <1>2, <2>1, <3>2
        <4> QED
          BY <1>6, <3>2, <4>4, <4>5
      <3> QED
        BY <3>1, <3>2
    <2>2. ASSUME NEW j \in Inode, IsDir(y, j)
          PROVE  DirCount(Links(y, j), Cardinality(Subdirs(y, j)))
      <3>1. j # e.c /\ IsDir(x, j)
        BY <1>3, <1>5, <2>2
      <3>2. /\ DirCount(Links(x, j), Cardinality(Subdirs(x, j)))
            /\ IsFiniteSet(Subdirs(x, j)) /\ Cardinality(Subdirs(x, j)) \in Nat /\ Links(x, j) \in Nat
        BY <1>1, <3>1, SoundFacts DEF Counted, CountsFinite
      <3>3. CASE j = e.d /\ IsDir(x, e.c)
        <4>1. Subdirs(y, j) = Subdirs(x, j) \ {e} /\ e \in Subdirs(x, j)
          <5>1. \A f \in x.ents : f # e => (IsDir(y, f.c) <=> IsDir(x, f.c))
            BY <1>3, <3>3, SoundFacts
          <5> QED
            BY <3>3, <5>1 DEF Subdirs
        <4>2. Cardinality(Subdirs(y, j)) = Cardinality(Subdirs(x, j)) - 1 /\ Cardinality(Subdirs(x, j)) # 0
          BY <3>2, <4>1, FS_RemoveElement, FS_EmptySet
        <4>3. Links(y, j) = DecOf(Links(x, j))
          BY <3>3
        <4>4. Cardinality(Subdirs(x, j)) > 0
          BY <3>2, <4>2
        <4> QED
          BY <3>2, <4>2, <4>3, <4>4, CountsMove
      <3>4. CASE j # e.d \/ ~IsDir(x, e.c)
        <4>1. Subdirs(y, j) = Subdirs(x, j)
          <5>1. \A f \in x.ents : f.d = j /\ IsDir(x, f.c) => f # e /\ f.c # e.c
            BY <3>4, SoundFacts
          <5>2. \A f \in x.ents : f.c # e.c => (IsDir(y, f.c) <=> IsDir(x, f.c))
            BY <1>3, SoundFacts
          <5> QED
            BY <1>5, <5>1, <5>2 DEF Subdirs
        <4>2. Links(y, j) = Links(x, j)
          BY <1>3, <3>1, <3>4
        <4> QED
          BY <3>2, <4>1, <4>2
      <3> QED
        BY <3>3, <3>4
    <2>3. ASSUME NEW j \in Inode, ~InUse(y, j)
          PROVE  Links(y, j) = 0 /\ Up(y, j) = 0
      <3>1. CASE j = e.c
        BY <1>2, <2>3, <3>1
      <3>2. CASE j # e.c
        <4>1. ~InUse(x, j) /\ j # e.d
          BY <1>2, <1>3, <2>3, <3>2
        <4> QED
          BY <1>1, <1>3, <3>2, <4>1 DEF Counted
      <3> QED
        BY <3>1, <3>2
    <2> QED
      BY <2>1, <2>2, <2>3 DEF Counted
  <1>10. Deeper(y, dep) /\ \A f \in y.ents : dep[f.d] < MaxDepth
    <2>1. \A f \in y.ents : dep[f.d] < MaxDepth /\ (IsDir(y, f.c) => dep[f.c] = dep[f.d] + 1)
      BY <1>3, <1>4, <1>5, SoundFacts
    <2> QED
      BY <2>1, SoundFacts DEF Deeper
  <1> QED
    BY <1>1, <1>8, <1>9, <1>10 DEF Sound

\* Removing a name of a file, and the file with the last one, freed or lost.
LEMMA RemoveFileKeeps ==
    ASSUME NEW x, NEW dep, Sound(x, dep), NEW e \in x.ents, IsFile(x, e.c),
           NEW y, y = Unlink(x, e.d, e.c, e.n),
           NEW ok, NEW z, z = IF y.ino[e.c].links = 0 THEN Free(y, e.c, ok) ELSE y
    PROVE  /\ Sound(z, dep) /\ z.ents = x.ents \ {e}
           /\ \A j \in Inode \ {e.c} : SameAt(x, z, j)
           /\ Links(x, e.c) = 1 => z = Free(y, e.c, ok)
  <1>1. /\ x \in FsRec /\ e.d \in Inode /\ e.c \in Inode /\ e.n \in Name /\ ~IsDir(x, e.c) /\ IsDir(x, e.d)
        /\ Links(x, e.c) \in Nat /\ e.d # e.c
    BY SoundFacts
  <1>2. /\ y \in FsRec /\ y.ents = {f \in x.ents : ~(f.d = e.d /\ f.n = e.n)}
        /\ \A j \in Inode \ {e.c} : SameAt(x, y, j)
        /\ ~IsDir(y, e.c) /\ IsFile(y, e.c)
        /\ Links(y, e.c) = IF Links(x, e.c) > 0 THEN Links(x, e.c) - 1 ELSE Links(x, e.c)
        /\ y.ino[e.c].links = Links(y, e.c)
    BY <1>1, UnlinkFileFacts
  <1>3. y.ents = x.ents \ {e}
    BY <1>2, SoundFacts
  <1>4. Links(x, e.c) # 0
    <2>1. Links(x, e.c) = Cardinality(NamesOf(x, e.c)) /\ IsFiniteSet(NamesOf(x, e.c))
      BY <1>1, SoundFacts DEF Counted, CountsFinite
    <2>2. e \in NamesOf(x, e.c)
      BY DEF NamesOf
    <2> QED
      BY <2>1, <2>2, FS_EmptySet
  <1>5. Content(x, e.c) = {}
    BY <1>1, SoundFacts DEF Content
  <1>6. IsDir(y, e.d) /\ Up(y, e.d) = Up(x, e.d) /\ Links(y, e.d) = Links(x, e.d)
    BY <1>1, <1>2 DEF SameAt
  <1>7. CASE Links(x, e.c) = 1
    <2>1. z = Free(y, e.c, ok)
      BY <1>2, <1>7
    <2>2. /\ z \in FsRec /\ z.ents = y.ents
          /\ \A j \in Inode \ {e.c} : SameAt(y, z, j)
          /\ ~IsDir(z, e.c) /\ ~IsFile(z, e.c) /\ Links(z, e.c) = 0 /\ Up(z, e.c) = 0
      BY <1>1, <1>2, <2>1, FreeFacts
    <2>3. ~InUse(z, e.c)
      BY <1>1, <2>2, FsFacts
    <2>4. \A j \in Inode \ {e.c} : SameAt(x, z, j)
      BY <1>2, <2>2 DEF SameAt
    <2>5. IsDir(z, e.d) /\ Up(z, e.d) = Up(x, e.d) /\ Links(z, e.d) = Links(x, e.d)
      BY <1>1, <2>4 DEF SameAt
    <2>6. Sound(z, dep)
      BY <1>1, <1>3, <1>5, <1>7, <2>2, <2>3, <2>4, <2>5, RemovedKeeps
    <2> QED
      BY <1>3, <2>1, <2>2, <2>4, <2>6
  <1>8. CASE Links(x, e.c) # 1
    <2>1. z = y /\ Links(y, e.c) = Links(x, e.c) - 1
      BY <1>1, <1>2, <1>4, <1>8
    <2>2. Sound(y, dep)
      BY <1>1, <1>2, <1>3, <1>5, <1>6, <1>8, <2>1, RemovedKeeps
    <2> QED
      BY <1>2, <1>3, <1>8, <2>1, <2>2
  <1> QED
    BY <1>7, <1>8

\* Removing a directory with nothing in it.
LEMMA RemoveDirKeeps ==
    ASSUME NEW x, NEW dep, Sound(x, dep), NEW e \in x.ents, IsDir(x, e.c), Content(x, e.c) = {},
           NEW y, y = Unlink(x, e.d, e.c, e.n), NEW ok, NEW z, z = Free(y, e.c, ok)
    PROVE  /\ Sound(z, dep) /\ z.ents = x.ents \ {e}
           /\ \A j \in Inode \ {e.c, e.d} : SameAt(x, z, j)
           /\ IsDir(z, e.d) /\ Up(z, e.d) = Up(x, e.d) /\ Links(z, e.d) = DecOf(Links(x, e.d))
           /\ Links(x, e.c) # 1 => y.ino[e.c].links = 2
  <1>1. /\ x \in FsRec /\ e.d \in Inode /\ e.c \in Inode /\ e.n \in Name /\ IsDir(x, e.d)
        /\ Links(x, e.c) \in Nat /\ e.d # e.c /\ Counted(x)
    BY SoundFacts
  <1>2. /\ y \in FsRec /\ y.ents = {f \in x.ents : ~(f.d = e.d /\ f.n = e.n)}
        /\ \A j \in Inode \ {e.d, e.c} : SameAt(x, y, j)
        /\ Links(y, e.c) = DecOf(Links(x, e.c))
        /\ IsDir(y, e.d) /\ ~IsFile(y, e.d) /\ Up(y, e.d) = Up(x, e.d)
        /\ Links(y, e.d) = DecOf(Links(x, e.d))
    BY <1>1, UnlinkDirFacts
  <1>3. y.ents = x.ents \ {e}
    BY <1>2, SoundFacts
  <1>4. /\ z \in FsRec /\ z.ents = y.ents
        /\ \A j \in Inode \ {e.c} : SameAt(y, z, j)
        /\ ~IsDir(z, e.c) /\ ~IsFile(z, e.c) /\ Links(z, e.c) = 0 /\ Up(z, e.c) = 0
    BY <1>1, <1>2, FreeFacts
  <1>5. /\ \A j \in Inode \ {e.c, e.d} : SameAt(x, z, j)
        /\ IsDir(z, e.d) /\ Up(z, e.d) = Up(x, e.d) /\ Links(z, e.d) = DecOf(Links(x, e.d))
    BY <1>1, <1>2, <1>4 DEF SameAt
  <1>6. ~InUse(z, e.c) /\ ~IsFile(x, e.c)
    BY <1>1, <1>4, FsFacts
  <1>7. Sound(z, dep)
    BY <1>1, <1>3, <1>4, <1>5, <1>6, RemovedKeeps
  <1>8. ASSUME Links(x, e.c) # 1
        PROVE  y.ino[e.c].links = 2
    <2>1. Subdirs(x, e.c) = {}
      BY DEF Subdirs, Content
    <2>2. Cardinality(Subdirs(x, e.c)) = 0
      BY <2>1, FS_EmptySet
    <2>3. DirCount(Links(x, e.c), 0)
      BY <1>1, <2>2 DEF Counted
    <2>4. Links(x, e.c) = 2
      BY <1>1, <1>8, <2>3, CountsMove
    <2> QED
      BY <1>2, <2>4 DEF Links, DecOf
  <1> QED
    BY <1>3, <1>4, <1>5, <1>7, <1>8

\* The first half of a rename: the new name.
Moved(x, t, c, n) == Link(x, t, c, n, TRUE)

\* It changes the directory that gets the name, and the '..' of a directory moved.
LEMMA MovedFacts ==
    ASSUME NEW x \in FsRec, NEW t \in Inode, NEW c \in Inode, NEW n \in Name, t # c, IsDir(x, t)
    PROVE  LET y == Moved(x, t, c, n)
           IN  /\ y \in FsRec /\ y.ents = x.ents \cup {Entry(t, n, c)}
               /\ \A j \in Inode \ {t, c} : SameAt(x, y, j)
               /\ IsDir(x, c) => /\ IsDir(y, c) /\ ~IsFile(y, c) /\ Up(y, c) = t
                                 /\ IsDir(y, t) /\ ~IsFile(y, t) /\ Up(y, t) = Up(x, t)
                                 /\ Links(y, t) = IncOf(Links(x, t))
               /\ ~IsDir(x, c) => /\ ~IsDir(y, c) /\ (IsFile(y, c) <=> IsFile(x, c))
                                  /\ SameAt(x, y, t)
               /\ Links(y, c) = Links(x, c)
  <1> DEFINE y == Moved(x, t, c, n)
  <1>1. PICK no \in BOOLEAN : ~no
    OBVIOUS
  <1>2. PICK yes \in BOOLEAN : yes # no /\ y = Link(x, t, c, n, yes)
    BY <1>1, Zenon DEF Moved
  <1> HIDE DEF y
  <1>3. IF yes THEN TRUE ELSE FALSE
    BY <1>1, <1>2, Zenon
  <1>4. CASE IsDir(x, c)
    BY <1>2, <1>3, <1>4, LinkDirFacts DEF y
  <1>5. CASE ~IsDir(x, c)
    BY <1>2, <1>3, <1>5, LinkFileFacts DEF y
  <1> QED
    BY <1>4, <1>5 DEF y

\* A file renamed: a new name in the place of an old one.
LEMMA RenameFileKeeps ==
    ASSUME NEW x, NEW dep, Sound(x, dep), NEW old \in x.ents, IsFile(x, old.c),
           NEW t \in Inode, IsDir(x, t), dep[t] < MaxDepth,
           NEW n \in Name, Child(x, t, n) = 0,
           NEW y, y = Drop(Moved(x, t, old.c, n), old.d, old.n)
    PROVE  Sound(y, dep)
  <1> DEFINE g == Entry(t, n, old.c)
             a == Moved(x, t, old.c, n)
  <1>1. /\ x \in FsRec /\ dep \in [Inode -> Nat] /\ Linked(x) /\ Counted(x) /\ Deeper(x, dep)
        /\ ~IsDir(x, old.c) /\ old.d \in Inode /\ old.n \in Name /\ old.c \in Inode /\ old.c # Root
    BY SoundFacts
  <1>2. g.d = t /\ g.n = n /\ g.c = old.c
    BY <1>1, EntryFacts
  <1>3. /\ a \in FsRec /\ a.ents = x.ents \cup {g}
        /\ \A j \in Inode \ {old.c} : SameAt(x, a, j)
        /\ ~IsDir(a, old.c) /\ IsFile(a, old.c)
        /\ Links(a, old.c) = Links(x, old.c)
    BY <1>1, MovedFacts
  <1>4. y = Drop(a, old.d, old.n)
    OBVIOUS
  <1> HIDE DEF g, a
  <1>5. /\ y \in FsRec /\ y.ents = {e \in a.ents : ~(e.d = old.d /\ e.n = old.n)}
        /\ \A j \in Inode : SameAt(a, y, j)
    <2>1. a \in FsRec /\ old.d \in Inode /\ old.n \in Name
      BY <1>1, <1>3
    <2> QED
      BY ONLY <1>4, <2>1, DropFacts
  <1>6. \A e \in x.ents : ~(e.d = t /\ e.n = n) /\ e # g
    BY <1>1, <1>2, ChildFacts
  <1>7. y.ents = (x.ents \ {old}) \cup {g}
    <2>1. ~(g.d = old.d /\ g.n = old.n)
      BY <1>2, <1>6
    <2>2. \A e \in x.ents : (e.d = old.d /\ e.n = old.n) <=> e = old
      BY SoundFacts
    <2> QED
      BY <1>3, <1>5, <2>1, <2>2
  <1>8. \A j \in Inode : /\ IsDir(y, j) <=> IsDir(x, j)
                         /\ IsFile(y, j) <=> IsFile(x, j)
                         /\ Links(y, j) = Links(x, j)
                         /\ j # old.c => Up(y, j) = Up(x, j)
    BY <1>1, <1>3, <1>5 DEF SameAt
  <1>9. \A j \in Inode : /\ InUse(y, j) <=> IsDir(y, j) \/ IsFile(y, j)
                         /\ InUse(y, j) <=> InUse(x, j)
    BY <1>5, <1>8, FsFacts, SoundFacts
  <1>10. Linked(y)
    <2>1. \A e, f \in y.ents : (e.d = f.d /\ e.n = f.n) \/ (e.c = f.c /\ IsDir(y, e.c)) => e = f
      BY <1>1, <1>2, <1>6, <1>7, <1>8, SoundFacts
    <2>2. \A e \in y.ents : IsDir(y, e.d) /\ InUse(y, e.c) /\ e.c # Root
      BY <1>1, <1>2, <1>7, <1>8, <1>9, SoundFacts
    <2>3. \A e \in y.ents : IsDir(y, e.c) => Up(y, e.c) = e.d
      BY <1>1, <1>2, <1>7, <1>8, SoundFacts
    <2>4. IsDir(y, Root) /\ Up(y, Root) = Root
      BY <1>1, <1>8, SoundFacts
    <2>5. ASSUME NEW j \in Inode \ {Root}, InUse(y, j)
          PROVE  \E e \in y.ents : e.c = j
      <3>1. PICK e \in x.ents : e.c = j
        BY <1>9, <2>5, SoundFacts
      <3> QED
        BY <1>2, <1>7, <3>1
    <2> QED
      BY <2>1, <2>2, <2>3, <2>4, <2>5 DEF Linked
  <1>11. Counted(y)
    <2>1. ASSUME NEW j \in Inode
          PROVE  Cardinality(NamesOf(y, j)) = Cardinality(NamesOf(x, j))
      <3> DEFINE N == NamesOf(x, j)
      <3>1. CASE j = old.c
        <4>1. NamesOf(y, j) = (N \ {old}) \cup {g} /\ g \notin N \ {old} /\ old \in N
          BY <1>2, <1>6, <1>7, <3>1 DEF NamesOf
        <4>2. IsFiniteSet(N) /\ Cardinality(N) \in Nat
          BY SoundFacts DEF CountsFinite
        <4> HIDE DEF N
        <4> DEFINE M == N \ {old}
        <4>3. IsFiniteSet(M) /\ Cardinality(M) = Cardinality(N) - 1
          BY <4>1, <4>2, FS_RemoveElement
        <4>4. NamesOf(y, j) = M \cup {g} /\ g \notin M
          BY <4>1
        <4> HIDE DEF M
        <4>5. Cardinality(M \cup {g}) = Cardinality(M) + 1
          BY <4>3, <4>4, FS_AddElement
        <4>6. Cardinality(NamesOf(y, j)) = Cardinality(N)
          BY <4>2, <4>3, <4>4, <4>5
        <4> QED
          BY <4>6 DEF N
      <3>2. CASE j # old.c
        <4>1. NamesOf(y, j) = N
          BY <1>2, <1>7, <3>2 DEF NamesOf
        <4> QED
          BY <4>1
      <3> QED
        BY <3>1, <3>2
    <2>2. \A j \in Inode : Subdirs(y, j) = Subdirs(x, j)
      BY <1>1, <1>2, <1>7, <1>8, SoundFacts DEF Subdirs
    <2>3. ASSUME NEW j \in Inode, ~InUse(y, j)
          PROVE  Links(y, j) = 0 /\ Up(y, j) = 0
      <3>1. ~InUse(x, j) /\ j # old.c
        BY <1>9, <2>3, SoundFacts
      <3> QED
        BY <1>1, <1>8, <3>1 DEF Counted
    <2>4. ASSUME NEW j \in Inode
          PROVE  /\ IsFile(y, j) => Links(y, j) = Cardinality(NamesOf(y, j))
                 /\ IsDir(y, j) => DirCount(Links(y, j), Cardinality(Subdirs(y, j)))
      BY <1>1, <1>8, <2>1, <2>2 DEF Counted
    <2> QED
      BY <2>3, <2>4 DEF Counted
  <1>12. Deeper(y, dep) /\ \A e \in y.ents : dep[e.d] < MaxDepth
    <2>1. \A e \in y.ents : dep[e.d] < MaxDepth /\ (IsDir(y, e.c) => dep[e.c] = dep[e.d] + 1)
      BY <1>1, <1>2, <1>7, <1>8, SoundFacts
    <2> QED
      BY <2>1, SoundFacts DEF Deeper
  <1> QED
    BY <1>1, <1>5, <1>10, <1>11, <1>12 DEF Sound

\* A directory renamed with all that is in it (T), which the new place is not: their
\* depths move by as much as its own does.
LEMMA RenameDirKeeps ==
    ASSUME NEW x, NEW dep, Sound(x, dep), NEW old \in x.ents, IsDir(x, old.c),
           NEW t \in Inode, IsDir(x, t), dep[t] < MaxDepth,
           NEW n \in Name, Child(x, t, n) = 0,
           NEW y, y = LinkDec(Drop(Moved(x, t, old.c, n), old.d, old.n), old.d),
           Shallow(y),
           NEW T \in SUBSET Inode, old.c \in T, t \notin T, Root \notin T,
           \A i \in T : dep[old.c] <= dep[i],
           \A e \in x.ents : e.d \in T /\ IsDir(x, e.c) => e.c \in T,
           \A i \in T \ {old.c} : Up(x, i) \in T
    PROVE  \E nd : Sound(y, nd)
  <1> DEFINE g == Entry(t, n, old.c)
             a == Moved(x, t, old.c, n)
             b == Drop(a, old.d, old.n)
             nd == [i \in Inode |-> IF i \in T THEN dep[i] - dep[old.c] + dep[t] + 1 ELSE dep[i]]
  <1>1. /\ x \in FsRec /\ dep \in [Inode -> Nat] /\ Linked(x) /\ Counted(x) /\ Deeper(x, dep)
        /\ old.d \in Inode /\ old.n \in Name /\ old.c \in Inode /\ old.c # Root
        /\ IsDir(x, old.d) /\ old.d # old.c /\ ~IsFile(x, old.c) /\ t # old.c
        /\ ~IsFile(x, old.d) /\ ~IsFile(x, t)
    BY SoundFacts
  <1>2. g.d = t /\ g.n = n /\ g.c = old.c
    BY <1>1, EntryFacts
  <1>3. /\ a \in FsRec /\ a.ents = x.ents \cup {g}
        /\ \A j \in Inode \ {t, old.c} : SameAt(x, a, j)
        /\ IsDir(a, old.c) /\ ~IsFile(a, old.c) /\ Up(a, old.c) = t
        /\ Links(a, old.c) = Links(x, old.c)
        /\ IsDir(a, t) /\ ~IsFile(a, t) /\ Up(a, t) = Up(x, t)
        /\ Links(a, t) = IncOf(Links(x, t))
    BY <1>1, MovedFacts
  <1>4. y = LinkDec(b, old.d) /\ b = Drop(a, old.d, old.n)
    OBVIOUS
  <1>5. old.d \in Inode /\ old.n \in Name
    BY <1>1
  <1> HIDE DEF g, a, b, nd
  <1>6. /\ b \in FsRec /\ b.ents = {e \in a.ents : ~(e.d = old.d /\ e.n = old.n)}
        /\ \A j \in Inode : SameAt(a, b, j)
    BY ONLY <1>5, <1>3, <1>4, DropFacts
  <1>7. /\ y \in FsRec /\ y.ents = b.ents
        /\ \A j \in Inode \ {old.d} : SameAt(b, y, j)
        /\ IsDir(y, old.d) <=> IsDir(b, old.d)
        /\ IsFile(y, old.d) <=> IsFile(b, old.d)
        /\ Up(y, old.d) = Up(b, old.d)
        /\ IsDir(b, old.d) => Links(y, old.d) = DecOf(Links(b, old.d))
    <2>1. /\ y \in FsRec /\ y.ents = b.ents
          /\ \A j \in Inode \ {old.d} : SameAt(b, y, j)
          /\ IsDir(y, old.d) <=> IsDir(b, old.d)
          /\ IsFile(y, old.d) <=> IsFile(b, old.d)
          /\ Up(y, old.d) = Up(b, old.d)
          /\ LET l == Links(b, old.d)
             IN  Links(y, old.d) = IF l > (IF IsDir(b, old.d) THEN 2 ELSE 0) THEN l - 1 ELSE l
      BY ONLY <1>6, <1>4, <1>5, LinkDecFacts
    <2> QED
      BY ONLY <2>1 DEF DecOf
  <1>8. \A e \in x.ents : ~(e.d = t /\ e.n = n) /\ e # g
    BY <1>1, <1>2, ChildFacts
  <1>9. y.ents = (x.ents \ {old}) \cup {g}
    <2>1. ~(g.d = old.d /\ g.n = old.n)
      BY <1>2, <1>8
    <2>2. \A e \in x.ents : (e.d = old.d /\ e.n = old.n) <=> e = old
      BY SoundFacts
    <2> QED
      BY <1>3, <1>6, <1>7, <2>1, <2>2
  <1>10. \A j \in Inode : /\ IsDir(b, j) <=> IsDir(x, j)
                          /\ IsFile(b, j) <=> IsFile(x, j)
                          /\ Links(b, j) = IF j = t THEN IncOf(Links(x, t)) ELSE Links(x, j)
                          /\ Up(b, j) = IF j = old.c THEN t ELSE Up(x, j)
    BY <1>1, <1>3, <1>6 DEF SameAt
  <1>11. \A j \in Inode : /\ IsDir(y, j) <=> IsDir(x, j)
                          /\ IsFile(y, j) <=> IsFile(x, j)
                          /\ Links(y, j) = IF j = old.d THEN DecOf(Links(b, j)) ELSE Links(b, j)
                          /\ Up(y, j) = IF j = old.c THEN t ELSE Up(x, j)
    BY <1>1, <1>7, <1>10 DEF SameAt
  <1>12. \A j \in Inode : /\ InUse(y, j) <=> IsDir(y, j) \/ IsFile(y, j)
                          /\ InUse(y, j) <=> InUse(x, j)
    BY <1>7, <1>11, FsFacts, SoundFacts
  <1>13. \A e \in x.ents \ {old} : e.c # old.c
    BY SoundFacts
  <1>14. Linked(y)
    <2>1. \A e, f \in y.ents : (e.d = f.d /\ e.n = f.n) \/ (e.c = f.c /\ IsDir(y, e.c)) => e = f
      BY <1>1, <1>2, <1>8, <1>9, <1>11, <1>13, SoundFacts
    <2>2. \A e \in y.ents : IsDir(y, e.d) /\ InUse(y, e.c) /\ e.c # Root
      BY <1>1, <1>2, <1>9, <1>11, <1>12, SoundFacts
    <2>3. \A e \in y.ents : IsDir(y, e.c) => Up(y, e.c) = e.d
      BY <1>1, <1>2, <1>9, <1>11, <1>13, SoundFacts
    <2>4. IsDir(y, Root) /\ Up(y, Root) = Root
      BY <1>1, <1>11, SoundFacts
    <2>5. ASSUME NEW j \in Inode \ {Root}, InUse(y, j)
          PROVE  \E e \in y.ents : e.c = j
      <3>1. PICK e \in x.ents : e.c = j
        BY <1>12, <2>5, SoundFacts
      <3> QED
        BY <1>2, <1>9, <3>1
    <2> QED
      BY <2>1, <2>2, <2>3, <2>4, <2>5 DEF Linked
  <1>15. Counted(y)
    <2>1. ASSUME NEW j \in Inode, IsFile(y, j)
          PROVE  Links(y, j) = Cardinality(NamesOf(y, j))
      <3>1. IsFile(x, j) /\ j # old.c /\ j # old.d /\ j # t
        BY <1>1, <1>11, <2>1
      <3>2. NamesOf(y, j) = NamesOf(x, j)
        BY <1>2, <1>9, <3>1 DEF NamesOf
      <3> QED
        BY <1>1, <1>10, <1>11, <3>1, <3>2 DEF Counted
    <2>2. ASSUME NEW j \in Inode, IsDir(y, j)
          PROVE  DirCount(Links(y, j), Cardinality(Subdirs(y, j)))
      <3> DEFINE D == Subdirs(x, j)
                 k == Cardinality(D)
                 l == Links(x, j)
      <3>1. IsFiniteSet(D) /\ k \in Nat /\ l \in Nat /\ DirCount(l, k)
        BY <1>1, <1>11, <2>2, SoundFacts DEF CountsFinite, Counted
      <3>2. g \notin D /\ (old \in D <=> j = old.d)
        BY <1>8 DEF Subdirs
      <3>3. Subdirs(y, j) = (IF j = old.d THEN D \ {old} ELSE D) \cup (IF j = t THEN {g} ELSE {})
        <4>1. \A e \in x.ents : IsDir(y, e.c) <=> IsDir(x, e.c)
          BY <1>11, SoundFacts
        <4>2. IsDir(y, g.c)
          BY <1>1, <1>2, <1>11
        <4> QED
          BY <1>2, <1>9, <4>1, <4>2 DEF Subdirs
      <3>4. Links(y, j) = IF j = old.d THEN DecOf(Links(b, j)) ELSE Links(b, j)
        BY <1>11
      <3>5. Links(b, j) = IF j = t THEN IncOf(l) ELSE l
        BY <1>10
      <3>6. DirCount(IncOf(l), k + 1) /\ IncOf(l) \in Nat
        <4>1. IncOf(l) \in Nat
          BY <3>1 DEF IncOf
        <4> QED
          BY <3>1, <4>1, CountsMove
      <3> HIDE DEF D, l
      <3>7. CASE j = t /\ j = old.d
        <4> DEFINE E == D \ {old}
        <4>1. IsFiniteSet(E) /\ Cardinality(E) = k - 1
          BY <3>1, <3>2, <3>7, FS_RemoveElement
        <4>2. Subdirs(y, j) = E \cup {g} /\ g \notin E
          BY <3>2, <3>3, <3>7
        <4> HIDE DEF E
        <4>3. Cardinality(E \cup {g}) = Cardinality(E) + 1
          BY <4>1, <4>2, FS_AddElement
        <4>4. Cardinality(Subdirs(y, j)) = k
          BY <3>1, <4>1, <4>2, <4>3
        <4>5. Links(y, j) = DecOf(IncOf(l))
          BY <3>4, <3>5, <3>7
        <4>6. DirCount(DecOf(IncOf(l)), k)
          <5> DEFINE m == k + 1
          <5>1. m \in Nat /\ m > 0 /\ m - 1 = k /\ DirCount(IncOf(l), m)
            BY <3>1, <3>6
          <5> HIDE DEF m
          <5>2. DirCount(DecOf(IncOf(l)), m - 1)
            BY <3>6, <5>1, CountsMove
          <5> QED
            BY <5>1, <5>2
        <4> QED
          BY <4>4, <4>5, <4>6
      <3>8. CASE j = t /\ j # old.d
        <4>1. Subdirs(y, j) = D \cup {g}
          BY <3>3, <3>8
        <4>2. Cardinality(D \cup {g}) = k + 1
          BY <3>1, <3>2, FS_AddElement
        <4>3. Links(y, j) = IncOf(l)
          BY <3>4, <3>5, <3>8
        <4> QED
          BY <3>6, <4>1, <4>2, <4>3
      <3>9. CASE j # t /\ j = old.d
        <4>1. Subdirs(y, j) = D \ {old} /\ old \in D
          BY <3>2, <3>3, <3>9
        <4>2. Cardinality(D \ {old}) = k - 1
          BY <3>1, <4>1, FS_RemoveElement
        <4>3. Links(y, j) = DecOf(l)
          BY <3>4, <3>5, <3>9
        <4>4. k > 0
          BY <3>1, <4>1, FS_EmptySet
        <4>5. DirCount(DecOf(l), k - 1)
          <5> HIDE DEF k
          <5> QED
            BY <3>1, <4>4, CountsMove
        <4> QED
          BY <4>1, <4>2, <4>3, <4>5
      <3>10. CASE j # t /\ j # old.d
        <4>1. Subdirs(y, j) = D /\ Links(y, j) = l
          BY <3>3, <3>4, <3>5, <3>10
        <4> QED
          BY <3>1, <4>1
      <3> QED
        BY <3>7, <3>8, <3>9, <3>10
    <2>3. ASSUME NEW j \in Inode, ~InUse(y, j)
          PROVE  Links(y, j) = 0 /\ Up(y, j) = 0
      <3>1. ~InUse(x, j) /\ ~IsDir(x, j)
        BY <1>12, <2>3, SoundFacts
      <3> QED
        BY <1>1, <1>10, <1>11, <3>1 DEF Counted
    <2> QED
      BY <2>1, <2>2, <2>3 DEF Counted
  <1>16. nd \in [Inode -> Nat]
    <2>1. ASSUME NEW i \in Inode
          PROVE  (IF i \in T THEN dep[i] - dep[old.c] + dep[t] + 1 ELSE dep[i]) \in Nat
      <3>1. dep[i] \in Nat /\ dep[t] \in Nat /\ dep[old.c] \in Nat
        BY <1>1
      <3> QED
        BY <3>1
    <2> QED
      BY <2>1 DEF nd
  <1>17. /\ \A i \in Inode : nd[i] = IF i \in T THEN dep[i] - dep[old.c] + dep[t] + 1 ELSE dep[i]
         /\ \A i \in Inode : dep[i] \in Nat
    BY <1>1 DEF nd
  <1>18. Deeper(y, nd)
    <2>1. nd[Root] = 0
      BY <1>17, SoundFacts
    <2>2. ASSUME NEW e \in y.ents, IsDir(y, e.c)
          PROVE  nd[e.c] = nd[e.d] + 1
      <3>1. CASE e = g
        BY <1>1, <1>2, <1>17, <3>1
      <3>2. CASE e \in x.ents \ {old}
        <4>1. /\ e.c \in Inode /\ e.d \in Inode /\ IsDir(x, e.c) /\ e.c # old.c
              /\ dep[e.c] = dep[e.d] + 1 /\ Up(x, e.c) = e.d
          BY <1>11, <1>13, <2>2, <3>2, SoundFacts
        <4>2. e.c \in T <=> e.d \in T
          BY <3>2, <4>1
        <4>3. dep[e.c] \in Nat /\ dep[e.d] \in Nat /\ dep[old.c] \in Nat /\ dep[t] \in Nat
          BY <1>1, <1>17, <4>1
        <4> QED
          BY <1>17, <4>1, <4>2, <4>3
      <3> QED
        BY <1>9, <3>1, <3>2
    <2> QED
      BY <2>1, <2>2 DEF Deeper
  <1>19. \A e \in y.ents : nd[e.d] < MaxDepth
    BY <1>7, <1>14, <1>16, <1>18, ShallowBounds
  <1> QED
    BY <1>7, <1>14, <1>15, <1>16, <1>18, <1>19 DEF Sound


-----------------------------------------------------------------------------
(* How the places of a mount point change.                                 *)

\* The place an entry of the directory at r leads to.
Beyond(r, e) == [p |-> Append(r.p, e.n), c |-> e.c]

\* The kind of an inode that is in use.
KindOf(x, i) == IF InUse(x, i) THEN x.ino[i].kind ELSE "none"

\* What a place is, and which places there are: those that entries lead to.
LEMMA Places ==
    ASSUME NEW x, NEW dep, Sound(x, dep)
    PROVE  /\ \A s \in Located(x) :
                /\ s = [p |-> s.p, c |-> s.c] /\ s.p \in Seq(Name) /\ s.c \in Inode
                /\ Len(s.p) \in 0 .. MaxDepth /\ Len(s.p) \in Nat /\ (Len(s.p) = 0 <=> s.p = <<>>)
                /\ InUse(x, s.c) /\ (IsDir(x, s.c) => dep[s.c] = Len(s.p))
           /\ \A r, s \in Located(x) : r.p = s.p => r = s
           /\ \A r, s \in Located(x) : r.c = s.c /\ IsDir(x, s.c) => r = s
           /\ \A e \in x.ents : \E r \in Located(x) : /\ r.c = e.d /\ IsDir(x, r.c) /\ Len(r.p) < MaxDepth
                                                      /\ Beyond(r, e) \in Located(x)
           /\ \A s \in Located(x) : s.p # <<>> =>
                \E r \in Located(x), e \in x.ents :
                  /\ r.c = e.d /\ IsDir(x, r.c) /\ s = Beyond(r, e) /\ r.p = Front(s.p)
                  /\ Len(s.p) = Len(r.p) + 1 /\ e.n = Last(s.p) /\ s.p = Append(r.p, e.n)
           /\ [p |-> <<>>, c |-> Root] \in Located(x)
           /\ \A s \in Located(x) : s.p = <<>> => s.c = Root
  <1>1. /\ x \in FsRec /\ dep \in [Inode -> Nat] /\ Linked(x) /\ Deeper(x, dep)
        /\ MaxDepth \in Nat
    BY SoundFacts, NamespaceAssumption
  <1>2. ASSUME NEW s \in Located(x)
        PROVE  /\ s = [p |-> s.p, c |-> s.c] /\ s.p \in Seq(Name) /\ s.c \in Inode
               /\ Len(s.p) \in 0 .. MaxDepth /\ Len(s.p) \in Nat /\ (Len(s.p) = 0 <=> s.p = <<>>)
    <2>1. s \in Place /\ Len(s.p) <= MaxDepth
      BY <1>1, LocatedFacts
    <2>2. s = [p |-> s.p, c |-> s.c] /\ s.p \in Seq(Name) /\ s.c \in Inode
      BY <2>1 DEF Place
    <2> QED
      BY <1>1, <2>1, <2>2
  <1>3. \A s \in Located(x) : InUse(x, s.c) /\ (IsDir(x, s.c) => dep[s.c] = Len(s.p))
    BY <1>1, PathFacts
  <1>4. /\ \A r, s \in Located(x) : r.p = s.p => r = s
        /\ \A r, s \in Located(x) : r.c = s.c /\ IsDir(x, s.c) => r = s
    BY <1>1, PathFacts
  <1>5. ASSUME NEW e \in x.ents
        PROVE  \E r \in Located(x) : /\ r.c = e.d /\ IsDir(x, r.c) /\ Len(r.p) < MaxDepth
                                     /\ Beyond(r, e) \in Located(x)
    <2>1. e.d \in Inode /\ IsDir(x, e.d) /\ dep[e.d] < MaxDepth /\ dep[e.d] \in Nat
      BY SoundFacts
    <2>2. PICK r \in Located(x) : r.c = e.d
      <3>1. InUse(x, e.d)
        BY <2>1, SoundFacts
      <3> QED
        BY <2>1, <3>1, AllReached
    <2>3. Len(r.p) < MaxDepth /\ IsDir(x, r.c)
      BY <1>3, <2>1, <2>2
    <2>4. [p |-> Append(r.p, e.n), c |-> e.c] \in Located(x)
      BY <1>1, <2>2, <2>3, LocatedFacts
    <2> QED
      BY <2>2, <2>3, <2>4 DEF Beyond
  <1>6. ASSUME NEW s \in Located(x), s.p # <<>>
        PROVE  \E r \in Located(x), e \in x.ents :
                  /\ r.c = e.d /\ IsDir(x, r.c) /\ s = Beyond(r, e) /\ r.p = Front(s.p)
                  /\ Len(s.p) = Len(r.p) + 1 /\ e.n = Last(s.p) /\ s.p = Append(r.p, e.n)
    <2>1. PICK r \in Located(x) : r.p = Front(s.p) /\ IsDir(x, r.c) /\ Entry(r.c, Last(s.p), s.c) \in x.ents
      BY <1>1, <1>6, LocatedFacts
    <2>2. PICK e \in x.ents : e.d = r.c /\ e.n = Last(s.p) /\ e.c = s.c
      BY <2>1 DEF Entry
    <2>3. s.p = Append(r.p, e.n) /\ Len(s.p) = Len(r.p) + 1
      <3>1. s.p \in Seq(Name) /\ r.p \in Seq(Name)
        BY <1>2
      <3>2. Append(Front(s.p), Last(s.p)) = s.p /\ Len(Front(s.p)) = Len(s.p) - 1 /\ Len(s.p) \in Nat
        BY <1>6, <3>1, FrontFacts
      <3> QED
        BY <2>1, <2>2, <3>2
    <2>4. s = Beyond(r, e)
      BY <1>2, <2>2, <2>3 DEF Beyond
    <2> QED
      BY <2>1, <2>2, <2>3, <2>4
  <1>7. [p |-> <<>>, c |-> Root] \in Located(x) /\ \A s \in Located(x) : s.p = <<>> => s.c = Root
    BY <1>1, LocatedFacts
  <1> QED
    BY <1>2, <1>3, <1>4, <1>5, <1>6, <1>7

\* What holds of the mount point, and of every place that an entry leads to from one
\* where it holds, holds of all places.
LEMMA PlacesWithin ==
    ASSUME NEW x, NEW dep, Sound(x, dep), NEW S, [p |-> <<>>, c |-> Root] \in S,
           \A r \in Located(x) : \A e \in x.ents :
             r \in S /\ IsDir(x, r.c) /\ r.c = e.d => Beyond(r, e) \in S
    PROVE  \A s \in Located(x) : s \in S
  <1> DEFINE N == {k \in 0 .. MaxDepth : \A s \in Located(x) : Len(s.p) = k => s \in S}
  <1>1. MaxDepth \in Nat
    BY NamespaceAssumption
  <1>2. 0 \in N
    <2>1. ASSUME NEW s \in Located(x), Len(s.p) = 0
          PROVE  s \in S
      <3>1. s = [p |-> s.p, c |-> s.c] /\ s.p = <<>> /\ s.c = Root
        BY <2>1, Places
      <3> QED
        BY <3>1
    <2> QED
      BY <1>1, <2>1
  <1>3. ASSUME NEW k \in 0 .. MaxDepth - 1, k \in N
        PROVE  k + 1 \in N
    <2>1. k \in Nat /\ k + 1 \in 0 .. MaxDepth
      BY <1>1
    <2>2. ASSUME NEW s \in Located(x), Len(s.p) = k + 1
          PROVE  s \in S
      <3>1. s.p # <<>>
        BY <2>1, <2>2, Places
      <3>2. PICK r \in Located(x), e \in x.ents :
                  r.c = e.d /\ IsDir(x, r.c) /\ s = Beyond(r, e) /\ Len(s.p) = Len(r.p) + 1
        BY <3>1, Places
      <3>3. Len(r.p) \in Nat
        BY Places
      <3>4. Len(r.p) = k
        BY <2>1, <2>2, <3>2, <3>3
      <3>5. r \in S
        BY <1>3, <3>4
      <3> QED
        BY <3>2, <3>5
    <2> QED
      BY <2>1, <2>2
  <1> HIDE DEF N
  <1>4. \A k \in 0 .. MaxDepth : k \in N
    BY <1>1, <1>2, <1>3, Induction
  <1>5. ASSUME NEW s \in Located(x)
        PROVE  s \in S
    <2>1. Len(s.p) \in 0 .. MaxDepth
      BY Places
    <2> QED
      BY <1>4, <2>1 DEF N
  <1> QED
    BY <1>5

\* What begins the path of a place is the path of a place.
LEMMA PrefixLocated ==
    ASSUME NEW x, NEW dep, Sound(x, dep), NEW s \in Located(x), NEW q \in Seq(Name), IsPrefix(q, s.p)
    PROVE  \E r \in Located(x) : r.p = q
  <1> DEFINE S == {t \in Located(x) : IsPrefix(q, t.p) => \E r \in Located(x) : r.p = q}
             top == [p |-> <<>>, c |-> Root]
  <1>1. top \in S
    <2>1. top \in Located(x) /\ top.p = <<>>
      BY Places
    <2>2. IsPrefix(q, <<>>) => q = <<>>
      <3>1. <<>> \in Seq(Name) /\ Len(<<>>) = 0 /\ Len(q) \in Nat
        OBVIOUS
      <3>2. IsPrefix(q, <<>>) => Len(q) <= Len(<<>>) /\ (Len(q) = Len(<<>>) => q = <<>>)
        BY <3>1, PrefixFacts
      <3> QED
        BY <3>1, <3>2
    <2> QED
      BY <2>1, <2>2
  <1>2. ASSUME NEW r \in Located(x), NEW e \in x.ents, r \in S, IsDir(x, r.c), r.c = e.d
        PROVE  Beyond(r, e) \in S
    <2> DEFINE t == Beyond(r, e)
    <2>1. t \in Located(x) /\ t.p = Append(r.p, e.n) /\ r.p \in Seq(Name) /\ e.n \in Name
      <3>1. PICK w \in Located(x) : w.c = e.d /\ IsDir(x, w.c) /\ Beyond(w, e) \in Located(x)
        BY Places
      <3>2. w = r
        BY <1>2, <3>1, Places
      <3> QED
        BY <3>1, <3>2, Places, SoundFacts DEF Beyond
    <2> HIDE DEF t
    <2>2. ASSUME IsPrefix(q, t.p)
          PROVE  \E w \in Located(x) : w.p = q
      <3>1. CASE q = t.p
        BY <2>1, <3>1
      <3>2. CASE q # t.p
        <4>1. t.p \in Seq(Name) /\ Front(t.p) = r.p
          BY <2>1, AppendFacts
        <4>2. IsPrefix(q, r.p)
          BY <2>2, <3>2, <4>1, PrefixFacts
        <4> QED
          BY <1>2, <4>2
      <3> QED
        BY <3>1, <3>2
    <2>3. t \in S
      BY <2>1, <2>2
    <2> QED
      BY <2>3 DEF t
  <1> HIDE DEF S
  <1>3. s \in S
    BY <1>1, <1>2, PlacesWithin
  <1> QED
    BY <1>3 DEF S

\* An entry leads on from the place of its directory, to a place no other one leads to.
LEMMA GoesOn ==
    ASSUME NEW x, NEW dep, Sound(x, dep), NEW r \in Located(x), NEW e \in x.ents, r.c = e.d
    PROVE  /\ Beyond(r, e) \in Located(x) /\ Len(r.p) < MaxDepth /\ IsDir(x, r.c)
           /\ Beyond(r, e).p = Append(r.p, e.n) /\ Beyond(r, e).c = e.c
           /\ Beyond(r, e).p # <<>> /\ Len(Beyond(r, e).p) = Len(r.p) + 1
           /\ Front(Beyond(r, e).p) = r.p /\ Last(Beyond(r, e).p) = e.n
           /\ \A q \in Located(x), f \in x.ents : q.c = f.d /\ Beyond(q, f).p = Beyond(r, e).p => q = r /\ f = e
  <1>1. Beyond(r, e) \in Located(x) /\ Len(r.p) < MaxDepth /\ IsDir(x, r.c)
    <2>1. PICK w \in Located(x) : /\ w.c = e.d /\ IsDir(x, w.c) /\ Len(w.p) < MaxDepth
                                  /\ Beyond(w, e) \in Located(x)
      BY Places
    <2>2. w = r
      BY <2>1, Places
    <2> QED
      BY <2>1, <2>2
  <1>2. \A q \in Located(x), f \in x.ents :
          /\ Beyond(q, f).p = Append(q.p, f.n) /\ Beyond(q, f).c = f.c
          /\ Beyond(q, f).p # <<>> /\ Len(Beyond(q, f).p) = Len(q.p) + 1
          /\ Front(Beyond(q, f).p) = q.p /\ Last(Beyond(q, f).p) = f.n
    <2> SUFFICES ASSUME NEW q \in Located(x), NEW f \in x.ents
                 PROVE  /\ Beyond(q, f).p = Append(q.p, f.n) /\ Beyond(q, f).c = f.c
                        /\ Beyond(q, f).p # <<>> /\ Len(Beyond(q, f).p) = Len(q.p) + 1
                        /\ Front(Beyond(q, f).p) = q.p /\ Last(Beyond(q, f).p) = f.n
      OBVIOUS
    <2>1. q.p \in Seq(Name) /\ f.n \in Name
      BY Places, SoundFacts
    <2>2. Beyond(q, f).p = Append(q.p, f.n) /\ Beyond(q, f).c = f.c
      BY DEF Beyond
    <2> QED
      BY <2>1, <2>2, AppendFacts
  <1>3. ASSUME NEW q \in Located(x), NEW f \in x.ents, q.c = f.d, Beyond(q, f).p = Beyond(r, e).p
        PROVE  q = r /\ f = e
    <2>1. q.p = r.p /\ f.n = e.n
      BY <1>2, <1>3
    <2>2. q = r
      BY <2>1, Places
    <2> QED
      BY <1>3, <2>1, <2>2, SoundFacts
  <1> QED
    BY <1>1, <1>2, <1>3

\* A place less: the entry e is gone, and it named a file or an empty directory.
LEMMA PlaceLess ==
    ASSUME NEW x, NEW dep, Sound(x, dep), NEW e \in x.ents, Content(x, e.c) = {},
           NEW y, NEW nd, Sound(y, nd), y.ents = x.ents \ {e}
    PROVE  \E r \in Located(x) : /\ r.c = e.d /\ r \in Located(y)
                                 /\ Located(y) = Located(x) \ {Beyond(r, e)}
  <1>1. PICK r \in Located(x) : r.c = e.d
    BY Places
  <1> DEFINE t == Beyond(r, e)
             top == [p |-> <<>>, c |-> Root]
  <1>2. /\ t \in Located(x) /\ t.p # <<>> /\ t.c = e.c
        /\ \A q \in Located(x), f \in x.ents : q.c = f.d /\ Beyond(q, f).p = t.p => q = r /\ f = e
    BY <1>1, GoesOn
  <1>3. \A f \in x.ents : f.d # e.c
    BY DEF Content
  <1>4. top \in Located(x) /\ top \in Located(y) /\ top # t
    <2>1. top.p = <<>>
      OBVIOUS
    <2> HIDE DEF t
    <2> QED
      BY <1>2, <2>1, Places
  <1> HIDE DEF t, top
  <1>5. \A s \in Located(y) : s \in Located(x) \ {t}
    <2> DEFINE S == Located(x) \ {t}
    <2>1. ASSUME NEW q \in Located(y), NEW f \in y.ents, q \in S, IsDir(y, q.c), q.c = f.d
          PROVE  Beyond(q, f) \in S
      <3>1. f \in x.ents /\ q \in Located(x) /\ f # e
        BY <2>1
      <3>2. Beyond(q, f) \in Located(x)
        BY <2>1, <3>1, GoesOn
      <3>3. Beyond(q, f) # t
        BY <1>2, <2>1, <3>1
      <3> QED
        BY <3>2, <3>3
    <2>2. top \in S
      BY <1>4
    <2> HIDE DEF S
    <2>3. \A s \in Located(y) : s \in S
      BY <2>1, <2>2, PlacesWithin DEF top
    <2> QED
      BY <2>3 DEF S
  <1>6. \A s \in Located(x) : s \in Located(y) \cup {t}
    <2> DEFINE S == Located(y) \cup {t}
    <2>1. ASSUME NEW q \in Located(x), NEW f \in x.ents, q \in S, IsDir(x, q.c), q.c = f.d
          PROVE  Beyond(q, f) \in S
      <3>1. q # t
        BY <1>2, <1>3, <2>1
      <3>2. q \in Located(y)
        BY <2>1, <3>1
      <3>3. CASE f = e
        <4>1. q = r
          BY <1>1, <2>1, <3>3, Places
        <4> QED
          BY <3>3, <4>1 DEF t
      <3>4. CASE f # e
        <4>1. f \in y.ents
          BY <3>4
        <4> QED
          BY <2>1, <3>2, <4>1, GoesOn
      <3> QED
        BY <3>3, <3>4
    <2>2. top \in S
      BY <1>4
    <2> HIDE DEF S
    <2>3. \A s \in Located(x) : s \in S
      BY <2>1, <2>2, PlacesWithin DEF top
    <2> QED
      BY <2>3 DEF S
  <1>7. r # t
    BY <1>1, <1>2, <1>3
  <1> QED
    BY <1>1, <1>5, <1>6, <1>7 DEF t


\* The other way round: a new entry of something with nothing in it makes one new place.
LEMMA PlaceMore ==
    ASSUME NEW x, NEW dep, Sound(x, dep), NEW y, NEW nd, Sound(y, nd),
           NEW g, g \notin x.ents, y.ents = x.ents \cup {g}, Content(y, g.c) = {},
           NEW r \in Located(x), r.c = g.d
    PROVE  /\ r \in Located(y) /\ Beyond(r, g) \notin Located(x)
           /\ Located(y) = Located(x) \cup {Beyond(r, g)}
  <1>1. g \in y.ents /\ x.ents = y.ents \ {g}
    OBVIOUS
  <1>2. PICK q \in Located(y) : /\ q.c = g.d /\ q \in Located(x)
                                /\ Located(x) = Located(y) \ {Beyond(q, g)}
    <2>1. \E q \in Located(y) : /\ q.c = g.d /\ q \in Located(x)
                                 /\ Located(x) = Located(y) \ {Beyond(q, g)}
      <3>1. Sound(y, nd) /\ Sound(x, dep) /\ g \in y.ents /\ Content(y, g.c) = {} /\ x.ents = y.ents \ {g}
        BY <1>1
      <3> QED
        BY ONLY <3>1, PlaceLess
    <2> QED
      BY <2>1, Zenon
  <1>3. Beyond(q, g) \in Located(y) /\ IsDir(y, q.c)
    BY <1>1, <1>2, GoesOn
  <1>4. r \in Located(y)
    BY <1>2
  <1>5. r = q
    <2>1. q.c = r.c
      BY <1>2
    <2> QED
      BY <1>2, <1>3, <1>4, <2>1, Places
  <1> QED
    BY <1>2, <1>3, <1>4, <1>5

\* Kinds are known by what is a directory and what a file.
LEMMA KindsAre ==
    ASSUME NEW x \in FsRec, NEW y \in FsRec, NEW i \in Inode, NEW j \in Inode,
           IsDir(y, j) <=> IsDir(x, i), IsFile(y, j) <=> IsFile(x, i)
    PROVE  KindOf(y, j) = KindOf(x, i)
  BY DEF KindOf, InUse, IsDir, IsFile, Kind

\* Beginnings of a path.
LEMMA BeginningFacts ==
    ASSUME NEW S, NEW p \in Seq(S), NEW k \in 0 .. Len(p)
    PROVE  /\ SubSeq(p, 1, k) \in Seq(S) /\ IsPrefix(SubSeq(p, 1, k), p)
           /\ k = 0 => SubSeq(p, 1, k) = <<>>
           /\ k < Len(p) => p[k + 1] \in S /\ SubSeq(p, 1, k + 1) = Append(SubSeq(p, 1, k), p[k + 1])
  <1> DEFINE a == SubSeq(p, 1, k)
  <1>1. k \in Nat /\ k <= Len(p) /\ Len(p) \in Nat /\ \A i \in 1 .. Len(p) : p[i] \in S
    OBVIOUS
  <1>2. a \in Seq(S) /\ Len(a) = k /\ \A i \in 1 .. k : a[i] = p[i]
    <2>1. \A i \in 1 .. k : p[i] \in S
      BY <1>1
    <2>2. 1 \in Int /\ k \in Int
      BY <1>1
    <2>3. /\ a \in Seq(S) /\ Len(a) = IF 1 <= k THEN k - 1 + 1 ELSE 0
          /\ \A i \in 1 .. k - 1 + 1 : a[i] = p[1 + i - 1]
      BY <2>1, <2>2, SubSeqProperties
    <2> HIDE DEF a
    <2>4. Len(a) = k /\ k - 1 + 1 = k
      BY <1>1, <2>3
    <2>5. \A i \in 1 .. k : 1 + i - 1 = i
      BY <1>1
    <2> QED
      BY <2>3, <2>4, <2>5
  <1>3. IsPrefix(a, p)
    <2> HIDE DEF a
    <2>1. Len(a) <= Len(p) /\ SubSeq(p, 1, Len(a)) = a
      BY <1>1, <1>2 DEF a
    <2> QED
      BY <2>1 DEF IsPrefix
  <1>4. k = 0 => a = <<>>
    <2> HIDE DEF a
    <2> QED
      BY <1>2
  <1>5. ASSUME k < Len(p)
        PROVE  p[k + 1] \in S /\ SubSeq(p, 1, k + 1) = Append(a, p[k + 1])
    <2> DEFINE l == k + 1
               b == SubSeq(p, 1, l)
               n == p[l]
               c == Append(a, n)
    <2>1. l \in Nat /\ l = k + 1 /\ l \in 1 .. Len(p) /\ n \in S
      BY <1>1, <1>5
    <2> HIDE DEF l
    <2>2. b \in Seq(S) /\ Len(b) = l /\ \A i \in 1 .. l : b[i] = p[i]
      <3>1. \A i \in 1 .. l : p[i] \in S
        BY <1>1, <2>1
      <3>2. 1 \in Int /\ l \in Int
        BY <2>1
      <3>3. /\ b \in Seq(S) /\ Len(b) = IF 1 <= l THEN l - 1 + 1 ELSE 0
            /\ \A i \in 1 .. l - 1 + 1 : b[i] = p[1 + i - 1]
        BY <3>1, <3>2, SubSeqProperties
      <3> HIDE DEF b
      <3>4. Len(b) = l /\ l - 1 + 1 = l
        BY <2>1, <3>3
      <3>5. \A i \in 1 .. l : 1 + i - 1 = i
        BY <2>1
      <3> QED
        BY <3>3, <3>4, <3>5
    <2> HIDE DEF a, n
    <2>3. /\ c \in Seq(S) /\ Len(c) = Len(a) + 1
          /\ \A i \in 1 .. Len(a) : c[i] = a[i]
          /\ c[Len(a) + 1] = n
      BY <1>2, <2>1, AppendProperties
    <2> HIDE DEF b, c
    <2>4. Len(c) = Len(b)
      BY <1>2, <2>1, <2>2, <2>3
    <2>5. ASSUME NEW i \in 1 .. Len(b)
          PROVE  b[i] = c[i]
      <3>1. CASE i = l
        BY <1>2, <2>1, <2>2, <2>3, <3>1 DEF n
      <3>2. CASE i # l
        <4>1. i \in 1 .. k /\ i \in 1 .. l
          BY <1>1, <2>1, <2>2, <3>2
        <4> QED
          BY <1>2, <2>2, <2>3, <4>1
      <3> QED
        BY <3>1, <3>2
    <2>6. b = c
      BY <2>2, <2>3, <2>4, <2>5, SeqEqual
    <2> QED
      BY <2>1, <2>6 DEF b, c, l, n
  <1> QED
    BY <1>2, <1>3, <1>4, <1>5

\* The places of x0 are still there in x, and what has come is on the way of p, and new.
Grown(x0, x, p) ==
  /\ Located(x0) \subseteq Located(x)
  /\ \A q \in Located(x0) : KindOf(x, q.c) = KindOf(x0, q.c)
  /\ \A q \in Located(x) \ Located(x0) :
       IsPrefix(q.p, p) /\ \A u \in Located(x) : u.c = q.c => u = q

\* One more entry, of an inode that was not in use, on the way of p.
LEMMA GrowsOn ==
    ASSUME NEW x0, NEW d0, Sound(x0, d0), NEW x, NEW dep, Sound(x, dep), NEW y, NEW nd, Sound(y, nd),
           NEW p, Grown(x0, x, p), NEW g, g \notin x.ents, y.ents = x.ents \cup {g},
           g.c \in Inode, ~InUse(x, g.c),
           \A j \in Inode \ {g.c} : KindOf(y, j) = KindOf(x, j),
           NEW r \in Located(x), r.c = g.d, IsPrefix(Beyond(r, g).p, p)
    PROVE  Grown(x0, y, p) /\ r \in Located(y) /\ Beyond(r, g) \in Located(y)
  <1>1. Content(y, g.c) = {}
    <2> SUFFICES ASSUME NEW e \in y.ents, e.d = g.c
                 PROVE  FALSE
      BY DEF Content
    <2>1. InUse(x, r.c)
      BY Places
    <2>2. e # g
      BY <2>1
    <2>3. e \in x.ents
      BY <2>2
    <2>4. InUse(x, g.c)
      BY <2>3, SoundFacts
    <2> QED
      BY <2>4
  <1> DEFINE u == Beyond(r, g)
  <1>2. /\ r \in Located(y) /\ u \notin Located(x) /\ Located(y) = Located(x) \cup {u}
    BY <1>1, PlaceMore
  <1>3. u.c = g.c
    BY DEF Beyond
  <1>4. \A q \in Located(x) : q.c \in Inode \ {g.c}
    BY Places
  <1>5. \A q \in Located(x0) : q \in Located(x) /\ KindOf(y, q.c) = KindOf(x0, q.c)
    BY <1>4 DEF Grown
  <1> HIDE DEF u
  <1>6. ASSUME NEW q \in Located(y) \ Located(x0)
        PROVE  IsPrefix(q.p, p) /\ \A v \in Located(y) : v.c = q.c => v = q
    <2>1. CASE q = u
      <3>1. IsPrefix(q.p, p)
        BY <2>1 DEF u
      <3> QED
        BY <1>2, <1>3, <1>4, <2>1, <3>1
    <2>2. CASE q \in Located(x)
      <3>1. IsPrefix(q.p, p) /\ \A v \in Located(x) : v.c = q.c => v = q
        BY <2>2 DEF Grown
      <3> QED
        BY <1>2, <1>3, <1>4, <2>2, <3>1
    <2> QED
      BY <1>2, <2>1, <2>2
  <1> QED
    BY <1>2, <1>5, <1>6 DEF Grown, u

\* The same entries and the same directories: no place is missing.
LEMMA NoPlaceMissing ==
    ASSUME NEW x, NEW dep, Sound(x, dep), NEW y, NEW nd, Sound(y, nd), x.ents \subseteq y.ents
    PROVE  Located(x) \subseteq Located(y)
  <1> DEFINE S == Located(y)
  <1>1. [p |-> <<>>, c |-> Root] \in S
    BY Places
  <1>2. ASSUME NEW r \in Located(x), NEW e \in x.ents, r \in S, r.c = e.d
        PROVE  Beyond(r, e) \in S
    BY <1>2, GoesOn
  <1> HIDE DEF S
  <1>3. \A s \in Located(x) : s \in S
    BY <1>1, <1>2, PlacesWithin
  <1> QED
    BY <1>3 DEF S

\* An inode that was not in use is lost: nothing else changes.
LEMMA LoseKeeps ==
    ASSUME NEW x0, NEW x, NEW dep, Sound(x, dep), NEW p, Grown(x0, x, p),
           NEW i \in Inode, ~InUse(x, i), NEW y, y = Free(x, i, FALSE)
    PROVE  Sound(y, dep) /\ Grown(x0, y, p)
  <1>1. /\ x \in FsRec /\ dep \in [Inode -> Nat] /\ Linked(x) /\ Counted(x) /\ Deeper(x, dep)
        /\ \A e \in x.ents : dep[e.d] < MaxDepth /\ e.d \in Inode /\ e.c \in Inode
    BY SoundFacts
  <1>2. /\ y \in FsRec /\ y.ents = x.ents
        /\ \A j \in Inode \ {i} : SameAt(x, y, j)
        /\ ~IsDir(y, i) /\ ~IsFile(y, i) /\ Links(y, i) = 0 /\ Up(y, i) = 0
    BY <1>1, FreeFacts
  <1>3. \A j \in Inode : /\ (IsDir(y, j) <=> IsDir(x, j)) /\ (IsFile(y, j) <=> IsFile(x, j))
                         /\ (InUse(y, j) <=> InUse(x, j))
                         /\ (j # i => Links(y, j) = Links(x, j) /\ Up(y, j) = Up(x, j))
    <2> SUFFICES ASSUME NEW j \in Inode
                 PROVE  /\ (IsDir(y, j) <=> IsDir(x, j)) /\ (IsFile(y, j) <=> IsFile(x, j))
                        /\ (InUse(y, j) <=> InUse(x, j))
                        /\ (j # i => Links(y, j) = Links(x, j) /\ Up(y, j) = Up(x, j))
      OBVIOUS
    <2>1. /\ InUse(x, j) <=> IsDir(x, j) \/ IsFile(x, j)
          /\ InUse(y, j) <=> IsDir(y, j) \/ IsFile(y, j)
      BY <1>1, <1>2, FsFacts
    <2>2. (IsDir(y, j) <=> IsDir(x, j)) /\ (IsFile(y, j) <=> IsFile(x, j))
      <3>1. CASE j = i
        BY <1>2, <2>1, <3>1
      <3>2. CASE j # i
        BY <1>2, <3>2 DEF SameAt
      <3> QED
        BY <3>1, <3>2
    <2> QED
      BY <1>2, <2>1, <2>2 DEF SameAt
  <1>4. \A e \in x.ents : e.c # i
    BY SoundFacts
  <1>5. i # Root
    BY <1>1, FsFacts, RootIn DEF Linked
  <1>6. Linked(y)
    <2>1. \A e \in x.ents : Up(y, e.c) = Up(x, e.c)
      BY <1>1, <1>3, <1>4
    <2>2. Up(y, Root) = Up(x, Root)
      BY <1>3, <1>5, RootIn
    <2> QED
      BY <1>1, <1>2, <1>3, <2>1, <2>2, RootIn DEF Linked
  <1>7. Counted(y)
    <2> SUFFICES ASSUME NEW j \in Inode
                 PROVE  /\ IsFile(y, j) => Links(y, j) = Cardinality(NamesOf(y, j))
                        /\ IsDir(y, j) => DirCount(Links(y, j), Cardinality(Subdirs(y, j)))
                        /\ ~InUse(y, j) => Links(y, j) = 0 /\ Up(y, j) = 0
      BY DEF Counted
    <2>1. NamesOf(y, j) = NamesOf(x, j) /\ Subdirs(y, j) = Subdirs(x, j)
      BY <1>1, <1>2, <1>3 DEF NamesOf, Subdirs
    <2>2. /\ IsFile(x, j) => Links(x, j) = Cardinality(NamesOf(x, j))
          /\ IsDir(x, j) => DirCount(Links(x, j), Cardinality(Subdirs(x, j)))
          /\ ~InUse(x, j) => Links(x, j) = 0 /\ Up(x, j) = 0
      BY <1>1 DEF Counted
    <2>3. CASE j = i
      <3>1. ~InUse(y, i)
        BY <1>2, FsFacts
      <3> QED
        BY <1>2, <2>3, <3>1
    <2>4. CASE j # i
      BY <1>3, <2>1, <2>2, <2>4
    <2> QED
      BY <2>3, <2>4
  <1>8. Deeper(y, dep)
    BY <1>1, <1>2, <1>3 DEF Deeper
  <1>9. Sound(y, dep)
    BY <1>1, <1>2, <1>6, <1>7, <1>8 DEF Sound
  <1>10. Located(y) = Located(x)
    <2>1. x.ents \subseteq y.ents /\ y.ents \subseteq x.ents
      BY <1>2
    <2>2. Located(x) \subseteq Located(y)
      BY <1>9, <2>1, NoPlaceMissing
    <2>3. Located(y) \subseteq Located(x)
      BY <1>9, <2>1, NoPlaceMissing
    <2> QED
      BY <2>2, <2>3
  <1>11. \A q \in Located(x) : KindOf(y, q.c) = KindOf(x, q.c)
    <2> SUFFICES ASSUME NEW q \in Located(x)
                 PROVE  KindOf(y, q.c) = KindOf(x, q.c)
      OBVIOUS
    <2>1. PICK j \in Inode : j = q.c
      BY Places
    <2>2. x \in FsRec /\ y \in FsRec
      BY <1>1, <1>2
    <2>3. (IsDir(y, j) <=> IsDir(x, j)) /\ (IsFile(y, j) <=> IsFile(x, j))
      BY <1>3
    <2>4. KindOf(y, j) = KindOf(x, j)
      BY ONLY <2>2, <2>3, KindsAre
    <2> QED
      BY <2>1, <2>4
  <1> QED
    BY <1>9, <1>10, <1>11 DEF Grown

-----------------------------------------------------------------------------
(* Creation along a path.                                                  *)

\* Where a creation can be after k of the m components of its path p: with a sound file
\* system, grown from x0 along p, and, if nothing failed, in the directory to which
\* these components lead.
CreateState == [x : FsRec, d : Inode, ok : BOOLEAN]
Reached(x0, p, m, k) ==
  {s \in CreateState :
     \E nd : /\ Sound(s.x, nd) /\ Grown(x0, s.x, p)
             /\ s.ok /\ k < m => /\ IsDir(s.x, s.d) /\ nd[s.d] = k
                                 /\ [p |-> SubSeq(p, 1, k), c |-> s.d] \in Located(s.x)}

\* What can become of such a state.
LEMMA StateFacts ==
    ASSUME NEW s \in CreateState
    PROVE  /\ s.x \in FsRec /\ s.d \in Inode /\ s.ok \in BOOLEAN
           /\ LET z == [s EXCEPT !.ok = FALSE]
              IN  z \in CreateState /\ z.x = s.x /\ z.d = s.d /\ ~z.ok
           /\ \A c \in Inode : LET z == [s EXCEPT !.d = c]
                               IN  z \in CreateState /\ z.x = s.x /\ z.d = c
  BY DEF CreateState

\* One component.
LEMMA ComponentKeeps ==
    ASSUME Departures = {}, NEW x0, NEW d0, Sound(x0, d0),
           NEW m \in 1 .. MaxDepth, NEW p \in Seq(Name), Len(p) = m, NEW k \in 0 .. m - 1,
           NEW s \in Reached(x0, p, m, k), s.ok, NEW n, n = p[k + 1],
           NEW kind \in Kind, k + 1 < m => kind = "dir", NEW last
    PROVE  Component(s, n, kind, last) \subseteq Reached(x0, p, m, k + 1)
  <1> DEFINE c == Child(s.x, s.d, n)
             stuck == [s EXCEPT !.ok = FALSE]
             added == NewChild(s.x, s.d, n, kind)
             less == Free(s.x, Min(FreeInodes(s.x)), FALSE)
             lost == [stuck EXCEPT !.x = less]
             found == [s EXCEPT !.d = c]
             made == [s EXCEPT !.x = added, !.d = Child(added, s.d, n)]
  <1> HIDE DEF less, lost
  <1> DEFINE r == [p |-> SubSeq(p, 1, k), c |-> s.d]
  <1>1. PICK nd : /\ Sound(s.x, nd) /\ Grown(x0, s.x, p) /\ IsDir(s.x, s.d) /\ nd[s.d] = k
                  /\ r \in Located(s.x)
    <2>1. k < m
      BY NamespaceAssumption
    <2> HIDE DEF c, stuck, added, found, made
    <2> QED
      BY <2>1, Zenon DEF Reached
  <1>2. s \in CreateState /\ s.x \in FsRec /\ s.d \in Inode /\ k \in Nat /\ k + 1 \in Nat /\ k < MaxDepth
    <2>1. s \in CreateState
      BY DEF Reached
    <2>2. s.x \in FsRec /\ s.d \in Inode
      BY <2>1, StateFacts
    <2>3. MaxDepth \in Nat
      BY NamespaceAssumption
    <2>4. k \in Nat /\ k + 1 \in Nat /\ k < MaxDepth
      BY <2>3
    <2> QED
      BY <2>1, <2>2, <2>4
  <1>3. /\ n \in Name /\ r.p = SubSeq(p, 1, k) /\ r.c = s.d
        /\ SubSeq(p, 1, k + 1) = Append(SubSeq(p, 1, k), n) /\ IsPrefix(SubSeq(p, 1, k + 1), p)
    <2>1. k \in 0 .. Len(p) /\ k < Len(p) /\ k + 1 \in 0 .. Len(p)
      BY <1>2
    <2>2. n \in Name /\ SubSeq(p, 1, k + 1) = Append(SubSeq(p, 1, k), n)
      BY <2>1, BeginningFacts
    <2>3. IsPrefix(SubSeq(p, 1, k + 1), p)
      BY <2>1, BeginningFacts
    <2> QED
      BY <2>2, <2>3
  <1> HIDE DEF r
  <1>4. \A e : e.n = n => Beyond(r, e) = [p |-> SubSeq(p, 1, k + 1), c |-> e.c]
    BY <1>3 DEF Beyond
  <1>5. stuck \in Reached(x0, p, m, k + 1)
    <2>1. stuck \in CreateState /\ stuck.x = s.x /\ ~stuck.ok
      BY <1>2, StateFacts
    <2> HIDE DEF stuck
    <2> QED
      BY <1>1, <2>1 DEF Reached
  <1>6. ASSUME c # 0, s.x.ino[c].kind = kind
        PROVE  found \in Reached(x0, p, m, k + 1)
    <2>1. PICK e \in s.x.ents : e.d = s.d /\ e.n = n /\ e.c = c
      BY <1>2, <1>6, ChildFacts
    <2>2. c \in Inode /\ (IsDir(s.x, c) => nd[c] = k + 1)
      <3>1. Sound(s.x, nd) /\ e \in s.x.ents
        BY <1>1
      <3>2. e.c \in Inode /\ (IsDir(s.x, e.c) => nd[e.c] = nd[e.d] + 1)
        BY ONLY <3>1, SoundFacts
      <3> HIDE DEF c
      <3> QED
        BY <1>1, <2>1, <3>2
    <2>3. k + 1 < m => IsDir(s.x, c)
      BY <1>6 DEF IsDir
    <2>4. [p |-> SubSeq(p, 1, k + 1), c |-> c] \in Located(s.x)
      <3>1. Beyond(r, e) \in Located(s.x)
        BY <1>1, <1>3, <2>1, GoesOn
      <3> QED
        BY <1>4, <2>1, <3>1
    <2> HIDE DEF c
    <2>5. found \in CreateState /\ found.x = s.x /\ found.d = c
      BY <1>2, <2>2, StateFacts
    <2> HIDE DEF found
    <2> QED
      BY <1>1, <2>2, <2>3, <2>5, <2>4 DEF Reached
  <1>7. ASSUME c = 0, FreeInodes(s.x) # {}
        PROVE  made \in Reached(x0, p, m, k + 1)
    <2>1. PICK md : /\ Sound(added, md)
                    /\ Child(added, s.d, n) \in Inode /\ md[Child(added, s.d, n)] = nd[s.d] + 1
                    /\ kind = "dir" => IsDir(added, Child(added, s.d, n))
      BY <1>1, <1>2, <1>7, <1>3, NewChildKeeps
    <2>2. added \in FsRec
      BY <2>1, SoundFacts
    <2>3. PICK i \in Inode :
                 /\ ~IsDir(s.x, i) /\ ~IsFile(s.x, i) /\ i # s.d
                 /\ added.ents = s.x.ents \cup {Entry(s.d, n, i)}
                 /\ \A j \in Inode \ {s.d, i} : SameAt(s.x, added, j)
                 /\ IsDir(added, s.d) /\ ~IsFile(added, s.d)
      <3>1. PICK y : y = added
        BY Zenon
      <3>2. \E i \in Inode :
                 /\ ~IsDir(s.x, i) /\ ~IsFile(s.x, i) /\ i # s.d
                 /\ y.ents = s.x.ents \cup {Entry(s.d, n, i)}
                 /\ \A j \in Inode \ {s.d, i} : SameAt(s.x, y, j)
                 /\ IsDir(y, s.d) /\ ~IsFile(y, s.d)
        BY <1>1, <1>2, <1>7, <1>3, <3>1, NewChildFacts
      <3> QED
        BY <3>1, <3>2, Zenon
    <2> HIDE DEF added
    <2> DEFINE g == Entry(s.d, n, i)
    <2>4. g.d = s.d /\ g.n = n /\ g.c = i
      BY DEF Entry
    <2>5. g \notin s.x.ents
      BY <1>2, <1>7, <2>4, ChildFacts
    <2>6. g \in added.ents
      BY <2>3
    <2> HIDE DEF g
    <2>7. Child(added, s.d, n) = i
      <3>1. Child(added, s.d, n) # 0
        BY <2>2, <2>4, <2>6, ChildFacts
      <3>2. PICK e \in added.ents : e.d = s.d /\ e.n = n /\ e.c = Child(added, s.d, n)
        BY <2>2, <3>1, ChildFacts
      <3>3. e = g
        <4>1. e.d = g.d /\ e.n = g.n
          BY <2>4, <3>2
        <4> QED
          BY <2>1, <2>6, <4>1, SoundFacts
      <3> QED
        BY <2>4, <3>2, <3>3
    <2>8. Grown(x0, added, p) /\ [p |-> SubSeq(p, 1, k + 1), c |-> i] \in Located(added)
      <3>1. ~InUse(s.x, i)
        BY <1>1, <2>3, SoundFacts
      <3>2. ASSUME NEW j \in Inode \ {i}
            PROVE  KindOf(added, j) = KindOf(s.x, j)
        <4>1. (IsDir(added, j) <=> IsDir(s.x, j)) /\ (IsFile(added, j) <=> IsFile(s.x, j))
          <5>1. CASE j = s.d
            BY <1>1, <1>2, <2>3, <5>1, SoundFacts
          <5>2. CASE j # s.d
            BY <2>3, <5>2 DEF SameAt
          <5> QED
            BY <5>1, <5>2
        <4> QED
          BY <1>2, <2>2, <4>1, KindsAre
      <3>3. Beyond(r, g) = [p |-> SubSeq(p, 1, k + 1), c |-> i]
        BY <1>4, <2>4
      <3>4. IsPrefix(Beyond(r, g).p, p)
        BY <1>3, <3>3
      <3>5. added.ents = s.x.ents \cup {g} /\ r.c = g.d
        BY <1>3, <2>3, <2>4 DEF g
      <3>6. Grown(x0, added, p) /\ Beyond(r, g) \in Located(added)
        <4>1. /\ Sound(x0, d0) /\ Sound(s.x, nd) /\ Sound(added, md) /\ Grown(x0, s.x, p)
              /\ g \notin s.x.ents /\ g.c \in Inode /\ ~InUse(s.x, g.c)
              /\ \A j \in Inode \ {g.c} : KindOf(added, j) = KindOf(s.x, j)
              /\ r \in Located(s.x)
          BY <1>1, <2>1, <2>4, <2>5, <3>1, <3>2
        <4> QED
          BY ONLY <3>4, <3>5, <4>1, GrowsOn
      <3> QED
        BY <3>3, <3>6
    <2>9. made \in CreateState /\ made.x = added /\ made.d = Child(added, s.d, n)
      <3> DEFINE h == Child(added, s.d, n)
      <3>1. h \in Inode
        BY <2>1
      <3> HIDE DEF h
      <3>2. PICK z : z = [s EXCEPT !.x = added, !.d = h]
        BY Zenon
      <3>3. z \in CreateState /\ z.x = added /\ z.d = h
        BY <1>2, <2>2, <3>1, <3>2 DEF CreateState
      <3> QED
        BY <3>2, <3>3, Zenon DEF h
    <2>10. [p |-> SubSeq(p, 1, k + 1), c |-> Child(added, s.d, n)] \in Located(added)
      BY <2>7, <2>8
    <2> HIDE DEF made
    <2> QED
      BY <1>1, <2>1, <2>9, <2>8, <2>10 DEF Reached
  <1>9. ASSUME FreeInodes(s.x) # {}
        PROVE  lost \in Reached(x0, p, m, k + 1)
    <2> HIDE DEF added, found, made, c
    <2>1. Sound(less, nd) /\ Grown(x0, less, p)
      <3>1. PICK z : z = less
        BY Zenon
      <3> USE DEF less
      <3>2. PICK i : i = Min(FreeInodes(s.x))
        BY Zenon
      <3>3. i \in Inode /\ ~InUse(s.x, i)
        <4>1. FreeInodes(s.x) \in SUBSET Nat /\ FreeInodes(s.x) \in SUBSET Inode /\ IsFiniteSet(Inode)
          BY NamespaceAssumption DEF FreeInodes
        <4>2. IsFiniteSet(FreeInodes(s.x))
          BY <4>1, FS_Subset
        <4>3. i \in FreeInodes(s.x)
          BY <1>9, <3>2, <4>1, <4>2, MinFacts
        <4> QED
          BY <4>1, <4>3 DEF FreeInodes, InUse, Kind
      <3>4. z = Free(s.x, i, FALSE)
        BY <3>1, <3>2
      <3>5. Sound(z, nd) /\ Grown(x0, z, p)
        <4> HIDE DEF less, stuck
        <4> QED
          BY <1>1, <3>3, <3>4, LoseKeeps
      <3> QED
        BY <3>1, <3>5
    <2>2. less \in FsRec
      BY <2>1, SoundFacts
    <2>3. lost \in CreateState /\ lost.x = less /\ ~lost.ok
      BY <1>2, <2>2 DEF CreateState, lost
    <2> QED
      BY <2>1, <2>3 DEF Reached
  <1>8. ASSUME NEW z \in Component(s, n, kind, last)
        PROVE  \/ z = stuck
               \/ z = lost /\ FreeInodes(s.x) # {}
               \/ z = found /\ c # 0 /\ s.x.ino[c].kind = kind
               \/ z = made /\ c = 0 /\ FreeInodes(s.x) # {}
    <2>1. ~May("dangling")
      BY DEF May
    <2>2. CASE c # 0
      <3>1. z \in {IF s.x.ino[c].kind = kind THEN found ELSE stuck}
        BY <1>8, <2>2 DEF Component
      <3> HIDE DEF found, stuck, c
      <3> QED
        BY <2>2, <3>1
    <2>3. CASE c = 0 /\ FreeInodes(s.x) = {}
      BY <1>8, <2>3 DEF Component
    <2>4. CASE c = 0 /\ FreeInodes(s.x) # {}
      <3>1. z \in {stuck, lost, made}
                   \cup {[stuck EXCEPT !.x = Strand(s.x, s.d, n)] :
                           y \in {y \in {"dangling"} : May(y) /\ (last => kind = "dir" /\ DirIndex)}}
        BY <1>8, <2>4 DEF Component, less, lost
      <3>2. {y \in {"dangling"} : May(y) /\ (last => kind = "dir" /\ DirIndex)} = {}
        BY <2>1
      <3> HIDE DEF made, stuck, lost, c
      <3> QED
        BY <2>4, <3>1, <3>2
    <2> QED
      BY <2>2, <2>3, <2>4
  <1> HIDE DEF stuck, lost, made, found, c
  <1> QED
    BY <1>5, <1>6, <1>7, <1>8, <1>9

\* All components up to the k-th.
Components(p, kind, k, S) ==
  UNION {IF s.ok THEN Component(s, p[k], IF k = Len(p) THEN kind ELSE "dir", k = Len(p))
         ELSE {s} : s \in S}

\* From what k components can lead to comes what k + 1 can.
LEMMA ComponentsKeep ==
    ASSUME Departures = {}, NEW x0, NEW d0, Sound(x0, d0),
           NEW m \in 1 .. MaxDepth, NEW p \in [1 .. m -> Name], Len(p) = m, NEW kind \in Kind,
           NEW k \in 0 .. m - 1, NEW S \in SUBSET Reached(x0, p, m, k)
    PROVE  Components(p, kind, k + 1, S) \in SUBSET Reached(x0, p, m, k + 1)
  <1>1. m \in Nat /\ k \in Nat /\ k + 1 \in 1 .. m /\ p \in Seq(Name) /\ "dir" \in Kind
    <2>1. m \in Nat /\ k \in Nat /\ k + 1 \in 1 .. m
      BY NamespaceAssumption
    <2> QED
      BY <2>1 DEF Kind
  <1>2. ASSUME NEW s \in S, s.ok
        PROVE  Component(s, p[k + 1], IF k + 1 = Len(p) THEN kind ELSE "dir", k + 1 = Len(p))
                 \subseteq Reached(x0, p, m, k + 1)
    <2>1. PICK kd \in Kind : /\ kd = IF k + 1 = Len(p) THEN kind ELSE "dir"
                             /\ k + 1 < m => kd = "dir"
      BY <1>1
    <2>2. \A last : Component(s, p[k + 1], kd, last) \subseteq Reached(x0, p, m, k + 1)
      BY <1>1, <1>2, <2>1, ComponentKeeps
    <2> QED
      BY <2>1, <2>2, Zenon
  <1>3. ASSUME NEW s \in S, ~s.ok
        PROVE  s \in Reached(x0, p, m, k + 1)
    BY <1>3 DEF Reached
  <1> DEFINE W(s) == IF s.ok
                     THEN Component(s, p[k + 1], IF k + 1 = Len(p) THEN kind ELSE "dir", k + 1 = Len(p))
                     ELSE {s}
  <1>4. ASSUME NEW s \in S
        PROVE  W(s) \subseteq Reached(x0, p, m, k + 1)
    <2>1. CASE s.ok
      <3>1. W(s) = Component(s, p[k + 1], IF k + 1 = Len(p) THEN kind ELSE "dir", k + 1 = Len(p))
        BY <2>1, Zenon
      <3> HIDE DEF W
      <3> QED
        BY <1>2, <2>1, <3>1, Zenon
    <2>2. CASE ~s.ok
      <3>1. W(s) = {s}
        BY <2>2, Zenon
      <3> HIDE DEF W
      <3> QED
        BY <1>3, <2>2, <3>1, Zenon
    <2> QED
      BY <2>1, <2>2, Zenon
  <1>5. Components(p, kind, k + 1, S) = UNION {W(s) : s \in S}
    BY Zenon DEF Components
  <1> HIDE DEF W
  <1>6. UNION {W(s) : s \in S} \subseteq Reached(x0, p, m, k + 1)
    <2> HIDE DEF Reached
    <2> QED
      BY <1>4
  <1> QED
    BY <1>5, <1>6, Zenon

\* Whatever became of it, the file system is sound, and has grown along the path.
LEMMA OpenedKeeps ==
    ASSUME Departures = {}, NEW dep, Sound(now, dep), NEW p \in Paths, NEW kind \in Kind,
           NEW x \in Opened(p, kind)
    PROVE  \E nd : Sound(x, nd) /\ Grown(now, x, p)
  <1>1. PICK m \in 1 .. MaxDepth : p \in [1 .. m -> Name]
    BY DEF Paths
  <1>2. m \in Nat /\ Len(p) = m
    <2>1. m \in Nat
      BY NamespaceAssumption
    <2> QED
      BY <1>1, <2>1
  <1> DEFINE a == {[x |-> now, d |-> Root, ok |-> TRUE]}
             D == SUBSET CreateState
             G(k, S) == Components(p, kind, k, S)
             F == [z \in Nat \X D |-> IF G(z[1], z[2]) \in D THEN G(z[1], z[2]) ELSE {}]
             Eq(f) == f = [k \in 0 .. Len(p) |->
                        IF k = 0 THEN {[x |-> now, d |-> Root, ok |-> TRUE]}
                        ELSE UNION {IF s.ok
                                    THEN Component(s, p[k], IF k = Len(p) THEN kind ELSE "dir", k = Len(p))
                                    ELSE {s} : s \in f[k - 1]}]
             to == CHOOSE f : Eq(f)
  <1>3. a \in SUBSET Reached(now, p, m, 0)
    <2>1. /\ now \in FsRec /\ Root \in Inode /\ IsDir(now, Root) /\ dep[Root] = 0
      BY SoundFacts
    <2> HIDE DEF now
    <2>2. [x |-> now, d |-> Root, ok |-> TRUE] \in CreateState
      BY <2>1 DEF CreateState
    <2>3. Grown(now, now, p)
      BY DEF Grown
    <2>4. [p |-> SubSeq(p, 1, 0), c |-> Root] \in Located(now)
      <3>1. p \in Seq(Name) /\ 0 \in 0 .. Len(p) /\ 0 = 0
        BY <1>1, <1>2
      <3>2. SubSeq(p, 1, 0) = <<>>
        BY <3>1, BeginningFacts
      <3> QED
        BY <3>2, Places
    <2> QED
      BY <2>1, <2>2, <2>3, <2>4 DEF Reached
  <1>4. \A k \in 0 .. m : Reached(now, p, m, k) \subseteq CreateState
    BY DEF Reached
  <1>5. a \in D
    BY <1>2, <1>3, <1>4
  <1>6. F \in [Nat \X D -> D]
    BY Zenon
  <1>7. PICK f : f \in [0 .. m -> D] /\ f[0] = a /\ \A k \in 1 .. m : f[k] = F[<<k, f[k - 1]>>]
    <2>1. Recursive(m, D, a, F) # {}
      <3> HIDE DEF D, a, F
      <3> QED
        BY <1>2, <1>5, <1>6, Recursion, Zenon
    <2> HIDE DEF D, a, F
    <2> QED
      BY <2>1 DEF Recursive
  <1>8. ASSUME NEW k \in 1 .. m, G(k, f[k - 1]) \in D
        PROVE  f[k] = G(k, f[k - 1])
    <2>1. k \in Nat /\ k - 1 \in 0 .. m
      BY <1>2
    <2>2. f[k - 1] \in D
      BY <1>7, <2>1
    <2> DEFINE z == <<k, f[k - 1]>>
    <2>3. z \in Nat \X D /\ z[1] = k /\ z[2] = f[k - 1]
      BY <2>1, <2>2
    <2> HIDE DEF z, D, G
    <2>4. F[z] = IF G(z[1], z[2]) \in D THEN G(z[1], z[2]) ELSE {}
      BY <2>3
    <2>5. f[k] = F[z]
      BY <1>7 DEF z
    <2> QED
      BY <1>8, <2>3, <2>4, <2>5
  <1>9. \A k \in 0 .. m : f[k] \in SUBSET Reached(now, p, m, k)
    <2> DEFINE S == {k \in 0 .. m : f[k] \in SUBSET Reached(now, p, m, k)}
    <2>1. 0 \in S
      <3>1. f[0] \in SUBSET Reached(now, p, m, 0)
        BY <1>3, <1>7, Zenon
      <3>2. 0 \in 0 .. m
        BY <1>2
      <3> QED
        BY <3>1, <3>2, Zenon
    <2>2. ASSUME NEW k \in 0 .. m - 1, k \in S
          PROVE  k + 1 \in S
      <3>1. k + 1 \in 1 .. m /\ k + 1 \in 0 .. m /\ (k + 1) - 1 = k
        BY <1>2
      <3>2. G(k + 1, f[k]) \in SUBSET Reached(now, p, m, k + 1)
        BY <1>1, <1>2, <2>2, ComponentsKeep
      <3>3. G(k + 1, f[k]) \in D
        BY <1>4, <3>1, <3>2
      <3> HIDE DEF G, D
      <3>4. f[k + 1] = G(k + 1, f[k])
        BY <1>8, <3>1, <3>3
      <3> QED
        BY <3>1, <3>2, <3>4
    <2> HIDE DEF S
    <2>3. \A k \in 0 .. m : k \in S
      BY <1>2, <2>1, <2>2, Induction
    <2> QED
      BY <2>3 DEF S
  <1>10. \A k \in 1 .. m : f[k] = G(k, f[k - 1])
    <2> SUFFICES ASSUME NEW k \in 1 .. m
                 PROVE  f[k] = G(k, f[k - 1])
      OBVIOUS
    <2>1. k - 1 \in 0 .. m - 1 /\ (k - 1) + 1 = k /\ k \in 0 .. m /\ k - 1 \in 0 .. m
      BY <1>2
    <2>2. f[k - 1] \in SUBSET Reached(now, p, m, k - 1)
      BY <1>9, <2>1
    <2>3. G((k - 1) + 1, f[k - 1]) \in SUBSET Reached(now, p, m, (k - 1) + 1)
      <3> DEFINE j == k - 1
      <3>1. j \in 0 .. m - 1 /\ f[j] \in SUBSET Reached(now, p, m, j)
        BY <2>1, <2>2
      <3> HIDE DEF j
      <3>2. G(j + 1, f[j]) \in SUBSET Reached(now, p, m, j + 1)
        BY <1>1, <1>2, <3>1, ComponentsKeep
      <3> QED
        BY <3>2 DEF j
    <2>4. G(k, f[k - 1]) \in D
      BY <1>4, <2>1, <2>3
    <2> QED
      BY <1>8, <2>4
  <1>11. Eq(f)
    <2>1. f = [k \in 0 .. m |-> f[k]]
      BY <1>7
    <2>2. \A k \in 0 .. m : f[k] = IF k = 0 THEN a ELSE G(k, f[k - 1])
      <3>1. \A k \in 0 .. m : k # 0 => k \in 1 .. m
        BY <1>2
      <3> HIDE DEF G, a
      <3> QED
        BY <1>7, <1>10, <3>1
    <2>3. f = [k \in 0 .. m |-> IF k = 0 THEN a ELSE G(k, f[k - 1])]
      <3> HIDE DEF G, a
      <3> QED
        BY <2>1, <2>2
    <2> QED
      BY <1>2, <2>3, Zenon DEF Components
  <1>12. Eq(to)
    <2> HIDE DEF Eq
    <2> QED
      BY <1>11
  <1>13. Opened(p, kind) = {s.x : s \in to[Len(p)]}
    BY Zenon DEF Opened
  <1>14. to = [k \in 0 .. m |-> IF k = 0 THEN a ELSE G(k, to[k - 1])]
    BY <1>2, <1>12, Zenon DEF Components
  <1> HIDE DEF to, G, a
  <1>15. \A k \in 0 .. m : to[k] \in SUBSET Reached(now, p, m, k)
    <2> DEFINE S == {k \in 0 .. m : to[k] \in SUBSET Reached(now, p, m, k)}
    <2>1. 0 \in S
      BY <1>2, <1>3, <1>14
    <2>2. ASSUME NEW k \in 0 .. m - 1, k \in S
          PROVE  k + 1 \in S
      <3>1. k + 1 \in 0 .. m /\ (k + 1) - 1 = k /\ k + 1 # 0
        BY <1>2
      <3>2. G(k + 1, to[k]) \in SUBSET Reached(now, p, m, k + 1)
        BY <1>1, <1>2, <2>2, ComponentsKeep DEF G
      <3>3. to[k + 1] = G(k + 1, to[k])
        BY <1>14, <3>1
      <3> QED
        BY <3>1, <3>2, <3>3
    <2> HIDE DEF S
    <2>3. \A k \in 0 .. m : k \in S
      BY <1>2, <2>1, <2>2, Induction
    <2> QED
      BY <2>3 DEF S
  <1>16. PICK s \in Reached(now, p, m, m) : x = s.x
    <2>1. m \in 0 .. m
      BY <1>2
    <2> QED
      BY <1>2, <1>13, <1>15, <2>1
  <1> QED
    BY <1>16 DEF Reached


-----------------------------------------------------------------------------
(* The invariant holds.                                                    *)

\* The mount point alone, at depth 0.
LEMMA InitHolds == Init => IInv
  <1> SUFFICES ASSUME Init
               PROVE  IInv
    OBVIOUS
  <1>1. Root \in Inode /\ LinkMax \in Nat /\ 2 < LinkMax /\ MaxDepth \in Nat
    BY RootIn, NamespaceAssumption
  <1>2. rm = [on |-> FALSE, path |-> <<>>, cur |-> 0, depth |-> 0]
    BY DEF Init, Idle
  <1>3. rm \in RmRec /\ rm.on = FALSE
    <2>1. 0 \in 0 .. MaxDepth + 1
      BY <1>1
    <2> QED
      BY <1>2, <2>1 DEF RmRec
  <1>4. /\ now.ents = {}
        /\ now.ino[Root] = [kind |-> "dir", links |-> 2, up |-> Root]
        /\ \A i \in Inode \ {Root} : now.ino[i] = [kind |-> "none", links |-> 0, up |-> 0]
    BY <1>1 DEF Init, now, Unused
  <1>5. now \in FsRec
    <2>1. \A i \in Inode : [kind |-> "dir", links |-> 2, up |-> Root] \in InodeRec
                           /\ [kind |-> "none", links |-> 0, up |-> 0] \in InodeRec
      BY <1>1 DEF InodeRec, Kind
    <2>2. ino \in [Inode -> InodeRec]
      BY <2>1 DEF Init, Unused
    <2>3. ents \subseteq EntryRec
      BY DEF Init
    <2> QED
      BY <2>2, <2>3 DEF now, FsRec
  <1> DEFINE dep == [i \in Inode |-> 0]
  <1> HIDE DEF now
  <1>6. /\ IsDir(now, Root) /\ ~IsFile(now, Root) /\ InUse(now, Root)
        /\ Links(now, Root) = 2 /\ Up(now, Root) = Root
        /\ \A i \in Inode \ {Root} : /\ ~IsDir(now, i) /\ ~IsFile(now, i) /\ ~InUse(now, i)
                                     /\ Links(now, i) = 0 /\ Up(now, i) = 0
    BY <1>4 DEF IsDir, IsFile, InUse, Links, Up, Kind
  <1>7. Linked(now)
    BY <1>4, <1>6 DEF Linked
  <1>8. Counted(now)
    <2>1. Subdirs(now, Root) = {}
      BY <1>4 DEF Subdirs
    <2>2. Cardinality(Subdirs(now, Root)) = 0
      BY <2>1, FS_EmptySet
    <2>3. DirCount(2, 0)
      BY <1>1 DEF DirCount
    <2> QED
      BY <1>6, <2>2, <2>3 DEF Counted
  <1>9. Deeper(now, dep) /\ dep \in [Inode -> Nat] /\ \A e \in now.ents : dep[e.d] < MaxDepth
    BY <1>1, <1>4 DEF Deeper
  <1> QED
    BY <1>3, <1>5, <1>7, <1>8, <1>9 DEF IInv, Sound

\* A call that leaves a sound file system: none is made during a recursive removal.
LEMMA CallKeeps ==
    ASSUME IInv, Locked, NEW x, NEW nd, Sound(x, nd), Becomes(x)
    PROVE  IInv'
  <1>1. x \in FsRec /\ nd \in [Inode -> Nat]
    BY SoundFacts
  <1>2. now' = x
    <2>1. x = [ino |-> x.ino, ents |-> x.ents]
      BY <1>1 DEF FsRec
    <2> QED
      BY <2>1 DEF Becomes, now
  <1>3. rm' = rm /\ ~rm.on /\ rm \in RmRec
    BY DEF Becomes, Locked, IInv
  <1>4. Sound(now', nd)
    BY <1>2
  <1> QED
    BY <1>1, <1>3, <1>4 DEF IInv

\* What a place of the mount point is.
LEMMA PlaceFacts ==
    ASSUME NEW x, NEW dep, Sound(x, dep), NEW s \in Located(x)
    PROVE  /\ s.p \in Seq(Name) /\ s.c \in Inode
           /\ ~IsDir(x, s.c) => IsFile(x, s.c)
           /\ IsDir(x, s.c) => dep[s.c] = Len(s.p)
  <1>1. x \in FsRec /\ dep \in [Inode -> Nat] /\ Linked(x) /\ Deeper(x, dep)
    BY SoundFacts
  <1>2. s \in Place
    BY <1>1, LocatedFacts
  <1>3. s.p \in Seq(Name) /\ s.c \in Inode
    BY <1>2 DEF Place
  <1>4. InUse(x, s.c)
    BY <1>1, PathFacts
  <1>5. IsDir(x, s.c) => dep[s.c] = Len(s.p)
    BY <1>1, PathFacts
  <1> QED
    BY <1>3, <1>4, <1>5, SoundFacts

\* Creating along a path.
LEMMA CreateKeeps ==
    ASSUME Departures = {}, IInv, NEW p \in Paths, NEW kind \in Kind, Create(p, kind)
    PROVE  IInv'
  <1>1. PICK dep : Sound(now, dep)
    BY DEF IInv
  <1>2. PICK x \in Opened(p, kind) : Becomes(x)
    BY DEF Create
  <1>3. PICK nd : Sound(x, nd)
    BY <1>1, OpenedKeeps
  <1> QED
    BY <1>2, <1>3, CallKeeps DEF Create

\* Another name for a file.
LEMMA FlinkKeeps ==
    ASSUME IInv, NEW s \in Located(now), NEW t \in Located(now), NEW n \in Name,
           Len(t.p) < MaxDepth, Flink(s.c, t.c, n)
    PROVE  IInv'
  <1>1. PICK dep : Sound(now, dep)
    BY DEF IInv
  <1>2. /\ Locked /\ ~IsDir(now, s.c) /\ IsDir(now, t.c) /\ Child(now, t.c, n) = 0
        /\ Becomes(Link(now, t.c, s.c, n, FALSE))
    BY Zenon DEF Flink, NewPlace
  <1>3. /\ s.c \in Inode /\ t.c \in Inode /\ IsFile(now, s.c) /\ dep[t.c] < MaxDepth
    BY <1>1, <1>2, PlaceFacts
  <1>4. PICK no \in BOOLEAN : ~no /\ Becomes(Link(now, t.c, s.c, n, no))
    BY <1>2, Zenon
  <1>5. PICK x : x = Link(now, t.c, s.c, n, no) /\ Becomes(x)
    BY <1>4, Zenon
  <1> HIDE DEF now
  <1>6. Sound(x, dep)
    BY <1>1, <1>2, <1>3, <1>4, <1>5, LinkFileKeeps
  <1> QED
    BY <1>2, <1>5, <1>6, CallKeeps

\* Renaming: what is moved, and where from, is known by its path; a directory is not
\* moved into itself.
LEMMA FrenameKeeps ==
    ASSUME Departures = {}, IInv, NEW s \in Located(now), NEW t \in Located(now), NEW n \in Name,
           Len(t.p) < MaxDepth, Frename(s, t, n)
    PROVE  IInv'
  <1> DEFINE o == (CHOOSE r \in Located(now) : r.p = Front(s.p)).c
             gone == Drop(Moved(now, t.c, s.c, n), o, Last(s.p))
             moved == IF IsDir(now, s.c) THEN LinkDec(gone, o) ELSE gone
  <1>1. PICK dep : Sound(now, dep)
    BY DEF IInv
  <1>2. /\ Locked /\ IsDir(now, t.c) /\ Child(now, t.c, n) = 0
        /\ \A z : ~May(z)
    BY DEF Frename, NewPlace, May
  <1>3. s.p # <<>> /\ Becomes(moved)
    <2>1. CASE s.p = <<>>
      BY <1>2, <2>1, Zenon DEF Frename
    <2>2. CASE s.p # <<>>
      BY <1>2, <2>2, Zenon DEF Frename, Moved
    <2> QED
      BY <2>1, <2>2
  <1>4. /\ IsDir(now, s.c) => ~IsPrefix(s.p, t.p)
        /\ Shallow(moved)
    BY <1>2, <1>3, Zenon DEF Frename, Moved
  <1>5. /\ s.c \in Inode /\ t.c \in Inode /\ dep[t.c] < MaxDepth
        /\ ~IsDir(now, s.c) => IsFile(now, s.c)
    BY <1>1, <1>2, PlaceFacts
  <1>6. o \in Inode /\ Last(s.p) \in Name /\ Entry(o, Last(s.p), s.c) \in now.ents
    BY <1>1, <1>3, DirectoryOf
  <1> HIDE DEF now, o
  <1>7. PICK old \in now.ents : old.d = o /\ old.n = Last(s.p) /\ old.c = s.c
    BY <1>6 DEF Entry
  <1>8. gone = Drop(Moved(now, t.c, old.c, n), old.d, old.n)
    BY <1>7
  <1> HIDE DEF gone
  <1>9. CASE ~IsDir(now, s.c)
    <2>1. moved = gone
      BY <1>9
    <2>2. Sound(gone, dep)
      BY <1>1, <1>2, <1>5, <1>7, <1>8, <1>9, RenameFileKeeps
    <2> QED
      BY <1>2, <1>3, <2>1, <2>2, CallKeeps
  <1>10. CASE IsDir(now, s.c)
    <2>1. moved = LinkDec(gone, old.d)
      BY <1>7, <1>10
    <2> HIDE DEF moved
    <2> DEFINE T == Sub(now, s)
    <2>2. /\ T \in SUBSET Inode /\ s.c \in T
          /\ \A i \in T : dep[s.c] <= dep[i]
          /\ \A e \in now.ents : e.d \in T /\ IsDir(now, e.c) => e.c \in T
          /\ \A i \in T \ {s.c} : Up(now, i) \in T
          /\ t.c \in T => IsPrefix(s.p, t.p)
          /\ Root \in T => s.c = Root
      <3>1. T \in SUBSET Inode
        BY DEF Sub
      <3> HIDE DEF T
      <3> QED
        BY <1>1, <1>10, <3>1, SubtreeFacts DEF T
    <2> HIDE DEF T
    <2>3. t.c \notin T /\ Root \notin T
      <3>1. old.c # Root
        BY <1>1, SoundFacts
      <3> QED
        BY <1>4, <1>7, <1>10, <2>2, <3>1
    <2>4. moved = LinkDec(Drop(Moved(now, t.c, old.c, n), old.d, old.n), old.d)
      BY <1>8, <2>1
    <2>5. PICK nd : Sound(moved, nd)
      <3>1. /\ old.c \in T /\ IsDir(now, old.c)
            /\ \A i \in T : dep[old.c] <= dep[i]
            /\ \A i \in T \ {old.c} : Up(now, i) \in T
        BY <1>7, <1>10, <2>2
      <3> QED
        BY <1>1, <1>2, <1>4, <1>5, <2>2, <2>3, <2>4, <3>1, RenameDirKeeps
    <2> QED
      BY <1>2, <1>3, <2>5, CallKeeps
  <1> QED
    BY <1>9, <1>10

\* What the removal of a name leaves.
LEMMA FremoveIs ==
    ASSUME NEW s, Fremove(s)
    PROVE  LET o == (CHOOSE r \in Located(now) : r.p = Front(s.p)).c
               y == Unlink(now, o, s.c, Last(s.p))
               Z(ok) == IF y.ino[s.c].links = 0 THEN Free(y, s.c, ok) ELSE y
           IN  \E ok, z : Locked /\ ~IsDir(now, s.c) /\ z = Z(ok) /\ Becomes(z)
  <1> DEFINE o == (CHOOSE r \in Located(now) : r.p = Front(s.p)).c
             y == Unlink(now, o, s.c, Last(s.p))
             Z(ok) == IF y.ino[s.c].links = 0 THEN Free(y, s.c, ok) ELSE y
             last == y.ino[s.c].links = 0
  <1> SUFFICES \E ok, z : Locked /\ ~IsDir(now, s.c) /\ z = Z(ok) /\ Becomes(z)
    BY Zenon
  <1>1. /\ Locked /\ ~IsDir(now, s.c)
        /\ IF last THEN \E ok \in BOOLEAN : Becomes(Free(y, s.c, ok)) ELSE Becomes(y)
    BY Zenon DEF Fremove
  <1> HIDE DEF last
  <1>2. CASE last
    <2>1. PICK ok \in BOOLEAN : Becomes(Free(y, s.c, ok))
      BY <1>1, <1>2, Zenon
    <2>2. Z(ok) = Free(y, s.c, ok)
      <3> HIDE DEF y
      <3> QED
        BY <1>2 DEF last
    <2>3. Becomes(Z(ok))
      BY <2>1, <2>2, Zenon
    <2> HIDE DEF Z, y
    <2> QED
      BY <1>1, <2>3
  <1>3. CASE ~last
    <2>1. Becomes(y)
      BY <1>1, <1>3, Zenon
    <2>2. Z(TRUE) = y
      <3> HIDE DEF y
      <3> QED
        BY <1>3 DEF last
    <2>3. Becomes(Z(TRUE))
      BY <2>1, <2>2, Zenon
    <2> HIDE DEF Z, y
    <2> QED
      BY <1>1, <2>3
  <1> QED
    BY <1>2, <1>3

\* Removing a name of a file.
LEMMA FremoveKeeps ==
    ASSUME IInv, NEW s \in Located(now), s.p # <<>>, Fremove(s)
    PROVE  IInv'
  <1> DEFINE o == (CHOOSE r \in Located(now) : r.p = Front(s.p)).c
             y == Unlink(now, o, s.c, Last(s.p))
             Z(ok) == IF y.ino[s.c].links = 0 THEN Free(y, s.c, ok) ELSE y
  <1>1. PICK dep : Sound(now, dep)
    BY DEF IInv
  <1>2. PICK ok, z : Locked /\ ~IsDir(now, s.c) /\ z = Z(ok) /\ Becomes(z)
    BY FremoveIs
  <1>3. IsFile(now, s.c)
    BY <1>1, <1>2, PlaceFacts
  <1>4. Entry(o, Last(s.p), s.c) \in now.ents
    BY <1>1, DirectoryOf
  <1> HIDE DEF now, o
  <1>5. PICK e \in now.ents : e.d = o /\ e.n = Last(s.p) /\ e.c = s.c
    BY <1>4 DEF Entry
  <1>6. y = Unlink(now, e.d, e.c, e.n)
    BY <1>5
  <1> HIDE DEF y
  <1>7. z = IF y.ino[e.c].links = 0 THEN Free(y, e.c, ok) ELSE y
    BY <1>2, <1>5
  <1> HIDE DEF Z
  <1>8. Sound(z, dep)
    <2>1. Sound(now, dep) /\ e \in now.ents /\ IsFile(now, e.c)
      BY <1>1, <1>3, <1>5
    <2> QED
      BY ONLY <1>6, <1>7, <2>1, RemoveFileKeeps
  <1> QED
    BY <1>2, <1>8, CallKeeps

-----------------------------------------------------------------------------
(* The recursive removal.                                                  *)

\* The entry e of x is gone in z, and what it named is free.
Gone(x, dep, e, z) ==
  /\ e \in x.ents /\ Content(x, e.c) = {}
  /\ Sound(z, dep) /\ z.ents = x.ents \ {e} /\ ~InUse(z, e.c)
  /\ \A j \in Inode \ {e.c, e.d} : SameAt(x, z, j)
  /\ IsDir(z, e.d) /\ Up(z, e.d) = Up(x, e.d)
  /\ Links(x, e.d) # 1 => Links(z, e.d) # 1

\* Taking away an entry of a directory to be removed leaves the rest to be removed.
LEMMA EntryGone ==
    ASSUME NEW x, NEW dep, Sound(x, dep), NEW top \in Inode, NEW T \in SUBSET Inode,
           NEW r, Removal(x, dep, top, T, r), r.depth > 0,
           NEW e, e.d = r.cur, NEW z, Gone(x, dep, e, z)
    PROVE  Removal(z, dep, top, T \ {e.c}, r)
  <1> DEFINE U == T \ {e.c}
  <1> USE DEF Gone
  <1>1. /\ top \in T /\ r.cur \in T
        /\ \A i \in T : IsDir(x, i) /\ dep[top] <= dep[i]
        /\ \A f \in x.ents : f.d \in T => f.c \in T \/ (IsFile(x, f.c) /\ Links(x, f.c) = 1)
        /\ \A i \in T \ {top} : Up(x, i) \in T
        /\ \A t \in Located(x) : t.c \in T => IsPrefix(r.path, t.p)
        /\ Links(x, top) # 1
        /\ r.path = <<>> => top = Root
        /\ r.path # <<>> => Entry(Up(x, top), Last(r.path), top) \in x.ents
        /\ r.depth > 0 => r.depth = dep[r.cur] - dep[top] + 1
    BY DEF Removal
  <1>2. /\ e.d \in Inode /\ e.c \in Inode /\ e.c # Root /\ e.d # e.c /\ IsDir(x, e.d)
        /\ IsDir(x, e.c) => dep[e.c] = dep[e.d] + 1
    <2>1. e.d \in Inode /\ e.c \in Inode /\ e.c # Root /\ IsDir(x, e.d) /\ InUse(x, e.c)
          /\ (IsDir(x, e.c) => dep[e.c] = dep[e.d] + 1 /\ e.d # e.c)
      BY SoundFacts
    <2> QED
      BY <2>1
  <1>3. e.c # top
    <2>1. dep[e.d] \in Nat /\ dep[top] \in Nat
      BY <1>2, SoundFacts
    <2>2. dep[top] <= dep[e.d] /\ (e.c = top => dep[top] = dep[e.d] + 1)
      BY <1>1, <1>2
    <2> QED
      BY <2>1, <2>2
  <1>4. ASSUME NEW i \in U
        PROVE  i \in Inode /\ IsDir(z, i) /\ Up(z, i) = Up(x, i) /\ (Links(x, i) # 1 => Links(z, i) # 1)
    <2>1. CASE i = e.d
      BY <1>2, <2>1
    <2>2. CASE i # e.d
      <3>1. i \in Inode \ {e.c, e.d} /\ IsDir(x, i)
        BY <1>1, <2>2
      <3> QED
        BY <3>1 DEF SameAt
    <2> QED
      BY <2>1, <2>2
  <1>5. ASSUME NEW f \in z.ents, f.d \in U
        PROVE  f.c \in U \/ (IsFile(z, f.c) /\ Links(z, f.c) = 1)
    <2>1. InUse(z, f.c) /\ f \in x.ents /\ f.c \in Inode
      BY SoundFacts
    <2>2. f.c # e.c
      BY <2>1
    <2>3. CASE f.c \in T
      BY <2>2, <2>3
    <2>4. CASE IsFile(x, f.c) /\ Links(x, f.c) = 1
      <3>1. f.c # e.d
        BY <1>2, <2>1, <2>4, SoundFacts
      <3>2. SameAt(x, z, f.c)
        BY <2>1, <2>2, <3>1
      <3> QED
        BY <2>4, <3>2 DEF SameAt
    <2> QED
      BY <1>1, <1>5, <2>1, <2>3, <2>4
  <1>6. ASSUME NEW i \in U \ {top}
        PROVE  Up(z, i) \in U
    <2>1. Up(z, i) = Up(x, i) /\ Up(x, i) \in T /\ IsDir(x, i) /\ i \in Inode
      BY <1>1, <1>4, <1>6
    <2>2. Up(x, i) # e.c
      <3>1. CASE i = Root
        BY <1>2, <3>1, SoundFacts
      <3>2. CASE i # Root
        <4>1. InUse(x, i)
          BY <2>1, SoundFacts
        <4>2. PICK g \in x.ents : g.c = i
          BY <2>1, <3>2, <4>1, SoundFacts
        <4>3. Up(x, i) = g.d
          BY <2>1, <4>2, SoundFacts
        <4>4. g.d # e.c
          BY DEF Content
        <4> QED
          BY <4>3, <4>4
      <3> QED
        BY <3>1, <3>2
    <2> QED
      BY <2>1, <2>2
  <1>7. top \in U /\ r.cur \in U
    BY <1>1, <1>2, <1>3
  <1>8. /\ \A i \in U : dep[top] <= dep[i]
        /\ U \subseteq Inode
    BY <1>1
  <1>9. Links(z, top) # 1 /\ Up(z, top) = Up(x, top)
    BY <1>1, <1>4, <1>7
  <1>10. r.path # <<>> => Entry(Up(z, top), Last(r.path), top) \in z.ents
    <2> SUFFICES ASSUME r.path # <<>>
                 PROVE  Entry(Up(z, top), Last(r.path), top) \in z.ents
      OBVIOUS
    <2>1. Entry(Up(x, top), Last(r.path), top) \in x.ents
      BY <1>1
    <2>2. Entry(Up(x, top), Last(r.path), top).c = top
      BY DEF Entry
    <2> QED
      BY <1>3, <1>9, <2>1, <2>2
  <1>11. \A t \in Located(z) : t.c \in U => IsPrefix(r.path, t.p)
    <2>1. \E q \in Located(x) : /\ q.c = e.d /\ q \in Located(z)
                                 /\ Located(z) = Located(x) \ {Beyond(q, e)}
      <3>1. Sound(x, dep) /\ Sound(z, dep) /\ e \in x.ents /\ Content(x, e.c) = {} /\ z.ents = x.ents \ {e}
        OBVIOUS
      <3> QED
        BY ONLY <3>1, PlaceLess
    <2>2. Located(z) \subseteq Located(x)
      BY <2>1
    <2> QED
      BY <1>1, <2>2
  <1> HIDE DEF U
  <1>12. Removal(z, dep, top, U, r)
    <2>1. /\ top \in U /\ U \subseteq Inode /\ r.cur \in U
          /\ \A i \in U : IsDir(z, i) /\ dep[top] <= dep[i]
      BY <1>4, <1>7, <1>8
    <2>2. /\ \A f \in z.ents : f.d \in U => f.c \in U \/ (IsFile(z, f.c) /\ Links(z, f.c) = 1)
          /\ \A i \in U \ {top} : Up(z, i) \in U
      BY <1>5, <1>6
    <2>3. ~(r.depth = 0)
      OBVIOUS
    <2> QED
      BY <1>1, <1>9, <1>10, <1>11, <2>1, <2>2, <2>3 DEF Removal
  <1> QED
    BY <1>12 DEF U

\* The state of the file system stays, that of the removal changes.
LEMMA RemovalKeeps ==
    ASSUME NEW dep \in [Inode -> Nat], Sound(now, dep), UNCHANGED <<ino, ents>>, rm' \in RmRec,
           rm'.on => \E top \in Inode, T \in SUBSET Inode : Removal(now, dep, top, T, rm')
    PROVE  IInv'
  <1>1. now' = now
    BY DEF now
  <1>2. Sound(now', dep)
    BY <1>1
  <1>3. rm'.on => \E top \in Inode, T \in SUBSET Inode : Removal(now', dep, top, T, rm')
    BY <1>1
  <1> QED
    BY <1>2, <1>3 DEF IInv

\* A recursive removal begins: everything below its directory is still to be removed.
LEMMA DirRmKeeps ==
    ASSUME Departures = {}, IInv, NEW s \in Located(now), DirRm(s)
    PROVE  IInv'
  <1>1. PICK dep \in [Inode -> Nat] : Sound(now, dep)
    BY DEF IInv
  <1>2. /\ IsDir(now, s.c) /\ Links(now, s.c) # 1
        /\ \A t \in Located(now) : IsPrefix(s.p, t.p) => (IsFile(now, t.c) => Links(now, t.c) = 1)
        /\ rm' = [on |-> TRUE, path |-> s.p, cur |-> s.c, depth |-> 1]
        /\ UNCHANGED <<ino, ents>>
    <2>1. ~May("nlink") /\ ~May("hardlink")
      BY DEF May
    <2>2. \A i : ino[i] = now.ino[i]
      BY DEF now
    <2>3. \A t \in Located(now) : IsPrefix(s.p, t.p) => Single(t.c)
      BY <2>1 DEF DirRm
    <2> QED
      BY <2>1, <2>2, <2>3 DEF DirRm, Single, IsFile, Links
  <1> HIDE DEF now
  <1> DEFINE T == Sub(now, s)
             r == [on |-> TRUE, path |-> s.p, cur |-> s.c, depth |-> 1]
  <1>3. s.p \in Seq(Name) /\ s.c \in Inode /\ (s.p = <<>> => s.c = Root)
    <2>1. now \in FsRec
      BY <1>1, SoundFacts
    <2>2. s.p = <<>> => s.c = Root
      BY <2>1, LocatedFacts
    <2> QED
      BY <1>1, <2>2, PlaceFacts
  <1>4. /\ T \in SUBSET Inode /\ s.c \in T
        /\ \A i \in T : IsDir(now, i) /\ dep[s.c] <= dep[i]
        /\ \A e \in now.ents : e.d \in T /\ IsDir(now, e.c) => e.c \in T
        /\ \A e \in now.ents : e.d \in T => \E t \in Located(now) : t.c = e.c /\ IsPrefix(s.p, t.p)
        /\ \A i \in T \ {s.c} : Up(now, i) \in T
        /\ \A t \in Located(now) : t.c \in T => IsPrefix(s.p, t.p)
    <2>1. T \in SUBSET Inode /\ \A i \in T : IsDir(now, i)
      BY DEF Sub
    <2> HIDE DEF T
    <2> QED
      BY <1>1, <1>2, <2>1, SubtreeFacts DEF T
  <1> HIDE DEF T
  <1>5. ASSUME NEW e \in now.ents, e.d \in T
        PROVE  e.c \in T \/ (IsFile(now, e.c) /\ Links(now, e.c) = 1)
    <2>1. CASE IsDir(now, e.c)
      BY <1>4, <1>5, <2>1
    <2>2. CASE ~IsDir(now, e.c)
      <3>1. IsFile(now, e.c)
        BY <1>1, <2>2, SoundFacts
      <3>2. PICK t \in Located(now) : t.c = e.c /\ IsPrefix(s.p, t.p)
        BY <1>4, <1>5
      <3> QED
        BY <1>2, <3>1, <3>2
    <2> QED
      BY <2>1, <2>2
  <1>6. s.p # <<>> => Entry(Up(now, s.c), Last(s.p), s.c) \in now.ents
    <2> SUFFICES ASSUME s.p # <<>>
                 PROVE  Entry(Up(now, s.c), Last(s.p), s.c) \in now.ents
      OBVIOUS
    <2>1. PICK o : Entry(o, Last(s.p), s.c) \in now.ents
      BY <1>1, DirectoryOf
    <2>2. Entry(o, Last(s.p), s.c).d = o /\ Entry(o, Last(s.p), s.c).c = s.c
      BY DEF Entry
    <2>3. Up(now, s.c) = o
      BY <1>1, <1>2, <2>1, <2>2, SoundFacts
    <2> QED
      BY <2>1, <2>3
  <1>7. r.path = s.p /\ r.cur = s.c /\ r.depth = 1 /\ r.depth > 0 /\ r.depth # 0
    OBVIOUS
  <1>8. r \in RmRec
    <2>1. 1 \in 0 .. MaxDepth + 1
      BY NamespaceAssumption
    <2> QED
      BY <1>3, <2>1 DEF RmRec
  <1>9. dep[s.c] - dep[s.c] + 1 = 1
    <2>1. dep[s.c] \in Nat
      BY <1>3
    <2> QED
      BY <2>1
  <1> HIDE DEF r
  <1>10. Removal(now, dep, s.c, T, r)
    BY <1>2, <1>3, <1>4, <1>5, <1>6, <1>7, <1>9 DEF Removal
  <1>11. rm' = r
    BY <1>2 DEF r
  <1> QED
    BY <1>1, <1>2, <1>3, <1>4, <1>8, <1>10, <1>11, RemovalKeeps

\* A removal under way: its facts, for its steps to cite.
LEMMA UnderWay ==
    ASSUME IInv, rm.on
    PROVE  /\ rm \in RmRec
           /\ \E dep \in [Inode -> Nat], top \in Inode, T \in SUBSET Inode :
                Sound(now, dep) /\ Removal(now, dep, top, T, rm)
  BY DEF IInv

\* It goes into a directory.
LEMMA RmDownKeeps ==
    ASSUME IInv, RmDown
    PROVE  IInv'
  <1>1. PICK e \in now.ents : /\ e.d = rm.cur /\ rm.on /\ rm.depth > 0 /\ IsDir(now, e.c)
                              /\ rm' = [rm EXCEPT !.cur = e.c, !.depth = @ + 1]
                              /\ UNCHANGED <<ino, ents>>
    BY DEF RmDown, Content
  <1>2. PICK dep \in [Inode -> Nat], top \in Inode, T \in SUBSET Inode :
               Sound(now, dep) /\ Removal(now, dep, top, T, rm)
    BY <1>1, UnderWay
  <1>3. rm \in RmRec /\ MaxDepth \in Nat
    BY NamespaceAssumption DEF IInv
  <1> HIDE DEF now
  <1>4. e.c \in Inode /\ e.d \in Inode /\ dep[e.c] = dep[e.d] + 1 /\ dep[e.c] \in 0 .. MaxDepth
    <2>1. e.c \in Inode /\ e.d \in Inode /\ dep[e.c] = dep[e.d] + 1
      BY <1>1, <1>2, SoundFacts
    <2> QED
      BY <1>1, <1>2, <2>1, AllReached
  <1>5. e.c \in T
    <2>1. rm.cur \in T /\ (e.d \in T => e.c \in T \/ IsFile(now, e.c))
      BY <1>2 DEF Removal
    <2>2. ~IsFile(now, e.c)
      BY <1>1, <1>2, <1>4, SoundFacts
    <2> QED
      BY <1>1, <2>1, <2>2
  <1>6. /\ rm'.on = rm.on /\ rm'.path = rm.path /\ rm'.cur = e.c /\ rm'.depth = rm.depth + 1
        /\ rm.depth \in Nat
    <2>1. rm.depth \in 0 .. MaxDepth + 1
      BY <1>3 DEF RmRec
    <2>2. rm' = [on |-> rm.on, path |-> rm.path, cur |-> e.c, depth |-> rm.depth + 1]
      BY <1>1, <1>3 DEF RmRec
    <2>3. rm.depth \in Nat
      BY <1>3, <2>1
    <2> QED
      BY <2>2, <2>3
  <1>7. /\ dep[top] \in Nat /\ dep[e.d] \in Nat /\ dep[top] <= dep[e.d]
        /\ rm.depth = dep[e.d] - dep[top] + 1
    BY <1>1, <1>2 DEF Removal
  <1>8. rm'.depth = dep[e.c] - dep[top] + 1 /\ rm'.depth > 0 /\ rm'.depth \in 0 .. MaxDepth + 1
    BY <1>3, <1>4, <1>6, <1>7
  <1>9. Removal(now, dep, top, T, rm')
    <2>1. rm'.depth # 0
      BY <1>6
    <2> QED
      BY <1>2, <1>5, <1>6, <1>8, <2>1 DEF Removal
  <1>10. rm' \in RmRec
    <2>1. rm' = [on |-> rm.on, path |-> rm.path, cur |-> e.c, depth |-> rm.depth + 1]
      BY <1>1, <1>3 DEF RmRec
    <2>2. rm.on \in BOOLEAN /\ rm.path \in Seq(Name)
      BY <1>3 DEF RmRec
    <2>3. rm.depth + 1 \in 0 .. MaxDepth + 1
      BY <1>6, <1>8
    <2> QED
      BY <1>4, <2>1, <2>2, <2>3 DEF RmRec
  <1> QED
    BY <1>1, <1>2, <1>9, <1>10, RemovalKeeps

\* After it, only the tree has to be sound.
LEMMA IdleKeeps ==
    ASSUME NEW dep \in [Inode -> Nat], Sound(now', dep), rm' = Idle
    PROVE  IInv'
  <1>1. rm' \in RmRec /\ rm'.on = FALSE
    <2>1. 0 \in 0 .. MaxDepth + 1
      BY NamespaceAssumption
    <2> QED
      BY <2>1 DEF Idle, RmRec
  <1> QED
    BY <1>1 DEF IInv

\* It takes an entry away.
LEMMA RmEntryKeeps ==
    ASSUME IInv, RmEntry
    PROVE  IInv'
  <1>1. PICK e \in now.ents, ok \in BOOLEAN :
           LET z == Free(Unlink(now, e.d, e.c, e.n), e.c, ok)
           IN  /\ e.d = rm.cur /\ rm.on /\ rm.depth > 0 /\ Content(now, e.c) = {}
               /\ ino' = z.ino /\ ents' = z.ents
               /\ rm' = IF ok THEN rm ELSE Idle
    BY Zenon DEF RmEntry, Content
  <1>2. PICK dep \in [Inode -> Nat], top \in Inode, T \in SUBSET Inode :
               Sound(now, dep) /\ Removal(now, dep, top, T, rm)
    BY <1>1, UnderWay
  <1> DEFINE y == Unlink(now, e.d, e.c, e.n)
             z == Free(y, e.c, ok)
             U == T \ {e.c}
  <1>3. /\ ino' = z.ino /\ ents' = z.ents /\ rm \in RmRec
        /\ rm' = IF ok THEN rm ELSE Idle
    BY <1>1 DEF IInv
  <1> HIDE DEF now
  <1>4. /\ e.d \in Inode /\ e.c \in Inode /\ e.d # e.c /\ IsDir(now, e.d)
        /\ IsDir(now, e.c) \/ (IsFile(now, e.c) /\ ~IsDir(now, e.c))
    <2>1. /\ e.d \in Inode /\ e.c \in Inode /\ IsDir(now, e.d) /\ InUse(now, e.c)
          /\ IsDir(now, e.c) => e.d # e.c
      BY <1>2, SoundFacts
    <2>2. IsDir(now, e.c) \/ (IsFile(now, e.c) /\ ~IsDir(now, e.c))
      BY <1>2, <2>1, SoundFacts
    <2> QED
      BY <2>1, <2>2
  <1>5. y \in FsRec
    <2> HIDE DEF y
    <2>1. CASE IsDir(now, e.c)
      BY <1>2, <1>4, <2>1, UnlinkDirFacts, SoundFacts DEF y
    <2>2. CASE ~IsDir(now, e.c)
      BY <1>2, <1>4, <2>2, UnlinkFileFacts, SoundFacts DEF y
    <2> QED
      BY <2>1, <2>2
  <1>6. /\ Sound(z, dep) /\ z.ents = now.ents \ {e}
        /\ \A j \in Inode \ {e.c, e.d} : SameAt(now, z, j)
        /\ IsDir(z, e.d) /\ Up(z, e.d) = Up(now, e.d)
        /\ (Links(now, e.d) # 1 => Links(z, e.d) # 1)
    <2>1. CASE IsDir(now, e.c)
      <3> HIDE DEF y, z
      <3>1. /\ Sound(z, dep) /\ z.ents = now.ents \ {e}
            /\ \A j \in Inode \ {e.c, e.d} : SameAt(now, z, j)
            /\ IsDir(z, e.d) /\ Up(z, e.d) = Up(now, e.d) /\ Links(z, e.d) = DecOf(Links(now, e.d))
        BY <1>1, <1>2, <2>1, RemoveDirKeeps DEF y, z
      <3>2. Links(now, e.d) \in Nat
        BY <1>2, <1>4, SoundFacts
      <3>3. Links(now, e.d) # 1 => Links(z, e.d) # 1
        BY <3>1, <3>2 DEF DecOf
      <3> QED
        BY <3>1, <3>3
    <2>2. CASE IsFile(now, e.c) /\ ~IsDir(now, e.c)
      <3>1. Links(now, e.c) = 1
        BY <1>1, <1>2, <2>2 DEF Removal
      <3> DEFINE w == IF y.ino[e.c].links = 0 THEN Free(y, e.c, ok) ELSE y
      <3> HIDE DEF y
      <3>2. /\ Sound(w, dep) /\ w.ents = now.ents \ {e}
            /\ \A j \in Inode \ {e.c} : SameAt(now, w, j)
            /\ w = Free(y, e.c, ok)
        <4> HIDE DEF w
        <4> QED
          BY <1>2, <2>2, <3>1, RemoveFileKeeps DEF y, w
      <3> HIDE DEF w
      <3>3. z = w
        BY <3>2
      <3> HIDE DEF z
      <3>4. SameAt(now, z, e.d)
        BY <1>4, <3>2, <3>3
      <3> QED
        BY <1>4, <3>2, <3>3, <3>4 DEF SameAt
    <2> QED
      BY <1>4, <2>1, <2>2
  <1>7. ~InUse(z, e.c)
    <2> HIDE DEF y
    <2>1. z \in FsRec /\ ~IsDir(z, e.c) /\ ~IsFile(z, e.c)
      BY <1>4, <1>5, FreeFacts
    <2> HIDE DEF z
    <2> QED
      BY <1>4, <2>1, FsFacts
  <1> HIDE DEF z, U
  <1>8. Removal(z, dep, top, U, rm)
    <2>1. Sound(now, dep) /\ Removal(now, dep, top, T, rm) /\ rm.depth > 0 /\ e.d = rm.cur
          /\ Content(now, e.c) = {}
      BY <1>1, <1>2
    <2>2. Removal(z, dep, top, T \ {e.c}, rm)
      <3>1. Gone(now, dep, e, z)
        BY <1>6, <1>7, <2>1 DEF Gone
      <3> QED
        BY <2>1, <3>1, EntryGone
    <2> QED
      BY <2>2 DEF U
  <1>9. now' = z
    <2>1. z = [ino |-> z.ino, ents |-> z.ents]
      BY <1>6, SoundFacts DEF FsRec
    <2> QED
      BY <1>3, <2>1 DEF now
  <1>10. U \in SUBSET Inode
    BY DEF U
  <1>11. Sound(now', dep) /\ Removal(now', dep, top, U, rm)
    BY <1>6, <1>8, <1>9
  <1>12. CASE ok
    BY <1>2, <1>3, <1>10, <1>11, <1>12 DEF IInv
  <1>13. CASE ~ok
    BY <1>3, <1>11, <1>13, IdleKeeps
  <1> QED
    BY <1>12, <1>13

\* It goes back up, as many levels as it came down: with none left it is at its top.
LEMMA RmUpKeeps ==
    ASSUME IInv, RmUp
    PROVE  IInv'
  <1>1. /\ rm.on /\ rm.depth > 0 /\ Content(now, rm.cur) = {}
        /\ UNCHANGED <<ino, ents>>
        /\ rm' = [rm EXCEPT !.depth = @ - 1, !.cur = IF rm.depth > 1 THEN Up(now, rm.cur) ELSE @]
    BY Zenon DEF RmUp, Up, now
  <1>2. PICK dep \in [Inode -> Nat], top \in Inode, T \in SUBSET Inode :
               Sound(now, dep) /\ Removal(now, dep, top, T, rm)
    BY <1>1, UnderWay
  <1>3. rm \in RmRec /\ MaxDepth \in Nat
    BY NamespaceAssumption DEF IInv
  <1> HIDE DEF now
  <1>4. rm.depth \in 0 .. MaxDepth + 1 /\ rm.depth \in Nat /\ rm.on \in BOOLEAN /\ rm.path \in Seq(Name)
    <2>1. rm.depth \in 0 .. MaxDepth + 1 /\ rm.on \in BOOLEAN /\ rm.path \in Seq(Name)
      BY <1>3 DEF RmRec
    <2> QED
      BY <1>3, <2>1
  <1> DEFINE up == IF rm.depth > 1 THEN Up(now, rm.cur) ELSE rm.cur
  <1>5. rm' = [on |-> rm.on, path |-> rm.path, cur |-> up, depth |-> rm.depth - 1]
    BY <1>1, <1>3 DEF RmRec
  <1>6. /\ rm.cur \in T /\ top \in T /\ T \subseteq Inode
        /\ \A i \in T : IsDir(now, i) /\ dep[top] <= dep[i]
        /\ \A i \in T \ {top} : Up(now, i) \in T
        /\ rm.depth = dep[rm.cur] - dep[top] + 1
    BY <1>1, <1>2 DEF Removal
  <1>7. ASSUME NEW i \in T, i # top
        PROVE  Up(now, i) \in T /\ dep[i] = dep[Up(now, i)] + 1
    <2>1. CASE i = Root
      <3>1. dep[Root] = 0 /\ dep[top] \in Nat /\ dep[top] <= dep[i]
        BY <1>2, <1>6, SoundFacts
      <3>2. dep[top] = 0
        BY <2>1, <3>1
      <3>3. CASE top = Root
        BY <1>7, <2>1, <3>3
      <3>4. CASE top # Root
        <4>1. InUse(now, top) /\ IsDir(now, top)
          BY <1>2, <1>6, SoundFacts
        <4>2. PICK g \in now.ents : g.c = top
          BY <1>2, <3>4, <4>1, SoundFacts
        <4>3. dep[top] = dep[g.d] + 1 /\ dep[g.d] \in Nat
          BY <1>2, <4>1, <4>2, SoundFacts
        <4> QED
          BY <3>2, <4>3
      <3> QED
        BY <3>3, <3>4
    <2>2. CASE i # Root
      <3>1. InUse(now, i) /\ IsDir(now, i) /\ i \in Inode
        BY <1>2, <1>6, SoundFacts
      <3>2. PICK g \in now.ents : g.c = i
        BY <1>2, <2>2, <3>1, SoundFacts
      <3>3. Up(now, i) = g.d /\ dep[i] = dep[g.d] + 1
        BY <1>2, <3>1, <3>2, SoundFacts
      <3> QED
        BY <1>6, <1>7, <3>3
    <2> QED
      BY <2>1, <2>2
  <1>8. dep[top] \in Nat /\ dep[rm.cur] \in Nat
    BY <1>6
  <1>9. CASE rm.depth > 1
    <2>1. rm.cur # top
      BY <1>6, <1>8, <1>9
    <2>2. up = Up(now, rm.cur) /\ up \in T /\ dep[rm.cur] = dep[up] + 1
      BY <1>6, <1>7, <1>9, <2>1
    <2>3. up \in Inode /\ dep[up] \in Nat
      BY <1>6, <2>2
    <2> HIDE DEF up
    <2>4. /\ rm'.on = rm.on /\ rm'.path = rm.path /\ rm'.cur = up /\ rm'.depth = rm.depth - 1
      BY <1>5
    <2>5. rm.depth - 1 > 0 /\ rm.depth - 1 # 0 /\ rm.depth - 1 \in 0 .. MaxDepth + 1
          /\ rm.depth - 1 = dep[up] - dep[top] + 1
      BY <1>3, <1>4, <1>6, <1>8, <1>9, <2>2, <2>3
    <2>6. Removal(now, dep, top, T, rm')
      BY <1>2, <2>2, <2>4, <2>5 DEF Removal
    <2>7. rm' \in RmRec
      BY <1>4, <1>5, <2>3, <2>5 DEF RmRec
    <2> QED
      BY <1>1, <1>2, <2>6, <2>7, RemovalKeeps
  <1>10. CASE rm.depth = 1
    <2>1. rm.cur = top
      <3> SUFFICES ASSUME rm.cur # top
                   PROVE  FALSE
        OBVIOUS
      <3>1. Up(now, rm.cur) \in T /\ dep[rm.cur] = dep[Up(now, rm.cur)] + 1
        BY <1>6, <1>7
      <3>2. dep[top] <= dep[Up(now, rm.cur)] /\ dep[Up(now, rm.cur)] \in Nat
        BY <1>6, <3>1
      <3> QED
        BY <1>6, <1>8, <1>10, <3>1, <3>2
    <2>2. up = rm.cur /\ rm.depth - 1 = 0
      BY <1>10
    <2> HIDE DEF up
    <2>3. /\ rm'.on = rm.on /\ rm'.path = rm.path /\ rm'.cur = top /\ rm'.depth = 0
      BY <1>5, <2>1, <2>2
    <2>4. Removal(now, dep, top, T, rm')
      BY <1>1, <1>2, <1>6, <2>1, <2>3 DEF Removal
    <2>5. rm' \in RmRec
      <3>1. 0 \in 0 .. MaxDepth + 1
        BY <1>3
      <3>2. rm' = [on |-> rm.on, path |-> rm.path, cur |-> top, depth |-> 0]
        BY <1>5, <2>1, <2>2
      <3> QED
        BY <1>4, <3>1, <3>2 DEF RmRec
    <2> QED
      BY <1>1, <1>2, <2>4, <2>5, RemovalKeeps
  <1> QED
    BY <1>1, <1>4, <1>9, <1>10

\* It takes its directory away, out of the directory that has the last name of its path.
LEMMA RmLastKeeps ==
    ASSUME IInv, RmLast
    PROVE  IInv'
  <1> DEFINE c == rm.cur
             d == Up(now, c)
             n == IF rm.path = <<>> THEN <<>> ELSE Last(rm.path)
             y == Unlink(now, d, c, n)
             Z(ok) == IF y.ino[c].links = 2 THEN Free(y, c, ok) ELSE y
  <1>1. PICK ok, z :
        /\ rm.on /\ rm.depth = 0 /\ rm' = Idle /\ z = Z(ok)
        /\ \/ UNCHANGED <<ino, ents>>
           \/ Child(now, d, n) # 0 /\ ino' = z.ino /\ ents' = z.ents
    BY Zenon DEF RmLast, Up, now
  <1>2. PICK dep \in [Inode -> Nat], top \in Inode, T \in SUBSET Inode :
               Sound(now, dep) /\ Removal(now, dep, top, T, rm)
    BY <1>1, UnderWay
  <1>3. CASE UNCHANGED <<ino, ents>>
    <2>1. now' = now
      BY <1>3 DEF now
    <2>2. Sound(now', dep)
      BY <1>2, <2>1
    <2> QED
      BY <1>1, <2>2, IdleKeeps
  <1>4. CASE Child(now, d, n) # 0 /\ ino' = z.ino /\ ents' = z.ents
    <2>1. now' = [ino |-> z.ino, ents |-> z.ents]
      BY <1>4 DEF now
    <2> HIDE DEF now
    <2>2. /\ c = top /\ Content(now, top) = {} /\ IsDir(now, top) /\ Links(now, top) # 1
          /\ rm.path = <<>> => top = Root
          /\ rm.path # <<>> => Entry(Up(now, top), Last(rm.path), top) \in now.ents
      BY <1>1, <1>2 DEF Removal
    <2>3. rm.path # <<>>
      <3> SUFFICES ASSUME rm.path = <<>>
                   PROVE  FALSE
        OBVIOUS
      <3>1. d = Root /\ c = Root
        BY <1>2, <2>2, SoundFacts
      <3> HIDE DEF d, n
      <3>2. PICK e \in now.ents : e.d = d
        BY <1>2, <1>4, ChildFacts, SoundFacts
      <3> QED
        BY <2>2, <3>1, <3>2 DEF Content
    <2>4. n = Last(rm.path)
      BY <2>3
    <2>5. PICK e \in now.ents : e.d = d /\ e.n = n /\ e.c = c
      BY <2>2, <2>3, <2>4 DEF Entry
    <2> HIDE DEF c, d, n
    <2>6. y = Unlink(now, e.d, e.c, e.n)
      BY <2>5
    <2> HIDE DEF y
    <2>7. Sound(Free(y, e.c, ok), dep) /\ y.ino[e.c].links = 2
      <3>1. PICK w : w = Free(y, e.c, ok)
        BY Zenon
      <3>2. IsDir(now, e.c) /\ Content(now, e.c) = {} /\ Links(now, e.c) # 1
        BY <2>2, <2>5
      <3>3. Sound(w, dep) /\ y.ino[e.c].links = 2
        BY <1>2, <2>6, <3>1, <3>2, RemoveDirKeeps
      <3> QED
        BY <3>1, <3>3
    <2>8. z = Free(y, e.c, ok)
      BY <1>1, <2>5, <2>7
    <2> HIDE DEF Z
    <2>9. z = [ino |-> z.ino, ents |-> z.ents]
      BY <2>7, <2>8, SoundFacts DEF FsRec
    <2>10. Sound(now', dep)
      BY <2>1, <2>7, <2>8, <2>9
    <2> QED
      BY <1>1, <2>10, IdleKeeps
  <1> QED
    BY <1>1, <1>3, <1>4

\* Or it stops where it is.
LEMMA RmFailsKeeps ==
    ASSUME Departures = {}, IInv, RmFails
    PROVE  IInv'
  <1>1. rm' = Idle /\ now' = now
    BY DEF RmFails, May, now
  <1>2. PICK dep \in [Inode -> Nat] : Sound(now, dep)
    BY DEF IInv
  <1>3. Sound(now', dep)
    BY <1>1, <1>2
  <1> QED
    BY <1>1, <1>3, IdleKeeps

\* Every step of a call or of a removal keeps it.
LEMMA StepKeeps ==
    ASSUME Departures = {}, IInv, [Next]_vars
    PROVE  IInv'
  <1>1. CASE \E p \in Paths, kind \in Kind : Create(p, kind)
    BY <1>1, CreateKeeps
  <1>2. CASE \E s \in Located(now) : DirRm(s) \/ (s.p # <<>> /\ Fremove(s))
    BY <1>2, DirRmKeeps, FremoveKeeps
  <1>3. CASE \E s, t \in Located(now), n \in Name :
               /\ Len(t.p) < MaxDepth
               /\ \/ Flink(s.c, t.c, n)
                  \/ Frename(s, t, n)
    BY <1>3, FlinkKeeps, FrenameKeeps
  <1>4. CASE RmStep
    BY <1>4, RmDownKeeps, RmEntryKeeps, RmUpKeeps, RmLastKeeps DEF RmStep
  <1>5. CASE RmFails
    BY <1>5, RmFailsKeeps
  <1>6. CASE UNCHANGED vars
    <2>1. rm' = rm /\ UNCHANGED <<ino, ents>>
      BY <1>6 DEF vars
    <2>2. PICK dep \in [Inode -> Nat] :
                 /\ Sound(now, dep)
                 /\ rm.on => \E top \in Inode, T \in SUBSET Inode : Removal(now, dep, top, T, rm)
      BY DEF IInv
    <2>3. rm \in RmRec
      BY DEF IInv
    <2> HIDE DEF now
    <2> QED
      BY <2>1, <2>2, <2>3, RemovalKeeps
  <1> QED
    BY <1>1, <1>2, <1>3, <1>4, <1>5, <1>6 DEF Next

\* So it always holds, if no departure is followed.
THEOREM InvariantKept ==
    ASSUME Departures = {}
    PROVE  Spec => []IInv
  <1>1. Init => IInv
    BY InitHolds
  <1>2. IInv /\ [Next]_vars => IInv'
    BY StepKeeps
  <1> QED
    BY <1>1, <1>2, PTL DEF Spec

\* The state keeps its types, and no link count outgrows its field: that of a
\* directory stays below EXT4_LINK_MAX where directories are hashed, that of a file is
\* at most the number of names there can be.
THEOREM TypesHold ==
    ASSUME Departures = {}
    PROVE  Spec => []TypeOK
  <1>1. IInv => TypeOK
    <2> SUFFICES ASSUME IInv
                 PROVE  TypeOK
      OBVIOUS
    <2>1. PICK dep \in [Inode -> Nat] : Sound(now, dep)
      BY DEF IInv
    <2>2. /\ rm.on \in BOOLEAN /\ rm.depth \in 0 .. MaxDepth + 1 /\ rm.cur \in Inode \cup {0}
      BY DEF IInv, RmRec
    <2> DEFINE most == Cardinality(Inode) * Cardinality(Name) + 2
    <2>3. now \in FsRec /\ Counted(now)
      BY <2>1, SoundFacts
    <2>4. \A E \in SUBSET now.ents :
            Cardinality(E) \in Nat /\ Cardinality(E) <= Cardinality(Inode) * Cardinality(Name)
      <3>1. \A e, f \in now.ents : e.d = f.d /\ e.n = f.n => e = f
        BY <2>1, SoundFacts
      <3> HIDE DEF now
      <3> QED
        BY <2>3, <3>1, EntriesFinite
    <2>5. Cardinality(Inode) * Cardinality(Name) \in Nat
      <3>1. Cardinality(Inode) \in Nat /\ Cardinality(Name) \in Nat
        BY NamespaceAssumption, FS_CardinalityType
      <3> QED
        BY <3>1
    <2>6. ASSUME NEW i \in Inode
          PROVE  /\ Links(now, i) \in 0 .. most
                 /\ DirIndex /\ IsDir(now, i) => Links(now, i) < LinkMax
      <3>1. Links(now, i) \in Nat /\ (InUse(now, i) <=> IsDir(now, i) \/ IsFile(now, i))
        BY <2>1, SoundFacts
      <3>2. NamesOf(now, i) \in SUBSET now.ents /\ Subdirs(now, i) \in SUBSET now.ents
        BY DEF NamesOf, Subdirs
      <3> DEFINE a == Cardinality(NamesOf(now, i))
                 b == Cardinality(Subdirs(now, i))
                 m == Cardinality(Inode) * Cardinality(Name)
      <3>3. a \in Nat /\ a <= m /\ b \in Nat /\ b <= m /\ m \in Nat
        BY <2>4, <2>5, <3>2
      <3>4. /\ IsFile(now, i) => Links(now, i) = a
            /\ IsDir(now, i) => DirCount(Links(now, i), b)
            /\ ~InUse(now, i) => Links(now, i) = 0
        BY <2>3 DEF Counted
      <3> HIDE DEF now, a, b, m
      <3>5. Links(now, i) <= m + 2
        BY <3>1, <3>3, <3>4 DEF DirCount
      <3>6. Links(now, i) \in 0 .. m + 2
        BY <3>1, <3>3, <3>5
      <3>7. DirIndex /\ IsDir(now, i) => Links(now, i) < LinkMax
        BY <3>4 DEF DirCount
      <3> QED
        BY <3>6, <3>7 DEF m
    <2> HIDE DEF most
    <2>7. ino \in [Inode -> [kind : Kind \cup {"none", "lost"}, links : 0 .. most, up : Inode \cup {0}]]
      <3>1. ino \in [Inode -> InodeRec]
        BY <2>3 DEF FsRec, now
      <3>2. ASSUME NEW i \in Inode
            PROVE  ino[i] \in [kind : Kind \cup {"none", "lost"}, links : 0 .. most, up : Inode \cup {0}]
        <4>1. ino[i].links \in 0 .. most
          BY <2>6 DEF Links, now
        <4>2. ino[i] \in InodeRec
          BY <3>1
        <4> QED
          BY <4>1, <4>2 DEF InodeRec
      <3> QED
        BY <3>1, <3>2
    <2>8. DirIndex => \A i \in Inode : IsDir(now, i) => ino[i].links < LinkMax
      BY <2>6 DEF Links, now
    <2>9. ents \subseteq [d : Inode, n : Name, c : Inode]
      BY <2>3 DEF FsRec, EntryRec, now
    <2> QED
      BY <2>2, <2>7, <2>8, <2>9 DEF TypeOK, most
  <1> QED
    BY <1>1, InvariantKept, PTL

\* The directories are a tree, its entries name files and directories that are not lost,
\* and each of those is found by a path: what creation, renaming and removals leave
\* behind that end early, if they follow no departure.
THEOREM TreeIsSound ==
    ASSUME Departures = {}
    PROVE  Spec => []TreeSound
  <1>1. IInv => TreeSound
    <2> SUFFICES ASSUME IInv
                 PROVE  TreeSound
      OBVIOUS
    <2>1. PICK dep \in [Inode -> Nat] : Sound(now, dep)
      BY DEF IInv
    <2>2. Linked(now)
      BY <2>1, SoundFacts
    <2>3. /\ now.ents = ents
          /\ \A i \in Inode : Up(now, i) = ino[i].up /\ (InUse(now, i) <=> ino[i].kind \in Kind)
      BY DEF now, Up, InUse
    <2>4. \A e \in ents : e.c \in Inode
      BY <2>1, <2>3, SoundFacts
    <2>5. \A i \in Inode : InUse(now, i) => \E s \in Located(now) : s.c = i
      BY <2>1, AllReached
    <2> HIDE DEF now
    <2>6. \A e, f \in ents : (e.d = f.d /\ e.n = f.n) \/ (e.c = f.c /\ IsDir(now, e.c)) => e = f
      BY <2>2, <2>3 DEF Linked
    <2>7. \A e \in ents : /\ IsDir(now, e.d) /\ ino[e.c].kind \in Kind /\ e.c # Root
                          /\ IsDir(now, e.c) => ino[e.c].up = e.d
      BY <2>2, <2>3, <2>4 DEF Linked
    <2> QED
      BY <2>3, <2>5, <2>6, <2>7 DEF TreeSound
  <1> QED
    BY <1>1, InvariantKept, PTL

\* A file has as many links as names, a directory its own two and the '..' of each
\* directory in it, or 1 for too many; an inode without a name, free or lost, has none.
THEOREM LinksAreExact ==
    ASSUME Departures = {}
    PROVE  Spec => []LinksExact
  <1>1. IInv => LinksExact
    <2> SUFFICES ASSUME IInv, NEW i \in Inode
                 PROVE  LET named == {e \in ents : e.c = i}
                            dirs == {e \in ents : e.d = i /\ IsDir(now, e.c)}
                        IN  CASE ino[i].kind = "file" -> ino[i].links = Cardinality(named)
                              [] ino[i].kind = "dir"  -> ino[i].links \in {2 + Cardinality(dirs)}
                                                           \cup (IF DirIndex THEN {1} ELSE {})
                              [] OTHER                -> ino[i] \in {Unused, Lost} /\ named = {}
      BY Zenon DEF LinksExact
    <2>1. PICK dep \in [Inode -> Nat] : Sound(now, dep)
      BY DEF IInv
    <2>2. now \in FsRec /\ Counted(now)
      BY <2>1, SoundFacts
    <2> DEFINE named == {e \in ents : e.c = i}
               dirs == {e \in ents : e.d = i /\ IsDir(now, e.c)}
    <2>3. NamesOf(now, i) = named /\ Subdirs(now, i) = dirs
      BY Zenon DEF NamesOf, Subdirs, now
    <2>4. /\ Links(now, i) = ino[i].links /\ Up(now, i) = ino[i].up
          /\ IsFile(now, i) <=> ino[i].kind = "file"
          /\ IsDir(now, i) <=> ino[i].kind = "dir"
          /\ InUse(now, i) <=> ino[i].kind \in Kind
      BY DEF now, Links, Up, IsFile, IsDir, InUse
    <2>5. ino[i] \in InodeRec
      BY <2>2 DEF FsRec, now
    <2> HIDE DEF now, named, dirs
    <2>6. /\ IsFile(now, i) => Links(now, i) = Cardinality(named)
          /\ IsDir(now, i) => DirCount(Links(now, i), Cardinality(dirs))
          /\ ~InUse(now, i) => Links(now, i) = 0 /\ Up(now, i) = 0 /\ named = {}
      <3>1. ~InUse(now, i) => NamesOf(now, i) = {}
        BY <2>1, SoundFacts DEF NamesOf
      <3> QED
        BY <2>2, <2>3, <3>1 DEF Counted
    <2>7. CASE ino[i].kind = "file"
      BY <2>4, <2>6, <2>7 DEF named
    <2>8. CASE ino[i].kind = "dir"
      <3>1. DirCount(ino[i].links, Cardinality(dirs))
        BY <2>4, <2>6, <2>8
      <3>2. ino[i].links \in {2 + Cardinality(dirs)} \cup (IF DirIndex THEN {1} ELSE {})
        BY <3>1 DEF DirCount
      <3> QED
        BY <2>8, <3>2 DEF dirs
    <2>9. CASE ino[i].kind # "file" /\ ino[i].kind # "dir"
      <3>1. ino[i].kind \in {"none", "lost"} /\ ino[i].kind \notin Kind
        BY <2>5, <2>9 DEF InodeRec, Kind
      <3>2. ino[i].links = 0 /\ ino[i].up = 0 /\ named = {}
        BY <2>4, <2>6, <3>1
      <3>3. ino[i] \in {Unused, Lost}
        BY <2>5, <3>1, <3>2 DEF InodeRec, Unused, Lost
      <3> QED
        BY <2>9, <3>2, <3>3 DEF named
    <2> QED
      BY <2>7, <2>8, <2>9
  <1> QED
    BY <1>1, InvariantKept, PTL

=============================================================================
