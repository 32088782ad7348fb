--------------------------- MODULE NameTreeProofs ---------------------------
(***************************************************************************)
(* Namespace implements NameTree: what the calls do to the inodes and the  *)
(* entries of a mount point, they do to its paths as NameTree says.  The   *)
(* places of NamespaceProofs are the items of NameTree's tree, with the    *)
(* kinds of their inodes: an entry that goes takes one item away, an entry *)
(* that comes adds one, a creation grows the tree along its path, and an   *)
(* entry that moves takes everything below it along, which PlacesMoved     *)
(* shows by induction over the places.                                     *)
(***************************************************************************)
EXTENDS NamespaceProofs

-----------------------------------------------------------------------------
(* The tree of names that NameTree speaks of.                              *)

\* What NameTree knows of a place.
Item(x, s) == [p |-> s.p, object |-> s.c, kind |-> KindOf(x, s.c)]

\* The tree has an item for each place.
LEMMA TreeItems ==
    ASSUME NEW x, NEW dep, Sound(x, dep)
    PROVE  /\ TreeOf(x) = {Item(x, s) : s \in Located(x)}
           /\ \A s : Item(x, s).p = s.p /\ Item(x, s).object = s.c
  <1>1. \A s \in Located(x) : KindOf(x, s.c) = x.ino[s.c].kind
    BY Places DEF KindOf
  <1>2. \A s \in Located(x) : Item(x, s) = [p |-> s.p, object |-> s.c, kind |-> x.ino[s.c].kind]
    BY <1>1 DEF Item
  <1>3. \A s : Item(x, s).p = s.p /\ Item(x, s).object = s.c
    BY DEF Item
  <1> QED
    BY <1>2, <1>3 DEF TreeOf

\* Trees differ as their places do, where the kinds are the same.
LEMMA TreeMoves ==
    ASSUME NEW x, NEW dep, Sound(x, dep), NEW y, NEW nd, Sound(y, nd),
           \A s \in Located(x) : s \in Located(y) => KindOf(y, s.c) = KindOf(x, s.c)
    PROVE  /\ TreeOf(x) \ TreeOf(y) = {Item(x, s) : s \in Located(x) \ Located(y)}
           /\ TreeOf(y) \ TreeOf(x) = {Item(y, s) : s \in Located(y) \ Located(x)}
           /\ TreeOf(x) = TreeOf(y) <=> Located(x) = Located(y)
           /\ \A s \in Located(x) : s \in Located(y) => Item(y, s) = Item(x, s)
  <1>1. \A s \in Located(x) : s = [p |-> s.p, c |-> s.c]
    BY Places
  <1>2. \A s \in Located(y) : s = [p |-> s.p, c |-> s.c]
    BY Places
  <1>3. ASSUME NEW s \in Located(x), NEW t \in Located(y)
        PROVE  Item(x, s) = Item(y, t) <=> s = t
    <2>1. Item(x, s) = Item(y, t) => s.p = t.p /\ s.c = t.c
      BY DEF Item
    <2>2. s = t => KindOf(y, s.c) = KindOf(x, s.c)
      OBVIOUS
    <2>3. s = t => Item(x, s) = Item(y, t)
      BY <2>2 DEF Item
    <2>4. s.p = t.p /\ s.c = t.c => s = t
      BY <1>1, <1>2
    <2> QED
      BY <2>1, <2>3, <2>4
  <1>4. /\ TreeOf(x) = {Item(x, s) : s \in Located(x)}
        /\ TreeOf(y) = {Item(y, s) : s \in Located(y)}
    BY TreeItems
  <1>5. \A s \in Located(x) : s \in Located(y) => Item(y, s) = Item(x, s)
    BY <1>3
  <1>6. TreeOf(x) \ TreeOf(y) = {Item(x, s) : s \in Located(x) \ Located(y)}
    BY <1>3, <1>4
  <1>7. TreeOf(y) \ TreeOf(x) = {Item(y, s) : s \in Located(y) \ Located(x)}
    BY <1>3, <1>4
  <1>8. TreeOf(x) = TreeOf(y) => Located(x) = Located(y)
    <2> SUFFICES ASSUME TreeOf(x) = TreeOf(y)
                 PROVE  Located(x) = Located(y)
      OBVIOUS
    <2>1. \A s \in Located(x) : s \in Located(y)
      <3> SUFFICES ASSUME NEW s \in Located(x)
                   PROVE  s \in Located(y)
        OBVIOUS
      <3>1. PICK t \in Located(y) : Item(x, s) = Item(y, t)
        BY <1>4
      <3> QED
        BY <1>3, <3>1
    <2>2. \A s \in Located(y) : s \in Located(x)
      <3> SUFFICES ASSUME NEW s \in Located(y)
                   PROVE  s \in Located(x)
        OBVIOUS
      <3>1. PICK t \in Located(x) : Item(x, t) = Item(y, s)
        BY <1>4
      <3> QED
        BY <1>3, <3>1
    <2> QED
      BY <2>1, <2>2
  <1>9. Located(x) = Located(y) => TreeOf(x) = TreeOf(y)
    BY <1>4, <1>5
  <1> QED
    BY <1>5, <1>6, <1>7, <1>8, <1>9

\* A path that begins with p, with q in its place.
Grafted(m, p, q) == [p |-> q \o SubSeq(m.p, Len(p) + 1, Len(m.p)), c |-> m.c]

\* What is below p goes below q, step by step.
LEMMA GraftFacts ==
    ASSUME NEW p \in Seq(Name), NEW q \in Seq(Name), NEW m, m.p \in Seq(Name)
    PROVE  /\ m.p = p => Grafted(m, p, q).p = q
           /\ IsPrefix(p, m.p) => /\ Grafted(m, p, q).p \in Seq(Name) /\ IsPrefix(q, Grafted(m, p, q).p)
                                  /\ \A e : e.n \in Name => Grafted(Beyond(m, e), p, q) = Beyond(Grafted(m, p, q), e)
           /\ Grafted(m, p, q).c = m.c
  <1>1. Grafted(m, p, q).p = q \o SubSeq(m.p, Len(p) + 1, Len(m.p)) /\ Grafted(m, p, q).c = m.c
    BY DEF Grafted
  <1>2. ASSUME m.p = p
        PROVE  Grafted(m, p, q).p = q
    <2>1. SubSeq(p, Len(p) + 1, Len(p)) = <<>>
      BY SMTT(30)
    <2>2. q \o <<>> = q
      BY SMTT(30)
    <2> QED
      BY <1>1, <1>2, <2>1, <2>2
  <1>3. ASSUME IsPrefix(p, m.p)
        PROVE  Grafted(m, p, q).p \in Seq(Name) /\ IsPrefix(q, Grafted(m, p, q).p)
    <2> DEFINE w == SubSeq(m.p, Len(p) + 1, Len(m.p))
    <2>1. w \in Seq(Name)
      OBVIOUS
    <2> HIDE DEF w
    <2>2. q \o w \in Seq(Name) /\ Len(q) <= Len(q \o w) /\ SubSeq(q \o w, 1, Len(q)) = q
      <3>1. q \o w \in Seq(Name) /\ Len(q \o w) = Len(q) + Len(w) /\ Len(q) \in Nat /\ Len(w) \in Nat
        BY <2>1
      <3>2. \A i \in 1 .. Len(q) : (q \o w)[i] = q[i]
        BY <2>1, <3>1
      <3>3. Len(q) <= Len(q \o w)
        BY <3>1
      <3>4. SubSeq(q \o w, 1, Len(q)) \in Seq(Name) /\ Len(SubSeq(q \o w, 1, Len(q))) = Len(q)
            /\ \A i \in 1 .. Len(q) : SubSeq(q \o w, 1, Len(q))[i] = (q \o w)[i]
        BY <3>1, <3>3, SMTT(30)
      <3>5. SubSeq(q \o w, 1, Len(q)) = q
        BY <3>2, <3>4, SeqEqual
      <3> QED
        BY <3>1, <3>3, <3>5
    <2> QED
      BY <1>1, <2>2 DEF IsPrefix, w
  <1>4. ASSUME IsPrefix(p, m.p), NEW e, e.n \in Name
        PROVE  Grafted(Beyond(m, e), p, q) = Beyond(Grafted(m, p, q), e)
    <2> DEFINE k == Len(p)
               u == m.p
               n == e.n
               w == SubSeq(u, k + 1, Len(u))
    <2>1. k \in Nat /\ Len(u) \in Nat /\ k <= Len(u) /\ u \in Seq(Name) /\ n \in Name
      BY <1>4 DEF IsPrefix
    <2>2. Beyond(m, e).p = Append(u, n) /\ Beyond(m, e).c = e.c
      BY DEF Beyond
    <2> HIDE DEF k, u, n
    <2>3. SubSeq(Append(u, n), k + 1, Len(u) + 1) = Append(w, n)
      <3> DEFINE v == Append(u, n)
                 l == Len(u)
                 a == SubSeq(v, k + 1, l + 1)
      <3>1. /\ v \in Seq(Name) /\ Len(v) = l + 1 /\ l \in Nat
            /\ \A i \in 1 .. l : v[i] = u[i]
            /\ v[l + 1] = n
        BY <2>1, AppendProperties
      <3>2. w \in Seq(Name) /\ Len(w) = l - k /\ \A i \in 1 .. l - k : w[i] = u[k + i]
        <4>1. \A i \in k + 1 .. l : u[i] \in Name
          BY <2>1, <3>1
        <4>2. k + 1 \in Int /\ l \in Int
          BY <2>1, <3>1
        <4>3. /\ w \in Seq(Name) /\ Len(w) = IF k + 1 <= l THEN l - (k + 1) + 1 ELSE 0
              /\ \A i \in 1 .. l - (k + 1) + 1 : w[i] = u[(k + 1) + i - 1]
          BY <4>1, <4>2, SubSeqProperties
        <4> HIDE DEF w, l
        <4>4. Len(w) = l - k
          BY <2>1, <3>1, <4>3 DEF l
        <4>5. ASSUME NEW i \in 1 .. l - k
              PROVE  w[i] = u[k + i]
          <5>1. i \in 1 .. l - (k + 1) + 1 /\ (k + 1) + i - 1 = k + i
            BY <2>1, <3>1
          <5> QED
            BY <4>3, <5>1
        <4> QED
          BY <4>3, <4>4, <4>5
      <3>3. a \in Seq(Name) /\ Len(a) = l + 1 - k /\ \A i \in 1 .. l + 1 - k : a[i] = v[k + i]
        <4> DEFINE y == k + 1
                   z == l + 1
                   c == SubSeq(v, y, z)
        <4>1. \A i \in y .. z : v[i] \in Name
          BY <2>1, <3>1
        <4>2. y \in Int /\ z \in Int /\ y = k + 1 /\ z = l + 1 /\ k \in Nat /\ l \in Nat /\ k <= l
          BY <2>1, <3>1
        <4> HIDE DEF v, l, y, z
        <4>3. /\ c \in Seq(Name) /\ Len(c) = IF y <= z THEN z - y + 1 ELSE 0
              /\ \A i \in 1 .. z - y + 1 : c[i] = v[y + i - 1]
          BY <4>1, <4>2, SubSeqProperties
        <4> HIDE DEF c
        <4>4. Len(c) = l + 1 - k
          BY <4>2, <4>3
        <4>5. ASSUME NEW i \in 1 .. l + 1 - k
              PROVE  c[i] = v[k + i]
          <5>1. i \in 1 .. z - y + 1 /\ y + i - 1 = k + i
            BY <4>2
          <5> QED
            BY <4>3, <5>1
        <4> QED
          BY <4>3, <4>4, <4>5 DEF c, y, z
      <3> DEFINE b == Append(w, n)
      <3> HIDE DEF w, l, a, v
      <3>4. /\ b \in Seq(Name) /\ Len(b) = Len(w) + 1
            /\ \A i \in 1 .. Len(w) : b[i] = w[i]
            /\ b[Len(w) + 1] = n
        BY <2>1, <3>2, AppendProperties
      <3> HIDE DEF a, b, v, w, l
      <3>5. k <= l
        BY <2>1 DEF l
      <3>6. Len(a) = Len(b)
        BY <2>1, <3>1, <3>2, <3>3, <3>4, <3>5
      <3>7. ASSUME NEW i \in 1 .. Len(a)
            PROVE  a[i] = b[i]
        <4>1. i \in 1 .. l + 1 - k /\ a[i] = v[k + i]
          BY <3>3
        <4>2. CASE i = l + 1 - k
          <5>1. i = Len(w) + 1 /\ k + i = l + 1
            BY <2>1, <3>1, <3>2, <4>2
          <5> QED
            BY <3>1, <3>4, <4>1, <5>1
        <4>3. CASE i # l + 1 - k
          <5>1. i \in 1 .. l - k /\ k + i \in 1 .. l
            BY <2>1, <3>1, <4>1, <4>3
          <5> QED
            BY <3>1, <3>2, <3>4, <4>1, <5>1
        <4> QED
          BY <4>2, <4>3
      <3>8. a = b
        BY <3>3, <3>4, <3>6, <3>7, SeqEqual
      <3> QED
        BY <3>8 DEF a, b, v, l
    <2>4. w \in Seq(Name)
      BY <2>1
    <2> HIDE DEF w
    <2>5. q \o Append(w, n) = Append(q \o w, n)
      BY <2>1, <2>4, SMTT(60)
    <2>6. Len(Append(u, n)) = Len(u) + 1
      BY <2>1
    <2>7. Grafted(Beyond(m, e), p, q) = [p |-> q \o Append(w, n), c |-> e.c]
      BY <2>2, <2>3, <2>6 DEF Grafted, k
    <2>8. Grafted(m, p, q).p = q \o w
      BY <1>1 DEF w, k, u
    <2> QED
      BY <2>5, <2>7, <2>8 DEF Beyond, n
  <1> QED
    BY <1>1, <1>2, <1>3, <1>4

\* A rename: the places below s are below u afterwards, which was nowhere before, and
\* all other places are where they were.
LEMMA PlacesMoved ==
    ASSUME NEW x, NEW dep, Sound(x, dep), NEW y, NEW nd, Sound(y, nd),
           NEW r \in Located(x), NEW old \in x.ents, r.c = old.d,
           NEW t \in Located(x), IsDir(x, t.c),
           NEW g, g.d = t.c, g.c = old.c, g.n \in Name, \A e \in x.ents : ~(e.d = g.d /\ e.n = g.n),
           y.ents = (x.ents \ {old}) \cup {g},
           NEW s, s = Beyond(r, old), NEW u, u = Beyond(t, g), NEW p, p = s.p, NEW q, q = u.p,
           ~IsPrefix(p, t.p),
           NEW moved, moved = {m \in Located(x) : IsPrefix(p, m.p)}
    PROVE  /\ Located(y) = (Located(x) \ moved) \cup {Grafted(m, p, q) : m \in moved}
           /\ \A m \in moved : Grafted(m, p, q) \notin Located(x)
           /\ s \in moved /\ t \notin moved /\ Grafted(s, p, q) = u
  <1> DEFINE G(m) == Grafted(m, p, q)
             top == [p |-> <<>>, c |-> Root]
  <1>1. \A m : m \in moved <=> m \in Located(x) /\ IsPrefix(p, m.p)
    OBVIOUS
  <1>2. /\ s \in Located(x) /\ s.p # <<>> /\ s.c = old.c /\ s.p \in Seq(Name)
        /\ Len(s.p) = Len(r.p) + 1 /\ Len(r.p) \in Nat
        /\ \A w \in Located(x), f \in x.ents : w.c = f.d /\ Beyond(w, f).p = s.p => w = r /\ f = old
    BY GoesOn, Places
  <1>3. /\ q = Append(t.p, g.n) /\ u.c = g.c /\ q \in Seq(Name) /\ t.p \in Seq(Name)
        /\ q # <<>> /\ Len(q) = Len(t.p) + 1 /\ Front(q) = t.p /\ Last(q) = g.n
        /\ Len(t.p) \in Nat
    <2>1. t.p \in Seq(Name) /\ Len(t.p) \in Nat
      BY Places
    <2>2. q = Append(t.p, g.n) /\ u.c = g.c
      BY DEF Beyond
    <2>3. /\ q \in Seq(Name) /\ q # <<>> /\ Len(q) = Len(t.p) + 1 /\ Front(q) = t.p /\ Last(q) = g.n
      BY <2>1, <2>2, AppendFacts
    <2> QED
      BY <2>1, <2>2, <2>3
  <1>4. p \in Seq(Name) /\ q \in Seq(Name)
    BY <1>2, <1>3
  <1>5. \A m \in Located(x) : /\ m.p \in Seq(Name) /\ m = [p |-> m.p, c |-> m.c]
                              /\ G(m).c = m.c
                              /\ m \in moved => /\ IsPrefix(q, G(m).p) /\ G(m).p \in Seq(Name)
                                                /\ \A f \in x.ents : G(Beyond(m, f)) = Beyond(G(m), f)
    <2> SUFFICES ASSUME NEW m \in Located(x)
                 PROVE  /\ m.p \in Seq(Name) /\ m = [p |-> m.p, c |-> m.c]
                        /\ G(m).c = m.c
                        /\ m \in moved => /\ IsPrefix(q, G(m).p) /\ G(m).p \in Seq(Name)
                                          /\ \A f \in x.ents : G(Beyond(m, f)) = Beyond(G(m), f)
      OBVIOUS
    <2>1. m.p \in Seq(Name) /\ m = [p |-> m.p, c |-> m.c]
      BY Places
    <2>2. \A f \in x.ents : f.n \in Name
      BY SoundFacts
    <2>3. m.p \in Seq(Name)
      BY <2>1
    <2>4. /\ Grafted(m, p, q).c = m.c
          /\ IsPrefix(p, m.p) => /\ Grafted(m, p, q).p \in Seq(Name) /\ IsPrefix(q, Grafted(m, p, q).p)
                                 /\ \A e : e.n \in Name => Grafted(Beyond(m, e), p, q) = Beyond(Grafted(m, p, q), e)
      BY <1>4, <2>3, GraftFacts
    <2>5. /\ G(m).c = m.c
          /\ m \in moved => /\ IsPrefix(q, G(m).p) /\ G(m).p \in Seq(Name)
                            /\ \A e : e.n \in Name => G(Beyond(m, e)) = Beyond(G(m), e)
      BY <1>1, <2>4
    <2> HIDE DEF G
    <2> QED
      BY <2>1, <2>2, <2>5
  <1>6. G(s) = u
    <2>1. G(s).p = q
      <3>1. s.p \in Seq(Name)
        BY <1>2
      <3>2. Grafted(s, p, q).p = q
        BY <1>4, <3>1, GraftFacts
      <3> QED
        BY <3>2
    <2>2. G(s).c = u.c
      BY <1>2, <1>3, <1>5
    <2> QED
      BY <2>1, <2>2 DEF Grafted, Beyond
  <1>7. s \in moved /\ t \notin moved /\ r \notin moved /\ top \notin moved
    <2>1. s \in moved /\ t \notin moved
      BY <1>1, <1>2, PrefixFacts
    <2>2. r \notin moved
      <3>1. r.p \in Seq(Name)
        BY Places
      <3>2. IsPrefix(p, r.p) => Len(p) <= Len(r.p)
        BY <1>2, <3>1, PrefixFacts
      <3> QED
        BY <1>1, <1>2, <3>2
    <2>3. top \notin moved
      <3>1. IsPrefix(p, <<>>) => Len(p) <= 0
        BY DEF IsPrefix
      <3>2. Len(p) > 0
        BY <1>2
      <3>3. top.p = <<>>
        OBVIOUS
      <3> QED
        BY <1>1, <3>1, <3>2, <3>3
    <2> QED
      BY <2>1, <2>2, <2>3
  <1>8. ASSUME NEW m \in Located(x), NEW f \in x.ents, m.c = f.d
        PROVE  /\ m \in moved => Beyond(m, f) \in moved
               /\ Beyond(m, f) \in moved => m \in moved \/ (m = r /\ f = old)
    <2>1. /\ Beyond(m, f) \in Located(x) /\ Beyond(m, f).p = Append(m.p, f.n) /\ m.p \in Seq(Name)
          /\ f.n \in Name /\ Beyond(m, f).p # <<>> /\ Front(Beyond(m, f).p) = m.p
          /\ Beyond(m, f).p \in Seq(Name)
      <3>1. /\ Beyond(m, f) \in Located(x) /\ Beyond(m, f).p = Append(m.p, f.n)
            /\ Beyond(m, f).p # <<>> /\ Front(Beyond(m, f).p) = m.p
        BY <1>8, GoesOn
      <3>2. m.p \in Seq(Name) /\ Beyond(m, f).p \in Seq(Name)
        BY <3>1, Places
      <3>3. f.n \in Name
        BY SoundFacts
      <3> QED
        BY <3>1, <3>2, <3>3
    <2> DEFINE w == Beyond(m, f)
    <2> HIDE DEF w
    <2>2. m \in moved => w \in moved
      <3>1. IsPrefix(p, m.p) => IsPrefix(p, w.p)
        BY <1>2, <2>1, PrefixFacts DEF w
      <3>2. w \in Located(x)
        BY <2>1 DEF w
      <3> QED
        BY <1>1, <3>1, <3>2
    <2>3. ASSUME w \in moved
          PROVE  m \in moved \/ (m = r /\ f = old)
      <3>1. CASE p = Beyond(m, f).p
        BY <1>2, <1>8, <3>1
      <3>2. CASE p # Beyond(m, f).p
        <4>1. w.p \in Seq(Name) /\ Front(w.p) = m.p /\ p # w.p /\ IsPrefix(p, w.p) /\ p \in Seq(Name)
          BY <1>1, <1>2, <2>1, <2>3, <3>2 DEF w
        <4>2. IsPrefix(p, m.p)
          BY <4>1, PrefixFacts
        <4> QED
          BY <1>1, <4>2
      <3> QED
        BY <3>1, <3>2
    <2> QED
      BY <2>2, <2>3 DEF w
  <1>9. \A m \in moved : G(m) \notin Located(x)
    <2> SUFFICES ASSUME NEW m \in moved, G(m) \in Located(x)
                 PROVE  FALSE
      OBVIOUS
    <2>1. IsPrefix(q, G(m).p)
      BY <1>1, <1>5
    <2> HIDE DEF G
    <2>2. PICK v \in Located(x) : v.p = q
      BY <1>3, <2>1, PrefixLocated
    <2>3. v.p # <<>>
      BY <1>3, <2>2
    <2>4. PICK w \in Located(x), e \in x.ents : w.c = e.d /\ w.p = Front(v.p) /\ e.n = Last(v.p)
      BY <2>3, Places
    <2>5. w = t
      BY <1>3, <2>2, <2>4, Places
    <2> QED
      BY <1>3, <2>2, <2>4, <2>5
  <1>10. /\ g \in y.ents
         /\ \A f \in y.ents : f = g \/ (f \in x.ents /\ f # old)
         /\ \A f \in x.ents : f = old \/ f \in y.ents
    OBVIOUS
  <1>11. top \in Located(x) /\ top \in Located(y)
    BY Places
  <1> DEFINE S == (Located(x) \ moved) \cup {G(m) : m \in moved}
  <1> HIDE DEF G, top
  <1>12. \A v \in Located(y) : v \in S
    <2>1. top \in S
      BY <1>7, <1>11
    <2>2. ASSUME NEW v \in Located(y), NEW f \in y.ents, v \in S, v.c = f.d
          PROVE  Beyond(v, f) \in S
      <3>1. CASE v \in Located(x) \ moved
        <4>1. CASE f = g
          <5>1. v = t
            BY <2>2, <3>1, <4>1, Places
          <5> QED
            BY <1>6, <1>7, <4>1, <5>1
        <4>2. CASE f # g
          <5>1. f \in x.ents /\ f # old
            BY <1>10, <4>2
          <5>2. Beyond(v, f) \in Located(x)
            BY <2>2, <3>1, <5>1, GoesOn
          <5>3. Beyond(v, f) \notin moved
            BY <1>8, <2>2, <3>1, <5>1
          <5> QED
            BY <5>2, <5>3
        <4> QED
          BY <4>1, <4>2
      <3>2. CASE \E m \in moved : v = G(m)
        <4>1. PICK m \in moved : v = G(m)
          BY <3>2
        <4>2. m \in Located(x) /\ v.c = m.c
          BY <1>1, <1>5, <4>1
        <4>3. f # g
          <5> SUFFICES ASSUME f = g
                       PROVE  FALSE
            OBVIOUS
          <5>1. m.c = t.c
            BY <2>2, <4>2
          <5>2. m = t
            BY <4>2, <5>1, Places
          <5> QED
            BY <1>7, <5>2
        <4>4. f \in x.ents /\ m.c = f.d
          BY <1>10, <2>2, <4>2, <4>3
        <4>5. Beyond(m, f) \in moved /\ G(Beyond(m, f)) = Beyond(v, f)
          BY <1>5, <1>8, <4>1, <4>2, <4>4
        <4> QED
          BY <4>5
      <3> QED
        BY <2>2, <3>1, <3>2
    <2> HIDE DEF S
    <2> QED
      BY <2>1, <2>2, PlacesWithin DEF top
  <1>13. \A v \in Located(x) : v \notin moved => v \in Located(y)
    <2> DEFINE N == {v \in Located(x) : v \notin moved => v \in Located(y)}
    <2>1. top \in N
      BY <1>11
    <2>2. ASSUME NEW v \in Located(x), NEW f \in x.ents, v \in N, v.c = f.d
          PROVE  Beyond(v, f) \in N
      <3>1. Beyond(v, f) \in Located(x)
        BY <2>2, GoesOn
      <3>2. ASSUME Beyond(v, f) \notin moved
            PROVE  Beyond(v, f) \in Located(y)
        <4>1. v \notin moved
          BY <1>8, <2>2, <3>2
        <4>2. f # old
          <5> SUFFICES ASSUME f = old
                       PROVE  FALSE
            OBVIOUS
          <5>1. v = r
            BY <2>2, GoesOn, Places
          <5> QED
            BY <1>7, <3>2, <5>1
        <4>3. v \in Located(y) /\ f \in y.ents
          BY <1>10, <2>2, <4>1, <4>2
        <4> QED
          BY <2>2, <4>3, GoesOn
      <3> QED
        BY <3>1, <3>2
    <2> HIDE DEF N
    <2>3. \A v \in Located(x) : v \in N
      BY <2>1, <2>2, PlacesWithin DEF top
    <2> QED
      BY <2>3 DEF N
  <1>14. \A m \in Located(x) : m \in moved => G(m) \in Located(y)
    <2> DEFINE N == {v \in Located(x) : v \in moved => G(v) \in Located(y)}
    <2>1. top \in N
      BY <1>7, <1>11
    <2>2. ASSUME NEW v \in Located(x), NEW f \in x.ents, v \in N, v.c = f.d
          PROVE  Beyond(v, f) \in N
      <3>1. Beyond(v, f) \in Located(x)
        BY <2>2, GoesOn
      <3>2. ASSUME Beyond(v, f) \in moved
            PROVE  G(Beyond(v, f)) \in Located(y)
        <4>1. CASE v \in moved
          <5>1. f # old
            <6> SUFFICES ASSUME f = old
                         PROVE  FALSE
              OBVIOUS
            <6>1. v = r
              BY <2>2, GoesOn, Places
            <6> QED
              BY <1>7, <4>1, <6>1
          <5>2. G(v) \in Located(y) /\ f \in y.ents /\ G(v).c = f.d /\ G(Beyond(v, f)) = Beyond(G(v), f)
            BY <1>5, <1>10, <2>2, <4>1, <5>1
          <5>3. Beyond(G(v), f) \in Located(y)
            BY <5>2, GoesOn
          <5> QED
            BY <5>2, <5>3
        <4>2. CASE v = r /\ f = old
          <5>1. t \in Located(y)
            BY <1>7, <1>13
          <5>2. Beyond(t, g) \in Located(y)
            BY <1>10, <5>1, GoesOn
          <5> QED
            BY <1>6, <4>2, <5>2
        <4> QED
          BY <1>8, <2>2, <3>2, <4>1, <4>2
      <3> QED
        BY <3>1, <3>2
    <2> HIDE DEF N
    <2>3. \A v \in Located(x) : v \in N
      BY <2>1, <2>2, PlacesWithin DEF top
    <2> QED
      BY <2>3 DEF N
  <1>15. \A m \in moved : m \in Located(x)
    BY <1>1
  <1>16. Located(y) = S
    BY <1>12, <1>13, <1>14, <1>15
  <1>17. \A m \in moved : G(m) \notin Located(x)
    BY <1>9
  <1> QED
    BY <1>6, <1>7, <1>16, <1>17 DEF G

-----------------------------------------------------------------------------
(* What the calls do to the tree of names.                                 *)

\* NameTree's operators, spelled out.
LEMMA NamesOperators ==
    /\ \A p, q : Names!IsPrefix(p, q) = IsPrefix(p, q)
    /\ \A p : Names!Front(p) = Front(p)
    /\ \A p, some : Names!Below(p, some) = {t \in some : IsPrefix(p, t.p)}
    /\ \A p, some : Names!DirOf(p, some) <=> \E t \in some : t.p = Front(p) /\ t.kind = "dir"
  <1>1. \A p, q : Names!IsPrefix(p, q) = IsPrefix(p, q)
    BY DEF Names!IsPrefix, IsPrefix
  <1>2. \A p : Names!Front(p) = Front(p)
    BY DEF Names!Front, Front
  <1>3. \A p, some : Names!Below(p, some) = {t \in some : IsPrefix(p, t.p)}
    BY <1>1 DEF Names!Below
  <1>4. \A p, some : Names!DirOf(p, some) <=> \E t \in some : t.p = Front(p) /\ t.kind = "dir"
    BY <1>2 DEF Names!DirOf
  <1> QED
    BY <1>1, <1>2, <1>3, <1>4

\* Below an entry of something with nothing in it there is only that.
LEMMA NothingBelow ==
    ASSUME NEW x, NEW dep, Sound(x, dep), NEW e \in x.ents, Content(x, e.c) = {},
           NEW r \in Located(x), r.c = e.d, NEW u, u = Beyond(r, e)
    PROVE  \A m \in Located(x) : IsPrefix(u.p, m.p) => m = u
  <1>1. /\ u \in Located(x) /\ u.p \in Seq(Name) /\ Len(u.p) = Len(r.p) + 1 /\ Len(r.p) \in Nat /\ u.c = e.c
        /\ \A q \in Located(x), f \in x.ents : q.c = f.d /\ Beyond(q, f).p = u.p => q = r /\ f = e
    <2>1. u \in Located(x)
      BY GoesOn
    <2>2. u.p \in Seq(Name) /\ Len(r.p) \in Nat
      BY <2>1, Places
    <2>3. /\ Len(u.p) = Len(r.p) + 1 /\ u.c = e.c
          /\ \A q \in Located(x), f \in x.ents : q.c = f.d /\ Beyond(q, f).p = u.p => q = r /\ f = e
      BY GoesOn
    <2> QED
      BY <2>1, <2>2, <2>3
  <1> DEFINE top == [p |-> <<>>, c |-> Root]
             S == {m \in Located(x) : IsPrefix(u.p, m.p) => m = u}
  <1>2. top \in S
    <2>1. top \in Located(x) /\ top.p = <<>>
      BY Places
    <2>2. ~IsPrefix(u.p, <<>>)
      <3>1. IsPrefix(u.p, <<>>) => Len(u.p) <= 0
        BY DEF IsPrefix
      <3> QED
        BY <1>1, <3>1
    <2> HIDE DEF top
    <2> QED
      BY <2>1, <2>2
  <1>3. ASSUME NEW m \in Located(x), NEW f \in x.ents, m \in S, m.c = f.d
        PROVE  Beyond(m, f) \in S
    <2> DEFINE v == Beyond(m, f)
    <2>1. /\ v \in Located(x) /\ v.p # <<>> /\ Front(v.p) = m.p
      BY <1>3, GoesOn
    <2>2. v.p \in Seq(Name)
      BY <2>1, Places
    <2>3. v.p = u.p => v = u
      BY <1>1, <2>1, Places
    <2>4. m # u
      <3> SUFFICES ASSUME m = u
                   PROVE  FALSE
        OBVIOUS
      <3>1. f \in Content(x, e.c)
        BY <1>1, <1>3 DEF Content
      <3> QED
        BY <3>1
    <2> HIDE DEF v
    <2>5. ASSUME IsPrefix(u.p, v.p), v.p # u.p
          PROVE  FALSE
      <3>1. IsPrefix(u.p, Front(v.p))
        BY <1>1, <2>2, <2>5, PrefixFacts
      <3>2. IsPrefix(u.p, m.p)
        BY <2>1, <3>1
      <3> QED
        BY <1>3, <2>4, <3>2
    <2>6. IsPrefix(u.p, v.p) => v = u
      BY <2>3, <2>5
    <2> QED
      BY <2>1, <2>6 DEF v
  <1> HIDE DEF S
  <1>4. \A m \in Located(x) : m \in S
    BY <1>2, <1>3, PlacesWithin DEF top
  <1> QED
    BY <1>4 DEF S

\* Every place but the mount point has a directory.
LEMMA HasDirectory ==
    ASSUME NEW x, NEW dep, Sound(x, dep), NEW s \in Located(x), s.p # <<>>
    PROVE  \E r \in Located(x) : r.p = Front(s.p) /\ Item(x, r).p = Front(s.p) /\ Item(x, r).kind = "dir"
  <1>1. PICK r \in Located(x) : r.p = Front(s.p) /\ IsDir(x, r.c)
    BY Places
  <1>2. Item(x, r).p = Front(s.p) /\ Item(x, r).kind = "dir"
    BY <1>1 DEF Item, KindOf, InUse, IsDir, Kind
  <1> QED
    BY <1>1, <1>2

\* An entry of something with nothing in it is gone: so is one item of the tree.
LEMMA TreeLess ==
    ASSUME NEW x, NEW dep, Sound(x, dep), NEW e \in x.ents, Content(x, e.c) = {},
           NEW y, NEW nd, Sound(y, nd), y.ents = x.ents \ {e},
           \A i \in Inode \ {e.c} : KindOf(y, i) = KindOf(x, i),
           IsDir(x, e.c) \/ KindOf(y, e.c) \in {KindOf(x, e.c), "none"}
    PROVE  \E r, u \in Located(x) :
             /\ u = Beyond(r, e) /\ r.c = e.d /\ u.c = e.c
             /\ Names!Below(u.p, TreeOf(x)) = {Item(x, u)}
             /\ TreeOf(x) \ TreeOf(y) = {Item(x, u)} /\ TreeOf(y) \ TreeOf(x) = {}
             /\ TreeOf(y) = TreeOf(x) \ {Item(x, u)}
  <1>1. PICK r \in Located(x) : /\ r.c = e.d /\ r \in Located(y)
                                /\ Located(y) = Located(x) \ {Beyond(r, e)}
    BY PlaceLess
  <1>2. PICK u : u = Beyond(r, e)
    OBVIOUS
  <1>3. u \in Located(x) /\ u.c = e.c
    BY <1>1, <1>2, GoesOn
  <1>4. \A s \in Located(x) : s \in Located(y) => KindOf(y, s.c) = KindOf(x, s.c)
    <2> SUFFICES ASSUME NEW s \in Located(x), s \in Located(y)
                 PROVE  KindOf(y, s.c) = KindOf(x, s.c)
      OBVIOUS
    <2>1. s.c \in Inode
      BY Places
    <2>2. CASE s.c # e.c
      BY <2>1, <2>2
    <2>3. CASE s.c = e.c
      <3>1. ~IsDir(x, e.c)
        <4> SUFFICES ASSUME IsDir(x, e.c)
                     PROVE  FALSE
          OBVIOUS
        <4>1. s = u
          BY <1>3, <2>3, Places
        <4> QED
          BY <1>1, <1>2, <4>1
      <3>2. InUse(y, s.c)
        BY Places
      <3>3. KindOf(y, e.c) # "none"
        BY <2>3, <3>2 DEF InUse, KindOf, Kind
      <3> QED
        BY <2>3, <3>1, <3>3
    <2> QED
      BY <2>2, <2>3
  <1>5. \A m \in Located(x) : IsPrefix(u.p, m.p) => m = u
    BY <1>1, <1>2, NothingBelow
  <1>6. IsPrefix(u.p, u.p)
    BY <1>3, Places, PrefixFacts
  <1>7. /\ TreeOf(x) = {Item(x, s) : s \in Located(x)}
        /\ \A s : Item(x, s).p = s.p
    BY TreeItems
  <1>8. Names!Below(u.p, TreeOf(x)) = {Item(x, u)}
    <2>1. \A t \in TreeOf(x) : IsPrefix(u.p, t.p) <=> t = Item(x, u)
      BY <1>3, <1>5, <1>6, <1>7
    <2>2. Item(x, u) \in TreeOf(x)
      BY <1>3, <1>7
    <2>3. Names!Below(u.p, TreeOf(x)) = {t \in TreeOf(x) : IsPrefix(u.p, t.p)}
      BY NamesOperators
    <2> QED
      BY <2>1, <2>2, <2>3
  <1>9. /\ TreeOf(x) \ TreeOf(y) = {Item(x, s) : s \in Located(x) \ Located(y)}
        /\ TreeOf(y) \ TreeOf(x) = {Item(y, s) : s \in Located(y) \ Located(x)}
    BY <1>4, TreeMoves
  <1>10. Located(x) \ Located(y) = {u} /\ Located(y) \ Located(x) = {}
    BY <1>1, <1>2, <1>3
  <1>11. TreeOf(x) \ TreeOf(y) = {Item(x, u)} /\ TreeOf(y) \ TreeOf(x) = {}
    BY <1>9, <1>10
  <1>12. TreeOf(y) = TreeOf(x) \ {Item(x, u)}
    BY <1>11
  <1> QED
    BY <1>1, <1>2, <1>3, <1>8, <1>11, <1>12

\* A file has one more entry: so has the tree one more item, of the same object.
LEMMA TreeMore ==
    ASSUME NEW x, NEW dep, Sound(x, dep), NEW y, NEW nd, Sound(y, nd),
           NEW g, g \notin x.ents, y.ents = x.ents \cup {g}, IsFile(x, g.c), g.n \in Name,
           \A i \in Inode : KindOf(y, i) = KindOf(x, i),
           NEW r \in Located(x), r.c = g.d, IsDir(x, r.c),
           NEW s \in Located(x), s.c = g.c
    PROVE  LET u == Beyond(r, g)
               new == {[Item(x, s) EXCEPT !.p = u.p]}
           IN  /\ TreeOf(x) \ TreeOf(y) = {} /\ TreeOf(y) \ TreeOf(x) = new
               /\ TreeOf(y) = TreeOf(x) \cup new
               /\ Item(x, s) \in TreeOf(x) /\ Item(x, s).kind = "file"
               /\ Names!DirOf(u.p, TreeOf(x))
  <1>1. Content(y, g.c) = {}
    <2>1. ~IsDir(y, g.c)
      <3>1. g.c \in Inode
        BY Places
      <3> QED
        BY <3>1 DEF KindOf, InUse, Kind, IsDir, IsFile
    <2>2. \A e \in y.ents : IsDir(y, e.d)
      BY SoundFacts
    <2> QED
      BY <2>1, <2>2 DEF Content
  <1>2. PICK u : u = Beyond(r, g)
    OBVIOUS
  <1>3. r \in Located(y) /\ u \notin Located(x) /\ Located(y) = Located(x) \cup {u}
    <2>1. /\ Sound(x, dep) /\ Sound(y, nd) /\ g \notin x.ents /\ y.ents = x.ents \cup {g}
          /\ Content(y, g.c) = {} /\ r \in Located(x) /\ r.c = g.d
      BY <1>1
    <2> QED
      BY ONLY <1>2, <2>1, PlaceMore
  <1>4. u.c = s.c /\ Front(u.p) = r.p
    <2>1. r.p \in Seq(Name)
      BY Places
    <2> QED
      BY <1>2, <2>1, AppendFacts DEF Beyond
  <1>5. \A q \in Located(x) : q \in Located(y) => KindOf(y, q.c) = KindOf(x, q.c)
    BY Places
  <1>6. /\ TreeOf(x) \ TreeOf(y) = {Item(x, q) : q \in Located(x) \ Located(y)}
        /\ TreeOf(y) \ TreeOf(x) = {Item(y, q) : q \in Located(y) \ Located(x)}
    BY <1>5, TreeMoves
  <1>7. Located(x) \ Located(y) = {} /\ Located(y) \ Located(x) = {u}
    BY <1>3
  <1>8. Item(y, u) = [Item(x, s) EXCEPT !.p = u.p]
    <2>1. s.c \in Inode
      BY Places
    <2>2. KindOf(y, u.c) = KindOf(x, s.c)
      BY <1>4, <2>1
    <2> QED
      BY <1>4, <2>2 DEF Item
  <1> DEFINE new == {[Item(x, s) EXCEPT !.p = u.p]}
  <1>9. TreeOf(x) \ TreeOf(y) = {} /\ TreeOf(y) \ TreeOf(x) = new
    <2>1. new = {Item(y, u)}
      BY <1>8
    <2> HIDE DEF new
    <2> QED
      BY <1>6, <1>7, <2>1
  <1>10. Item(x, s) \in TreeOf(x) /\ Item(x, s).kind = "file"
    <2>1. Item(x, s).kind = "file"
      BY DEF Item, KindOf, InUse, Kind, IsFile
    <2> QED
      BY <2>1, TreeItems
  <1>11. Names!DirOf(u.p, TreeOf(x))
    <2>1. Item(x, r) \in TreeOf(x) /\ Item(x, r).p = Front(u.p)
      BY <1>4, TreeItems
    <2>2. Item(x, r).kind = "dir"
      BY DEF Item, KindOf, InUse, Kind, IsDir
    <2> QED
      BY <2>1, <2>2, NamesOperators
  <1>12. TreeOf(y) = TreeOf(x) \cup new
    <2> HIDE DEF new
    <2> QED
      BY <1>9
  <1> QED
    BY <1>2, <1>9, <1>10, <1>11, <1>12

\* Of two beginnings of one path one begins with the other.
LEMMA Beginnings ==
    ASSUME NEW S, NEW p \in Seq(S), NEW a \in Seq(S), NEW b \in Seq(S), IsPrefix(a, p), IsPrefix(b, p),
           Len(a) <= Len(b)
    PROVE  IsPrefix(a, b)
  <1> DEFINE k == Len(a)
             l == Len(b)
  <1>1. /\ k \in Nat /\ l \in Nat /\ Len(p) \in Nat /\ k <= l /\ l <= Len(p)
        /\ a = SubSeq(p, 1, k) /\ b = SubSeq(p, 1, l)
    <2>1. SubSeq(a, 1, Len(a)) = a /\ SubSeq(b, 1, Len(b)) = b
      BY SubSeqFull
    <2>2. /\ Len(a) <= Len(p) /\ SubSeq(a, 1, Len(a)) = SubSeq(p, 1, Len(a))
          /\ Len(b) <= Len(p) /\ SubSeq(b, 1, Len(b)) = SubSeq(p, 1, Len(b))
      BY DEF IsPrefix
    <2> QED
      BY <2>1, <2>2
  <1>2. (\A i \in 1 .. k : a[i] = p[i]) /\ (\A i \in 1 .. l : b[i] = p[i])
    <2>1. \A i \in 1 .. Len(p) : p[i] \in S
      OBVIOUS
    <2> HIDE DEF k, l
    <2>2. \A i \in 1 .. k : p[i] \in S
      BY <1>1, <2>1
    <2>3. \A i \in 1 .. l : p[i] \in S
      BY <1>1, <2>1
    <2>4. \A i \in 1 .. k - 1 + 1 : SubSeq(p, 1, k)[i] = p[1 + i - 1]
      BY <1>1, <2>2, SubSeqProperties
    <2>5. \A i \in 1 .. l - 1 + 1 : SubSeq(p, 1, l)[i] = p[1 + i - 1]
      BY <1>1, <2>3, SubSeqProperties
    <2>6. \A i \in 1 .. k : a[i] = p[i]
      <3> SUFFICES ASSUME NEW i \in 1 .. k
                   PROVE  a[i] = p[i]
        OBVIOUS
      <3>1. i \in 1 .. k - 1 + 1 /\ 1 + i - 1 = i
        BY <1>1
      <3> QED
        BY <1>1, <2>4, <3>1
    <2>7. \A i \in 1 .. l : b[i] = p[i]
      <3> SUFFICES ASSUME NEW i \in 1 .. l
                   PROVE  b[i] = p[i]
        OBVIOUS
      <3>1. i \in 1 .. l - 1 + 1 /\ 1 + i - 1 = i
        BY <1>1
      <3> QED
        BY <1>1, <2>5, <3>1
    <2> QED
      BY <2>6, <2>7
  <1>3. \A i \in 1 .. k : a[i] = b[i]
    BY <1>1, <1>2
  <1>4. SubSeq(b, 1, k) = a
    <2> DEFINE c == SubSeq(b, 1, k)
    <2>1. \A i \in 1 .. k : b[i] \in S
      BY <1>1
    <2> HIDE DEF k
    <2>2. /\ c \in Seq(S) /\ Len(c) = IF 1 <= k THEN k - 1 + 1 ELSE 0
          /\ \A i \in 1 .. k - 1 + 1 : c[i] = b[1 + i - 1]
      BY <1>1, <2>1, SubSeqProperties
    <2> HIDE DEF c
    <2>3. Len(c) = k
      BY <1>1, <2>2
    <2>4. ASSUME NEW i \in 1 .. k
          PROVE  c[i] = a[i]
      <3>1. i \in 1 .. k - 1 + 1 /\ 1 + i - 1 = i
        BY <1>1
      <3> QED
        BY <1>3, <2>2, <3>1
    <2>5. Len(a) = k
      BY DEF k
    <2>6. c = a
      BY <2>2, <2>3, <2>4, <2>5, SeqEqual
    <2> QED
      BY <2>6 DEF c
  <1>5. SubSeq(a, 1, k) = a
    BY SubSeqFull
  <1> QED
    BY <1>1, <1>4, <1>5 DEF IsPrefix

\* Creation has grown the tree along one path, by new objects.
LEMMA TreeGrown ==
    ASSUME NEW x, NEW dep, Sound(x, dep), NEW y, NEW nd, Sound(y, nd),
           NEW p \in Seq(Name), Grown(x, y, p), NEW A, A = TreeOf(x), NEW B, B = TreeOf(y)
    PROVE  /\ A \subseteq B
           /\ \A t, u \in B \ A : IsPrefix(t.p, u.p) \/ IsPrefix(u.p, t.p)
           /\ \A t \in B \ A : Names!DirOf(t.p, B)
           /\ \A t \in B \ A, u \in B : u.object = t.object => u = t
  <1> DEFINE new == B \ A
  <1>1. \A s \in Located(x) : s \in Located(y) => KindOf(y, s.c) = KindOf(x, s.c)
    BY DEF Grown
  <1>2. /\ TreeOf(x) \ TreeOf(y) = {Item(x, q) : q \in Located(x) \ Located(y)}
        /\ new = {Item(y, q) : q \in Located(y) \ Located(x)}
    BY <1>1, TreeMoves
  <1>3. A \subseteq B
    BY <1>2 DEF Grown
  <1>4. \A t \in new : \E q \in Located(y) \ Located(x) :
          t = Item(y, q) /\ t.p = q.p /\ t.object = q.c /\ q.p \in Seq(Name) /\ Len(q.p) \in Nat
    <2> SUFFICES ASSUME NEW t \in new
                 PROVE  \E q \in Located(y) \ Located(x) : /\ t = Item(y, q) /\ t.p = q.p /\ t.object = q.c
                                                         /\ q.p \in Seq(Name) /\ Len(q.p) \in Nat
      OBVIOUS
    <2>1. PICK q \in Located(y) \ Located(x) : t = Item(y, q)
      BY <1>2
    <2>2. t.p = q.p /\ t.object = q.c
      BY <2>1, TreeItems
    <2>3. q.p \in Seq(Name) /\ Len(q.p) \in Nat
      BY Places
    <2> QED
      BY <2>1, <2>2, <2>3
  <1>5. \A t \in TreeOf(y) : \E q \in Located(y) : t = Item(y, q) /\ t.p = q.p /\ t.object = q.c
    <2>1. /\ TreeOf(y) = {Item(y, q) : q \in Located(y)}
          /\ \A q : Item(y, q).p = q.p /\ Item(y, q).object = q.c
      BY TreeItems
    <2> HIDE DEF new
    <2> QED
      BY <2>1
  <1>6. ASSUME NEW t \in new, NEW u \in new
        PROVE  IsPrefix(t.p, u.p) \/ IsPrefix(u.p, t.p)
    <2>1. /\ t.p \in Seq(Name) /\ u.p \in Seq(Name) /\ Len(t.p) \in Nat /\ Len(u.p) \in Nat
          /\ IsPrefix(t.p, p) /\ IsPrefix(u.p, p)
      BY <1>4 DEF Grown
    <2>2. Len(t.p) <= Len(u.p) \/ Len(u.p) <= Len(t.p)
      BY <2>1
    <2> QED
      BY <2>1, <2>2, Beginnings
  <1>7. ASSUME NEW t \in new
        PROVE  Names!DirOf(t.p, TreeOf(y))
    <2>1. PICK q \in Located(y) \ Located(x) : t.p = q.p
      BY <1>4
    <2>2. q.p # <<>>
      <3> SUFFICES ASSUME q.p = <<>>
                   PROVE  FALSE
        OBVIOUS
      <3>1. q.c = Root /\ q = [p |-> q.p, c |-> q.c] /\ [p |-> <<>>, c |-> Root] \in Located(x)
        BY Places
      <3> QED
        BY <3>1
    <2>3. PICK w \in Located(y) : Item(y, w).p = Front(q.p) /\ Item(y, w).kind = "dir"
      BY <2>2, HasDirectory
    <2>4. Item(y, w) \in TreeOf(y)
      BY TreeItems
    <2> QED
      BY <2>1, <2>3, <2>4, NamesOperators
  <1>8. ASSUME NEW t \in new, NEW u \in TreeOf(y), u.object = t.object
        PROVE  u = t
    <2>1. PICK q \in Located(y) \ Located(x) : t = Item(y, q) /\ t.object = q.c
      BY <1>4
    <2>2. PICK v \in Located(y) : u = Item(y, v) /\ u.object = v.c
      BY <1>5
    <2>3. v = q
      BY <1>8, <2>1, <2>2 DEF Grown
    <2> QED
      BY <2>1, <2>2, <2>3
  <1> QED
    BY <1>3, <1>6, <1>7, <1>8

\* What is below a in the tree A is below b in B: NameTree's Rename.
Renamed(A, B, a, b) ==
  /\ a \in A \ B /\ b \in B \ A
  /\ A \ B = Names!Below(a.p, A)
  /\ Names!DirOf(b.p, A \ (A \ B))
  /\ B \ A = {[m EXCEPT !.p = b.p \o SubSeq(m.p, Len(a.p) + 1, Len(m.p))] : m \in A \ B}
  /\ B = (A \ (A \ B)) \cup (B \ A)

\* A rename: the items below the old name are below the new one, and no others.
LEMMA TreeRenamed ==
    ASSUME NEW x, NEW dep, Sound(x, dep), NEW y, NEW nd, Sound(y, nd),
           NEW r \in Located(x), NEW old \in x.ents, r.c = old.d,
           NEW t \in Located(x), IsDir(x, t.c),
           NEW g, g.d = t.c, g.c = old.c, g.n \in Name, \A e \in x.ents : ~(e.d = g.d /\ e.n = g.n),
           y.ents = (x.ents \ {old}) \cup {g},
           \A i \in Inode : KindOf(y, i) = KindOf(x, i),
           NEW s, s = Beyond(r, old), ~IsPrefix(s.p, t.p),
           NEW u, u = Beyond(t, g), NEW a, a = Item(x, s), NEW b, b = Item(y, u),
           NEW A, A = TreeOf(x), NEW B, B = TreeOf(y)
    PROVE  Renamed(A, B, a, b)
  <1>1. PICK p, q : p = s.p /\ q = u.p
    OBVIOUS
  <1> DEFINE moved == {m \in Located(x) : IsPrefix(p, m.p)}
  <1>2. /\ Located(y) = (Located(x) \ moved) \cup {Grafted(m, p, q) : m \in moved}
        /\ \A m \in moved : Grafted(m, p, q) \notin Located(x)
        /\ s \in moved /\ t \notin moved /\ Grafted(s, p, q) = u
    <2>1. PICK M : M = moved
      OBVIOUS
    <2> HIDE DEF moved
    <2>2. M = {m \in Located(x) : IsPrefix(p, m.p)}
      BY <2>1 DEF moved
    <2>3. /\ Sound(x, dep) /\ Sound(y, nd) /\ r \in Located(x) /\ old \in x.ents /\ r.c = old.d
          /\ t \in Located(x) /\ IsDir(x, t.c) /\ g.d = t.c /\ g.c = old.c /\ g.n \in Name
          /\ \A e \in x.ents : ~(e.d = g.d /\ e.n = g.n)
          /\ y.ents = (x.ents \ {old}) \cup {g}
          /\ s = Beyond(r, old) /\ u = Beyond(t, g) /\ p = s.p /\ q = u.p /\ ~IsPrefix(p, t.p)
      BY <1>1
    <2>4. /\ Located(y) = (Located(x) \ M) \cup {Grafted(m, p, q) : m \in M}
          /\ \A m \in M : Grafted(m, p, q) \notin Located(x)
          /\ s \in M /\ t \notin M /\ Grafted(s, p, q) = u
      BY ONLY <2>2, <2>3, PlacesMoved
    <2> QED
      BY <2>1, <2>4
  <1>3. \A m \in Located(x) : m.c \in Inode /\ m \in Located(y) => KindOf(y, m.c) = KindOf(x, m.c)
    OBVIOUS
  <1>4. \A m \in Located(x) : m.c \in Inode
    BY Places
  <1>5. \A m \in Located(x) : m \in Located(y) => KindOf(y, m.c) = KindOf(x, m.c)
    BY <1>3, <1>4
  <1>6. /\ A \ B = {Item(x, m) : m \in Located(x) \ Located(y)}
        /\ B \ A = {Item(y, m) : m \in Located(y) \ Located(x)}
    <2>1. Sound(x, dep) /\ Sound(y, nd)
      OBVIOUS
    <2>2. /\ TreeOf(x) \ TreeOf(y) = {Item(x, m) : m \in Located(x) \ Located(y)}
          /\ TreeOf(y) \ TreeOf(x) = {Item(y, m) : m \in Located(y) \ Located(x)}
      BY ONLY <1>5, <2>1, TreeMoves
    <2> QED
      BY <2>2
  <1> HIDE DEF moved
  <1>7. moved \subseteq Located(x) /\ \A m \in Located(x) : m \in moved <=> IsPrefix(p, m.p)
    BY DEF moved
  <1>8. Located(x) \ Located(y) = moved /\ Located(y) \ Located(x) = {Grafted(m, p, q) : m \in moved}
    BY <1>2, <1>7
  <1>9. /\ A \ B = {Item(x, m) : m \in moved}
        /\ B \ A = {Item(y, Grafted(m, p, q)) : m \in moved}
    BY <1>6, <1>8
  <1>10. /\ A = {Item(x, m) : m \in Located(x)}
         /\ \A z, m : Item(z, m).p = m.p /\ Item(z, m).object = m.c /\ Item(z, m).kind = KindOf(z, m.c)
    <2>1. \A z, m : Item(z, m).p = m.p /\ Item(z, m).object = m.c /\ Item(z, m).kind = KindOf(z, m.c)
      BY DEF Item
    <2>2. Sound(x, dep)
      OBVIOUS
    <2>3. TreeOf(x) = {Item(x, m) : m \in Located(x)}
      BY ONLY <2>2, TreeItems
    <2> QED
      BY <2>1, <2>3
  <1>11. a \in A \ B /\ b \in B \ A /\ a.p = p /\ b.p = q
    BY <1>1, <1>2, <1>9, <1>10
  <1>12. A \ B = Names!Below(p, A)
    <2>1. Names!Below(p, A) = {m \in A : IsPrefix(p, m.p)}
      BY NamesOperators
    <2>2. \A m \in Located(x) : IsPrefix(p, Item(x, m).p) <=> m \in moved
      BY <1>7, <1>10
    <2> QED
      BY <1>7, <1>9, <1>10, <2>1, <2>2
  <1>13. Names!DirOf(q, A \ (A \ B))
    <2>1. Item(x, t) \in A /\ Item(x, t).p = t.p /\ Item(x, t).kind = "dir"
      BY <1>10 DEF KindOf, InUse, Kind, IsDir
    <2>2. ~IsPrefix(p, Item(x, t).p)
      BY <1>1, <2>1
    <2>3. Item(x, t) \notin A \ B
      BY <1>7, <1>9, <1>10, <2>2
    <2>4. Front(q) = t.p
      <3>1. t.p \in Seq(Name)
        BY Places
      <3> QED
        BY <1>1, <3>1, AppendFacts DEF Beyond
    <2>5. Names!DirOf(q, A \ (A \ B)) <=> \E m \in A \ (A \ B) : m.p = Front(q) /\ m.kind = "dir"
      BY NamesOperators
    <2> QED
      BY <2>1, <2>3, <2>4, <2>5
  <1> DEFINE G(m) == [m EXCEPT !.p = q \o SubSeq(m.p, Len(p) + 1, Len(m.p))]
  <1>14. \A m \in moved : Item(y, Grafted(m, p, q)) = G(Item(x, m))
    <2> SUFFICES ASSUME NEW m \in moved
                 PROVE  Item(y, Grafted(m, p, q)) = G(Item(x, m))
      OBVIOUS
    <2>1. m.c \in Inode
      BY <1>7, Places
    <2>2. KindOf(y, m.c) = KindOf(x, m.c)
      BY <2>1
    <2>3. /\ Item(x, m) = [p |-> m.p, object |-> m.c, kind |-> KindOf(x, m.c)]
          /\ Item(x, m).p = m.p
      BY DEF Item
    <2>4. G(Item(x, m)) = [p |-> q \o SubSeq(m.p, Len(p) + 1, Len(m.p)), object |-> m.c, kind |-> KindOf(x, m.c)]
      <3>1. PICK w, k : w = q \o SubSeq(m.p, Len(p) + 1, Len(m.p)) /\ k = KindOf(x, m.c)
        BY Zenon
      <3>2. [[p |-> m.p, object |-> m.c, kind |-> k] EXCEPT !.p = w] = [p |-> w, object |-> m.c, kind |-> k]
        OBVIOUS
      <3> QED
        BY <2>3, <3>1, <3>2, Zenon
    <2> QED
      BY <2>2, <2>4 DEF Item, Grafted
  <1>15. B \ A = {G(m) : m \in A \ B}
    <2> HIDE DEF G
    <2> QED
      BY <1>9, <1>14
  <1>16. B = (A \ (A \ B)) \cup (B \ A)
    OBVIOUS
  <1>17. B \ A = {[m EXCEPT !.p = b.p \o SubSeq(m.p, Len(a.p) + 1, Len(m.p))] : m \in A \ B}
    BY <1>11, <1>15
  <1>18. A \ B = Names!Below(a.p, A) /\ Names!DirOf(b.p, A \ (A \ B))
    BY <1>11, <1>12, <1>13
  <1> QED
    BY <1>11, <1>16, <1>17, <1>18 DEF Renamed

-----------------------------------------------------------------------------
(* Each step of the name space is one of NameTree's, or leaves its tree.   *)

\* A step that leaves the file system as it is.
LEMMA TreeStays ==
    ASSUME now' = now, rm.on /\ rm'.on => rm'.path = rm.path
    PROVE  Names!Next
  <1>1. TreeOf(now)' = TreeOf(now)
    OBVIOUS
  <1> QED
    BY <1>1 DEF Names!Next

\* A call leaves the file system y: none is made during a recursive removal.
LEMMA CallLeaves ==
    ASSUME Locked, NEW y, NEW nd, Sound(y, nd), Becomes(y)
    PROVE  /\ now' = y /\ TreeOf(now)' = TreeOf(y) /\ ~rm.on
           /\ (TreeOf(y) # TreeOf(now) => Names!Changes(TreeOf(now) \ TreeOf(y), TreeOf(y) \ TreeOf(now)))
                => Names!Next
  <1>1. now' = y
    <2>1. y = [ino |-> y.ino, ents |-> y.ents]
      BY SoundFacts DEF FsRec
    <2> QED
      BY <2>1 DEF Becomes, now
  <1>2. TreeOf(now)' = TreeOf(y)
    BY <1>1
  <1>3. ~rm.on
    BY DEF Locked
  <1> HIDE DEF now
  <1> QED
    BY <1>1, <1>2, <1>3 DEF Names!Next

\* An entry of something with nothing in it is taken away: of a file, or of what is
\* below the directory of the removal.
LEMMA EntryTaken ==
    ASSUME NEW dep, Sound(now, dep), NEW e \in now.ents, Content(now, e.c) = {},
           NEW y, now' = y, NEW nd, Sound(y, nd), y.ents = now.ents \ {e},
           \A i \in Inode \ {e.c} : KindOf(y, i) = KindOf(now, i),
           IsDir(now, e.c) \/ KindOf(y, e.c) \in {KindOf(now, e.c), "none"},
           rm.on /\ rm'.on => rm'.path = rm.path,
           ~rm.on => IsFile(now, e.c),
           rm.on => \A r \in Located(now) : r.c = e.d => IsPrefix(rm.path, Beyond(r, e).p)
    PROVE  Names!Next
  <1> HIDE DEF now
  <1>1. PICK x : x = now
    OBVIOUS
  <1>2. PICK r, u \in Located(x) :
           /\ u = Beyond(r, e) /\ r.c = e.d /\ u.c = e.c
           /\ Names!Below(u.p, TreeOf(x)) = {Item(x, u)}
           /\ TreeOf(x) \ TreeOf(y) = {Item(x, u)} /\ TreeOf(y) \ TreeOf(x) = {}
           /\ TreeOf(y) = TreeOf(x) \ {Item(x, u)}
    <2>1. /\ Sound(x, dep) /\ e \in x.ents /\ Content(x, e.c) = {} /\ Sound(y, nd) /\ y.ents = x.ents \ {e}
          /\ \A i \in Inode \ {e.c} : KindOf(y, i) = KindOf(x, i)
          /\ IsDir(x, e.c) \/ KindOf(y, e.c) \in {KindOf(x, e.c), "none"}
      BY <1>1
    <2> QED
      BY ONLY <2>1, TreeLess
  <1>3. PICK w : w = Item(x, u)
    OBVIOUS
  <1>4. PICK A, B : A = TreeOf(x) /\ B = TreeOf(y)
    OBVIOUS
  <1>5. /\ Names!Below(u.p, A) = {w} /\ A \ B = {w} /\ B \ A = {} /\ B = A \ {w} /\ u.c = e.c
    BY <1>2, <1>3, <1>4
  <1>6. TreeOf(now) = A /\ TreeOf(now)' = B
    BY <1>1, <1>4
  <1>7. w.p = u.p /\ w.kind = KindOf(now, e.c)
    BY <1>1, <1>3, <1>5 DEF Item
  <1>8. rm.on => Names!IsPrefix(rm.path, w.p)
    BY <1>1, <1>2, <1>3, <1>7, NamesOperators
  <1>9. ~rm.on => w.kind = "file"
    BY <1>7 DEF IsFile, KindOf, InUse, Kind
  <1>10. Names!TakeAway(w)
    BY <1>5, <1>6, <1>7, <1>8, <1>9 DEF Names!TakeAway
  <1>11. Names!Changes(A \ B, B \ A)
    BY <1>5, <1>10 DEF Names!Changes
  <1>12. B \subseteq A
    BY <1>5
  <1> QED
    BY <1>6, <1>11, <1>12 DEF Names!Next

\* Creating along a path: what is new is a beginning of it.
LEMMA CreateNames ==
    ASSUME Departures = {}, IInv, NEW p \in Paths, NEW kind \in Kind, Create(p, kind)
    PROVE  Names!Next
  <1>1. PICK dep : Sound(now, dep)
    BY DEF IInv
  <1>2. PICK y \in Opened(p, kind) : Becomes(y)
    BY DEF Create
  <1>3. PICK nd : Sound(y, nd) /\ Grown(now, y, p)
    BY <1>1, OpenedKeeps
  <1>4. p \in Seq(Name)
    BY DEF Paths
  <1>5. Locked
    BY DEF Create
  <1> HIDE DEF now
  <1>6. PICK A, B : A = TreeOf(now) /\ B = TreeOf(y)
    OBVIOUS
  <1>7. /\ A \subseteq B
        /\ \A t, u \in B \ A : IsPrefix(t.p, u.p) \/ IsPrefix(u.p, t.p)
        /\ \A t \in B \ A : Names!DirOf(t.p, B)
        /\ \A t \in B \ A, u \in B : u.object = t.object => u = t
    BY <1>1, <1>3, <1>4, <1>6, TreeGrown
  <1>8. /\ \A t, u \in B \ A : Names!IsPrefix(t.p, u.p) \/ Names!IsPrefix(u.p, t.p)
        /\ A \cup (B \ A) = B /\ A \ B = {}
    BY <1>7, NamesOperators
  <1>9. TreeOf(now)' = B /\ TreeOf(now) = A
    BY <1>2, <1>3, <1>5, <1>6, CallLeaves
  <1>10. Names!Create(B \ A)
    BY <1>7, <1>8, <1>9 DEF Names!Create
  <1>11. Names!Changes(A \ B, B \ A)
    BY <1>8, <1>10 DEF Names!Changes
  <1> QED
    BY <1>2, <1>3, <1>5, <1>6, <1>11, CallLeaves

\* Another name for a file: one more path to the same object.
LEMMA FlinkNames ==
    ASSUME IInv, NEW s \in Located(now), NEW t \in Located(now), NEW n \in Name,
           Len(t.p) < MaxDepth, Flink(s.c, t.c, n)
    PROVE  Names!Next
  <1>1. PICK dep : Sound(now, dep)
    BY DEF IInv
  <1>2. /\ Locked /\ ~IsDir(now, s.c) /\ IsDir(now, t.c) /\ Child(now, t.c, n) = 0
        /\ Becomes(Link(now, t.c, s.c, n, FALSE))
    BY Zenon DEF Flink, NewPlace
  <1>3. /\ s.c \in Inode /\ t.c \in Inode /\ IsFile(now, s.c) /\ dep[t.c] < MaxDepth
    BY <1>1, <1>2, PlaceFacts
  <1>4. PICK no \in BOOLEAN : ~no /\ Becomes(Link(now, t.c, s.c, n, no))
    BY <1>2, Zenon
  <1>5. PICK y : y = Link(now, t.c, s.c, n, no) /\ Becomes(y)
    BY <1>4, Zenon
  <1> HIDE DEF now
  <1>6. Sound(y, dep)
    BY <1>1, <1>2, <1>3, <1>4, <1>5, LinkFileKeeps
  <1>7. PICK x, g : x = now /\ g = Entry(t.c, n, s.c)
    OBVIOUS
  <1>8. x \in FsRec /\ y \in FsRec
    BY <1>1, <1>6, <1>7, SoundFacts
  <1>9. /\ y.ents = x.ents \cup {g} /\ g.d = t.c /\ g.n = n /\ g.c = s.c
        /\ \A j \in Inode \ {s.c} : SameAt(x, y, j)
        /\ ~IsDir(y, s.c) /\ (IsFile(y, s.c) <=> IsFile(x, s.c))
    <2>1. ~IsDir(x, s.c)
      BY <1>2, <1>7
    <2>2. y = Link(x, t.c, s.c, n, no)
      BY <1>5, <1>7
    <2>3. /\ y.ents = x.ents \cup {Entry(t.c, n, s.c)}
          /\ \A j \in Inode \ {s.c} : SameAt(x, y, j)
          /\ ~IsDir(y, s.c) /\ (IsFile(y, s.c) <=> IsFile(x, s.c))
      BY <1>3, <1>8, <2>1, <2>2, LinkFileFacts
    <2> QED
      BY <1>7, <2>3 DEF Entry
  <1>10. g \notin x.ents
    BY <1>2, <1>7, <1>8, <1>9, ChildFacts
  <1>11. \A i \in Inode : KindOf(y, i) = KindOf(x, i)
    <2> SUFFICES ASSUME NEW i \in Inode
                 PROVE  KindOf(y, i) = KindOf(x, i)
      OBVIOUS
    <2>1. (IsDir(y, i) <=> IsDir(x, i)) /\ (IsFile(y, i) <=> IsFile(x, i))
      BY <1>2, <1>7, <1>9 DEF SameAt
    <2> QED
      BY <1>8, <2>1, KindsAre
  <1>12. PICK A, B, u, new :
           A = TreeOf(x) /\ B = TreeOf(y) /\ u = Beyond(t, g) /\ new = {[Item(x, s) EXCEPT !.p = u.p]}
    OBVIOUS
  <1>13. /\ A \ B = {} /\ B \ A = new /\ B = A \cup new
         /\ Item(x, s) \in A /\ Item(x, s).kind = "file" /\ Names!DirOf(u.p, A)
    <2>1. /\ Sound(x, dep) /\ Sound(y, dep) /\ g \notin x.ents /\ y.ents = x.ents \cup {g}
          /\ IsFile(x, g.c) /\ g.n \in Name /\ \A i \in Inode : KindOf(y, i) = KindOf(x, i)
          /\ t \in Located(x) /\ t.c = g.d /\ IsDir(x, t.c) /\ s \in Located(x) /\ s.c = g.c
      BY <1>1, <1>2, <1>3, <1>6, <1>7, <1>9, <1>10, <1>11
    <2> QED
      BY ONLY <1>12, <2>1, TreeMore
  <1>14. TreeOf(now)' = B /\ TreeOf(now) = A
    BY <1>2, <1>5, <1>6, <1>7, <1>12, CallLeaves
  <1>15. Names!Link(new)
    <2>1. PICK a \in A, b \in new : a = Item(x, s) /\ b.p = u.p /\ new = {[a EXCEPT !.p = b.p]}
      BY <1>12, <1>13 DEF Item
    <2>2. a.kind = "file" /\ Names!DirOf(b.p, A)
      BY <1>13, <2>1
    <2> QED
      BY <1>13, <1>14, <2>1, <2>2 DEF Names!Link
  <1>16. Names!Changes(A \ B, B \ A)
    BY <1>13, <1>15 DEF Names!Changes
  <1> QED
    BY <1>2, <1>5, <1>6, <1>7, <1>12, <1>16, CallLeaves

\* Removing a name of a file: one path less.
LEMMA FremoveNames ==
    ASSUME IInv, NEW s \in Located(now), s.p # <<>>, Fremove(s)
    PROVE  Names!Next
  <1> DEFINE o == (CHOOSE r \in Located(now) : r.p = Front(s.p)).c
             y == Unlink(now, o, s.c, Last(s.p))
             Z(ok) == IF y.ino[s.c].links = 0 THEN Free(y, s.c, ok) ELSE y
  <1>1. PICK dep : Sound(now, dep)
    BY DEF IInv
  <1>2. PICK ok, z : Locked /\ ~IsDir(now, s.c) /\ z = Z(ok) /\ Becomes(z)
    BY FremoveIs
  <1>3. IsFile(now, s.c)
    BY <1>1, <1>2, PlaceFacts
  <1>4. Entry(o, Last(s.p), s.c) \in now.ents
    BY <1>1, DirectoryOf
  <1> HIDE DEF now, o
  <1>5. PICK e \in now.ents : e.d = o /\ e.n = Last(s.p) /\ e.c = s.c
    BY <1>4 DEF Entry
  <1>6. y = Unlink(now, e.d, e.c, e.n)
    BY <1>5
  <1> HIDE DEF y
  <1>7. z = IF y.ino[e.c].links = 0 THEN Free(y, e.c, ok) ELSE y
    BY <1>2, <1>5
  <1> HIDE DEF Z
  <1>8. /\ Sound(z, dep) /\ z.ents = now.ents \ {e}
        /\ \A j \in Inode \ {e.c} : SameAt(now, z, j)
    <2>1. Sound(now, dep) /\ e \in now.ents /\ IsFile(now, e.c)
      BY <1>1, <1>3, <1>5
    <2> QED
      BY ONLY <1>6, <1>7, <2>1, RemoveFileKeeps
  <1>9. now \in FsRec /\ z \in FsRec /\ e.c \in Inode
    BY <1>1, <1>8, SoundFacts
  <1>10. \A i \in Inode \ {e.c} : KindOf(z, i) = KindOf(now, i)
    BY <1>8, <1>9, KindsAre DEF SameAt
  <1>11. KindOf(z, e.c) \in {KindOf(now, e.c), "none"}
    <2>1. ~IsDir(now, e.c)
      BY <1>2, <1>5
    <2>2. y \in FsRec /\ ~IsDir(y, e.c)
      BY <1>1, <1>6, <1>9, <2>1, UnlinkFileFacts, SoundFacts
    <2>3. ~IsDir(z, e.c)
      <3>1. ~IsDir(Free(y, e.c, ok), e.c)
        BY <1>9, <2>2, FreeFacts
      <3> QED
        BY <1>7, <2>2, <3>1
    <2>4. IsFile(z, e.c) \/ ~InUse(z, e.c)
      BY <1>9, <2>3, FsFacts
    <2> QED
      BY <1>3, <1>5, <2>4 DEF IsFile, InUse, KindOf
  <1>12. Content(now, e.c) = {}
    <2>1. \A f \in now.ents : IsDir(now, f.d)
      BY <1>1, SoundFacts
    <2> QED
      BY <1>2, <1>5, <2>1 DEF Content
  <1>13. now' = z /\ ~rm.on
    BY <1>2, <1>8, CallLeaves
  <1> QED
    BY <1>1, <1>3, <1>5, <1>8, <1>10, <1>11, <1>12, <1>13, EntryTaken

\* A name moves: what the entries and the kinds are afterwards.
LEMMA MovedIs ==
    ASSUME NEW x, NEW dep, Sound(x, dep), NEW old \in x.ents, NEW t \in Inode, IsDir(x, t), t # old.c,
           NEW n \in Name, NEW g, g = Entry(t, n, old.c), Child(x, t, n) = 0,
           NEW gone, gone = Drop(Moved(x, t, old.c, n), old.d, old.n),
           NEW y, y = IF IsDir(x, old.c) THEN LinkDec(gone, old.d) ELSE gone
    PROVE  /\ y \in FsRec /\ y.ents = (x.ents \ {old}) \cup {g}
           /\ g.d = t /\ g.n = n /\ g.c = old.c /\ \A e \in x.ents : ~(e.d = g.d /\ e.n = g.n)
           /\ \A i \in Inode : KindOf(y, i) = KindOf(x, i)
  <1>1. /\ x \in FsRec /\ old.d \in Inode /\ old.n \in Name /\ old.c \in Inode
        /\ \A f \in x.ents : f.d = old.d /\ f.n = old.n => f = old
        /\ \A i \in Inode : ~(IsDir(x, i) /\ IsFile(x, i))
    BY SoundFacts
  <1>2. g.d = t /\ g.n = n /\ g.c = old.c
    BY DEF Entry
  <1>3. \A e \in x.ents : ~(e.d = g.d /\ e.n = g.n)
    BY <1>1, <1>2, ChildFacts
  <1>4. PICK w : w = Moved(x, t, old.c, n)
    OBVIOUS
  <1>5. /\ w \in FsRec /\ w.ents = x.ents \cup {g}
        /\ \A j \in Inode \ {t, old.c} : SameAt(x, w, j)
        /\ IsDir(x, old.c) => /\ IsDir(w, old.c) /\ ~IsFile(w, old.c)
                              /\ IsDir(w, t) /\ ~IsFile(w, t)
        /\ ~IsDir(x, old.c) => /\ ~IsDir(w, old.c) /\ (IsFile(w, old.c) <=> IsFile(x, old.c))
                               /\ SameAt(x, w, t)
    BY <1>1, <1>4, MovedFacts
  <1>6. \A i \in Inode : (IsDir(w, i) <=> IsDir(x, i)) /\ (IsFile(w, i) <=> IsFile(x, i))
    <2> SUFFICES ASSUME NEW i \in Inode
                 PROVE  (IsDir(w, i) <=> IsDir(x, i)) /\ (IsFile(w, i) <=> IsFile(x, i))
      OBVIOUS
    <2>1. CASE i \in Inode \ {t, old.c}
      BY <1>5, <2>1 DEF SameAt
    <2>2. CASE i = t
      BY <1>1, <1>5, <2>2 DEF SameAt
    <2>3. CASE i = old.c
      BY <1>1, <1>5, <2>3
    <2> QED
      BY <2>1, <2>2, <2>3
  <1>7. /\ gone \in FsRec /\ gone.ents = {e \in w.ents : ~(e.d = old.d /\ e.n = old.n)}
        /\ \A j \in Inode : SameAt(w, gone, j)
    <2>1. PICK d, m : d = old.d /\ m = old.n
      OBVIOUS
    <2>2. gone = Drop(w, d, m) /\ d \in Inode /\ m \in Name
      BY <1>1, <1>4, <2>1
    <2>3. /\ Drop(w, d, m) \in FsRec
          /\ Drop(w, d, m).ents = {e \in w.ents : ~(e.d = d /\ e.n = m)}
          /\ \A j \in Inode : SameAt(w, Drop(w, d, m), j)
      BY <1>5, <2>2, DropFacts
    <2> QED
      BY <2>1, <2>2, <2>3
  <1>8. /\ y \in FsRec /\ y.ents = gone.ents
        /\ \A j \in Inode : (IsDir(y, j) <=> IsDir(gone, j)) /\ (IsFile(y, j) <=> IsFile(gone, j))
    <2>1. CASE IsDir(x, old.c)
      <3>1. PICK d : d = old.d
        OBVIOUS
      <3>2. d \in Inode /\ y = LinkDec(gone, d)
        BY <1>1, <2>1, <3>1
      <3>3. /\ y \in FsRec /\ y.ents = gone.ents
            /\ \A j \in Inode \ {d} : SameAt(gone, y, j)
            /\ IsDir(y, d) <=> IsDir(gone, d)
            /\ IsFile(y, d) <=> IsFile(gone, d)
        BY <1>7, <3>2, LinkDecFacts
      <3> QED
        BY <3>3 DEF SameAt
    <2>2. CASE ~IsDir(x, old.c)
      BY <1>7, <2>2
    <2> QED
      BY <2>1, <2>2
  <1>9. y.ents = (x.ents \ {old}) \cup {g}
    <2>1. ~(g.d = old.d /\ g.n = old.n)
      BY <1>3
    <2> QED
      BY <1>1, <1>5, <1>7, <1>8, <2>1
  <1>10. \A i \in Inode : KindOf(y, i) = KindOf(x, i)
    <2> SUFFICES ASSUME NEW i \in Inode
                 PROVE  KindOf(y, i) = KindOf(x, i)
      OBVIOUS
    <2>1. (IsDir(y, i) <=> IsDir(x, i)) /\ (IsFile(y, i) <=> IsFile(x, i))
      BY <1>6, <1>7, <1>8 DEF SameAt
    <2> QED
      BY <1>1, <1>8, <2>1, KindsAre
  <1> QED
    BY <1>2, <1>3, <1>8, <1>9, <1>10

\* Renaming: a path moves with everything below it, and not below itself.
LEMMA FrenameNames ==
    ASSUME Departures = {}, IInv, NEW s \in Located(now), NEW t \in Located(now), NEW n \in Name,
           Len(t.p) < MaxDepth, Frename(s, t, n)
    PROVE  Names!Next
  <1> DEFINE o == (CHOOSE r \in Located(now) : r.p = Front(s.p)).c
             gone == Drop(Moved(now, t.c, s.c, n), o, Last(s.p))
             moved == IF IsDir(now, s.c) THEN LinkDec(gone, o) ELSE gone
  <1>1. PICK dep : Sound(now, dep)
    BY DEF IInv
  <1>2. /\ Locked /\ IsDir(now, t.c) /\ Child(now, t.c, n) = 0
        /\ \A z : ~May(z)
    BY DEF Frename, NewPlace, May
  <1>3. s.p # <<>> /\ Becomes(moved)
    <2>1. CASE s.p = <<>>
      BY <1>2, <2>1, Zenon DEF Frename
    <2>2. CASE s.p # <<>>
      BY <1>2, <2>2, Zenon DEF Frename, Moved
    <2> QED
      BY <2>1, <2>2
  <1>4. IsDir(now, s.c) => ~IsPrefix(s.p, t.p)
    BY <1>2, <1>3, Zenon DEF Frename
  <1>5. IInv'
    BY FrenameKeeps
  <1>6. PICK nd : Sound(now', nd)
    BY <1>5 DEF IInv
  <1>7. now' = [ino |-> moved.ino, ents |-> moved.ents] /\ ~rm.on
    BY <1>2, <1>3, Zenon DEF Becomes, now, Locked
  <1> HIDE DEF now
  <1>8. PICK x : x = now
    OBVIOUS
  <1>9. PICK r \in Located(x), old \in x.ents :
           /\ r.c = old.d /\ s = Beyond(r, old) /\ r.p = Front(s.p) /\ old.n = Last(s.p)
    BY <1>1, <1>3, <1>8, Places
  <1>10. o = old.d
    <2>1. \A q \in Located(x) : q.p = Front(s.p) => q = r
      BY <1>1, <1>8, <1>9, Places
    <2>2. (CHOOSE q \in Located(x) : q.p = Front(s.p)) = r
      BY <1>9, <2>1
    <2> QED
      BY <1>8, <1>9, <2>2
  <1>11. s.c = old.c
    BY <1>9 DEF Beyond
  <1> HIDE DEF o
  <1>12. PICK w : w = gone
    OBVIOUS
  <1>13. w = Drop(Moved(x, t.c, old.c, n), old.d, old.n)
    BY <1>8, <1>9, <1>10, <1>11, <1>12
  <1>14. moved = IF IsDir(x, old.c) THEN LinkDec(w, old.d) ELSE w
    BY <1>8, <1>10, <1>11, <1>12
  <1> HIDE DEF gone, moved
  <1>15. t.c \in Inode /\ old.c \in Inode /\ s.p \in Seq(Name)
    BY <1>1, <1>11, Places
  <1>16. Content(x, old.c) = {} \/ IsDir(x, old.c)
    <2>1. \A f \in x.ents : IsDir(x, f.d)
      BY <1>1, <1>8, SoundFacts
    <2> QED
      BY <2>1 DEF Content
  <1>17. ~IsPrefix(s.p, t.p)
    <2>1. CASE IsDir(x, old.c)
      BY <1>4, <1>8, <1>11, <2>1
    <2>2. CASE ~IsDir(x, old.c)
      <3>1. \A m \in Located(x) : IsPrefix(s.p, m.p) => m = s
        BY <1>1, <1>8, <1>9, <1>16, <2>2, NothingBelow
      <3>2. t # s
        BY <1>2, <1>8, <1>11, <2>2
      <3> QED
        BY <1>8, <3>1, <3>2
    <2> QED
      BY <2>1, <2>2
  <1>18. t.c # old.c
    <2> SUFFICES ASSUME t.c = old.c
                 PROVE  FALSE
      OBVIOUS
    <2>1. t = s
      BY <1>1, <1>2, <1>11, Places
    <2> QED
      BY <1>15, <1>17, <2>1, PrefixFacts
  <1>19. PICK y, g : y = moved /\ g = Entry(t.c, n, old.c)
    OBVIOUS
  <1>20. /\ y \in FsRec /\ y.ents = (x.ents \ {old}) \cup {g}
         /\ g.d = t.c /\ g.n = n /\ g.c = old.c /\ \A e \in x.ents : ~(e.d = g.d /\ e.n = g.n)
         /\ \A i \in Inode : KindOf(y, i) = KindOf(x, i)
    BY <1>1, <1>2, <1>8, <1>13, <1>14, <1>15, <1>18, <1>19, MovedIs
  <1>21. now' = y
    BY <1>7, <1>19, <1>20 DEF FsRec
  <1>22. Sound(y, nd)
    BY <1>6, <1>21
  <1>23. PICK A, B, u, a, b :
           A = TreeOf(x) /\ B = TreeOf(y) /\ u = Beyond(t, g) /\ a = Item(x, s) /\ b = Item(y, u)
    OBVIOUS
  <1>24. Renamed(A, B, a, b)
    <2>1. /\ Sound(x, dep) /\ Sound(y, nd) /\ r \in Located(x) /\ old \in x.ents /\ r.c = old.d
          /\ t \in Located(x) /\ IsDir(x, t.c) /\ s = Beyond(r, old) /\ ~IsPrefix(s.p, t.p) /\ g.n \in Name
      BY <1>1, <1>2, <1>8, <1>9, <1>17, <1>20, <1>22
    <2> QED
      BY ONLY <1>20, <1>23, <2>1, TreeRenamed
  <1>25. TreeOf(now)' = B /\ TreeOf(now) = A
    BY <1>8, <1>21, <1>23
  <1>26. Names!Rename(A \ B, B \ A)
    BY <1>24, <1>25 DEF Names!Rename, Renamed
  <1>27. Names!Changes(A \ B, B \ A)
    BY <1>26 DEF Names!Changes
  <1> QED
    BY <1>7, <1>25, <1>27 DEF Names!Next

\* The recursive removal takes an entry away: below its directory, as all that is left
\* to be removed is.
LEMMA RmEntryNames ==
    ASSUME IInv, RmEntry
    PROVE  Names!Next
  <1>1. PICK e \in now.ents, ok \in BOOLEAN :
           LET z == Free(Unlink(now, e.d, e.c, e.n), e.c, ok)
           IN  /\ e.d = rm.cur /\ rm.on /\ rm.depth > 0 /\ Content(now, e.c) = {}
               /\ ino' = z.ino /\ ents' = z.ents
               /\ rm' = IF ok THEN rm ELSE Idle
    BY Zenon DEF RmEntry, Content
  <1>2. PICK dep \in [Inode -> Nat], top \in Inode, T \in SUBSET Inode :
               Sound(now, dep) /\ Removal(now, dep, top, T, rm)
    BY <1>1, UnderWay
  <1>3. PICK y, z : y = Unlink(now, e.d, e.c, e.n) /\ z = Free(y, e.c, ok)
    OBVIOUS
  <1>4. /\ now' = [ino |-> z.ino, ents |-> z.ents] /\ rm.path \in Seq(Name)
        /\ rm'.on => rm'.path = rm.path
    <2>1. now' = [ino |-> z.ino, ents |-> z.ents]
      BY <1>1, <1>3 DEF now
    <2>2. rm.path \in Seq(Name)
      BY DEF IInv, RmRec
    <2>3. rm'.on => rm'.path = rm.path
      BY <1>1 DEF Idle
    <2> QED
      BY <2>1, <2>2, <2>3
  <1>5. IInv'
    BY RmEntryKeeps
  <1>6. PICK nd : Sound(now', nd)
    BY <1>5 DEF IInv
  <1> HIDE DEF now
  <1>7. PICK x : x = now
    OBVIOUS
  <1>8. /\ x \in FsRec /\ e.d \in Inode /\ e.n \in Name /\ e.c \in Inode /\ IsDir(x, e.d)
        /\ IsDir(x, e.c) => e.d # e.c
        /\ \A f \in x.ents : f.d = e.d /\ f.n = e.n => f = e
        /\ \A i \in Inode : ~(IsDir(x, i) /\ IsFile(x, i))
    BY <1>2, <1>7, SoundFacts
  <1>9. /\ y \in FsRec /\ y.ents = {f \in x.ents : ~(f.d = e.d /\ f.n = e.n)}
        /\ \A j \in Inode \ {e.c} : (IsDir(y, j) <=> IsDir(x, j)) /\ (IsFile(y, j) <=> IsFile(x, j))
    <2>1. PICK d, c, n : d = e.d /\ c = e.c /\ n = e.n
      OBVIOUS
    <2>2. y = Unlink(x, d, c, n) /\ d \in Inode /\ c \in Inode /\ n \in Name /\ IsDir(x, d)
      BY <1>3, <1>7, <1>8, <2>1
    <2>3. CASE IsDir(x, c)
      <3>1. d # c
        BY <1>8, <2>1, <2>3
      <3>2. /\ y \in FsRec /\ y.ents = {f \in x.ents : ~(f.d = d /\ f.n = n)}
            /\ \A j \in Inode \ {d, c} : SameAt(x, y, j)
            /\ IsDir(y, d) /\ ~IsFile(y, d)
        BY <1>8, <2>2, <2>3, <3>1, UnlinkDirFacts
      <3> QED
        BY <1>8, <2>1, <2>2, <3>2 DEF SameAt
    <2>4. CASE ~IsDir(x, c)
      <3>1. /\ y \in FsRec /\ y.ents = {f \in x.ents : ~(f.d = d /\ f.n = n)}
            /\ \A j \in Inode \ {c} : SameAt(x, y, j)
        <4>1. x \in FsRec /\ d \in Inode /\ c \in Inode /\ n \in Name /\ ~IsDir(x, c) /\ y = Unlink(x, d, c, n)
          BY <1>8, <2>2, <2>4
        <4>2. y \in FsRec /\ y.ents = {f \in x.ents : ~(f.d = d /\ f.n = n)}
          BY ONLY <4>1, UnlinkFileFacts
        <4>3. \A j \in Inode \ {c} : SameAt(x, y, j)
          BY ONLY <4>1, UnlinkFileFacts
        <4> QED
          BY <4>2, <4>3
      <3> QED
        BY <2>1, <3>1 DEF SameAt
    <2> QED
      BY <2>3, <2>4
  <1>10. /\ z \in FsRec /\ z.ents = y.ents
         /\ \A j \in Inode \ {e.c} : (IsDir(z, j) <=> IsDir(y, j)) /\ (IsFile(z, j) <=> IsFile(y, j))
         /\ ~InUse(z, e.c)
    <2>1. PICK c : c = e.c
      OBVIOUS
    <2>2. z = Free(y, c, ok) /\ c \in Inode
      BY <1>3, <1>8, <2>1
    <2>3. /\ z \in FsRec /\ z.ents = y.ents
          /\ \A j \in Inode \ {c} : SameAt(y, z, j)
          /\ ~IsDir(z, c) /\ ~IsFile(z, c)
      BY <1>9, <2>2, FreeFacts
    <2>4. ~InUse(z, c)
      BY <2>2, <2>3, FsFacts
    <2> QED
      BY <2>1, <2>3, <2>4 DEF SameAt
  <1>11. now' = z
    BY <1>4, <1>10 DEF FsRec
  <1>12. Sound(z, nd) /\ z.ents = x.ents \ {e}
    BY <1>6, <1>7, <1>8, <1>9, <1>10, <1>11
  <1>13. \A i \in Inode \ {e.c} : KindOf(z, i) = KindOf(x, i)
    BY <1>8, <1>9, <1>10, KindsAre
  <1>14. KindOf(z, e.c) = "none"
    BY <1>10 DEF InUse, KindOf
  <1>15. \A r \in Located(x) : r.c = e.d => IsPrefix(rm.path, Beyond(r, e).p)
    <2> SUFFICES ASSUME NEW r \in Located(x), r.c = e.d
                 PROVE  IsPrefix(rm.path, Beyond(r, e).p)
      OBVIOUS
    <2>1. IsPrefix(rm.path, r.p)
      BY <1>1, <1>2, <1>7 DEF Removal
    <2>2. r.p \in Seq(Name)
      BY <1>2, <1>7, Places
    <2> QED
      BY <1>4, <1>8, <2>1, <2>2, PrefixFacts DEF Beyond
  <1> QED
    BY <1>1, <1>2, <1>4, <1>7, <1>11, <1>12, <1>13, <1>14, <1>15, EntryTaken

\* It takes its own directory away.
LEMMA RmLastNames ==
    ASSUME IInv, RmLast
    PROVE  Names!Next
  <1> DEFINE c == rm.cur
             d == Up(now, c)
             n == IF rm.path = <<>> THEN <<>> ELSE Last(rm.path)
             y == Unlink(now, d, c, n)
             Z(ok) == IF y.ino[c].links = 2 THEN Free(y, c, ok) ELSE y
  <1>1. PICK ok, z :
        /\ rm.on /\ rm.depth = 0 /\ rm' = Idle /\ z = Z(ok)
        /\ \/ UNCHANGED <<ino, ents>>
           \/ Child(now, d, n) # 0 /\ ino' = z.ino /\ ents' = z.ents
    BY Zenon DEF RmLast, Up, now
  <1>2. PICK dep \in [Inode -> Nat], top \in Inode, T \in SUBSET Inode :
               Sound(now, dep) /\ Removal(now, dep, top, T, rm)
    BY <1>1, UnderWay
  <1>3. ~rm'.on
    BY <1>1 DEF Idle
  <1>4. CASE UNCHANGED <<ino, ents>>
    <2>1. now' = now
      BY <1>4 DEF now
    <2> QED
      BY <1>3, <2>1, TreeStays
  <1>5. CASE Child(now, d, n) # 0 /\ ino' = z.ino /\ ents' = z.ents
    <2>1. now' = [ino |-> z.ino, ents |-> z.ents]
      BY <1>5 DEF now
    <2> HIDE DEF now
    <2>2. /\ c = top /\ Content(now, top) = {} /\ IsDir(now, top) /\ Links(now, top) # 1
          /\ \A t \in Located(now) : t.c \in T => IsPrefix(rm.path, t.p)
          /\ top \in T
          /\ rm.path = <<>> => top = Root
          /\ rm.path # <<>> => Entry(Up(now, top), Last(rm.path), top) \in now.ents
      BY <1>1, <1>2 DEF Removal
    <2>3. rm.path # <<>>
      <3> SUFFICES ASSUME rm.path = <<>>
                   PROVE  FALSE
        OBVIOUS
      <3>1. d = Root /\ c = Root
        BY <1>2, <2>2, SoundFacts
      <3> HIDE DEF d, n
      <3>2. PICK e \in now.ents : e.d = d
        BY <1>2, <1>5, ChildFacts, SoundFacts
      <3> QED
        BY <2>2, <3>1, <3>2 DEF Content
    <2>4. n = Last(rm.path)
      BY <2>3
    <2>5. PICK e \in now.ents : e.d = d /\ e.n = n /\ e.c = c
      BY <2>2, <2>3, <2>4 DEF Entry
    <2> HIDE DEF c, d, n
    <2>6. y = Unlink(now, e.d, e.c, e.n)
      BY <2>5
    <2> HIDE DEF y
    <2>7. PICK w : w = Free(y, e.c, ok)
      BY Zenon
    <2>8. IsDir(now, e.c) /\ Content(now, e.c) = {} /\ Links(now, e.c) # 1
      BY <2>2, <2>5
    <2>9. /\ Sound(w, dep) /\ w.ents = now.ents \ {e}
          /\ \A j \in Inode \ {e.c, e.d} : SameAt(now, w, j)
          /\ IsDir(w, e.d) /\ y.ino[e.c].links = 2
      BY <1>2, <2>6, <2>7, <2>8, RemoveDirKeeps
    <2>10. z = w
      BY <1>1, <2>5, <2>7, <2>9
    <2> HIDE DEF Z
    <2>11. now' = w
      <3>1. w = [ino |-> w.ino, ents |-> w.ents]
        BY <2>9, SoundFacts DEF FsRec
      <3> QED
        BY <2>1, <2>10, <3>1
    <2>12. \A i \in Inode \ {e.c} : KindOf(w, i) = KindOf(now, i)
      <3> SUFFICES ASSUME NEW i \in Inode, i # e.c
                   PROVE  KindOf(w, i) = KindOf(now, i)
        OBVIOUS
      <3>1. /\ now \in FsRec /\ w \in FsRec /\ IsDir(now, e.d)
            /\ ~(IsDir(now, i) /\ IsFile(now, i)) /\ ~(IsDir(w, i) /\ IsFile(w, i))
        BY <1>2, <2>9, SoundFacts
      <3>2. (IsDir(w, i) <=> IsDir(now, i)) /\ (IsFile(w, i) <=> IsFile(now, i))
        BY <2>9, <3>1 DEF SameAt
      <3> QED
        BY <3>1, <3>2, KindsAre
    <2>13. \A r \in Located(now) : r.c = e.d => IsPrefix(rm.path, Beyond(r, e).p)
      <3> SUFFICES ASSUME NEW r \in Located(now), r.c = e.d
                   PROVE  IsPrefix(rm.path, Beyond(r, e).p)
        OBVIOUS
      <3>1. Beyond(r, e) \in Located(now) /\ Beyond(r, e).c = e.c
        BY <1>2, GoesOn
      <3> QED
        BY <2>2, <2>5, <3>1
    <2> QED
      BY <1>1, <1>2, <1>3, <2>8, <2>9, <2>11, <2>12, <2>13, EntryTaken
  <1> QED
    BY <1>1, <1>4, <1>5

\* Its other steps leave the tree of names, and the directory it is for.
LEMMA RmGoesNames ==
    ASSUME Departures = {}, IInv, RmDown \/ RmUp \/ RmFails
    PROVE  Names!Next
  <1>1. now' = now
    BY DEF RmDown, RmUp, RmFails, May, now
  <1>2. rm \in RmRec
    BY DEF IInv
  <1>3. rm'.on => rm'.path = rm.path
    <2>1. CASE RmDown
      BY <1>2, <2>1 DEF RmDown, RmRec
    <2>2. CASE RmUp
      BY <1>2, <2>2 DEF RmUp, RmRec
    <2>3. CASE RmFails
      BY <2>3 DEF RmFails, Idle
    <2> QED
      BY <2>1, <2>2, <2>3
  <1> QED
    BY <1>1, <1>3, TreeStays

\* Every step is one of NameTree's.
LEMMA StepNames ==
    ASSUME Departures = {}, IInv, [Next]_vars
    PROVE  Names!Next
  <1>1. CASE \E p \in Paths, kind \in Kind : Create(p, kind)
    BY <1>1, CreateNames
  <1>2. CASE \E s \in Located(now) : DirRm(s)
    <2>1. now' = now /\ ~rm.on
      BY <1>2 DEF DirRm, Locked, now
    <2> QED
      BY <2>1, TreeStays
  <1>3. CASE \E s \in Located(now) : s.p # <<>> /\ Fremove(s)
    BY <1>3, FremoveNames
  <1>4. CASE \E s, t \in Located(now), n \in Name :
               /\ Len(t.p) < MaxDepth
               /\ \/ Flink(s.c, t.c, n)
                  \/ Frename(s, t, n)
    BY <1>4, FlinkNames, FrenameNames
  <1>5. CASE RmStep \/ RmFails
    BY <1>5, RmEntryNames, RmLastNames, RmGoesNames DEF RmStep
  <1>6. CASE UNCHANGED vars
    <2>1. now' = now /\ rm' = rm
      BY <1>6 DEF vars, now
    <2> QED
      BY <2>1, TreeStays
  <1> QED
    BY <1>1, <1>2, <1>3, <1>4, <1>5, <1>6 DEF Next

\* A mount point without entries has one path.
LEMMA InitNames == Init => Names!Init
  <1> SUFFICES ASSUME Init
               PROVE  Names!Init
    OBVIOUS
  <1>1. IInv
    BY InitHolds
  <1>2. PICK dep : Sound(now, dep)
    BY <1>1 DEF IInv
  <1>3. now.ents = {} /\ rm.on = FALSE
    BY DEF Init, now, Idle
  <1> HIDE DEF now
  <1>4. \A s \in Located(now) : s.p = <<>>
    BY <1>2, <1>3, Places
  <1>5. \A t \in TreeOf(now) : t.p = <<>>
    <2>1. /\ TreeOf(now) = {Item(now, s) : s \in Located(now)}
          /\ \A s : Item(now, s).p = s.p
      BY <1>2, TreeItems
    <2> QED
      BY <1>4, <2>1
  <1> QED
    BY <1>3, <1>5 DEF Names!Init

\* The calls of a mount point do to its paths what NameTree says, whatever the names,
\* the inodes and the depth, and however deep a removal goes: opening creates the
\* beginning of what a path is missing (ext4_generic_open2), a link is one more path to
\* the same file (ext4_create_hardlink), a rename moves one subtree whole
\* (ext4_frename), and a removal takes paths away one by one, none of them outside its
\* directory (ext4_fremove, ext4_dir_rm).
THEOREM ImplementsTree ==
    ASSUME Departures = {}
    PROVE  Spec => ImplementsNameTree
  <1>1. Init => Names!Init
    BY InitNames
  <1>2. IInv /\ [Next]_vars => [Names!Next]_<<TreeOf(now), rm.on, rm.path>>
    BY StepNames
  <1>3. Spec => []IInv
    BY InvariantKept
  <1> QED
    BY <1>1, <1>2, <1>3, PTL DEF Spec, ImplementsNameTree, Names!Spec

=============================================================================
