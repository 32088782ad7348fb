----------------------------- MODULE Namespace -----------------------------
(***************************************************************************)
(* The names of a mount point (ext4.c): walking a path, creating what is   *)
(* missing on it, hard links, renaming, removing files and, one entry at a *)
(* time, directories with all that is in them; with the link counts and    *)
(* the '..' entries these calls keep (ext4_link, ext4_unlink).  A call runs*)
(* under the lock of the mount point: only the recursive removal has steps *)
(* of its own, each a transaction that the next one builds on.             *)
(***************************************************************************)
EXTENDS Integers, Sequences, FiniteSets, FiniteSetsExt, SequencesExt

CONSTANTS
  Name,       \* names of entries
  Inode,      \* inode numbers, Root among them
  MaxDepth,   \* bound on the components of a path
  LinkMax,    \* EXT4_LINK_MAX
  DirIndex,   \* whether directories are hashed (EXT4_FCOM_DIR_INDEX)
  Departures  \* which of the departures below a run follows

ASSUME NamespaceAssumption ==
  /\ Inode \subseteq Nat \ {0} /\ Inode # {} /\ IsFiniteSet(Inode) /\ IsFiniteSet(Name)
  /\ MaxDepth \in Nat \ {0} /\ LinkMax \in Nat \ 0 .. 2
  /\ DirIndex \in BOOLEAN

VARIABLES
  ino,   \* the inodes: kind, link count, and the '..' of a directory
  ents,  \* the entries of all directories: directory, name, inode
  rm     \* the recursive removal under way

vars == <<ino, ents, rm>>

Root == Min(Inode)
Kind == {"file", "dir"}
Unused == [kind |-> "none", links |-> 0, up |-> 0]

\* An inode whose freeing failed after its last name and link had gone: the bitmap
\* has it as in use, so that it is not given out again, and nothing leads to it.
\* Aborting the transaction brings nothing back: no journal is started.
Lost == [kind |-> "lost", links |-> 0, up |-> 0]
Idle == [on |-> FALSE, path |-> <<>>, cur |-> 0, depth |-> 0]

Paths == UNION {[1 .. k -> Name] : k \in 1 .. MaxDepth}

\* What the code does beyond what the calls promise; a run follows one only if
\* Departures has it:
\*   descendant  a directory is renamed into itself or below,
\*   root        the mount point itself is renamed,
\*   hardlink    a recursive removal frees a file that has other names,
\*   nlink       a directory that had too many links keeps its inode when removed,
\*   dangling    a directory that could not be filled leaves its entry,
\*   hollow      a recursive removal stops between emptying a directory of its '.' and
\*               '..' and unlinking it,
\*   half        a rename fails between adding the new name and removing the old.
May(name) == name \in Departures

-----------------------------------------------------------------------------
(* Inodes and entries, as a record of both: what a call works on.          *)

Entry(d, n, c) == [d |-> d, n |-> n, c |-> c]
Child(x, d, n) ==
  LET found == {e \in x.ents : e.d = d /\ e.n = n}
  IN  IF found = {} THEN 0 ELSE (CHOOSE e \in found : TRUE).c
Content(x, d) == {e \in x.ents : e.d = d}
IsDir(x, i) == x.ino[i].kind = "dir"

\* The paths of at most MaxDepth components and the inodes they lead to, beginning
\* with the mount point: what ext4_generic_open2 finds, O_RDONLY.
Located(x) ==
  LET below(s) == {[p |-> Append(s.p, e.n), c |-> e.c] : e \in Content(x, s.c)}
      at[k \in 0 .. MaxDepth] ==
        IF k = 0 THEN {[p |-> <<>>, c |-> Root]}
        ELSE UNION {below(s) : s \in {r \in at[k - 1] : IsDir(x, r.c)}}
  IN  UNION {at[k] : k \in 0 .. MaxDepth}

\* Mutant of LinkInc: no limit for hashed directories.
LinkIncPlain(x, i) == [x EXCEPT !.ino[i].links = @ + 1]

\* ext4_fs_inode_links_count_inc: 1 stands for too many.
LinkInc(x, i) ==
  LET n == x.ino[i].links + 1
      many == IsDir(x, i) /\ DirIndex /\ (n >= LinkMax \/ n = 2)
  IN  [x EXCEPT !.ino[i].links = IF many THEN 1 ELSE n]

\* Mutant of LinkDec: a directory loses its own two links.
LinkDecAll(x, i) == [x EXCEPT !.ino[i].links = @ - 1]

\* ext4_fs_inode_links_count_dec.
LinkDec(x, i) ==
  LET n == x.ino[i].links
  IN  [x EXCEPT !.ino[i].links = IF n > (IF IsDir(x, i) THEN 2 ELSE 0) THEN n - 1 ELSE n]

\* ext4_fs_free_inode of an inode without names, which may fail.
Free(x, i, ok) == [x EXCEPT !.ino[i] = IF ok THEN Unused ELSE Lost]
FreeInodes(x) == {i \in Inode : x.ino[i].kind = "none"}

\* ext4_dir_add_entry, ext4_dir_remove_entry.
Add(x, d, n, c) == [x EXCEPT !.ents = @ \cup {Entry(d, n, c)}]
Drop(x, d, n) == [x EXCEPT !.ents = {e \in @ : ~(e.d = d /\ e.n = n)}]

\* Mutant of Link: the '..' of a moved directory stays.
LinkInPlace(x, d, c, n, rename) ==
  IF IsDir(x, c) /\ rename THEN LinkInc(Add(x, d, n, c), d)
  ELSE IF IsDir(x, c) THEN LinkInc([Add(x, d, n, c) EXCEPT !.ino[c].links = 2, !.ino[c].up = d], d)
  ELSE IF rename THEN Add(x, d, n, c) ELSE LinkInc(Add(x, d, n, c), c)

\* ext4_link, when it succeeds: c gets the name n in d.
Link(x, d, c, n, rename) ==
  LET y == Add(x, d, n, c)
  IN  IF IsDir(x, c)
      THEN LinkInc([y EXCEPT !.ino[c].up = d, !.ino[c].links = IF rename THEN @ ELSE 2], d)
      ELSE IF rename THEN y ELSE LinkInc(y, c)

\* Mutant of Unlink: the parent keeps the link of the directory's '..'.
UnlinkQuietly(x, d, c, n) == LinkDec(Drop(x, d, n), c)

\* ext4_unlink, of something without children.
Unlink(x, d, c, n) ==
  LET y == Drop(x, d, n)
  IN  LinkDec(IF IsDir(x, c) THEN LinkDec(y, d) ELSE y, c)

-----------------------------------------------------------------------------
(* Calls.                                                                  *)

now == [ino |-> ino, ents |-> ents]

Becomes(x) == ino' = x.ino /\ ents' = x.ents /\ UNCHANGED rm

\* Not while a recursive removal holds the lock.
Locked == ~rm.on

\* No path gets longer than MaxDepth: nothing is in a directory at that depth.
Shallow(x) == \A s \in Located(x) : Len(s.p) = MaxDepth => Content(x, s.c) = {}

\* A new inode for the name n in d: ext4_fs_alloc_inode and ext4_link.
NewChild(x, d, n, kind) ==
  LET i == Min(FreeInodes(x))
  IN  Link([x EXCEPT !.ino[i] = [kind |-> kind, links |-> 0, up |-> 0]], d, i, n, FALSE)

\* ext4_link adds the entry, cannot fill the new directory, and leaves the entry to
\* the caller, who frees the inode: always when directories are hashed, else when
\* the name is not the last of the path, which is what strlen measures.
Strand(x, d, n) == Add(x, d, n, Min(FreeInodes(x)))

\* One component of ext4_generic_open2 with O_CREAT, from the directory s.d: what is
\* there must be of the right kind, what is missing is created, and creation may
\* fail for want of an inode or a block.  The new inode is freed then, if that does
\* not fail too: the result is not looked at.
Component(s, n, kind, last) ==
  LET c == Child(s.x, s.d, n)
      stuck == [s EXCEPT !.ok = FALSE]
      added == NewChild(s.x, s.d, n, kind)
      lost == Free(s.x, Min(FreeInodes(s.x)), FALSE)
  IN  IF c # 0 THEN {IF s.x.ino[c].kind = kind THEN [s EXCEPT !.d = c] ELSE stuck}
      ELSE IF FreeInodes(s.x) = {} THEN {stuck}
      ELSE {stuck, [stuck EXCEPT !.x = lost], [s EXCEPT !.x = added, !.d = Child(added, s.d, n)]}
           \cup {[stuck EXCEPT !.x = Strand(s.x, s.d, n)] :
                   z \in {z \in {"dangling"} : May(z) /\ (last => kind = "dir" /\ DirIndex)}}

\* All components of a path; the ones before the last are directories.
Opened(p, kind) ==
  LET to[k \in 0 .. Len(p)] ==
        IF k = 0 THEN {[x |-> now, d |-> Root, ok |-> TRUE]}
        ELSE UNION {IF s.ok THEN Component(s, p[k], IF k = Len(p) THEN kind ELSE "dir", k = Len(p))
                    ELSE {s} : s \in to[k - 1]}
  IN  {s.x : s \in to[Len(p)]}

\* ext4_fopen, ext4_fopen2, ext4_dir_mk, ext4_fsymlink, ext4_mknod: a file stands for
\* everything that is not a directory.
Create(p, kind) ==
  /\ Locked
  /\ \E x \in Opened(p, kind) : Becomes(x)

\* ext4_create_hardlink finds the directory d of the new name, which must not exist.
NewPlace(d, n) == IsDir(now, d) /\ Child(now, d, n) = 0

\* ext4_flink, of the file c.
Flink(c, d, n) ==
  /\ Locked
  /\ ~IsDir(now, c) /\ NewPlace(d, n)
  /\ Becomes(Link(now, d, c, n, FALSE))

\* ext4_frename, ext4_dir_mv of s to the name n in the directory t: first the new
\* name, then ext4_remove_orig_reference, which may fail, and does for the mount
\* point.  The new name may be anywhere, also below s.
Frename(s, t, n) ==
  LET o == (CHOOSE r \in Located(now) : r.p = IF s.p = <<>> THEN <<>> ELSE Front(s.p)).c
      linked == Link(now, t.c, s.c, n, TRUE)
      gone == Drop(linked, o, Last(s.p))
      moved == IF IsDir(now, s.c) THEN LinkDec(gone, o) ELSE gone
      whole == IF s.p = <<>> THEN {} ELSE {moved}
      halves == IF May(IF s.p = <<>> THEN "root" ELSE "half") THEN {linked} ELSE {}
  IN  /\ Locked
      /\ NewPlace(t.c, n)
      /\ IsDir(now, s.c) /\ s.p # <<>> /\ IsPrefix(s.p, t.p) => May("descendant")
      /\ s.p # <<>> => Shallow(moved)
      /\ \E x \in whole \cup halves : Becomes(x)

\* ext4_fremove; the blocks go before the name does, the inode after it.
Fremove(s) ==
  LET d == (CHOOSE r \in Located(now) : r.p = Front(s.p)).c
      y == Unlink(now, d, s.c, Last(s.p))
  IN  /\ Locked
      /\ ~IsDir(now, s.c)
      /\ IF y.ino[s.c].links = 0 THEN \E ok \in BOOLEAN : Becomes(Free(y, s.c, ok)) ELSE Becomes(y)

-----------------------------------------------------------------------------
(* ext4_dir_rm.                                                            *)

Single(i) == ino[i].kind = "file" => ino[i].links = 1

\* Its steps free every inode below and, if its count is not past counting, its own:
\* the departures are those where that loses a file or the inode.
DirRm(s) ==
  /\ Locked
  /\ IsDir(now, s.c)
  /\ May("nlink") \/ ino[s.c].links # 1
  /\ May("hardlink") \/ \A t \in Located(now) : IsPrefix(s.p, t.p) => Single(t.c)
  /\ rm' = [on |-> TRUE, path |-> s.p, cur |-> s.c, depth |-> 1]
  /\ UNCHANGED <<ino, ents>>

\* An entry with something in it: the removal goes on in there.
RmDown ==
  \E e \in Content(now, rm.cur) :
    /\ rm.on /\ rm.depth > 0
    /\ IsDir(now, e.c) /\ Content(now, e.c) # {}
    /\ rm' = [rm EXCEPT !.cur = e.c, !.depth = @ + 1]
    /\ UNCHANGED <<ino, ents>>

\* An entry without: it is truncated, unlinked and its inode freed, whatever links
\* it had.  When freeing fails the removal ends.
RmEntry ==
  \E e \in Content(now, rm.cur), ok \in BOOLEAN :
    LET y == Free(Unlink(now, rm.cur, e.c, e.n), e.c, ok)
    IN  /\ rm.on /\ rm.depth > 0
        /\ Content(now, e.c) = {}
        /\ ino' = y.ino /\ ents' = y.ents
        /\ rm' = IF ok THEN rm ELSE Idle

\* Mutant of RmUp: the depth is not counted down.
RmUpAgain ==
  /\ rm.on /\ rm.depth > 0
  /\ Content(now, rm.cur) = {}
  /\ rm' = [rm EXCEPT !.cur = ino[rm.cur].up]
  /\ UNCHANGED <<ino, ents>>

\* The end of a directory: up to the one its '..' names, while there is one to go.
RmUp ==
  /\ rm.on /\ rm.depth > 0
  /\ Content(now, rm.cur) = {}
  /\ rm' = [rm EXCEPT !.depth = @ - 1, !.cur = IF rm.depth > 1 THEN ino[rm.cur].up ELSE @]
  /\ UNCHANGED <<ino, ents>>

\* The directory itself, out of the one its '..' names; truncating or freeing it may
\* fail when its name has gone.
RmLast ==
  LET c == rm.cur
      d == ino[c].up
      n == IF rm.path = <<>> THEN <<>> ELSE Last(rm.path)
      y == Unlink(now, d, c, n)
      found == Child(now, d, n) # 0
      whole == y.ino[c].links = 2
  IN  /\ rm.on /\ rm.depth = 0
      /\ rm' = Idle
      /\ IF ~found THEN UNCHANGED <<ino, ents>>
         ELSE \E ok \in BOOLEAN :
                LET z == IF whole THEN Free(y, c, ok) ELSE y IN ino' = z.ino /\ ents' = z.ents

\* An error of the device ends it between two entries, or at one before its name is
\* taken: a directory may have been emptied of its '.' and '..' by then.
RmFails ==
  LET emptied == {e \in Content(now, rm.cur) : May("hollow") /\ IsDir(now, e.c) /\ Content(now, e.c) = {}}
  IN  /\ rm.on
      /\ rm' = Idle
      /\ ino' \in {ino} \cup {[ino EXCEPT ![e.c].up = 0] : e \in emptied}
      /\ UNCHANGED ents

RmStep == RmDown \/ RmEntry \/ RmUp \/ RmLast

-----------------------------------------------------------------------------
Init ==
  /\ ino = [i \in Inode |-> IF i = Root THEN [kind |-> "dir", links |-> 2, up |-> Root] ELSE Unused]
  /\ ents = {}
  /\ rm = Idle

Next ==
  \/ \E p \in Paths, kind \in Kind : Create(p, kind)
  \/ \E s \in Located(now) : DirRm(s) \/ (s.p # <<>> /\ Fremove(s))
  \/ \E s, t \in Located(now), n \in Name :
       /\ Len(t.p) < MaxDepth
       /\ \/ Flink(s.c, t.c, n)
          \/ Frename(s, t, n)
  \/ RmStep
  \/ RmFails

Spec == Init /\ [][Next]_vars

\* The loop of ext4_dir_rm is one call: nothing keeps its next step from running.
FairSpec == Spec /\ WF_vars(RmStep)

-----------------------------------------------------------------------------
(* Properties.                                                             *)

\* The state, where no count outgrows its field: that of a hashed directory stays
\* below EXT4_LINK_MAX, that of a file has no limit but its names.
TypeOK ==
  /\ ino \in [Inode -> [kind : Kind \cup {"none", "lost"}, links : 0 .. Cardinality(Inode) * Cardinality(Name) + 2,
                        up : Inode \cup {0}]]
  /\ DirIndex => \A i \in Inode : IsDir(now, i) => ino[i].links < LinkMax
  /\ ents \subseteq [d : Inode, n : Name, c : Inode]
  /\ rm.on \in BOOLEAN /\ rm.depth \in 0 .. MaxDepth + 1 /\ rm.cur \in Inode \cup {0}

\* The directories are a tree and every inode in use has a name in it: a name is
\* given once in a directory, a directory has one entry, in the directory that its
\* '..' names, an entry names a file or directory that is not lost, and each of those
\* is found by a path.  Creation that fails halfway, renaming across directories and
\* removals that an error ends between two entries or between taking a name and
\* freeing its inode keep it so: what they lose is an inode, never a name.
TreeSound ==
  /\ \A e, f \in ents : (e.d = f.d /\ e.n = f.n) \/ (e.c = f.c /\ IsDir(now, e.c)) => e = f
  /\ \A e \in ents : IsDir(now, e.d) /\ ino[e.c].kind \in Kind /\ e.c # Root
  /\ \A e \in ents : IsDir(now, e.c) => ino[e.c].up = e.d
  /\ \A i \in Inode \ {Root} :
       ino[i].kind \in Kind => \E s \in Located(now) : s.c = i

\* A file has as many links as names, so that its inode goes with the last one and
\* not before; a directory has its own two and the '..' of each directory in it, or 1
\* when those were too many to count.  A lost inode has no links, its parent none for
\* its '..'.
LinksExact ==
  \A i \in Inode :
    LET named == {e \in ents : e.c = i}
        dirs == {e \in ents : e.d = i /\ IsDir(now, e.c)}
    IN  CASE ino[i].kind = "file" -> ino[i].links = Cardinality(named)
          [] ino[i].kind = "dir"  -> ino[i].links \in {2 + Cardinality(dirs)}
                                       \cup (IF DirIndex THEN {1} ELSE {})
          [] OTHER                -> ino[i] \in {Unused, Lost} /\ named = {}

\* Every call does to the paths of the mount point what NameTree says: a rename
\* moves one subtree whole, a link shares one file, a recursive removal takes away
\* nothing outside the directory it was asked for, whichever '..' it climbs.
TreeOf(x) == {[p |-> s.p, object |-> s.c, kind |-> x.ino[s.c].kind] : s \in Located(x)}

Names == INSTANCE NameTree WITH tree <- TreeOf(now), doomed <- rm.path, removing <- rm.on

ImplementsNameTree == Names!Spec

\* ext4_dir_rm comes to an end: its count of levels and its '..' bring it back to
\* where it began, however deep it went and whatever was renamed before.
RemovalEnds == rm.on ~> ~rm.on

=============================================================================
