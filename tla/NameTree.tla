------------------------------ MODULE NameTree ------------------------------
(***************************************************************************)
(* What the names of a mount point promise: tree is the set of the paths   *)
(* that exist, each with the object it names and its kind.  Opening may    *)
(* create a path and the directories it is missing, linking gives a file a *)
(* second path, renaming moves a path with everything below it, removing   *)
(* takes away a file, or an empty directory of the recursive removal of the*)
(* directory doomed.                                                       *)
(***************************************************************************)
EXTENDS Integers, Sequences, SequencesExt, FiniteSets

VARIABLES tree, removing, doomed

\* A mount point that has no entries yet.
Init == removing = FALSE /\ \A t \in tree : t.p = <<>>

DirOf(p, some) == \E t \in some : t.p = Front(p) /\ t.kind = "dir"
Below(p, some) == {t \in some : IsPrefix(p, t.p)}

\* Opening to create: new is a beginning of what was missing of one path, new
\* objects, each in a directory.
Create(new) ==
  /\ \A t, u \in new : IsPrefix(t.p, u.p) \/ IsPrefix(u.p, t.p)
  /\ \A t \in new : DirOf(t.p, tree \cup new)
  /\ \A t \in new, u \in tree \cup new : u.object = t.object => u = t
  /\ tree' = tree \cup new

\* A second name for a file.
Link(new) ==
  /\ \E t \in tree, u \in new : t.kind = "file" /\ new = {[t EXCEPT !.p = u.p]} /\ DirOf(u.p, tree)
  /\ tree' = tree \cup new

\* The subtree old moves to new, which is not within it.
Rename(old, new) ==
  \E t \in old, u \in new :
    /\ old = Below(t.p, tree)
    /\ DirOf(u.p, tree \ old)
    /\ new = {[m EXCEPT !.p = u.p \o SubSeq(m.p, Len(t.p) + 1, Len(m.p))] : m \in old}
    /\ tree' = (tree \ old) \cup new

\* One file, or in a recursive removal an empty directory, below the one it is for.
TakeAway(t) ==
  /\ Below(t.p, tree) = {t}
  /\ IF removing THEN IsPrefix(doomed, t.p) ELSE t.kind = "file"
  /\ tree' = tree \ {t}

Changes(old, new) ==
  \/ old = {} /\ (Create(new) \/ Link(new))
  \/ Rename(old, new)
  \/ new = {} /\ \E t \in old : TakeAway(t)

\* While a directory is being removed nothing else happens.
Next ==
  /\ tree' # tree => Changes(tree \ tree', tree' \ tree)
  /\ removing => tree' \subseteq tree /\ (removing' => doomed' = doomed)

Spec == Init /\ [][Next]_<<tree, removing, doomed>>

=============================================================================
