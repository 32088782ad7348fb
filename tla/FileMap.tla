------------------------------- MODULE FileMap -------------------------------
(***************************************************************************)
(* What the block mapping of a file promises to those who use it.  map is  *)
(* the set of its mapped blocks: logical block, block of the device,       *)
(* whether it was written.  Writing to a logical block gives it a block and*)
(* touches no other; truncation takes away the blocks from a point on, or, *)
(* if it fails, the first of them; anything else leaves the mapping alone. *)
(* Once intact is FALSE nothing is promised.                               *)
(***************************************************************************)
EXTENDS Integers

CONSTANT Logical

VARIABLES map, intact

\* Any mapping a file may come with.
Init == intact = TRUE /\ \A m, k \in map : (m.l = k.l \/ m.pb = k.pb) => m = k

\* ext4_fs_init_inode_dblk_idx, ext4_fs_append_inode_dblk: a block that is mapped
\* and not written keeps its place, a new one is nobody else's.
Fill(m) ==
  /\ m.written
  /\ \A k \in map : IF k.l = m.l THEN ~k.written /\ k.pb = m.pb ELSE k.pb # m.pb
  /\ map' = {k \in map : k.l # m.l} \cup {m}

\* ext4_fs_truncate_inode.
Cut(from) == map' = {m \in map : m.l < from}

\* It fails when it has come to the logical block to.
CutStops(from, to) == map' = {m \in map : m.l < from \/ m.l >= to}

Next ==
  \/ intact /\ intact' /\ \/ \E m \in map' \ map : Fill(m)
                          \/ \E from \in Logical : Cut(from)
                          \/ \E from, to \in Logical : CutStops(from, to)
  \/ ~intact'

Spec == Init /\ [][Next]_<<map, intact>>

=============================================================================
