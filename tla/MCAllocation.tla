---------------------------- MODULE MCAllocation ----------------------------
(***************************************************************************)
(* Six blocks in two groups, the second one short, the first block being   *)
(* metadata; two inodes a group, the first reserved, one of each group     *)
(* given blocks. The search takes three bits at a time, so a goal may be   *)
(* in the middle of a "byte", and a run of blocks may cross the groups.    *)
(***************************************************************************)
EXTENDS Allocation

MetaBlocks == {0}
ReservedInodes == {0}
FileInodes == {1, 2}
=============================================================================
