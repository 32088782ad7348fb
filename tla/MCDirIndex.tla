---- MODULE MCDirIndex ----
EXTENDS DirIndex, TLC

CONSTANTS n1, n2, n3, n4, n5

\* Names of one hash, more than a block holds, others, and two sizes.
MCHash == (n1 :> 2) @@ (n2 :> 2) @@ (n3 :> 2) @@ (n4 :> 4) @@ (n5 :> 4)
MCSize == (n1 :> 2) @@ (n2 :> 2) @@ (n3 :> 2) @@ (n4 :> 2) @@ (n5 :> 1)

\* The first three names differ in nothing.
Alike == Permutations({n1, n2, n3})

\* The behaviours in which no reading goes from one place without a record to another one
\* in the block, for which the bytes of former records would have to be looked at.
SpecDirect ==
  Init /\ [][Next /\ (Outdated(dir) => rd'.at[1] # rd.at[1] \/ rd'.at = rd.at)]_vars
====
