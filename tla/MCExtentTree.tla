---- MODULE MCExtentTree ----
EXTENDS ExtentTree

\* An empty file; one that another implementation preallocated in part; one with a
\* hole between two extents.
Leaf(ents) == [depth |-> 0, ents |-> ents]
MCFirstTrees ==
  {Root :> Leaf(<<>>),
   Root :> Leaf(<<Extent(1, MarkUnwritten(3), 2)>>),
   Root :> [depth |-> 1, ents |-> <<Index(0, 9)>>] @@
     9 :> Leaf(<<Extent(0, 1, 2), Extent(3, 2, 3)>>)}

MCPreallocated == {Root :> Leaf(<<Extent(1, MarkUnwritten(3), 2)>>)}
====
