SPECIFICATION Spec
CONSTANTS
  n1 = n1
  n2 = n2
  n3 = n3
  n4 = n4
  n5 = n5
  Name = {n1, n2, n3, n4, n5}
  Hash <- MCHash
  Size <- MCSize
  LeafSize = 4
  RootMax = 2
  NodeMax = 3
  MaxBlocks = 7
  Departures = {"sparse"}
INVARIANT EntriesDistributed
SYMMETRY Alike
