SPECIFICATION Spec
CONSTANTS
  Logical = {0, 1, 2, 3, 4, 5, 6}
  Phys = {1, 2, 3, 4, 5, 6, 7, 8, 9, 10, 11, 12, 13}
  RootMax = 1
  NodeMax = 2
  InitMax = 4
  FirstTrees <- MCFirstTrees
  MaxOps = 6
INVARIANTS TypeOK EveryExtentFound BlocksAccounted
PROPERTIES ImplementsFileMap
CHECK_DEADLOCK FALSE
