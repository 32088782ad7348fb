SPECIFICATION FairSpec
CONSTANTS
  a = a
  b = b
  Name <- MCName
  Inode = {1, 2, 3, 4}
  MaxDepth = 3
  LinkMax = 4
  DirIndex = TRUE
  Departures = {}
INVARIANTS TypeOK TreeSound LinksExact
PROPERTIES ImplementsNameTree RemovalEnds
