SPECIFICATION Spec
CONSTANTS
  NumPaths = 4
  PealistPaths = 3
  Tools = {"peac", "pealist"}
INVARIANTS EachOnce DepsFirst LinksAll DiesIfUnloadable
