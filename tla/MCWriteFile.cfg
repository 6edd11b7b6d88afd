SPECIFICATION Spec
CONSTANTS
  Writer = {w1, w2, w3}
  Size <- MCSize
  Name = {1, 2, 3, 4, 5}
  Tries = 2
  Leftovers = {2, 3}
  Nobody = Nobody
  Other = Other
SYMMETRY Symmetry
INVARIANTS DestinationWhole ResultIsTrue NothingLeftOnReturn
PROPERTIES ExistingKept
