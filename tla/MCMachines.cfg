SPECIFICATION FairSpec
CONSTANTS
  e1 = e1
  e2 = e2
  n1 = n1
  n2 = n2
  box = box
  Editor = {e1, e2}
  Persistent = e1
  Orphan = Orphan
  Node = {n1, n2}
  Target = {box}
  First <- MCFirst
  Command <- MCCommand
  Proto <- MCProto
  MaxTrouble = 1
  NoNode = NoNode
PROPERTIES CatalogHolds MatchIsBuilt HealsByRepeating
