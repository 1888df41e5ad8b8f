SPECIFICATION Spec
CONSTANTS
  Window = {a, b, c}
  Floaters = {a}
  Workspace = {ws1}
  Node = {1, 2, 3, 4, 5}
  NULL = NULL
  Heads <- AnyFree
ACTION_CONSTRAINTS OnlyFloaters
VIEW UpToNumbering
INVARIANTS
  TypeOK
  LinksConsistent
  NoNodeLeaks
  LookupExact
  WalksStayInTree
PROPERTY ImplementsLeafOrder
