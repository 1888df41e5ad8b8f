SPECIFICATION Spec
CONSTANTS
  Window = {a, b, c}
  Floaters = {a}
  Workspace = {ws1, ws2}
  Node = {1, 2, 3}
  NULL = NULL
  Heads <- AnyFree
ACTION_CONSTRAINTS OnlyFloaters
VIEW UpToNumbering
INVARIANTS
  StaleLeafDetached
  LeafBelongsToWindow
PROPERTIES
  TilesUnlessPoolExhausted
  ImplementsLeafOrder
