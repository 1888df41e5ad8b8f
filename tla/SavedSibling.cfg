SPECIFICATION Spec
CONSTANTS
  Window = {a, b, c}
  Floaters = {a}
  Workspace = {ws1}
  Node = {1, 2, 3, 4, 5}
  NULL = NULL
  Heads <- Lowest
ACTION_CONSTRAINT OnlyFloaters
VIEW UpToNumbering
PROPERTY SavedSiblingExists
