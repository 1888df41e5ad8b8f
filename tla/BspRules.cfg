SPECIFICATION RulesSpec
CONSTANTS
  Window = {a, b, c}
  Floaters = {}
  Workspace = {ws1, ws2}
  Node = {1, 2, 3, 4, 5, 6}
  NULL = NULL
  Heads <- Lowest
ACTION_CONSTRAINT OnlyFloaters
VIEW UpToNumbering
INVARIANT OneLeafPerWindow
