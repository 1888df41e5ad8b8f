SPECIFICATION Spec
CONSTANTS
  Window = {t1, t2}
  XWayland = {}
  EarlyFullscreen = {}
  WorkspaceCount = 2
  Output = {o1, o2}
  NULL = NULL
SYMMETRY Symmetric
VIEW UpToUnread
INVARIANTS
  DeskConsistent
PROPERTY EvacuatesListed
ACTION_CONSTRAINT NoMonocle
