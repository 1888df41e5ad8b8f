SPECIFICATION Spec
CONSTANTS
  Window = {t1, t2}
  XWayland = {}
  EarlyFullscreen = {t1}
  WorkspaceCount = 2
  Output = {o1}
  NULL = NULL
SYMMETRY Symmetric
INVARIANT TiledXorFloating
