SPECIFICATION Spec
CONSTANTS
  Window = {t1, t2}
  XWayland = {t2}
  EarlyFullscreen = {}
  WorkspaceCount = 2
  Output = {o1}
  NULL = NULL
SYMMETRY Symmetric
VIEW UpToUnread
INVARIANTS
  ListsConsistent
  TreeMatchesList
  PointersLive
  KeyboardIsFocused
  DisplayedVisible
  MonocleShowsOne
