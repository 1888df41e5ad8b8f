SPECIFICATION Spec
CONSTANTS
  Pid = {p1, p2}
  MaxChildren = 1
  GraceTries = 1
  NoPid = NoPid
  Exe = {e1}
  MaxCrashRestarts = 2
  NoExe = NoExe
  Key = {a, b, c}
  Bound = {a, b}
  Logo = Logo
  NoKey = NoKey
  InputMax = 3
  MaxScoreResults = 3
  MaxEntries = 2
  MaxItems = 2
  Watched = {"network"}
  MaxRetries = 1
  Window = {w1, w2}
  X11 = {w2}
  Workspace = {s1, s2}
  Layer = {"panel", "launcher"}
  Output = {o1, o2}
  Primary = o1
  None = None
  XSurface = {x1, x2}
  Object = {m1, m2}
  ThermalZones = 2
  Hour = 3
  Load = 2
  Wrap = 64
  Spaces = 2
  Buffers = 1
  Widths = {13, 20}
  Unused = Unused
INVARIANTS
  TypesOK
  TableTracksChildren
  NothingOutlives
  OneInstance
  RepeatsWhatIsHeld
  NoStuckKey
  ShowsBestMatches
  SelectionIsAResult
  NoChangeIsLost
  KeyboardComesBack
  TypingGoesToFocused
  BarIsTold
  SizesAreSent
  XPointersLive
  FrameMarksFocus
  ReadingsAreCurrent
  ScreenIsCurrent
PROPERTIES
  CrashLoopReachesExec
  RepeatEnds
  TearDownInOrder
