SPECIFICATION RTSpec
CONSTANTS
  Window = {a, b, c, d}
  Floaters = {}
  Workspace = {ws1}
  Node = {1, 2, 3, 4, 5, 6, 7}
  NULL = NULL
  Heads <- Lowest
VIEW UpToNumberingAndCaches
ACTION_CONSTRAINT FloatsAreUndone
PROPERTY RoundTripUnlessNestedAlike
