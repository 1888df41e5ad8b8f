SPECIFICATION Spec
CONSTANTS
  Watched = {"network"}
  MaxRetries = 1
PROPERTY TermEndsBar
