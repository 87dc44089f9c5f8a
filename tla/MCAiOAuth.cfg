CONSTANTS
  Codes = {k1, k2}
  MaxConnections = 2
  MaxTokens = 3
  Sessions = {s1, s2}
  CodeLifetime = 1
  TokenLifetime = 2
  MaxTime = 3
  Nobody = nobody
  Nothing = nothing
SPECIFICATION Spec
SYMMETRY MCSymmetry
INVARIANTS
  ReplayEndsConnection
PROPERTY GivesWhatIsPromised
CHECK_DEADLOCK FALSE
