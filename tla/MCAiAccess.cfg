CONSTANTS
  c1 = c1
  own = own
  Codes = {k1}
  Connections = {c1, own}
  Personal = {own}
  Asked <- MCAsked
  Pairs = {p1, p2}
  AccessLifetime = 1
  Window = 1
  PerMinute = 1
  CacheSeconds = 2
  MaxCached = 1
  Patience = 2
  Elsewhere = {own}
  Tried <- MCTried
  Requests = {r1, r2}
  LastMoment = 3
  None = None
SPECIFICATION AccessSpec
SYMMETRY MCSymmetry
INVARIANTS
  RefusedForACause
PROPERTY RevocationRunsOut
CHECK_DEADLOCK FALSE
