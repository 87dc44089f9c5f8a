CONSTANTS
  Users = {u}
  MaxTokens = 3
  Sessions = {s1, s2}
  Lifetime = 1
  MaxTime = 3
  NoToken = none
  Nobody = nobody
SPECIFICATION Spec
INVARIANTS
  ReuseEndsSessions
CHECK_DEADLOCK FALSE
