CONSTANTS
  Callers = {c1, c2}
  Keys = {k1}
  Arguments = {a1, a2}
  ReplayTTL = 3
  ConnectionTTL = 3
  Patience = 1
  MaxTime = 4
  MaxObjects = 2
  MaxPosts = 3
  Nobody = nobody
  None = none
SPECIFICATION Spec
SYMMETRY MCSymmetry
INVARIANTS
  OneWriteAtATime
  AnsweredWriteNotRepeated
  AnswersTheCall
