CONSTANTS
  Accounts = {a, b}
  Rows = {r1, r2}
  Sessions = {s1, s2}
  Moments = {1, 2}
  Amounts = {1}
  Statements = {1}
  Opening <- MCOpening
  MaxReconciliations = 2
  Nobody = nobody
  NoRequest = none
SPECIFICATION Spec
SYMMETRY MCSymmetry
INVARIANTS
  TypeOK
  CountStillHolds
  StampsHold
PROPERTIES
  ClosesTheDifference
  AdjustmentsNotBackdated
CHECK_DEADLOCK FALSE
