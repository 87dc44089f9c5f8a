CONSTANTS
  CreditIds = {c}
  Payments = {p1, p2}
  Operations = {o1, o2}
  Sessions = {s1, s2}
  Principals = {0, 1, 2}
  Charges = {0, 1}
  Initials = {1, 2}
  MaxDebt = 4
  Nothing = nothing
SPECIFICATION Spec
SYMMETRY MCSymmetry
INVARIANTS
  TypeOK
  DebtMatchesUnlessRaced
  DebtNeverNegative
  PaymentsMatchOperations
CHECK_DEADLOCK FALSE
