CONSTANTS
  card = card
  cash = cash
  deposit = deposit
  Accounts = {card, cash, deposit}
  Names = {"card", "visa", "cash", "deposit"}
  Transfers = {t1}
  Fees = {f1, f2, f3}
  Sessions = {s1, s2}
  Requests <- MCRequests
  Nothing = Nothing
SPECIFICATION Spec
SYMMETRY MCSymmetry
INVARIANTS
  TypeOK
  NothingLeftBehind
  LegsMirror
  AsAsked
CHECK_DEADLOCK FALSE
