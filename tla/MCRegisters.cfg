CONSTANTS
  card = card
  food = food
  market = market
  salary = salary
  c4 = c4
  c5 = c5
  shop = shop
  buy = buy
  envelope = envelope
  oldCard = oldCard
  oldFood = oldFood
  oldMarket = oldMarket
  oldShop = oldShop
  oldBuy = oldBuy
  oldDue = oldDue
  oldRent = oldRent
  oldPlan = oldPlan
  oldGoal = oldGoal
  None = None
  Sessions = {s1, s2}
  AccountIds = {card, a2}
  CategoryIds = {food, market, salary, c4, c5}
  PayeeIds = {shop, p2}
  OperationIds = {buy, o2}
  ItemIds = {i1, i2}
  PlanIds = {envelope, b2}
  GoalIds = {g1}
  Names = {"food", "market"}
  Keys = {"shop", "ozon"}
  Months = {1, 2}
  Now = 2
  Debt = 1
  MaxRequests = 3
  Currencies = {"RUB"}
  Codes = {"RUB", "XXX"}
  Balances = {0}
  ExpenseTree <- MCExpenseTree
  IncomeTree <- MCIncomeTree
  Spellings = {"SHOP", "ozon"}
  PayeeKey <- MCPayeeKey
  Marketplaces = {"ozon"}
  Records <- MCRecords
  Amounts = {1}
  GoalRequests <- MCGoalRequests
  Starts <- MCStarts
  Elsewhere <- MCElsewhere
  Backups <- MCBackups
SPECIFICATION Spec
SYMMETRY MCSymmetry
INVARIANTS
  TypeOK
  RowsAgree
  KeptOneByOne
  FiguresAgree
PROPERTIES
  ChecksStillHold
  FiguresFollow
CHECK_DEADLOCK FALSE
