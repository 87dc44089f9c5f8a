----------------------------- MODULE MCRegisters -----------------------------
(* The registers on a small instance: the owner has an account with an       *)
(* operation on it, one branch of categories and one income, a payee with    *)
(* that operation, and a plan for the branch.                                *)
EXTENDS Registers, TLC

CONSTANTS
  card, food, market, salary, c4, c5, shop, buy, envelope,
  oldCard, oldFood, oldMarket, oldShop, oldBuy, oldDue, oldRent, oldPlan, oldGoal

MCExpenseTree == food :> [name |-> "food", children |-> market :> "market"]
MCIncomeTree == salary :> "market"

MCEstablished ==
  [Nowhere EXCEPT
     !.accounts = card :> [name |-> "food", initial |-> 3, archived |-> FALSE],
     !.payees = shop :> [key |-> "shop", last |-> market, varied |-> FALSE],
     !.operations = buy :> [account |-> card, kind |-> "expense", amount |-> -3,
                            category |-> market, payee |-> shop, required |-> TRUE,
                            month |-> 1],
     !.plans = envelope :> [month |-> 1, category |-> food, planned |-> 2,
                            rollover |-> TRUE]]

MCPayeeKey == [s \in Spellings |-> IF s = "SHOP" THEN "shop" ELSE s]

MCRecord(kind, category, payee) ==
  [account |-> card, kind |-> kind, amount |-> 1, category |-> category,
   payee |-> payee, required |-> TRUE, month |-> 2]

MCRecords ==
  {MCRecord("expense", food, "ozon"), MCRecord("refund", market, "SHOP"),
   MCRecord("loan", None, None)}

MCGoalRequests == {[kind |-> "by_date", amount |-> 2, due |-> 2]}

MCStarts == {MCEstablished, Nowhere}

\* What a backup is made of: a branch, one expense, a payment of a credit, a
\* payee, an item, a plan and a goal.
MCOldTables(archived) ==
  [accounts |-> oldCard :> [name |-> "market", initial |-> 3, archived |-> FALSE],
   categories |->
     oldFood :> DefaultRow("food", "expense", None)
       @@ oldMarket :> DefaultRow("market", "expense", oldFood),
   payees |-> oldShop :> [key |-> "shop", last |-> oldMarket, varied |-> FALSE],
   operations |->
     oldBuy :> [account |-> oldCard, kind |-> "expense", amount |-> -3,
                category |-> oldMarket, payee |-> oldShop, required |-> TRUE, month |-> 2]
       @@ oldDue :> [account |-> oldCard, kind |-> "credit_payment", amount |-> -1,
                     category |-> None, payee |-> None, required |-> FALSE, month |-> 2],
   items |-> oldRent :> [category |-> oldFood, monthly |-> 2, archived |-> archived],
   plans |-> oldPlan :> [month |-> 2, category |-> oldFood, planned |-> 4, rollover |-> TRUE],
   goals |-> oldGoal :> [category |-> oldMarket, kind |-> "by_date", amount |-> 2, due |-> 2]]

MCElsewhere == {MCOldTables(FALSE)}

\* Whole, of version 1, with a currency that is not known, and damaged.
MCBackups ==
  LET made == {Exported(tables) : tables \in Elsewhere}
  IN made \cup {VersionOne(b) : b \in made}
       \cup {[b EXCEPT !.codes = Codes] : b \in made}
       \cup {[b EXCEPT !.tables.accounts = <<>>] : b \in made}

MCElsewhereArchived == {MCOldTables(TRUE)}

MCSymmetry == Permutations(Sessions) \cup Permutations(ItemIds) \cup Permutations({c4, c5})
=============================================================================
