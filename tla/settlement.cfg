SPECIFICATION Spec
CONSTANTS
  Bank = {b1, b2, b3}
  Expense = {e1}
  MatchId = {m1, m2}
  Request = {r1, r2}
  ExpenseAmount <- MCExpenseAmount
  BankAmounts = {2}
  MatchAmounts = {2}
  NoBank = NoBank
SYMMETRY Symmetry
INVARIANTS TypeOK ReservedNotMatched SettlementsAreStars SettlementRowsPinned MoneyUsedOnce
