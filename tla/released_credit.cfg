SPECIFICATION SpecSerial
CONSTANTS
  Bank = {b1, b2}
  Expense = {e1}
  MatchId = {m1, m2}
  Request = {r1}
  ExpenseAmount <- MCExpenseAmount
  BankAmounts = {1, 2}
  MatchAmounts = {2}
  NoBank = NoBank
SYMMETRY Symmetry
INVARIANTS CreditBacked

