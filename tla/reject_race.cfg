SPECIFICATION Spec
CONSTANTS
  Bank = {b1, b2}
  Expense = {e1}
  MatchId = {m1, m2}
  Request = {r1, r2}
  ExpenseAmount <- MCExpenseAmount
  BankAmounts = {1, 2}
  MatchAmounts = {2}
  NoBank = NoBank
SYMMETRY Symmetry

PROPERTIES ConfirmedNotRejected
