SPECIFICATION SpecSerial
CONSTANTS
  Bank = {b1, b2, b3}
  Expense = {e1, e2}
  MatchId = {m1, m2}
  Request = {r1}
  ExpenseAmount <- MCExpenseAmount
  BankAmounts = {1, 2}
  MatchAmounts = {1, 2}
  NoBank = NoBank
SYMMETRY Symmetry
INVARIANTS PaymentsCredited MatchedAmountExact ExpenseStatusExact ClosedBooksBacked
PROPERTIES CompletedReadOnly
