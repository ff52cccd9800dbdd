SPECIFICATION Spec
CONSTANTS
  Bank = {b1}
  Channel = {c1, c2}
  LastDay = 2
  Record = {x1, x2}
  MatchId = {m1, m2}
  Request = {r1, r2}
  BankAmount <- MCBankAmount
  NetAmount <- MCNetAmount
  MatchAmounts = {1, 2, 3}
SYMMETRY Symmetry
INVARIANTS CreditExact
