SPECIFICATION SpecSerial
CONSTANTS
  Bank = {b1, b2}
  Channel = {c1, c2}
  LastDay = 2
  Record = {x1, x2}
  MatchId = {m1, m2, m3}
  Request = {r1}
  BankAmount <- MCBankAmount
  NetAmount <- MCNetAmount
  MatchAmounts = {1, 2}
SYMMETRY Symmetry
CONSTRAINT Small
INVARIANTS TypeOK CreditExact ClosedNothingPending
PROPERTIES BatchTakesFreeRecords
