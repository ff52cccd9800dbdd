----------------------- MODULE ReconciliationProofs -----------------------
(***************************************************************************)
(* Proofs about Reconciliation for any number of bank rows, expenses,      *)
(* matches and requests: types and settlement however the requests         *)
(* overlap, then the amounts when they do not.                             *)
(***************************************************************************)
EXTENDS Reconciliation, Sums

\* The settlement invariants support each other: none of them is inductive alone.
Settled ==
  /\ ReservedNotMatched
  /\ SettlementsAreStars
  /\ SettlementRowsPinned
  /\ MoneyUsedOnce
  /\ PaymentsCredited

IInv == TypeOK /\ Settled

\* What a step does to the match table: rows stay on their bank row, and are well formed.
RowsKept ==
  \A m \in Rows(match) : m \in Rows(match') /\ match'[m].bank = match[m].bank
RowsTyped ==
  /\ DOMAIN match = MatchId
  /\ \A m \in Rows(match) : /\ match[m].bank \in Bank
                            /\ match[m].expense \in Expense
                            /\ match[m].status \in MatchStatus
-----------------------------------------------------------------------------
(* Types. *)

LEMMA InitTypeOK == Init => TypeOK
  BY NullAssumption
  DEF Init, TypeOK, BankTypeOK, MatchTypeOK, SettlementTypeOK, RequestTypeOK,
      Rows, NoMatch, Idle, Holds

\* Giving up or finishing a request leaves the others' copies valid as long as every
\* row that existed still exists on its bank row.
LEMMA FinishTypeOK ==
  ASSUME RequestTypeOK, NEW r \in Request, Finish(r), RowsKept
  PROVE  RequestTypeOK'
<1>1. DOMAIN request' = Request
  BY DEF Finish, RequestTypeOK
<1>2. ASSUME NEW q \in Request
      PROVE  request'[q] = Idle \/ request'[q] = request[q]
  BY <1>2 DEF Finish, RequestTypeOK
<1>3. QED
  BY <1>1, <1>2 DEF RequestTypeOK, Holds, Idle, RowsKept

LEMMA KeptRequestTypeOK ==
  ASSUME RequestTypeOK, UNCHANGED request, RowsKept
  PROVE  RequestTypeOK'
  BY DEF RequestTypeOK, Holds, RowsKept

\* Changing one row of the match table without moving it to another bank row.
LEMMA RowWritten ==
  ASSUME MatchTypeOK, NEW m \in MatchId, NEW b \in Bank, NEW e \in Expense, NEW a,
         NEW st \in MatchStatus,
         m \in Rows(match) => match[m].bank = b,
         match' = [match EXCEPT ![m] = MatchRow(b, e, a, st)]
  PROVE  /\ RowsKept /\ RowsTyped'
         /\ Rows(match') = Rows(match) \cup {m}
         /\ \A n \in MatchId \ {m} : match'[n] = match[n]
         /\ match'[m].status = st
         /\ match'[m].bank = b
<1>1. /\ DOMAIN match' = MatchId
      /\ match'[m] = MatchRow(b, e, a, st)
      /\ \A n \in MatchId \ {m} : match'[n] = match[n]
  BY DEF MatchTypeOK
<1>2. match'[m].status = st /\ match'[m].bank = b /\ match'[m].expense = e
  BY <1>1 DEF MatchRow
<1>3. st # "none"
  BY DEF MatchStatus
<1>4. Rows(match') = Rows(match) \cup {m}
  BY <1>1, <1>2, <1>3 DEF Rows
<1>5. QED
  BY <1>1, <1>2, <1>4 DEF MatchTypeOK, Rows, RowsKept, RowsTyped

LEMMA RefreshedExpenses ==
  ASSUME NEW mt, NEW es, RefreshExpenses(mt, es),
         expenseStatus \in [Expense -> {"unpaid", "partial_paid", "paid"}]
  PROVE  expenseStatus' \in [Expense -> {"unpaid", "partial_paid", "paid"}]
  BY DEF RefreshExpenses, StatusFor

LEMMA LoadTypeOK == TypeOK /\ Load => TypeOK'
<1> SUFFICES ASSUME TypeOK, NEW r \in Request,
                    \/ \E m \in MatchId : LoadMatch(r, m)
                    \/ \E b \in Bank : LoadBank(r, b)
                    \/ \E bs \in SUBSET Bank \ {{}} : LoadBatch(r, bs)
                    \/ LoadLedger(r)
             PROVE  TypeOK'
  BY DEF Load
<1>1. PICK copy : /\ Loaded(r, copy)
                  /\ copy.kind \in {"match", "bank", "batch", "ledger"}
                  /\ copy.kind = "match" => /\ copy.id \in Rows(match)
                                            /\ copy.row = match[copy.id]
                  /\ copy.kind = "bank" => copy.bank \in Bank
                  /\ copy.kind = "batch" => copy.banks \subseteq Bank
  <2>1. CASE \E m \in MatchId : LoadMatch(r, m)
    <3> PICK m \in MatchId : LoadMatch(r, m)
      BY <2>1
    <3> WITNESS [kind |-> "match", id |-> m, row |-> match[m]]
    <3> QED  BY DEF LoadMatch
  <2>2. CASE \E b \in Bank : LoadBank(r, b)
    <3> PICK b \in Bank : LoadBank(r, b)
      BY <2>2
    <3> WITNESS [kind |-> "bank", bank |-> b, unmatched |-> matchedAmount[b] = 0]
    <3> QED  BY DEF LoadBank
  <2>3. CASE \E bs \in SUBSET Bank \ {{}} : LoadBatch(r, bs)
    <3> PICK bs \in SUBSET Bank \ {{}} : LoadBatch(r, bs)
      BY <2>3
    <3> WITNESS [kind |-> "batch", banks |-> bs]
    <3> QED  BY DEF LoadBatch
  <2>4. CASE LoadLedger(r)
    <3> WITNESS [kind |-> "ledger"]
    <3> QED  BY <2>4 DEF LoadLedger
  <2>5. QED
    BY <2>1, <2>2, <2>3, <2>4
<1>2. BankTypeOK' /\ MatchTypeOK' /\ SettlementTypeOK'
  BY <1>1 DEF Loaded, TypeOK, BankTypeOK, MatchTypeOK, SettlementTypeOK, Rows,
              bankVars, matchVars, settlementVars
<1>3. RequestTypeOK'
  <2>1. /\ DOMAIN request' = Request
        /\ request'[r] = copy
        /\ \A q \in Request \ {r} : request'[q] = request[q]
    BY <1>1 DEF Loaded, TypeOK, RequestTypeOK
  <2>2. Rows(match') = Rows(match) /\ match' = match
    BY <1>1 DEF Loaded, Rows, matchVars
  <2>3. copy.kind = "match" => copy.row.expense \in Expense
    BY <1>1 DEF TypeOK, MatchTypeOK
  <2>4. QED
    BY <1>1, <2>1, <2>2, <2>3 DEF RequestTypeOK, Holds, TypeOK
<1>4. QED
  BY <1>2, <1>3 DEF TypeOK

\* The match a request has loaded, as it is now.
LEMMA LoadedMatch ==
  ASSUME TypeOK, NEW r \in Request, Holds(r, "match")
  PROVE  LET m == request[r].id
             row == request[r].row
         IN /\ m \in Rows(match) /\ m \in MatchId
            /\ row.bank = match[m].bank /\ row.bank \in Bank
            /\ row.expense \in Expense
            /\ match[m].expense \in Expense /\ match[m].status \in MatchStatus
  BY DEF TypeOK, RequestTypeOK, MatchTypeOK, Rows

LEMMA MatchingTypeOK ==
  ASSUME TypeOK, NEW r \in Request,
         \/ ConfirmMatch(r) \/ RejectMatch(r)
         \/ \E e \in Expense, a \in MatchAmounts :
              CreateMatchCandidate(r, e, a) \/ UpdateReconciliationRecord(r, e, a)
  PROVE  TypeOK'
<1> DEFINE m == request[r].id
           row == request[r].row
<1>1. CASE ConfirmMatch(r)
  <2>1. /\ m \in MatchId /\ m \in Rows(match)
        /\ match[m].bank \in Bank /\ match[m].expense \in Expense
    BY <1>1, LoadedMatch DEF ConfirmMatch
  <2>2. match' = [match EXCEPT ![m] =
                    MatchRow(match[m].bank, match[m].expense, match[m].amount, "confirmed")]
    BY <1>1 DEF ConfirmMatch, WithStatus
  <2>3. RowsKept /\ RowsTyped'
    BY <2>1, <2>2, RowWritten DEF TypeOK, MatchStatus
  <2>4. expenseStatus' \in [Expense -> {"unpaid", "partial_paid", "paid"}]
    BY <1>1 DEF ConfirmMatch, TypeOK, MatchTypeOK
  <2>5. RequestTypeOK'
    BY <1>1, <2>3, FinishTypeOK DEF ConfirmMatch, TypeOK
  <2>6. QED
    BY <1>1, <2>3, <2>4, <2>5
    DEF ConfirmMatch, TypeOK, BankTypeOK, MatchTypeOK, RowsTyped, SettlementTypeOK,
        settlementVars
<1>2. CASE RejectMatch(r)
  <2>1. /\ m \in MatchId /\ m \in Rows(match)
        /\ match[m].bank \in Bank /\ match[m].expense \in Expense
    BY <1>2, LoadedMatch DEF RejectMatch
  <2>2. match' = [match EXCEPT ![m] =
                    MatchRow(match[m].bank, match[m].expense, match[m].amount, "rejected")]
    BY <1>2 DEF RejectMatch, WithStatus
  <2>3. RowsKept /\ RowsTyped'
    BY <2>1, <2>2, RowWritten DEF TypeOK, MatchStatus
  <2>4. RequestTypeOK'
    BY <1>2, <2>3, FinishTypeOK DEF RejectMatch, TypeOK
  <2>5. QED
    BY <1>2, <2>3, <2>4
    DEF RejectMatch, TypeOK, BankTypeOK, MatchTypeOK, RowsTyped, SettlementTypeOK,
        bankVars, settlementVars
<1>3. ASSUME NEW e \in Expense, NEW a \in MatchAmounts, CreateMatchCandidate(r, e, a)
      PROVE  TypeOK'
  <2> DEFINE b == request[r].bank
             pair == {n \in RowsOf(match, b) : match[n].expense = e}
  <2>1. b \in Bank
    BY <1>3 DEF CreateMatchCandidate, TypeOK, RequestTypeOK
  <2>2. PICK n \in IF pair # {} THEN pair ELSE MatchId \ Rows(match) :
          match' = [match EXCEPT ![n] = MatchRow(b, e, a, "candidate")]
    BY <1>3 DEF CreateMatchCandidate, NewCandidate
  <2>3. n \in MatchId /\ (n \in Rows(match) => match[n].bank = b)
    BY <2>2 DEF RowsOf, Rows
  <2>4. RowsKept /\ RowsTyped'
    BY <2>1, <2>2, <2>3, RowWritten DEF TypeOK, MatchStatus
  <2>5. RequestTypeOK'
    BY <1>3, <2>4, FinishTypeOK DEF CreateMatchCandidate, TypeOK
  <2>6. QED
    BY <1>3, <2>4, <2>5
    DEF CreateMatchCandidate, TypeOK, BankTypeOK, MatchTypeOK, RowsTyped,
        SettlementTypeOK, bankVars, settlementVars
<1>4. ASSUME NEW e \in Expense, NEW a \in MatchAmounts, UpdateReconciliationRecord(r, e, a)
      PROVE  TypeOK'
  <2>1. /\ m \in MatchId /\ m \in Rows(match)
        /\ match[m].bank \in Bank /\ match[m].expense \in Expense
        /\ match[m].status \in MatchStatus
    BY <1>4, LoadedMatch DEF UpdateReconciliationRecord
  <2> DEFINE f == IF e # row.expense THEN e ELSE match[m].expense
             c == IF a # row.amount THEN a ELSE match[m].amount
  <2>2. /\ match' = [match EXCEPT ![m] = MatchRow(match[m].bank, f, c, match[m].status)]
        /\ f \in Expense
    BY <1>4, <2>1 DEF UpdateReconciliationRecord
  <2> HIDE DEF f, c
  <2>3. expenseStatus' \in [Expense -> {"unpaid", "partial_paid", "paid"}]
    BY <1>4, RefreshedExpenses DEF UpdateReconciliationRecord, TypeOK, MatchTypeOK
  <2>4. RowsKept /\ RowsTyped'
    BY <2>1, <2>2, RowWritten DEF TypeOK
  <2>5. RequestTypeOK'
    BY <1>4, <2>4, FinishTypeOK DEF UpdateReconciliationRecord, TypeOK
  <2>6. DOMAIN matchedAmount' = Bank
    BY <1>4 DEF UpdateReconciliationRecord, RefreshBank, TypeOK, BankTypeOK
  <2>7. QED
    BY <1>4, <2>3, <2>4, <2>5, <2>6
    DEF UpdateReconciliationRecord, TypeOK, BankTypeOK, MatchTypeOK, RowsTyped,
        SettlementTypeOK, settlementVars
<1>5. QED
  BY <1>1, <1>2, <1>3, <1>4

LEMMA BankTypeStep ==
  ASSUME TypeOK, NEW r \in Request,
         \/ Abort(r)
         \/ \E b \in Bank, a \in BankAmounts, p \in {"paid", "unpaid"} :
              CreateBankTransaction(r, b, a, p)
         \/ DeleteBankTransaction(r)
         \/ DeleteBankTransactionsBatch(r)
  PROVE  TypeOK'
<1>1. match' = match /\ expenseStatus' = expenseStatus
  BY DEF Abort, CreateBankTransaction, DeleteBankTransaction,
         DeleteBankTransactionsBatch, matchVars
<1>2. MatchTypeOK' /\ RowsKept
  BY <1>1 DEF TypeOK, MatchTypeOK, RowsKept, Rows
<1>3. Finish(r)
  BY DEF Abort, CreateBankTransaction, DeleteBankTransaction,
         DeleteBankTransactionsBatch, Finish
<1>4. RequestTypeOK'
  BY <1>2, <1>3, FinishTypeOK DEF TypeOK
<1>5. SettlementTypeOK'
  BY DEF Abort, CreateBankTransaction, DeleteBankTransaction,
         DeleteBankTransactionsBatch, TypeOK, SettlementTypeOK, settlementVars
<1>6. BankTypeOK'
  <2>1. CASE Abort(r)
    BY <2>1 DEF Abort, TypeOK, BankTypeOK, bankVars
  <2>2. ASSUME NEW b \in Bank, NEW a \in BankAmounts, NEW p \in {"paid", "unpaid"},
               CreateBankTransaction(r, b, a, p)
        PROVE  BankTypeOK'
    BY <2>2, AmountsAssumption DEF CreateBankTransaction, TypeOK, BankTypeOK
  <2>3. CASE DeleteBankTransaction(r)
    BY <2>3 DEF DeleteBankTransaction, Removed, TypeOK, BankTypeOK
  <2>4. CASE DeleteBankTransactionsBatch(r)
    BY <2>4 DEF DeleteBankTransactionsBatch, Removed, TypeOK, BankTypeOK
  <2>5. QED
    BY <2>1, <2>2, <2>3, <2>4
<1>7. QED
  BY <1>2, <1>4, <1>5, <1>6 DEF TypeOK

\* AutoSuggestMatches only turns unused identifiers into candidates.
LEMMA Suggested ==
  ASSUME AutoSuggestMatches
  PROVE  \E picked \in SUBSET (MatchId \ Rows(match)) :
           /\ DOMAIN match' = MatchId
           /\ \A m \in MatchId \ picked : match'[m] = match[m]
           /\ \A m \in picked :
                \E b \in Bank, e \in Expense :
                  /\ Suggestible(b, e)
                  /\ match'[m].bank = b /\ match'[m].expense = e
                  /\ match'[m].status = "candidate"
<1>1. PICK picked \in SUBSET MatchId :
        /\ picked \cap Rows(match) = {}
        /\ \E bankOf \in [picked -> Bank], expenseOf \in [picked -> Expense] :
             /\ \A m \in picked : Suggestible(bankOf[m], expenseOf[m])
             /\ match' = [m \in MatchId |-> IF m \in picked
                  THEN NewCandidate(bankOf[m], expenseOf[m],
                         ExpenseAmount[expenseOf[m]]
                           - Total(match, ConfirmedFor(match, expenseOf[m])))
                  ELSE match[m]]
  BY DEF AutoSuggestMatches
<1>2. PICK bankOf \in [picked -> Bank], expenseOf \in [picked -> Expense] :
        /\ \A m \in picked : Suggestible(bankOf[m], expenseOf[m])
        /\ match' = [m \in MatchId |-> IF m \in picked
             THEN NewCandidate(bankOf[m], expenseOf[m],
                    ExpenseAmount[expenseOf[m]]
                      - Total(match, ConfirmedFor(match, expenseOf[m])))
             ELSE match[m]]
  BY <1>1
<1>3. \A m \in picked : /\ match'[m].bank = bankOf[m]
                        /\ match'[m].expense = expenseOf[m]
                        /\ match'[m].status = "candidate"
  BY <1>2 DEF NewCandidate, MatchRow
<1>4. QED
  BY <1>1, <1>2, <1>3

LEMMA LockedTypeOK == TypeOK /\ LockedFirst => TypeOK'
<1> SUFFICES ASSUME TypeOK, LockedFirst  PROVE TypeOK'
  OBVIOUS
<1>1. ASSUME NEW m \in MatchId, UnmatchReconciliationRecord(m)
      PROVE  TypeOK'
  <2>1. /\ m \in Rows(match)
        /\ match[m].bank \in Bank /\ match[m].expense \in Expense
    BY <1>1 DEF UnmatchReconciliationRecord, TypeOK, MatchTypeOK, Rows
  <2>2. match' = [match EXCEPT ![m] =
                    MatchRow(match[m].bank, match[m].expense, match[m].amount, "rejected")]
    BY <1>1 DEF UnmatchReconciliationRecord, WithStatus
  <2>3. RowsKept /\ RowsTyped'
    BY <2>1, <2>2, RowWritten DEF TypeOK, MatchStatus
  <2>4. expenseStatus' \in [Expense -> {"unpaid", "partial_paid", "paid"}]
    BY <1>1, RefreshedExpenses DEF UnmatchReconciliationRecord, TypeOK, MatchTypeOK
  <2>5. DOMAIN matchedAmount' = Bank
    BY <1>1 DEF UnmatchReconciliationRecord, RefreshBank, TypeOK, BankTypeOK
  <2>6. RequestTypeOK'
    BY <1>1, <2>3, KeptRequestTypeOK DEF UnmatchReconciliationRecord, TypeOK
  <2>7. QED
    BY <1>1, <2>3, <2>4, <2>5, <2>6
    DEF UnmatchReconciliationRecord, TypeOK, BankTypeOK, MatchTypeOK, RowsTyped,
        SettlementTypeOK, settlementVars
<1>2. CASE AutoSuggestMatches
  <2>1. RowsKept /\ RowsTyped'
    BY <1>2, Suggested DEF TypeOK, MatchTypeOK, RowsKept, RowsTyped, Rows, MatchStatus
  <2>2. UNCHANGED <<bankVars, expenseStatus, settlementVars, ledger, request>>
    BY <1>2 DEF AutoSuggestMatches
  <2>3. RequestTypeOK'
    BY <2>1, <2>2, KeptRequestTypeOK DEF TypeOK
  <2>4. QED
    BY <2>1, <2>2, <2>3 DEF TypeOK, BankTypeOK, MatchTypeOK, RowsTyped,
                            SettlementTypeOK, bankVars, settlementVars
<1>3. ASSUME UNCHANGED <<match, request>>
      PROVE  RequestTypeOK' /\ RowsTyped'
  BY <1>3, KeptRequestTypeOK DEF TypeOK, MatchTypeOK, RowsKept, RowsTyped, Rows
<1>4. ASSUME NEW s \in Bank, NEW bs \in SUBSET Bank, AddLinks(s, bs)
      PROVE  TypeOK'
  BY <1>3, <1>4 DEF AddLinks, TypeOK, BankTypeOK, MatchTypeOK, SettlementTypeOK,
                    RowsTyped, bankVars, matchVars
<1>5. ASSUME NEW s \in Bank, NEW b \in Bank, RemoveLink(s, b)
      PROVE  TypeOK'
  BY <1>3, <1>5 DEF RemoveLink, TypeOK, BankTypeOK, MatchTypeOK, SettlementTypeOK,
                    RowsTyped, bankVars, matchVars
<1>6. ASSUME NEW s \in Bank, NEW c \in BOOLEAN, Complete(s, c)
      PROVE  TypeOK'
  <2>1. expenseStatus' \in [Expense -> {"unpaid", "partial_paid", "paid"}]
    BY <1>6, RefreshedExpenses DEF Complete, TypeOK, MatchTypeOK
  <2>2. QED
    BY <1>3, <1>6, <2>1 DEF Complete, Credited, TypeOK, BankTypeOK, MatchTypeOK,
                            SettlementTypeOK, RowsTyped
<1>7. ASSUME NEW b \in Bank, NEW a \in BankAmounts, NEW p \in {"paid", "unpaid"},
             UpdateBankTransaction(b, a, p)
      PROVE  TypeOK'
  BY <1>3, <1>7, AmountsAssumption
  DEF UpdateBankTransaction, TypeOK, BankTypeOK, MatchTypeOK, SettlementTypeOK,
      RowsTyped, matchVars, settlementVars
<1>8. CASE CloseLedger \/ ReopenLedger
  BY <1>3, <1>8 DEF CloseLedger, ReopenLedger, TypeOK, BankTypeOK, MatchTypeOK,
                    SettlementTypeOK, RowsTyped, bankVars, matchVars, settlementVars
<1>9. QED
  BY <1>1, <1>2, <1>4, <1>5, <1>6, <1>7, <1>8 DEF LockedFirst

LEMMA NextTypeOK == TypeOK /\ [Next]_vars => TypeOK'
<1>1. TypeOK /\ Respond => TypeOK'
  <2> SUFFICES ASSUME TypeOK, NEW r \in Request,
                 \/ \/ ConfirmMatch(r) \/ RejectMatch(r)
                    \/ \E e \in Expense, a \in MatchAmounts :
                         CreateMatchCandidate(r, e, a) \/ UpdateReconciliationRecord(r, e, a)
                 \/ \/ Abort(r)
                    \/ \E b \in Bank, a \in BankAmounts, p \in {"paid", "unpaid"} :
                         CreateBankTransaction(r, b, a, p)
                    \/ DeleteBankTransaction(r)
                    \/ DeleteBankTransactionsBatch(r)
               PROVE  TypeOK'
    BY DEF Respond
  <2> QED
    BY MatchingTypeOK, BankTypeStep
<1>2. TypeOK /\ UNCHANGED vars => TypeOK'
  BY DEF TypeOK, BankTypeOK, MatchTypeOK, SettlementTypeOK, RequestTypeOK, Rows, Holds,
         vars, bankVars, matchVars, settlementVars
<1>3. QED
  BY <1>1, <1>2, LoadTypeOK, LockedTypeOK DEF Next

\* Every variable keeps its type and no handler ever loses or moves a match row that a
\* request in progress has already read.
THEOREM TypeCorrect == Spec => []TypeOK
<1>1. QED
  BY InitTypeOK, NextTypeOK, PTL DEF Spec
-----------------------------------------------------------------------------
(* Settlement. *)

\* A row whose matching is allowed is no source of a settlement; if it is a payment, its
\* settlement is completed and the source no longer carries a match.
LEMMA AllowedIsFree ==
  ASSUME TypeOK, SettlementsAreStars, NEW b \in Bank, MatchingAllowed(b)
  PROVE  /\ settlement[b] = "none"
         /\ \A x \in Bank : link[x] # b
         /\ link[b] # NoBank => /\ link[b] \in Bank \ {b}
                                /\ settlement[link[b]] = "completed"
                                /\ ConfirmedOn(match, link[b]) = {}
<1>1. settlement[b] \in {"none", "open", "completed"} /\ link[b] \in Bank \cup {NoBank}
  BY DEF TypeOK, SettlementTypeOK
<1>2. settlement[b] = "none"
  BY <1>1 DEF MatchingAllowed, SourceReserved, SettlementsAreStars
<1>3. \A x \in Bank : link[x] # b
  BY <1>2, NullAssumption DEF SettlementsAreStars
<1>4. link[b] # NoBank => settlement[link[b]] = "completed"
  BY <1>1 DEF MatchingAllowed, SettlementsAreStars, TypeOK, SettlementTypeOK
<1>5. QED
  BY <1>1, <1>2, <1>3, <1>4 DEF MatchingAllowed

\* The rows of b are the same, in the same status, after the step.
SameRows(b) ==
  /\ RowsOf(match', b) = RowsOf(match, b)
  /\ \A m \in RowsOf(match, b) : match'[m].status = match[m].status

LEMMA SameRowsSameQueries ==
  ASSUME NEW b \in Bank, SameRows(b)
  PROVE  /\ ActiveOn(match', b) = ActiveOn(match, b)
         /\ Candidates(match', b) = Candidates(match, b)
         /\ ConfirmedOn(match', b) = ConfirmedOn(match, b)
  BY DEF SameRows, ActiveOn, Candidates, ConfirmedOn

\* Rows of a bank row whose matching is allowed may change in any way.
LEMMA FreeRowStep ==
  ASSUME TypeOK, Settled, NEW b0 \in Bank, MatchingAllowed(b0),
         \A b \in Bank \ {b0} : SameRows(b) /\ matchedAmount'[b] = matchedAmount[b],
         UNCHANGED <<bankState, bankAmount, paymentStatus, settlementVars>>
  PROVE  Settled'
<1>1. /\ settlement[b0] = "none"
      /\ \A x \in Bank : link[x] # b0
      /\ link[b0] # NoBank => /\ link[b0] \in Bank \ {b0}
                              /\ settlement[link[b0]] = "completed"
                              /\ ConfirmedOn(match, link[b0]) = {}
  BY AllowedIsFree DEF Settled
<1>2. \A b \in Bank \ {b0} : /\ ActiveOn(match', b) = ActiveOn(match, b)
                             /\ Candidates(match', b) = Candidates(match, b)
                             /\ ConfirmedOn(match', b) = ConfirmedOn(match, b)
  BY SameRowsSameQueries
<1>3. /\ \A b \in Bank : link[b] \in Bank \cup {NoBank}
      /\ settlement' = settlement /\ link' = link
      /\ \A b \in Bank : Linked(b)' = Linked(b)
  BY DEF TypeOK, SettlementTypeOK, settlementVars, Linked
<1>4. ReservedNotMatched'
  BY <1>1, <1>2, <1>3 DEF Settled, ReservedNotMatched
<1>5. SettlementsAreStars'
  BY <1>3 DEF Settled, SettlementsAreStars
<1>6. SettlementRowsPinned'
  BY <1>1, <1>2, <1>3 DEF Settled, SettlementRowsPinned
<1>7. MoneyUsedOnce'
  BY <1>1, <1>2, <1>3 DEF Settled, MoneyUsedOnce
<1>8. PaymentsCredited'
  BY <1>1, <1>2, <1>3 DEF Settled, PaymentsCredited
<1>9. QED
  BY <1>4, <1>5, <1>6, <1>7, <1>8 DEF Settled

LEMMA InitSettled == Init => Settled
  BY DEF Init, Settled, ReservedNotMatched, SettlementsAreStars, SettlementRowsPinned,
         MoneyUsedOnce, PaymentsCredited

\* Only the variables the settlement invariants do not read change.
LEMMA IdleStep ==
  ASSUME Settled, UNCHANGED <<bankVars, match, settlementVars>>
  PROVE  Settled'
  BY DEF Settled, ReservedNotMatched, SettlementsAreStars, SettlementRowsPinned,
         MoneyUsedOnce, PaymentsCredited, Linked, bankVars, settlementVars,
         ActiveOn, Candidates, ConfirmedOn, RowsOf, Rows

\* Rewriting one row of b0 leaves the rows of every other bank row alone.
LEMMA OneRowWritten ==
  ASSUME TypeOK, NEW m \in MatchId, NEW b0 \in Bank, NEW e \in Expense, NEW a,
         NEW st \in MatchStatus,
         m \in Rows(match) => match[m].bank = b0,
         match' = [match EXCEPT ![m] = MatchRow(b0, e, a, st)]
  PROVE  \A b \in Bank \ {b0} : SameRows(b)
<1>1. /\ Rows(match') = Rows(match) \cup {m}
      /\ \A n \in MatchId \ {m} : match'[n] = match[n]
      /\ match'[m].bank = b0
  BY RowWritten DEF TypeOK
<1>2. QED
  BY <1>1 DEF SameRows, RowsOf, Rows

LEMMA MatchingSettled ==
  ASSUME TypeOK, Settled, NEW r \in Request,
         \/ ConfirmMatch(r) \/ RejectMatch(r)
         \/ \E e \in Expense, a \in MatchAmounts :
              CreateMatchCandidate(r, e, a) \/ UpdateReconciliationRecord(r, e, a)
  PROVE  Settled'
<1> DEFINE m == request[r].id
           row == request[r].row
<1>1. CASE ConfirmMatch(r)
  <2>1. /\ m \in MatchId /\ match[m].bank = row.bank /\ row.bank \in Bank
        /\ match[m].expense \in Expense
    BY <1>1, LoadedMatch DEF ConfirmMatch
  <2>2. match' = [match EXCEPT ![m] =
                    MatchRow(row.bank, match[m].expense, match[m].amount, "confirmed")]
    BY <1>1, <2>1 DEF ConfirmMatch, WithStatus
  <2>3. \A b \in Bank \ {row.bank} : SameRows(b)
    BY <2>1, <2>2, OneRowWritten DEF MatchStatus
  <2>4. /\ MatchingAllowed(row.bank)
        /\ \A b \in Bank \ {row.bank} : matchedAmount'[b] = matchedAmount[b]
        /\ UNCHANGED <<bankState, bankAmount, paymentStatus, settlementVars>>
    BY <1>1 DEF ConfirmMatch, TypeOK, BankTypeOK
  <2>5. QED
    BY <2>1, <2>3, <2>4, FreeRowStep
<1>2. CASE RejectMatch(r)
  <2>1. /\ m \in MatchId /\ match[m].bank = row.bank /\ row.bank \in Bank
        /\ match[m].expense \in Expense
    BY <1>2, LoadedMatch DEF RejectMatch
  <2>2. match' = [match EXCEPT ![m] =
                    MatchRow(row.bank, match[m].expense, match[m].amount, "rejected")]
    BY <1>2, <2>1 DEF RejectMatch, WithStatus
  <2>3. \A b \in Bank \ {row.bank} : SameRows(b)
    BY <2>1, <2>2, OneRowWritten DEF MatchStatus
  <2>4. /\ MatchingAllowed(row.bank)
        /\ UNCHANGED <<bankVars, settlementVars>>
    BY <1>2 DEF RejectMatch
  <2>5. QED
    BY <2>1, <2>3, <2>4, FreeRowStep DEF bankVars
<1>3. ASSUME NEW e \in Expense, NEW a \in MatchAmounts, CreateMatchCandidate(r, e, a)
      PROVE  Settled'
  <2> DEFINE b0 == request[r].bank
             pair == {n \in RowsOf(match, b0) : match[n].expense = e}
  <2>1. b0 \in Bank
    BY <1>3 DEF CreateMatchCandidate, TypeOK, RequestTypeOK
  <2>2. PICK n \in IF pair # {} THEN pair ELSE MatchId \ Rows(match) :
          match' = [match EXCEPT ![n] = MatchRow(b0, e, a, "candidate")]
    BY <1>3 DEF CreateMatchCandidate, NewCandidate
  <2>3. n \in MatchId /\ (n \in Rows(match) => match[n].bank = b0)
    BY <2>2 DEF RowsOf, Rows
  <2>4. \A b \in Bank \ {b0} : SameRows(b)
    BY <2>1, <2>2, <2>3, OneRowWritten DEF MatchStatus
  <2>5. /\ MatchingAllowed(b0)
        /\ UNCHANGED <<bankVars, settlementVars>>
    BY <1>3 DEF CreateMatchCandidate
  <2>6. QED
    BY <2>1, <2>4, <2>5, FreeRowStep DEF bankVars
<1>4. ASSUME NEW e \in Expense, NEW a \in MatchAmounts, UpdateReconciliationRecord(r, e, a)
      PROVE  Settled'
  <2>1. /\ m \in MatchId /\ match[m].bank = row.bank /\ row.bank \in Bank
        /\ match[m].expense \in Expense /\ match[m].status \in MatchStatus
    BY <1>4, LoadedMatch DEF UpdateReconciliationRecord
  <2> DEFINE f == IF e # row.expense THEN e ELSE match[m].expense
             c == IF a # row.amount THEN a ELSE match[m].amount
  <2>2. /\ match' = [match EXCEPT ![m] = MatchRow(row.bank, f, c, match[m].status)]
        /\ f \in Expense
    BY <1>4, <2>1 DEF UpdateReconciliationRecord
  <2> HIDE DEF f, c
  <2>3. \A b \in Bank \ {row.bank} : SameRows(b)
    BY <2>1, <2>2, OneRowWritten
  <2>4. \A b \in Bank \ {row.bank} : matchedAmount'[b] = matchedAmount[b]
    BY <1>4 DEF UpdateReconciliationRecord, RefreshBank, TypeOK, BankTypeOK
  <2>5. /\ MatchingAllowed(row.bank)
        /\ UNCHANGED <<bankState, bankAmount, paymentStatus, settlementVars>>
    BY <1>4 DEF UpdateReconciliationRecord
  <2>6. QED
    BY <2>1, <2>3, <2>4, <2>5, FreeRowStep
<1>5. QED
  BY <1>1, <1>2, <1>3, <1>4

\* A confirmed match may be released on any row, even the source of a completed
\* settlement: the settled payments then keep their credit but owe it to nothing.
LEMMA UnmatchSettled ==
  ASSUME TypeOK, Settled, NEW m \in MatchId, UnmatchReconciliationRecord(m)
  PROVE  Settled'
<1> DEFINE b0 == match[m].bank
<1>1. m \in Rows(match) /\ b0 \in Bank /\ match[m].expense \in Expense
  BY DEF UnmatchReconciliationRecord, TypeOK, MatchTypeOK, Rows
<1>2. match' = [match EXCEPT ![m] =
                  MatchRow(b0, match[m].expense, match[m].amount, "rejected")]
  BY DEF UnmatchReconciliationRecord, WithStatus
<1>3. \A b \in Bank \ {b0} : SameRows(b)
  BY <1>1, <1>2, OneRowWritten DEF MatchStatus
<1>4. /\ Rows(match') = Rows(match)
      /\ \A n \in MatchId \ {m} : match'[n] = match[n]
      /\ match'[m].status = "rejected" /\ match'[m].bank = b0
  <2>1. "rejected" \in MatchStatus
    BY DEF MatchStatus
  <2>2. Rows(match') = Rows(match) \cup {m}
    BY <1>1, <1>2, <2>1, RowWritten DEF TypeOK
  <2>3. /\ \A n \in MatchId \ {m} : match'[n] = match[n]
        /\ match'[m].status = "rejected" /\ match'[m].bank = b0
    BY <1>1, <1>2 DEF MatchRow, TypeOK, MatchTypeOK
  <2>4. QED
    BY <1>1, <2>2, <2>3
<1>5. \A b \in Bank : /\ ActiveOn(match', b) \subseteq ActiveOn(match, b)
                      /\ Candidates(match', b) \subseteq Candidates(match, b)
                      /\ ConfirmedOn(match', b) \subseteq ConfirmedOn(match, b)
  BY <1>1, <1>4 DEF ActiveOn, Candidates, ConfirmedOn, RowsOf, Rows
<1>6. m \in ActiveOn(match, b0)
  BY <1>1 DEF UnmatchReconciliationRecord, ActiveOn, RowsOf
<1>7. /\ UNCHANGED <<bankState, bankAmount, paymentStatus, settlementVars>>
      /\ \A b \in Bank \ {b0} : matchedAmount'[b] = matchedAmount[b]
  BY DEF UnmatchReconciliationRecord, RefreshBank, TypeOK, BankTypeOK
<1>8. /\ settlement' = settlement /\ link' = link
      /\ \A b \in Bank : Linked(b)' = Linked(b) /\ link[b] \in Bank \cup {NoBank}
  BY <1>7 DEF settlementVars, Linked, TypeOK, SettlementTypeOK
<1>9. ReservedNotMatched' /\ MoneyUsedOnce'
  BY <1>5, <1>8 DEF Settled, ReservedNotMatched, MoneyUsedOnce
<1>10. SettlementsAreStars' /\ SettlementRowsPinned'
  BY <1>5, <1>7, <1>8 DEF Settled, SettlementsAreStars, SettlementRowsPinned
<1>11. PaymentsCredited'
  BY <1>5, <1>6, <1>7, <1>8 DEF Settled, PaymentsCredited, MoneyUsedOnce
<1>12. QED
  BY <1>9, <1>10, <1>11 DEF Settled

LEMMA SuggestSettled ==
  ASSUME TypeOK, Settled, AutoSuggestMatches
  PROVE  Settled'
<1>1. PICK picked \in SUBSET (MatchId \ Rows(match)) :
        /\ DOMAIN match' = MatchId
        /\ \A m \in MatchId \ picked : match'[m] = match[m]
        /\ \A m \in picked :
             \E b \in Bank, e \in Expense :
               /\ Suggestible(b, e)
               /\ match'[m].bank = b /\ match'[m].expense = e
               /\ match'[m].status = "candidate"
  BY Suggested
<1>2. UNCHANGED <<bankVars, settlementVars>>
  BY DEF AutoSuggestMatches
<1>3. ASSUME NEW b \in Bank, NEW e \in Expense, Suggestible(b, e)
      PROVE  /\ settlement[b] = "none"
             /\ link[b] # NoBank => /\ settlement[link[b]] = "completed"
                                    /\ ConfirmedOn(match, link[b]) = {}
  <2>1. settlement[b] = "none"
    BY <1>3 DEF Suggestible, SourceReserved, Settled, SettlementsAreStars, TypeOK,
                SettlementTypeOK
  <2>2. link[b] # NoBank => settlement[link[b]] = "completed"
    BY <1>3 DEF Suggestible, Settled, SettlementsAreStars, TypeOK, SettlementTypeOK
  <2>3. matchedAmount[b] # bankAmount[b]
    BY <1>3 DEF Suggestible, TypeOK, BankTypeOK
  <2>4. QED
    BY <2>1, <2>2, <2>3 DEF Settled, PaymentsCredited
<1>4. \A b \in Bank : (\A e \in Expense : ~Suggestible(b, e)) => SameRows(b)
  BY <1>1 DEF SameRows, RowsOf, Rows
<1>5. \A b \in Bank : ConfirmedOn(match', b) = ConfirmedOn(match, b)
  BY <1>1 DEF ConfirmedOn, RowsOf, Rows
<1>6. \A b \in Bank :
        \/ /\ ActiveOn(match', b) = ActiveOn(match, b)
           /\ Candidates(match', b) = Candidates(match, b)
        \/ /\ settlement[b] = "none"
           /\ link[b] # NoBank => /\ settlement[link[b]] = "completed"
                                  /\ ConfirmedOn(match, link[b]) = {}
  BY <1>3, <1>4, SameRowsSameQueries
<1>7. /\ settlement' = settlement /\ link' = link
      /\ \A b \in Bank : Linked(b)' = Linked(b) /\ link[b] \in Bank \cup {NoBank}
  BY <1>2 DEF settlementVars, Linked, TypeOK, SettlementTypeOK
<1>8. ReservedNotMatched' /\ MoneyUsedOnce'
  BY <1>5, <1>6, <1>7 DEF Settled, ReservedNotMatched, MoneyUsedOnce
<1>9. SettlementsAreStars'
  BY <1>7 DEF Settled, SettlementsAreStars
<1>10. SettlementRowsPinned'
  BY <1>2, <1>6, <1>7 DEF Settled, SettlementRowsPinned, bankVars
<1>11. PaymentsCredited'
  BY <1>2, <1>5, <1>7 DEF Settled, PaymentsCredited, bankVars
<1>12. QED
  BY <1>8, <1>9, <1>10, <1>11 DEF Settled

LEMMA BankRowsSettled ==
  ASSUME TypeOK, Settled,
         \/ \E r \in Request, b \in Bank, a \in BankAmounts, p \in {"paid", "unpaid"} :
              CreateBankTransaction(r, b, a, p)
         \/ \E b \in Bank, a \in BankAmounts, p \in {"paid", "unpaid"} :
              UpdateBankTransaction(b, a, p)
         \/ \E r \in Request : DeleteBankTransaction(r) \/ DeleteBankTransactionsBatch(r)
  PROVE  Settled'
\* Whatever happens to a bank row happens to one that takes no part in a settlement.
<1> DEFINE Kept(b) == /\ bankState'[b] = bankState[b]
                      /\ bankAmount'[b] = bankAmount[b]
                      /\ paymentStatus'[b] = paymentStatus[b]
           Outside(b) == settlement[b] = "none" /\ link[b] = NoBank
           OutsideOnly == /\ UNCHANGED <<matchedAmount, match, settlementVars>>
                          /\ \A b \in Bank : Outside(b) \/ Kept(b)
<1>1. OutsideOnly
  <2>1. ASSUME NEW r \in Request, NEW b \in Bank, NEW a \in BankAmounts,
               NEW p \in {"paid", "unpaid"}, CreateBankTransaction(r, b, a, p)
        PROVE  OutsideOnly
    <3>1. Outside(b)
      BY <2>1 DEF CreateBankTransaction, Settled, SettlementRowsPinned, TypeOK,
                  SettlementTypeOK
    <3>2. \A x \in Bank \ {b} : Kept(x)
      BY <2>1 DEF CreateBankTransaction, TypeOK, BankTypeOK
    <3>3. QED
      BY <2>1, <3>1, <3>2 DEF CreateBankTransaction, matchVars
  <2>2. \A b \in Bank : EditAllowed(b) => Outside(b)
    BY DEF EditAllowed, SourceReserved, Settled, SettlementsAreStars, TypeOK,
           SettlementTypeOK
  <2>3. ASSUME NEW b \in Bank, NEW a \in BankAmounts, NEW p \in {"paid", "unpaid"},
               UpdateBankTransaction(b, a, p)
        PROVE  OutsideOnly
    <3>1. \A x \in Bank \ {b} : Kept(x)
      BY <2>3 DEF UpdateBankTransaction, TypeOK, BankTypeOK
    <3>2. QED
      BY <2>2, <2>3, <3>1 DEF UpdateBankTransaction, matchVars
  <2>4. ASSUME NEW r \in Request, DeleteBankTransaction(r)
        PROVE  OutsideOnly
    <3> DEFINE b == request[r].bank
    <3>1. b \in Bank /\ EditAllowed(b)
      BY <2>4 DEF DeleteBankTransaction, TypeOK, RequestTypeOK
    <3>2. \A x \in Bank \ {b} : Kept(x)
      BY <2>4 DEF DeleteBankTransaction, TypeOK, BankTypeOK
    <3>3. QED
      BY <2>2, <2>4, <3>1, <3>2 DEF DeleteBankTransaction, matchVars
  <2>5. ASSUME NEW r \in Request, DeleteBankTransactionsBatch(r)
        PROVE  OutsideOnly
    <3> DEFINE bs == request[r].banks
    <3>1. \A b \in bs : b \in Bank /\ EditAllowed(b)
      BY <2>5 DEF DeleteBankTransactionsBatch, TypeOK, RequestTypeOK
    <3>2. \A x \in Bank \ bs : Kept(x)
      BY <2>5 DEF DeleteBankTransactionsBatch, TypeOK, BankTypeOK
    <3>3. QED
      BY <2>2, <2>5, <3>1, <3>2 DEF DeleteBankTransactionsBatch, matchVars
  <2>6. QED
    BY <2>1, <2>3, <2>4, <2>5
<1>2. /\ settlement' = settlement /\ link' = link /\ match' = match
      /\ matchedAmount' = matchedAmount
      /\ \A b \in Bank : link[b] \in Bank \cup {NoBank}
      /\ \A b \in Bank : /\ Linked(b)' = Linked(b)
                         /\ ActiveOn(match', b) = ActiveOn(match, b)
                         /\ Candidates(match', b) = Candidates(match, b)
                         /\ ConfirmedOn(match', b) = ConfirmedOn(match, b)
  BY <1>1 DEF settlementVars, Linked, TypeOK, SettlementTypeOK
<1>3. ReservedNotMatched' /\ SettlementsAreStars' /\ MoneyUsedOnce'
  BY <1>2 DEF Settled, ReservedNotMatched, SettlementsAreStars, MoneyUsedOnce
<1>4. SettlementRowsPinned'
  BY <1>1, <1>2 DEF Settled, SettlementRowsPinned
<1>5. PaymentsCredited'
  BY <1>1, <1>2 DEF Settled, PaymentsCredited
<1>6. QED
  BY <1>3, <1>4, <1>5 DEF Settled

LEMMA AddLinksSettled ==
  ASSUME TypeOK, Settled, NEW s \in Bank, NEW bs \in SUBSET Bank, AddLinks(s, bs)
  PROVE  Settled'
<1>1. /\ bankState[s] = "active" /\ paymentStatus[s] = "unpaid"
      /\ settlement[s] # "completed" /\ Candidates(match, s) = {}
      /\ bs # {}
      /\ \A b \in bs : /\ b # s /\ bankState[b] = "active" /\ paymentStatus[b] = "paid"
                       /\ ActiveOn(match, b) = {} /\ settlement[b] = "none"
                       /\ link[b] = NoBank
  BY DEF AddLinks, SourceWritable, TargetEligible
<1>2. /\ settlement' = [settlement EXCEPT ![s] = "open"]
      /\ link' = [b \in Bank |-> IF b \in bs THEN s ELSE link[b]]
      /\ UNCHANGED <<bankVars, match>>
  BY DEF AddLinks, matchVars
<1>3. /\ settlement'[s] = "open"
      /\ \A b \in Bank \ {s} : settlement'[b] = settlement[b]
      /\ \A b \in bs : link'[b] = s
      /\ \A b \in Bank \ bs : link'[b] = link[b]
      /\ \A b \in Bank : link[b] \in Bank \cup {NoBank}
  BY <1>2 DEF TypeOK, SettlementTypeOK
\* The source is no payment: a payment is registered as paid.
<1>4. link[s] = NoBank
  BY <1>1 DEF Settled, SettlementRowsPinned
<1>5. \A b \in Bank : /\ ActiveOn(match', b) = ActiveOn(match, b)
                      /\ Candidates(match', b) = Candidates(match, b)
                      /\ ConfirmedOn(match', b) = ConfirmedOn(match, b)
  BY <1>2
<1>6. ReservedNotMatched'
  <2>1. \A b \in Bank : link[b] = s => settlement[s] = "open"
    BY <1>1, NullAssumption DEF Settled, SettlementsAreStars, TypeOK, SettlementTypeOK
  <2>2. QED
    BY <1>1, <1>3, <1>5, <2>1 DEF Settled, ReservedNotMatched
<1>7. SettlementsAreStars'
  <2>1. \A b \in Bank : link'[b] # NoBank => settlement'[b] = "none"
    BY <1>1, <1>3, <1>4 DEF Settled, SettlementsAreStars
  <2>2. \A b \in Bank : link'[b] # NoBank => settlement'[link'[b]] # "none"
    BY <1>1, <1>3 DEF Settled, SettlementsAreStars
  <2>3. \A t \in Bank : settlement'[t] # "none" => Linked(t)' # {}
    <3>1. Linked(s)' # {}
      BY <1>1, <1>3 DEF Linked
    <3>2. \A t \in Bank \ {s} : Linked(t) \subseteq Linked(t)'
      BY <1>1, <1>3, NullAssumption DEF Linked
    <3>3. QED
      BY <1>3, <3>1, <3>2 DEF Settled, SettlementsAreStars
  <2>4. QED
    BY <2>1, <2>2, <2>3 DEF SettlementsAreStars
<1>8. SettlementRowsPinned'
  BY <1>1, <1>2, <1>3, <1>5 DEF Settled, SettlementRowsPinned, bankVars
<1>9. MoneyUsedOnce'
  BY <1>1, <1>3, <1>5 DEF Settled, MoneyUsedOnce
<1>10. PaymentsCredited'
  BY <1>2, <1>3, <1>5 DEF Settled, PaymentsCredited, bankVars
<1>11. QED
  BY <1>6, <1>7, <1>8, <1>9, <1>10 DEF Settled

LEMMA RemoveLinkSettled ==
  ASSUME TypeOK, Settled, NEW s \in Bank, NEW b0 \in Bank, RemoveLink(s, b0)
  PROVE  Settled'
<1>1. /\ link[b0] = s /\ settlement[s] = "open"
      /\ link' = [link EXCEPT ![b0] = NoBank]
      /\ settlement' = IF Linked(s) = {b0} THEN [settlement EXCEPT ![s] = "none"]
                                           ELSE settlement
      /\ UNCHANGED <<bankVars, match>>
  BY DEF RemoveLink, matchVars
<1>2. /\ link'[b0] = NoBank
      /\ \A b \in Bank \ {b0} : link'[b] = link[b]
      /\ \A b \in Bank : settlement'[b] = IF b = s /\ Linked(s) = {b0} THEN "none"
                                          ELSE settlement[b]
  BY <1>1 DEF TypeOK, SettlementTypeOK
<1>3. \A b \in Bank : /\ ActiveOn(match', b) = ActiveOn(match, b)
                      /\ Candidates(match', b) = Candidates(match, b)
                      /\ ConfirmedOn(match', b) = ConfirmedOn(match, b)
                      /\ link[b] \in Bank \cup {NoBank}
  BY <1>1 DEF TypeOK, SettlementTypeOK
<1>4. \A b \in Bank : link'[b] # NoBank => /\ link'[b] = link[b]
                                           /\ settlement'[link[b]] = settlement[link[b]]
  BY <1>1, <1>2, <1>3 DEF Linked
<1>5. ReservedNotMatched' /\ MoneyUsedOnce'
  BY <1>3, <1>4 DEF Settled, ReservedNotMatched, MoneyUsedOnce
<1>6. SettlementsAreStars'
  <2>1. \A b \in Bank : link'[b] # NoBank =>
          settlement'[b] = "none" /\ settlement'[link'[b]] # "none"
    BY <1>2, <1>4 DEF Settled, SettlementsAreStars
  <2>2. \A t \in Bank : settlement'[t] # "none" => Linked(t)' # {}
    <3>1. \A t \in Bank : Linked(t)' = Linked(t) \ {b0}
      BY <1>2, NullAssumption DEF Linked
    <3>2. \A t \in Bank \ {s} : b0 \notin Linked(t)
      BY <1>1 DEF Linked
    <3>3. QED
      BY <1>2, <3>1, <3>2 DEF Settled, SettlementsAreStars
  <2>3. QED
    BY <2>1, <2>2 DEF SettlementsAreStars
<1>7. SettlementRowsPinned'
  BY <1>1, <1>2, <1>3, <1>4 DEF Settled, SettlementRowsPinned, bankVars
<1>8. PaymentsCredited'
  BY <1>1, <1>3, <1>4 DEF Settled, PaymentsCredited, bankVars
<1>9. QED
  BY <1>5, <1>6, <1>7, <1>8 DEF Settled

LEMMA CompleteSettled ==
  ASSUME TypeOK, Settled, NEW s \in Bank, NEW c \in BOOLEAN, Complete(s, c)
  PROVE  Settled'
<1>1. /\ bankState[s] = "active" /\ paymentStatus[s] = "unpaid" /\ settlement[s] = "open"
      /\ Candidates(match, s) = {}
      /\ settlement' = [settlement EXCEPT ![s] = "completed"]
      /\ bankState' = [bankState EXCEPT ![s] = "archived"]
      /\ matchedAmount' = Credited(s)
      /\ UNCHANGED <<bankAmount, paymentStatus, match, link>>
  BY DEF Complete, SourceWritable
<1>2. /\ settlement'[s] = "completed" /\ bankState'[s] = "archived"
      /\ \A b \in Bank \ {s} : /\ settlement'[b] = settlement[b]
                               /\ bankState'[b] = bankState[b]
      /\ \A b \in Bank : link[b] \in Bank \cup {NoBank}
  BY <1>1 DEF TypeOK, BankTypeOK, SettlementTypeOK
<1>3. \A b \in Bank : matchedAmount'[b] =
        IF link[b] = s /\ ConfirmedOn(match, s) # {} THEN bankAmount[b]
                                                    ELSE matchedAmount[b]
  BY <1>1 DEF Credited, Linked
<1>4. \A b \in Bank : /\ ActiveOn(match', b) = ActiveOn(match, b)
                      /\ Candidates(match', b) = Candidates(match, b)
                      /\ ConfirmedOn(match', b) = ConfirmedOn(match, b)
                      /\ Linked(b)' = Linked(b)
  BY <1>1 DEF Linked
<1>5. link[s] = NoBank
  BY <1>1 DEF Settled, SettlementRowsPinned
<1>6. ReservedNotMatched' /\ MoneyUsedOnce'
  BY <1>1, <1>2, <1>4 DEF Settled, ReservedNotMatched, MoneyUsedOnce
<1>7. SettlementsAreStars'
  BY <1>1, <1>2, <1>4, <1>5 DEF Settled, SettlementsAreStars
<1>8. SettlementRowsPinned'
  BY <1>1, <1>2, <1>4, <1>5 DEF Settled, SettlementRowsPinned
<1>9. PaymentsCredited'
  BY <1>1, <1>2, <1>3, <1>4 DEF Settled, PaymentsCredited
<1>10. QED
  BY <1>6, <1>7, <1>8, <1>9 DEF Settled

LEMMA NextSettled == TypeOK /\ Settled /\ [Next]_vars => Settled'
<1> SUFFICES ASSUME TypeOK, Settled, [Next]_vars  PROVE Settled'
  OBVIOUS
<1>1. CASE Load
  <2>1. UNCHANGED <<bankVars, match, settlementVars>>
    BY <1>1 DEF Load, LoadMatch, LoadBank, LoadBatch, LoadLedger, Loaded, matchVars
  <2>2. QED
    BY <2>1, IdleStep
<1>2. CASE Respond
  <2>1. ASSUME NEW r \in Request, Abort(r)
        PROVE  Settled'
    BY <2>1, IdleStep DEF Abort, matchVars
  <2>2. QED
    BY <1>2, <2>1, MatchingSettled, BankRowsSettled DEF Respond
<1>3. CASE LockedFirst
  <2>1. CASE CloseLedger \/ ReopenLedger
    BY <2>1, IdleStep DEF CloseLedger, ReopenLedger, matchVars
  <2>2. QED
    BY <1>3, <2>1, UnmatchSettled, SuggestSettled, AddLinksSettled, RemoveLinkSettled,
       CompleteSettled, BankRowsSettled
    DEF LockedFirst
<1>4. CASE UNCHANGED vars
  BY <1>4, IdleStep DEF vars, matchVars
<1>5. QED
  BY <1>1, <1>2, <1>3, <1>4 DEF Next

LEMMA InvariantIInv == Spec => []IInv
<1>1. Init => IInv
  BY InitTypeOK, InitSettled DEF IInv
<1>2. IInv /\ [Next]_vars => IInv'
  BY NextTypeOK, NextSettled DEF IInv
<1>3. QED
  BY <1>1, <1>2, PTL DEF Spec

\* A payment reserved by a settlement in progress is never matched through another
\* handler, however the requests overlap.
THEOREM ReservedPaymentsUnmatched == Spec => []ReservedNotMatched
<1>1. IInv => ReservedNotMatched
  BY DEF IInv, Settled
<1>2. QED
  BY <1>1, InvariantIInv, PTL

\* No row both settles and is settled, and no settlement or link is left dangling.
THEOREM SettlementShape == Spec => []SettlementsAreStars
<1>1. IInv => SettlementsAreStars
  BY DEF IInv, Settled
<1>2. QED
  BY <1>1, InvariantIInv, PTL

\* The rows of a settlement cannot be edited, archived, deleted or put up for matching.
THEOREM SettlementRowsStay == Spec => []SettlementRowsPinned
<1>1. IInv => SettlementRowsPinned
  BY DEF IInv, Settled
<1>2. QED
  BY <1>1, InvariantIInv, PTL

\* A payment never backs an approval of its own besides the one of its registration.
THEOREM PaymentPaysOnce == Spec => []MoneyUsedOnce
<1>1. IInv => MoneyUsedOnce
  BY DEF IInv, Settled
<1>2. QED
  BY <1>1, InvariantIInv, PTL

\* As long as the registration is matched, the payments that settled it stay used up.
THEOREM PaymentsStayCredited == Spec => []PaymentsCredited
<1>1. IInv => PaymentsCredited
  BY DEF IInv, Settled
<1>2. QED
  BY <1>1, InvariantIInv, PTL

\* A completed settlement keeps its status, its payments and all their amounts for ever.
THEOREM CompletedIsReadOnly == Spec => CompletedReadOnly
<1>1. IInv /\ [Next]_vars => [CompletedStep]_vars
  <2> SUFFICES ASSUME IInv, Next, NEW s \in Bank, settlement[s] = "completed"
               PROVE  /\ settlement'[s] = "completed"
                      /\ bankAmount'[s] = bankAmount[s]
                      /\ \A b \in Bank : (link'[b] = s <=> link[b] = s)
                           /\ (link[b] = s => bankAmount'[b] = bankAmount[b])
    BY DEF CompletedStep
  <2> USE DEF IInv, TypeOK, Settled
  <2>1. CASE UNCHANGED <<bankAmount, settlementVars>>
    BY <2>1 DEF settlementVars
  <2>2. ASSUME NEW b \in Bank, NEW a \in BankAmounts, NEW p \in {"paid", "unpaid"},
               \/ \E r \in Request : CreateBankTransaction(r, b, a, p)
               \/ UpdateBankTransaction(b, a, p)
        PROVE  /\ UNCHANGED settlementVars
               /\ link[b] # s /\ b # s
               /\ \A x \in Bank \ {b} : bankAmount'[x] = bankAmount[x]
    BY <2>2, NullAssumption
    DEF CreateBankTransaction, UpdateBankTransaction, EditAllowed, SourceReserved,
        SettlementRowsPinned, BankTypeOK
  <2>3. ASSUME NEW t \in Bank, NEW bs \in SUBSET Bank, AddLinks(t, bs)
        PROVE  /\ t # s /\ bankAmount' = bankAmount
               /\ settlement'[s] = settlement[s]
               /\ \A b \in Bank : link'[b] = s <=> link[b] = s
    <3>1. /\ t # s /\ bankAmount' = bankAmount
          /\ settlement' = [settlement EXCEPT ![t] = "open"]
          /\ link' = [b \in Bank |-> IF b \in bs THEN t ELSE link[b]]
          /\ \A b \in bs : link[b] = NoBank
      BY <2>3 DEF AddLinks, SourceWritable, bankVars
    <3>2. QED
      BY <3>1, NullAssumption DEF SettlementTypeOK
  <2>4. ASSUME NEW t \in Bank, NEW b0 \in Bank, RemoveLink(t, b0)
        PROVE  /\ bankAmount' = bankAmount /\ settlement'[s] = settlement[s]
               /\ \A b \in Bank : link'[b] = s <=> link[b] = s
    <3>1. /\ t # s /\ bankAmount' = bankAmount /\ link[b0] = t
          /\ settlement' = settlement \/ settlement' = [settlement EXCEPT ![t] = "none"]
          /\ link' = [link EXCEPT ![b0] = NoBank]
      BY <2>4 DEF RemoveLink, SourceWritable, bankVars
    <3>2. QED
      BY <3>1, NullAssumption DEF SettlementTypeOK
  <2>5. ASSUME NEW t \in Bank, NEW c \in BOOLEAN, Complete(t, c)
        PROVE  /\ bankAmount' = bankAmount /\ settlement'[s] = settlement[s]
               /\ link' = link
    <3>1. /\ t # s /\ bankAmount' = bankAmount /\ link' = link
          /\ settlement' = [settlement EXCEPT ![t] = "completed"]
      BY <2>5 DEF Complete, SourceWritable
    <3>2. QED
      BY <3>1 DEF SettlementTypeOK
  <2>6. Load => UNCHANGED <<bankAmount, settlementVars>>
    BY DEF Load, LoadMatch, LoadBank, LoadBatch, LoadLedger, Loaded, bankVars
  <2>7. ASSUME NEW r \in Request,
               \/ Abort(r) \/ ConfirmMatch(r) \/ RejectMatch(r)
               \/ DeleteBankTransaction(r) \/ DeleteBankTransactionsBatch(r)
               \/ \E e \in Expense, a \in MatchAmounts :
                    CreateMatchCandidate(r, e, a) \/ UpdateReconciliationRecord(r, e, a)
        PROVE  UNCHANGED <<bankAmount, settlementVars>>
    BY <2>7 DEF Abort, ConfirmMatch, RejectMatch, DeleteBankTransaction,
                DeleteBankTransactionsBatch, CreateMatchCandidate,
                UpdateReconciliationRecord, bankVars
  <2>8. ASSUME \/ AutoSuggestMatches \/ CloseLedger \/ ReopenLedger
               \/ \E m \in MatchId : UnmatchReconciliationRecord(m)
        PROVE  UNCHANGED <<bankAmount, settlementVars>>
    BY <2>8 DEF AutoSuggestMatches, CloseLedger, ReopenLedger,
                UnmatchReconciliationRecord, bankVars
  <2>9. CASE Load
    BY <2>1, <2>6, <2>9
  <2>10. CASE Respond
    <3>1. ASSUME NEW r \in Request, NEW b \in Bank, NEW a \in BankAmounts,
                 NEW p \in {"paid", "unpaid"}, CreateBankTransaction(r, b, a, p)
          PROVE  (\A x \in Bank : (link'[x] = s <=> link[x] = s)
                    /\ (link[x] = s => bankAmount'[x] = bankAmount[x]))
                 /\ settlement'[s] = "completed" /\ bankAmount'[s] = bankAmount[s]
      BY <2>2, <3>1 DEF settlementVars
    <3>2. QED
      BY <2>1, <2>7, <2>10, <3>1 DEF Respond
  <2>11. CASE LockedFirst
    <3>1. ASSUME NEW b \in Bank, NEW a \in BankAmounts, NEW p \in {"paid", "unpaid"},
                 UpdateBankTransaction(b, a, p)
          PROVE  (\A x \in Bank : (link'[x] = s <=> link[x] = s)
                    /\ (link[x] = s => bankAmount'[x] = bankAmount[x]))
                 /\ settlement'[s] = "completed" /\ bankAmount'[s] = bankAmount[s]
      BY <2>2, <3>1 DEF settlementVars
    <3>2. QED
      BY <2>1, <2>3, <2>4, <2>5, <2>8, <2>11, <3>1 DEF LockedFirst
  <2>12. QED
    BY <2>9, <2>10, <2>11 DEF Next
<1>2. QED
  BY <1>1, InvariantIInv, PTL DEF CompletedReadOnly, Spec
-----------------------------------------------------------------------------
(* Amounts, when requests do not overlap. *)

\* Every row of a match table has an amount.
Paying(t) == \A m \in Rows(t) : t[m].amount \in Nat \ {0}
OnBank(t, b) == Total(t, ConfirmedOn(t, b))
OnExpense(t, e) == Total(t, ConfirmedFor(t, e))

\* Amounts are positive and add up.
Money ==
  /\ Paying(match)
  /\ \A b \in Bank : bankState[b] # "absent" => bankAmount[b] # 0
  /\ MatchedAmountExact
  /\ ExpenseStatusExact
  /\ ClosedBooksBacked

\* One request is in progress, and what it has read is still so.
Alone == \A r, s \in Request : request[r].kind # "none" /\ request[s].kind # "none" => r = s
Fresh ==
  \A r \in Request :
    /\ Holds(r, "match") => request[r].row = match[request[r].id]
    /\ Holds(r, "bank") => bankState[request[r].bank] = "active"
    /\ Holds(r, "batch") => \A b \in request[r].banks : bankState[b] = "active"
    /\ Holds(r, "ledger") => ledger = "open"

Books == IInv /\ Money /\ Alone /\ Fresh
-----------------------------------------------------------------------------
(* What a change of the match table does to the totals. *)

LEMMA TotalIs == \A t, S : Total(t, S) = Amounts(t, S)
  BY DEF Total, Amounts

LEMMA ConfirmedPay ==
  ASSUME NEW t, Paying(t)
  PROVE  /\ \A b : /\ IsFiniteSet(ConfirmedOn(t, b)) /\ OnBank(t, b) \in Nat
                   /\ \A m \in ConfirmedOn(t, b) : t[m].amount \in Nat
                   /\ ConfirmedOn(t, b) = {} => OnBank(t, b) = 0
         /\ \A e : /\ IsFiniteSet(ConfirmedFor(t, e)) /\ OnExpense(t, e) \in Nat
                   /\ \A m \in ConfirmedFor(t, e) : t[m].amount \in Nat
<1>1. ASSUME NEW S \in SUBSET Rows(t)
      PROVE  /\ IsFiniteSet(S) /\ Total(t, S) \in Nat
             /\ \A m \in S : t[m].amount \in Nat
             /\ S = {} => Total(t, S) = 0
  <2>1. IsFiniteSet(S)
    BY TableAssumption, FS_Subset DEF Rows
  <2>2. \A m \in S : t[m].amount \in Nat
    BY DEF Paying
  <2> QED BY <2>1, <2>2, TotalIs, AmountsNat, AmountsEmpty
<1>2. \A b : ConfirmedOn(t, b) \in SUBSET Rows(t)
  BY DEF ConfirmedOn, RowsOf
<1>3. \A e : ConfirmedFor(t, e) \in SUBSET Rows(t)
  BY DEF ConfirmedFor
<1> QED BY <1>1, <1>2, <1>3 DEF OnBank, OnExpense

\* Rows that are not confirmed do not count.
LEMMA SameTotals ==
  ASSUME NEW t, NEW u, Paying(t),
         \A m \in MatchId : t[m].status = "confirmed" \/ u[m].status = "confirmed"
                              => u[m] = t[m]
  PROVE  /\ \A b : ConfirmedOn(u, b) = ConfirmedOn(t, b) /\ OnBank(u, b) = OnBank(t, b)
         /\ \A e : OnExpense(u, e) = OnExpense(t, e)
<1>1. ASSUME NEW b
      PROVE  ConfirmedOn(u, b) = ConfirmedOn(t, b) /\ OnBank(u, b) = OnBank(t, b)
  <2>1. /\ ConfirmedOn(u, b) = ConfirmedOn(t, b)
        /\ \A m \in ConfirmedOn(t, b) : u[m].amount = t[m].amount
    BY DEF ConfirmedOn, RowsOf, Rows
  <2> QED BY <2>1, TotalIs, AmountsAgree, ConfirmedPay DEF OnBank
<1>2. ASSUME NEW e
      PROVE  OnExpense(u, e) = OnExpense(t, e)
  <2>1. /\ ConfirmedFor(u, e) = ConfirmedFor(t, e)
        /\ \A m \in ConfirmedFor(t, e) : u[m].amount = t[m].amount
    BY DEF ConfirmedFor, Rows
  <2> QED BY <2>1, TotalIs, AmountsAgree, ConfirmedPay DEF OnExpense
<1> QED BY <1>1, <1>2

\* One row changes: the totals of other bank rows and expenses stay.
LEMMA OtherTotals ==
  ASSUME NEW t, NEW u, Paying(t), NEW i \in MatchId,
         \A m \in MatchId \ {i} : u[m] = t[m]
  PROVE  /\ \A b : b # t[i].bank /\ b # u[i].bank => OnBank(u, b) = OnBank(t, b)
         /\ \A e : e # t[i].expense /\ e # u[i].expense => OnExpense(u, e) = OnExpense(t, e)
<1>1. ASSUME NEW b, b # t[i].bank, b # u[i].bank
      PROVE  OnBank(u, b) = OnBank(t, b)
  <2>1. /\ ConfirmedOn(u, b) = ConfirmedOn(t, b)
        /\ \A m \in ConfirmedOn(t, b) : u[m].amount = t[m].amount
    BY <1>1 DEF ConfirmedOn, RowsOf, Rows
  <2> QED BY <2>1, TotalIs, AmountsAgree, ConfirmedPay DEF OnBank
<1>2. ASSUME NEW e, e # t[i].expense, e # u[i].expense
      PROVE  OnExpense(u, e) = OnExpense(t, e)
  <2>1. /\ ConfirmedFor(u, e) = ConfirmedFor(t, e)
        /\ \A m \in ConfirmedFor(t, e) : u[m].amount = t[m].amount
    BY <1>2 DEF ConfirmedFor, Rows
  <2> QED BY <2>1, TotalIs, AmountsAgree, ConfirmedPay DEF OnExpense
<1> QED BY <1>1, <1>2

\* A candidate is confirmed: its amount is added, and what the handler adds up is that.
LEMMA ConfirmedTotals ==
  ASSUME NEW t, NEW u, Paying(t), NEW i \in Rows(t), t[i].status = "candidate",
         \A m \in MatchId \ {i} : u[m] = t[m], u[i] = WithStatus(t[i], "confirmed")
  PROVE  /\ OnBank(u, t[i].bank) = OnBank(t, t[i].bank) + t[i].amount
         /\ Total(t, ConfirmedOn(t, t[i].bank) \ {i}) = OnBank(t, t[i].bank)
         /\ OnExpense(u, t[i].expense) = OnExpense(t, t[i].expense) + t[i].amount
         /\ Total(t, ConfirmedFor(t, t[i].expense) \ {i}) = OnExpense(t, t[i].expense)
<1>1. /\ u[i].status = "confirmed" /\ u[i].bank = t[i].bank
      /\ u[i].expense = t[i].expense /\ u[i].amount = t[i].amount
  BY DEF WithStatus, MatchRow
<1>2. Rows(u) = Rows(t) /\ i \in MatchId
  BY <1>1 DEF Rows
<1>3. Paying(u)
  BY <1>1, <1>2 DEF Paying, Rows
<1>4. ASSUME NEW S, NEW R, IsFiniteSet(S), i \in S, R = S \ {i},
             \A m \in S : u[m].amount \in Nat, \A m \in R : u[m] = t[m]
      PROVE  Total(u, S) = Total(t, R) + t[i].amount
  <2>1. /\ Amounts(u, S) = u[i].amount + Amounts(t, R)
        /\ Amounts(t, R) \in Nat /\ u[i].amount \in Nat
    BY <1>4, AmountsGrow
  <2> QED BY <1>1, <2>1, TotalIs
<1>5. /\ i \in ConfirmedOn(u, t[i].bank)
      /\ ConfirmedOn(t, t[i].bank) = ConfirmedOn(u, t[i].bank) \ {i}
      /\ ConfirmedOn(t, t[i].bank) \ {i} = ConfirmedOn(t, t[i].bank)
      /\ ConfirmedOn(t, t[i].bank) \subseteq MatchId \ {i}
  BY <1>1, <1>2 DEF ConfirmedOn, RowsOf, Rows
<1>6. /\ i \in ConfirmedFor(u, t[i].expense)
      /\ ConfirmedFor(t, t[i].expense) = ConfirmedFor(u, t[i].expense) \ {i}
      /\ ConfirmedFor(t, t[i].expense) \ {i} = ConfirmedFor(t, t[i].expense)
      /\ ConfirmedFor(t, t[i].expense) \subseteq MatchId \ {i}
  BY <1>1, <1>2 DEF ConfirmedFor, Rows
<1>7. OnBank(u, t[i].bank) = OnBank(t, t[i].bank) + t[i].amount
  BY <1>3, <1>4, <1>5, ConfirmedPay DEF OnBank
<1>8. OnExpense(u, t[i].expense) = OnExpense(t, t[i].expense) + t[i].amount
  BY <1>3, <1>4, <1>6, ConfirmedPay DEF OnExpense
<1> QED BY <1>5, <1>6, <1>7, <1>8 DEF OnBank, OnExpense
-----------------------------------------------------------------------------
(* Steps. *)

LEMMA MoneyIs ==
  ASSUME IInv, Money
  PROVE  /\ Paying(match)
         /\ \A b \in Bank : /\ matchedAmount[b] \in Nat /\ bankAmount[b] \in Nat
                            /\ OnBank(match, b) \in Nat
                            /\ \/ matchedAmount[b] = OnBank(match, b)
                               \/ /\ link[b] # NoBank /\ settlement[link[b]] = "completed"
                                  /\ matchedAmount[b] = bankAmount[b]
         /\ \A e \in Expense : /\ OnExpense(match, e) \in Nat
                               /\ ExpenseAmount[e] \in Nat \ {0}
                               /\ expenseStatus[e] = StatusFor(e, OnExpense(match, e))
<1>1. Paying(match)
  BY DEF Money
<1>2. \A b \in Bank : bankAmount[b] \in Nat /\ OnBank(match, b) \in Nat
  BY <1>1, ConfirmedPay DEF IInv, TypeOK, BankTypeOK
<1>3. \A e \in Expense : OnExpense(match, e) \in Nat /\ ExpenseAmount[e] \in Nat \ {0}
  BY <1>1, ConfirmedPay, AmountsAssumption
<1>4. \A e \in Expense : expenseStatus[e] = StatusFor(e, OnExpense(match, e))
  BY DEF Money, ExpenseStatusExact, OnExpense
<1>5. \A b \in Bank : \/ matchedAmount[b] = OnBank(match, b)
                      \/ /\ link[b] # NoBank /\ settlement[link[b]] = "completed"
                         /\ matchedAmount[b] = bankAmount[b]
  BY DEF Money, MatchedAmountExact, OnBank
<1> QED BY <1>1, <1>2, <1>3, <1>4, <1>5

\* The confirmed rows stay, and so does everything that counts them.
LEMMA QuietStep ==
  ASSUME IInv, Money, Paying(match'),
         \A m \in MatchId : match[m].status = "confirmed" \/ match'[m].status = "confirmed"
                              => match'[m] = match[m],
         UNCHANGED <<bankVars, expenseStatus, settlementVars>>,
         ledger' = ledger \/ ledger' = "open"
  PROVE  Money'
<1>1. /\ \A b : OnBank(match', b) = OnBank(match, b)
      /\ \A e : OnExpense(match', e) = OnExpense(match, e)
  BY SameTotals DEF Money
<1>2. UNCHANGED <<bankState, bankAmount, matchedAmount, expenseStatus, settlement, link>>
  BY DEF bankVars, settlementVars
<1>3. MatchedAmountExact' /\ ExpenseStatusExact'
  BY <1>1, <1>2 DEF Money, MatchedAmountExact, ExpenseStatusExact, OnBank, OnExpense
<1>4. ClosedBooksBacked'
  BY <1>1, <1>2 DEF Money, ClosedBooksBacked, UnmatchedForClose, OnExpense
<1> QED BY <1>2, <1>3, <1>4 DEF Money

LEMMA RowPays ==
  ASSUME MatchTypeOK, Paying(match), NEW m \in MatchId, NEW b, NEW e,
         NEW a \in Nat \ {0}, NEW st \in MatchStatus,
         match' = [match EXCEPT ![m] = MatchRow(b, e, a, st)]
  PROVE  /\ Paying(match') /\ match'[m] = MatchRow(b, e, a, st)
         /\ match'[m].bank = b /\ match'[m].expense = e
         /\ match'[m].amount = a /\ match'[m].status = st
         /\ \A n \in MatchId \ {m} : match'[n] = match[n]
<1>1. /\ match'[m] = MatchRow(b, e, a, st)
      /\ \A n \in MatchId \ {m} : match'[n] = match[n]
  BY DEF MatchTypeOK
<1>2. /\ match'[m].bank = b /\ match'[m].expense = e
      /\ match'[m].amount = a /\ match'[m].status = st
  BY <1>1 DEF MatchRow
<1> QED BY <1>1, <1>2 DEF Paying, Rows

\* The match a request has loaded is the match.
LEMMA LoadedRow ==
  ASSUME IInv, Money, Fresh, NEW r \in Request, Holds(r, "match")
  PROVE  \E m \in MatchId :
           /\ m = request[r].id /\ request[r].row = match[m] /\ m \in Rows(match)
           /\ match[m].bank \in Bank /\ match[m].expense \in Expense
           /\ match[m].amount \in Nat \ {0} /\ match[m].status \in MatchStatus
<1>1. /\ request[r].id \in Rows(match) /\ request[r].id \in MatchId
      /\ request[r].row = match[request[r].id]
  BY LoadedMatch DEF IInv, Fresh
<1> QED BY <1>1 DEF IInv, TypeOK, MatchTypeOK, Money, Paying

LEMMA CandidateMoney ==
  ASSUME Books, NEW r \in Request, NEW e \in Expense, NEW a \in MatchAmounts,
         CreateMatchCandidate(r, e, a)
  PROVE  Money'
<1> DEFINE b == request[r].bank
           pair == {n \in RowsOf(match, b) : match[n].expense = e}
<1>1. PICK m \in IF pair # {} THEN pair ELSE MatchId \ Rows(match) :
        match' = [match EXCEPT ![m] = MatchRow(b, e, a, "candidate")]
  BY DEF CreateMatchCandidate, NewCandidate
<1>2. m \in MatchId /\ match[m].status # "confirmed"
  BY <1>1 DEF CreateMatchCandidate, RowsOf, Rows
<1> HIDE DEF b
<1>3. /\ Paying(match') /\ match'[m].status = "candidate"
      /\ \A n \in MatchId \ {m} : match'[n] = match[n]
  BY <1>1, <1>2, RowPays, AmountsAssumption DEF Books, Money, IInv, TypeOK, MatchStatus
<1>4. UNCHANGED <<bankVars, expenseStatus, settlementVars, ledger>>
  BY DEF CreateMatchCandidate
<1> QED BY <1>2, <1>3, <1>4, QuietStep DEF Books

LEMMA RejectMoney ==
  ASSUME Books, NEW r \in Request, RejectMatch(r)
  PROVE  Money'
<1>1. PICK m \in MatchId :
        /\ m = request[r].id /\ request[r].row = match[m] /\ m \in Rows(match)
        /\ match[m].amount \in Nat \ {0}
  BY LoadedRow DEF Books, RejectMatch
<1>2. /\ match[m].status = "candidate"
      /\ match' = [match EXCEPT ![m] =
                     MatchRow(match[m].bank, match[m].expense, match[m].amount, "rejected")]
  BY <1>1 DEF RejectMatch, WithStatus
<1>3. /\ Paying(match') /\ match'[m].status = "rejected"
      /\ \A n \in MatchId \ {m} : match'[n] = match[n]
  BY <1>1, <1>2, RowPays DEF Books, Money, IInv, TypeOK, MatchStatus
<1>4. UNCHANGED <<bankVars, expenseStatus, settlementVars, ledger>>
  BY DEF RejectMatch
<1> QED BY <1>2, <1>3, <1>4, QuietStep DEF Books

\* While the ledger is closed a row that may be matched is not one credited for a
\* settlement: the archived source of that settlement would be unmatched.
LEMMA ClosedUse ==
  ASSUME IInv, Money, ledger = "closed", NEW b \in Bank, MatchingAllowed(b)
  PROVE  matchedAmount[b] = OnBank(match, b)
<1> SUFFICES ASSUME link[b] # NoBank  PROVE FALSE
  BY MoneyIs
<1> DEFINE s == link[b]
<1>1. s \in Bank /\ settlement[s] = "completed" /\ ConfirmedOn(match, s) = {}
  BY AllowedIsFree DEF IInv, Settled
<1>2. bankState[s] = "archived" /\ link[s] = NoBank
  BY <1>1 DEF IInv, Settled, SettlementRowsPinned, SettlementsAreStars
<1>3. bankAmount[s] # 0 /\ ~(bankAmount[s] > matchedAmount[s])
  BY <1>1, <1>2 DEF Money, ClosedBooksBacked, UnmatchedForClose
<1>4. matchedAmount[s] = OnBank(match, s) /\ bankAmount[s] \in Nat
  BY <1>1, <1>2, MoneyIs
<1>5. OnBank(match, s) = 0
  BY <1>1, MoneyIs, ConfirmedPay
<1> QED BY <1>3, <1>4, <1>5

LEMMA ConfirmMoney ==
  ASSUME Books, NEW r \in Request, ConfirmMatch(r)
  PROVE  Money'
<1>0. IInv /\ Money
  BY DEF Books
<1>1. PICK m \in MatchId :
        /\ m = request[r].id /\ request[r].row = match[m] /\ m \in Rows(match)
        /\ match[m].bank \in Bank /\ match[m].expense \in Expense
        /\ match[m].amount \in Nat \ {0}
  BY LoadedRow DEF Books, ConfirmMatch
<1>2. PICK b \in Bank, e \in Expense, a \in Nat \ {0} :
        b = match[m].bank /\ e = match[m].expense /\ a = match[m].amount
  BY <1>1
<1>3. /\ match[m].status = "candidate" /\ bankState[b] = "active" /\ MatchingAllowed(b)
      /\ match' = [match EXCEPT ![m] = MatchRow(b, e, a, "confirmed")]
      /\ matchedAmount' =
           [matchedAmount EXCEPT ![b] = Total(match, ConfirmedOn(match, b) \ {m}) + a]
      /\ expenseStatus' = [expenseStatus EXCEPT ![e] =
           IF Total(match, ConfirmedFor(match, e) \ {m}) + a >= ExpenseAmount[e]
           THEN "paid" ELSE "partial_paid"]
      /\ UNCHANGED <<bankState, bankAmount, settlementVars, ledger>>
  BY <1>1, <1>2 DEF ConfirmMatch, WithStatus
<1>4. /\ Paying(match') /\ match'[m] = MatchRow(b, e, a, "confirmed")
      /\ match'[m].bank = b /\ match'[m].expense = e
      /\ \A n \in MatchId \ {m} : match'[n] = match[n]
  BY <1>0, <1>3, RowPays DEF Money, IInv, TypeOK, MatchStatus
<1>5. /\ OnBank(match', b) = OnBank(match, b) + a
      /\ Total(match, ConfirmedOn(match, b) \ {m}) = OnBank(match, b)
      /\ OnExpense(match', e) = OnExpense(match, e) + a
      /\ Total(match, ConfirmedFor(match, e) \ {m}) = OnExpense(match, e)
  <2>1. match'[m] = WithStatus(match[m], "confirmed")
    BY <1>2, <1>4 DEF WithStatus
  <2>2. /\ Paying(match) /\ m \in Rows(match) /\ match[m].status = "candidate"
        /\ \A n \in MatchId \ {m} : match'[n] = match[n]
    BY <1>0, <1>1, <1>3, <1>4 DEF Money
  <2>3. /\ OnBank(match', match[m].bank) = OnBank(match, match[m].bank) + match[m].amount
        /\ Total(match, ConfirmedOn(match, match[m].bank) \ {m}) = OnBank(match, match[m].bank)
        /\ OnExpense(match', match[m].expense)
             = OnExpense(match, match[m].expense) + match[m].amount
        /\ Total(match, ConfirmedFor(match, match[m].expense) \ {m})
             = OnExpense(match, match[m].expense)
    BY <2>1, <2>2, ConfirmedTotals
  <2> QED BY <1>2, <2>3
<1>6. /\ \A x : x # b => OnBank(match', x) = OnBank(match, x)
      /\ \A x : x # e => OnExpense(match', x) = OnExpense(match, x)
  BY <1>0, <1>2, <1>4, OtherTotals DEF Money
<1>7. MatchedAmountExact'
  <2>1. /\ matchedAmount'[b] = OnBank(match', b)
        /\ \A x \in Bank \ {b} : matchedAmount'[x] = matchedAmount[x]
    BY <1>0, <1>3, <1>5 DEF IInv, TypeOK, BankTypeOK
  <2> QED BY <1>0, <1>3, <1>6, <2>1
          DEF Money, MatchedAmountExact, OnBank, settlementVars
<1>8. ExpenseStatusExact'
  <2>1. expenseStatus'[e] = StatusFor(e, OnExpense(match', e))
    <3>1. OnExpense(match', e) # 0
      BY <1>0, <1>5, MoneyIs
    <3>2. expenseStatus'[e] = IF OnExpense(match', e) >= ExpenseAmount[e]
                              THEN "paid" ELSE "partial_paid"
      BY <1>0, <1>3, <1>5 DEF IInv, TypeOK, MatchTypeOK
    <3> QED BY <3>1, <3>2 DEF StatusFor
  <2>2. \A x \in Expense \ {e} : expenseStatus'[x] = expenseStatus[x]
    BY <1>0, <1>3 DEF IInv, TypeOK, MatchTypeOK
  <2> QED BY <1>0, <1>6, <2>1, <2>2 DEF Money, ExpenseStatusExact, OnExpense
<1>9. ClosedBooksBacked'
  <2> SUFFICES ASSUME ledger = "closed"
               PROVE  /\ \A x \in Expense : OnExpense(match', x) >= ExpenseAmount[x]
                      /\ \A x \in Bank : ~UnmatchedForClose(x)'
    BY <1>3 DEF ClosedBooksBacked, OnExpense
  <2>1. /\ \A x \in Expense : OnExpense(match, x) >= ExpenseAmount[x]
        /\ \A x \in Bank : ~UnmatchedForClose(x)
    BY <1>0 DEF Money, ClosedBooksBacked, OnExpense
  <2>2. \A x \in Expense : OnExpense(match', x) >= ExpenseAmount[x]
    <3>1. OnExpense(match', e) >= ExpenseAmount[e]
      BY <1>0, <1>5, <2>1, MoneyIs
    <3> QED BY <1>6, <2>1, <3>1
  <2>3. ~UnmatchedForClose(b)'
    <3>1. matchedAmount[b] = OnBank(match, b)
      BY <1>0, <1>3, ClosedUse
    <3>2. matchedAmount'[b] = matchedAmount[b] + a
      BY <1>0, <1>3, <1>5, <3>1 DEF IInv, TypeOK, BankTypeOK
    <3>3. /\ ~(bankAmount[b] > matchedAmount[b])
          /\ bankAmount[b] \in Nat /\ matchedAmount[b] \in Nat
      BY <1>0, <1>3, <2>1, MoneyIs DEF UnmatchedForClose
    <3> QED BY <1>3, <3>2, <3>3 DEF UnmatchedForClose
  <2>4. \A x \in Bank \ {b} : ~UnmatchedForClose(x)'
    BY <1>0, <1>3, <2>1 DEF UnmatchedForClose, IInv, TypeOK, BankTypeOK
  <2> QED BY <2>2, <2>3, <2>4
<1> QED BY <1>0, <1>3, <1>4, <1>7, <1>8, <1>9 DEF Money

\* One row of b changes and what depends on it is recomputed, with the ledger open.
LEMMA RefreshedMoney ==
  ASSUME IInv, Money, NEW m \in MatchId, NEW b \in Bank, NEW es,
         match[m].bank = b, match'[m].bank = b,
         match[m].expense \in es, match'[m].expense \in es,
         \A n \in MatchId \ {m} : match'[n] = match[n], Paying(match'),
         RefreshBank(match', b), RefreshExpenses(match', es),
         UNCHANGED <<bankState, bankAmount, settlementVars>>, ledger' = "open"
  PROVE  Money'
<1>1. /\ \A x : x # b => OnBank(match', x) = OnBank(match, x)
      /\ \A x : x \notin es => OnExpense(match', x) = OnExpense(match, x)
  BY OtherTotals DEF Money
<1>2. MatchedAmountExact'
  <2>1. /\ matchedAmount'[b] = OnBank(match', b)
        /\ \A x \in Bank \ {b} : matchedAmount'[x] = matchedAmount[x]
    BY DEF RefreshBank, OnBank, IInv, TypeOK, BankTypeOK
  <2> QED BY <1>1, <2>1 DEF Money, MatchedAmountExact, OnBank, settlementVars
<1>3. ExpenseStatusExact'
  <2>1. \A e \in Expense : expenseStatus'[e] = IF e \in es
          THEN StatusFor(e, OnExpense(match', e)) ELSE expenseStatus[e]
    BY DEF RefreshExpenses, OnExpense
  <2> QED BY <1>1, <2>1 DEF Money, ExpenseStatusExact, OnExpense
<1>4. ClosedBooksBacked'
  BY DEF ClosedBooksBacked
<1> QED BY <1>2, <1>3, <1>4 DEF Money

LEMMA UpdateMoney ==
  ASSUME Books, NEW r \in Request, NEW e \in Expense, NEW a \in MatchAmounts,
         UpdateReconciliationRecord(r, e, a)
  PROVE  Money'
<1>0. IInv /\ Money
  BY DEF Books
<1>1. PICK m \in MatchId :
        /\ m = request[r].id /\ request[r].row = match[m] /\ m \in Rows(match)
        /\ match[m].bank \in Bank /\ match[m].status \in MatchStatus
  BY LoadedRow DEF Books, UpdateReconciliationRecord
<1>2. PICK b \in Bank, st \in MatchStatus : b = match[m].bank /\ st = match[m].status
  BY <1>1
<1>3. /\ match' = [match EXCEPT ![m] = MatchRow(b, e, a, st)]
      /\ RefreshBank(match', b) /\ RefreshExpenses(match', {match[m].expense, e})
      /\ UNCHANGED <<bankState, bankAmount, settlementVars, ledger>> /\ ledger = "open"
  BY <1>1, <1>2 DEF UpdateReconciliationRecord
<1>4. /\ Paying(match') /\ match'[m].bank = b /\ match'[m].expense = e
      /\ \A n \in MatchId \ {m} : match'[n] = match[n]
  <2>1. MatchTypeOK /\ Paying(match) /\ a \in Nat \ {0}
    BY <1>0, AmountsAssumption DEF Money, IInv, TypeOK
  <2>2. match' = [match EXCEPT ![m] = MatchRow(b, e, a, st)]
    BY <1>3
  <2>3. /\ Paying(match') /\ match'[m] = MatchRow(b, e, a, st)
        /\ match'[m].bank = b /\ match'[m].expense = e
        /\ match'[m].amount = a /\ match'[m].status = st
        /\ \A n \in MatchId \ {m} : match'[n] = match[n]
    BY <2>1, <2>2, RowPays
  <2> QED BY <2>3
<1>5. PICK es : es = {match[m].expense, e}
  OBVIOUS
<1>6. /\ match[m].bank = b /\ match'[m].bank = b
      /\ match[m].expense \in es /\ match'[m].expense \in es
      /\ RefreshBank(match', b) /\ RefreshExpenses(match', es) /\ ledger' = "open"
  BY <1>2, <1>3, <1>4, <1>5
<1> QED BY <1>0, <1>3, <1>4, <1>6, RefreshedMoney

LEMMA UnmatchMoney ==
  ASSUME IInv, Money, NEW m \in MatchId, UnmatchReconciliationRecord(m)
  PROVE  Money'
<1>1. m \in Rows(match)
  BY DEF UnmatchReconciliationRecord, Rows
<1>2. /\ match[m].bank \in Bank /\ match[m].expense \in Expense
      /\ match[m].amount \in Nat \ {0}
  BY <1>1 DEF IInv, TypeOK, MatchTypeOK, Money, Paying
<1>3. PICK b \in Bank, e \in Expense, a \in Nat \ {0} :
        b = match[m].bank /\ e = match[m].expense /\ a = match[m].amount
  BY <1>2
<1>4. /\ match' = [match EXCEPT ![m] = MatchRow(b, e, a, "rejected")]
      /\ RefreshBank(match', b) /\ RefreshExpenses(match', {e})
      /\ UNCHANGED <<bankState, bankAmount, settlementVars, ledger>> /\ ledger = "open"
  BY <1>3 DEF UnmatchReconciliationRecord, WithStatus
<1>5. /\ Paying(match') /\ match'[m].bank = b /\ match'[m].expense = e
      /\ \A n \in MatchId \ {m} : match'[n] = match[n]
  <2>1. MatchTypeOK /\ Paying(match) /\ "rejected" \in MatchStatus
    BY DEF Money, IInv, TypeOK, MatchStatus
  <2>2. match' = [match EXCEPT ![m] = MatchRow(b, e, a, "rejected")]
    BY <1>4
  <2>3. /\ Paying(match') /\ match'[m] = MatchRow(b, e, a, "rejected")
        /\ match'[m].bank = b /\ match'[m].expense = e
        /\ match'[m].amount = a /\ match'[m].status = "rejected"
        /\ \A n \in MatchId \ {m} : match'[n] = match[n]
    BY <2>1, <2>2, RowPays
  <2> QED BY <2>3
<1>6. PICK es : es = {e}
  OBVIOUS
<1>7. /\ match[m].bank = b /\ match'[m].bank = b
      /\ match[m].expense \in es /\ match'[m].expense \in es
      /\ RefreshBank(match', b) /\ RefreshExpenses(match', es) /\ ledger' = "open"
  BY <1>3, <1>4, <1>5, <1>6
<1> QED BY <1>4, <1>5, <1>7, RefreshedMoney

\* A suggestion is for the amount both sides still lack.
LEMMA SuggestMoney ==
  ASSUME IInv, Money, AutoSuggestMatches
  PROVE  Money'
<1>1. PICK picked \in SUBSET MatchId :
        /\ picked \cap Rows(match) = {}
        /\ \E bankOf \in [picked -> Bank], expenseOf \in [picked -> Expense] :
             /\ \A m \in picked : Suggestible(bankOf[m], expenseOf[m])
             /\ match' = [m \in MatchId |-> IF m \in picked
                  THEN NewCandidate(bankOf[m], expenseOf[m],
                         ExpenseAmount[expenseOf[m]]
                           - Total(match, ConfirmedFor(match, expenseOf[m])))
                  ELSE match[m]]
  BY DEF AutoSuggestMatches
<1>2. PICK bankOf \in [picked -> Bank], expenseOf \in [picked -> Expense] :
        /\ \A m \in picked : Suggestible(bankOf[m], expenseOf[m])
        /\ match' = [m \in MatchId |-> IF m \in picked
             THEN NewCandidate(bankOf[m], expenseOf[m],
                    ExpenseAmount[expenseOf[m]]
                      - Total(match, ConfirmedFor(match, expenseOf[m])))
             ELSE match[m]]
  BY <1>1
<1>3. ASSUME NEW b \in Bank, NEW e \in Expense, Suggestible(b, e)
      PROVE  ExpenseAmount[e] - Total(match, ConfirmedFor(match, e)) \in Nat \ {0}
  <2>1. /\ bankAmount[b] \in Nat /\ matchedAmount[b] \in Nat
        /\ bankAmount[b] > matchedAmount[b]
        /\ ExpenseAmount[e] - Total(match, ConfirmedFor(match, e))
             = bankAmount[b] - matchedAmount[b]
    BY <1>3, MoneyIs DEF Suggestible
  <2> QED BY <2>1
<1>4. \A m \in picked : /\ match'[m].status = "candidate"
                        /\ match'[m].amount \in Nat \ {0}
  <2> TAKE m \in picked
  <2>1. match'[m].amount = ExpenseAmount[expenseOf[m]]
                             - Total(match, ConfirmedFor(match, expenseOf[m]))
    BY <1>2 DEF NewCandidate, MatchRow
  <2>2. match'[m].status = "candidate"
    BY <1>2 DEF NewCandidate, MatchRow
  <2> QED BY <1>2, <1>3, <2>1, <2>2
<1>5. \A m \in MatchId \ picked : match'[m] = match[m]
  BY <1>2
<1>6. Paying(match')
  BY <1>4, <1>5 DEF Money, Paying, Rows
<1>7. UNCHANGED <<bankVars, expenseStatus, settlementVars, ledger>>
  BY DEF AutoSuggestMatches
<1>8. \A m \in picked : match[m].status = "none"
  BY <1>1 DEF Rows
<1> QED BY <1>4, <1>5, <1>6, <1>7, <1>8, QuietStep

\* Settlement handlers need the ledger open; a link only helps a completed settlement.
LEMMA SettlementMoney ==
  ASSUME IInv, Money,
         \/ \E s \in Bank, bs \in SUBSET Bank : AddLinks(s, bs)
         \/ \E s \in Bank, b \in Bank : RemoveLink(s, b)
         \/ \E s \in Bank, c \in BOOLEAN : Complete(s, c)
  PROVE  Money'
<1> DEFINE Backed(b) == /\ link[b] # NoBank /\ settlement[link[b]] = "completed"
                        /\ matchedAmount[b] = bankAmount[b]
           Helped ==
             /\ match' = match /\ ledger' = "open"
             /\ \A b \in Bank : /\ bankAmount'[b] = bankAmount[b]
                                /\ bankState'[b] # "absent" => bankState[b] # "absent"
             /\ \A b \in Bank : Backed(b)' \/ matchedAmount'[b] = matchedAmount[b]
             /\ \A b \in Bank : Backed(b) => Backed(b)'
             /\ expenseStatus' = expenseStatus \/ \E es : RefreshExpenses(match, es)
<1>0. \A b \in Bank : link[b] \in Bank \cup {NoBank}
  BY DEF IInv, TypeOK, SettlementTypeOK
<1>1. Helped
  <2>1. ASSUME NEW s \in Bank, NEW bs \in SUBSET Bank, AddLinks(s, bs)
        PROVE  Helped
    <3>1. /\ match' = match /\ ledger' = "open" /\ UNCHANGED <<bankVars, expenseStatus>>
          /\ settlement[s] # "completed" /\ \A b \in bs : link[b] = NoBank
      BY <2>1 DEF AddLinks, SourceWritable, matchVars
    <3>2. \A b \in Bank : Backed(b) => Backed(b)'
      BY <1>0, <2>1, <3>1 DEF AddLinks, bankVars, IInv, TypeOK, SettlementTypeOK
    <3> QED BY <3>1, <3>2 DEF bankVars
  <2>2. ASSUME NEW s \in Bank, NEW x \in Bank, RemoveLink(s, x)
        PROVE  Helped
    <3>1. /\ match' = match /\ ledger' = "open" /\ UNCHANGED <<bankVars, expenseStatus>>
          /\ settlement[s] = "open" /\ link[x] = s
          /\ link' = [link EXCEPT ![x] = NoBank]
          /\ settlement' = settlement \/ settlement' = [settlement EXCEPT ![s] = "none"]
      BY <2>2 DEF RemoveLink, SourceWritable, matchVars
    <3>2. \A b \in Bank : Backed(b) => Backed(b)'
      BY <1>0, <3>1 DEF bankVars, IInv, TypeOK, SettlementTypeOK
    <3> QED BY <3>1, <3>2 DEF bankVars
  <2>3. ASSUME NEW s \in Bank, NEW c \in BOOLEAN, Complete(s, c)
        PROVE  Helped
    <3>1. /\ match' = match /\ ledger' = "open" /\ UNCHANGED <<bankAmount, link>>
          /\ bankState' = [bankState EXCEPT ![s] = "archived"]
          /\ settlement' = [settlement EXCEPT ![s] = "completed"]
          /\ matchedAmount' = Credited(s) /\ bankState[s] = "active"
          /\ settlement[s] = "open"
          /\ \E es : RefreshExpenses(match, es)
      BY <2>3 DEF Complete, SourceWritable
    <3>2. \A b \in Bank : Backed(b)' \/ matchedAmount'[b] = matchedAmount[b]
      BY <3>1, NullAssumption DEF Credited, Linked, IInv, TypeOK, SettlementTypeOK
    <3>3. \A b \in Bank : Backed(b) => Backed(b)'
      BY <1>0, <3>1 DEF Credited, IInv, TypeOK, SettlementTypeOK
    <3>4. \A b \in Bank : bankState'[b] # "absent" => bankState[b] # "absent"
      BY <3>1 DEF IInv, TypeOK, BankTypeOK
    <3> QED BY <3>1, <3>2, <3>3, <3>4
  <2> QED BY <2>1, <2>2, <2>3
<1>2. MatchedAmountExact'
  BY <1>1 DEF Money, MatchedAmountExact
<1>3. ExpenseStatusExact'
  <2>1. ASSUME NEW es, RefreshExpenses(match, es)
        PROVE  \A e \in Expense : expenseStatus'[e] = expenseStatus[e]
    BY <2>1 DEF RefreshExpenses, Money, ExpenseStatusExact
  <2>2. match' = match /\ \A e \in Expense : expenseStatus'[e] = expenseStatus[e]
    BY <1>1, <2>1
  <2> QED BY <2>2 DEF Money, ExpenseStatusExact
<1>4. ClosedBooksBacked'
  BY <1>1 DEF ClosedBooksBacked
<1>5. Paying(match')
  <2>1. match' = match /\ Paying(match)
    BY <1>1 DEF Money
  <2> QED BY <2>1
<1>6. \A b \in Bank : bankState'[b] # "absent" => bankAmount'[b] # 0
  <2>1. \A b \in Bank : /\ bankAmount'[b] = bankAmount[b]
                        /\ bankState'[b] # "absent" => bankState[b] # "absent"
                        /\ bankState[b] # "absent" => bankAmount[b] # 0
    BY <1>1 DEF Money
  <2> QED BY <2>1
<1> QED BY <1>2, <1>3, <1>4, <1>5, <1>6 DEF Money

\* A bank row is only resized while nothing is linked to it and the ledger is open, and
\* a row that comes to count for closing did so before.
LEMMA BankRowsMoney ==
  ASSUME IInv, Money,
         UNCHANGED <<match, expenseStatus, matchedAmount, settlement, link, ledger>>,
         \A x \in Bank : \/ bankAmount'[x] = bankAmount[x]
                         \/ link[x] = NoBank /\ bankAmount'[x] # 0 /\ ledger = "open",
         \A x \in Bank : bankState'[x] # "absent" =>
                           bankState[x] # "absent" \/ bankAmount'[x] # 0,
         ledger = "closed" => \A x \in Bank :
           bankState'[x] \in {"active", "archived"} => bankState[x] \in {"active", "archived"}
  PROVE  Money'
<1>1. MatchedAmountExact' /\ ExpenseStatusExact'
  BY DEF Money, MatchedAmountExact, ExpenseStatusExact
<1>2. ClosedBooksBacked'
  BY DEF Money, ClosedBooksBacked, UnmatchedForClose
<1>3. Paying(match')
  <2>1. match' = match /\ Paying(match)
    BY DEF Money
  <2> QED BY <2>1
<1>4. \A x \in Bank : bankState'[x] # "absent" => bankAmount'[x] # 0
  BY DEF Money
<1> QED BY <1>1, <1>2, <1>3, <1>4 DEF Money

LEMMA BankMoney ==
  ASSUME Books,
         \/ \E r \in Request :
              \/ \E b \in Bank, a \in BankAmounts, p \in {"paid", "unpaid"} :
                   CreateBankTransaction(r, b, a, p)
              \/ DeleteBankTransaction(r) \/ DeleteBankTransactionsBatch(r)
         \/ \E b \in Bank, a \in BankAmounts, p \in {"paid", "unpaid"} :
              UpdateBankTransaction(b, a, p)
  PROVE  Money'
<1>0. IInv /\ Money /\ Fresh
  BY DEF Books
<1>1. ASSUME NEW r \in Request, NEW b \in Bank, NEW a \in BankAmounts,
             NEW p \in {"paid", "unpaid"}, CreateBankTransaction(r, b, a, p)
      PROVE  Money'
  <2>1. /\ ledger = "open" /\ link[b] = NoBank /\ a # 0
        /\ bankState' = [bankState EXCEPT ![b] = "active"]
        /\ bankAmount' = [bankAmount EXCEPT ![b] = a]
        /\ UNCHANGED <<match, expenseStatus, matchedAmount, settlement, link, ledger>>
    BY <1>0, <1>1, AmountsAssumption
    DEF CreateBankTransaction, Fresh, IInv, Settled, SettlementRowsPinned, matchVars,
        settlementVars
  <2>2. \A x \in Bank : \/ bankAmount'[x] = bankAmount[x]
                        \/ link[x] = NoBank /\ bankAmount'[x] # 0 /\ ledger = "open"
    BY <1>0, <2>1 DEF IInv, TypeOK, BankTypeOK
  <2>3. \A x \in Bank : bankState'[x] # "absent" =>
                          bankState[x] # "absent" \/ bankAmount'[x] # 0
    BY <1>0, <2>1 DEF IInv, TypeOK, BankTypeOK
  <2> QED BY <1>0, <2>1, <2>2, <2>3, BankRowsMoney
<1>2. ASSUME NEW b \in Bank, NEW a \in BankAmounts, NEW p \in {"paid", "unpaid"},
             UpdateBankTransaction(b, a, p)
      PROVE  Money'
  <2>1. /\ ledger = "open" /\ link[b] = NoBank /\ a # 0
        /\ bankAmount' = [bankAmount EXCEPT ![b] = a]
        /\ UNCHANGED <<bankState, match, expenseStatus, matchedAmount, settlement, link,
                       ledger>>
    BY <1>2, AmountsAssumption
    DEF UpdateBankTransaction, EditAllowed, matchVars, settlementVars
  <2>2. \A x \in Bank : \/ bankAmount'[x] = bankAmount[x]
                        \/ link[x] = NoBank /\ bankAmount'[x] # 0 /\ ledger = "open"
    BY <1>0, <2>1 DEF IInv, TypeOK, BankTypeOK
  <2> QED BY <1>0, <2>1, <2>2, BankRowsMoney
<1>3. ASSUME NEW r \in Request, DeleteBankTransaction(r) \/ DeleteBankTransactionsBatch(r)
      PROVE  Money'
  <2>1. UNCHANGED <<bankAmount, match, expenseStatus, matchedAmount, settlement, link,
                    ledger>>
    BY <1>3 DEF DeleteBankTransaction, DeleteBankTransactionsBatch, matchVars,
                settlementVars
  <2>2. ASSUME NEW x \in Bank
        PROVE  bankState'[x] = bankState[x] \/ bankState[x] = "active"
    <3>1. CASE DeleteBankTransaction(r)
      BY <1>0, <3>1 DEF DeleteBankTransaction, Fresh, IInv, TypeOK, BankTypeOK
    <3>2. CASE DeleteBankTransactionsBatch(r)
      BY <1>0, <3>2 DEF DeleteBankTransactionsBatch, Fresh
    <3> QED BY <1>3, <3>1, <3>2
  <2>3. /\ \A x \in Bank : bankState'[x] # "absent" => bankState[x] # "absent"
        /\ \A x \in Bank : bankState'[x] \in {"active", "archived"}
                             => bankState[x] \in {"active", "archived"}
    BY <2>2
  <2> QED BY <1>0, <2>1, <2>3, BankRowsMoney
<1> QED BY <1>1, <1>2, <1>3

\* The ledger closes on books that are in order; reopening, loading and giving up
\* change no amount.
LEMMA LedgerMoney ==
  ASSUME IInv, Money,
         \/ CloseLedger \/ ReopenLedger \/ Load \/ UNCHANGED vars
         \/ \E r \in Request : Abort(r)
  PROVE  Money'
<1>1. ASSUME CloseLedger
      PROVE  Money'
  <2>1. /\ UNCHANGED <<bankState, bankAmount, match, expenseStatus, matchedAmount,
                       settlement, link>>
        /\ CanClose
    BY <1>1 DEF CloseLedger, bankVars, matchVars, settlementVars
  <2>2. MatchedAmountExact' /\ ExpenseStatusExact'
    BY <2>1 DEF Money, MatchedAmountExact, ExpenseStatusExact
  <2>3. \A e \in Expense : OnExpense(match, e) >= ExpenseAmount[e]
    BY <2>1, MoneyIs DEF CanClose, StatusFor
  <2>4. ClosedBooksBacked'
    BY <2>1, <2>3 DEF ClosedBooksBacked, CanClose, UnmatchedForClose, OnExpense
  <2>5. Paying(match')
    <3>1. match' = match /\ Paying(match)
      BY <2>1 DEF Money
    <3> QED BY <3>1
  <2>6. \A x \in Bank : bankState'[x] # "absent" => bankAmount'[x] # 0
    BY <2>1 DEF Money
  <2> QED BY <2>2, <2>4, <2>5, <2>6 DEF Money
<1>2. ASSUME ReopenLedger \/ Load \/ UNCHANGED vars \/ \E r \in Request : Abort(r)
      PROVE  Money'
  <2>1. /\ UNCHANGED <<bankVars, matchVars, settlementVars>>
        /\ ledger' = ledger \/ ledger' = "open"
    BY <1>2 DEF ReopenLedger, Load, LoadMatch, LoadBank, LoadBatch, LoadLedger, Loaded,
                Abort, vars
  <2>2. match' = match /\ UNCHANGED <<bankVars, expenseStatus, settlementVars>>
    BY <2>1 DEF matchVars
  <2>3. Paying(match')
    <3>1. match' = match /\ Paying(match)
      BY <2>2 DEF Money
    <3> QED BY <3>1
  <2> QED BY <2>1, <2>2, <2>3, QuietStep
<1> QED BY <1>1, <1>2

LEMMA NextMoney == Books /\ [NextSerial]_vars => Money'
<1> SUFFICES ASSUME Books, [NextSerial]_vars  PROVE Money'
  OBVIOUS
<1>0. IInv /\ Money
  BY DEF Books
<1>1. CASE Load \/ UNCHANGED vars
  BY <1>0, <1>1, LedgerMoney
<1>2. CASE Respond
  <2>1. ASSUME NEW r \in Request, Abort(r)
        PROVE  Money'
    BY <1>0, <2>1, LedgerMoney
  <2>2. ASSUME NEW r \in Request,
               \/ \E b \in Bank, a \in BankAmounts, p \in {"paid", "unpaid"} :
                    CreateBankTransaction(r, b, a, p)
               \/ DeleteBankTransaction(r) \/ DeleteBankTransactionsBatch(r)
        PROVE  Money'
    BY <2>2, BankMoney
  <2> QED BY <1>2, <2>1, <2>2, CandidateMoney, ConfirmMoney, RejectMoney, UpdateMoney
          DEF Respond
<1>3. CASE LockedFirst
  <2>1. CASE CloseLedger \/ ReopenLedger
    BY <1>0, <2>1, LedgerMoney
  <2>2. ASSUME \E b \in Bank, a \in BankAmounts, p \in {"paid", "unpaid"} :
                 UpdateBankTransaction(b, a, p)
        PROVE  Money'
    BY <2>2, BankMoney
  <2>3. ASSUME NEW s \in Bank,
               \/ \E bs \in SUBSET Bank : AddLinks(s, bs)
               \/ \E b \in Bank : RemoveLink(s, b)
               \/ \E c \in BOOLEAN : Complete(s, c)
        PROVE  Money'
    BY <1>0, <2>3, SettlementMoney
  <2> QED BY <1>0, <1>3, <2>1, <2>2, <2>3, UnmatchMoney, SuggestMoney DEF LockedFirst
<1> QED BY <1>1, <1>2, <1>3 DEF NextSerial

\* A request acts on what it has read: nothing happens between the two.
LEMMA NextFresh == Books /\ [NextSerial]_vars => Alone' /\ Fresh'
<1> SUFFICES ASSUME Books, [NextSerial]_vars  PROVE Alone' /\ Fresh'
  OBVIOUS
<1> USE DEF Books, IInv, TypeOK, RequestTypeOK
<1>1. ASSUME \A r \in Request : request'[r].kind = "none"
      PROVE  Alone' /\ Fresh'
  BY <1>1 DEF Alone, Fresh, Holds
<1>2. ASSUME NoOverlap, Load
      PROVE  Alone' /\ Fresh'
  <2>1. ASSUME NEW r \in Request, NEW copy, Loaded(r, copy),
               copy.kind = "match" => copy.row = match[copy.id],
               copy.kind = "bank" => bankState[copy.bank] = "active",
               copy.kind = "batch" => \A b \in copy.banks : bankState[b] = "active",
               copy.kind = "ledger" => ledger = "open"
        PROVE  Alone' /\ Fresh'
    <3>1. /\ request'[r] = copy
          /\ \A s \in Request \ {r} : request'[s].kind = "none"
          /\ UNCHANGED <<match, bankState, ledger>>
      BY <1>2, <2>1 DEF Loaded, NoOverlap, matchVars, bankVars
    <3>2. Alone'
      BY <3>1 DEF Alone
    <3>3. Fresh'
      BY <2>1, <3>1 DEF Fresh, Holds
    <3> QED BY <3>2, <3>3
  <2>2. ASSUME NEW r \in Request, NEW m \in MatchId, LoadMatch(r, m)
        PROVE  Alone' /\ Fresh'
    <3> DEFINE copy == [kind |-> "match", id |-> m, row |-> match[m]]
    <3>1. Loaded(r, copy) /\ copy.kind = "match" /\ copy.row = match[copy.id]
      BY <2>2 DEF LoadMatch
    <3> HIDE DEF copy
    <3> QED BY <2>1, <3>1
  <2>3. ASSUME NEW r \in Request, NEW b \in Bank, LoadBank(r, b)
        PROVE  Alone' /\ Fresh'
    <3> DEFINE copy == [kind |-> "bank", bank |-> b, unmatched |-> matchedAmount[b] = 0]
    <3>1. Loaded(r, copy) /\ copy.kind = "bank" /\ bankState[copy.bank] = "active"
      BY <2>3 DEF LoadBank
    <3> HIDE DEF copy
    <3> QED BY <2>1, <3>1
  <2>4. ASSUME NEW r \in Request, NEW bs \in SUBSET Bank, LoadBatch(r, bs)
        PROVE  Alone' /\ Fresh'
    <3> DEFINE copy == [kind |-> "batch", banks |-> bs]
    <3>1. /\ Loaded(r, copy) /\ copy.kind = "batch"
          /\ \A b \in copy.banks : bankState[b] = "active"
      BY <2>4 DEF LoadBatch
    <3> HIDE DEF copy
    <3> QED BY <2>1, <3>1
  <2>5. ASSUME NEW r \in Request, LoadLedger(r)
        PROVE  Alone' /\ Fresh'
    <3> DEFINE copy == [kind |-> "ledger"]
    <3>1. Loaded(r, copy) /\ copy.kind = "ledger" /\ ledger = "open"
      BY <2>5 DEF LoadLedger
    <3> HIDE DEF copy
    <3> QED BY <2>1, <3>1
  <2> QED BY <1>2, <2>2, <2>3, <2>4, <2>5 DEF Load
<1>3. ASSUME Respond
      PROVE  Alone' /\ Fresh'
  <2>1. PICK r \in Request :
          /\ request[r].kind # "none" /\ request' = [request EXCEPT ![r] = Idle]
    <3>1. ASSUME NEW r \in Request,
                 \/ Abort(r) \/ ConfirmMatch(r) \/ RejectMatch(r)
                 \/ DeleteBankTransaction(r) \/ DeleteBankTransactionsBatch(r)
          PROVE  request[r].kind # "none" /\ request' = [request EXCEPT ![r] = Idle]
      BY <3>1 DEF Abort, ConfirmMatch, RejectMatch, DeleteBankTransaction,
                  DeleteBankTransactionsBatch, Holds, Finish
    <3>2. ASSUME NEW r \in Request, NEW e \in Expense, NEW a \in MatchAmounts,
                 CreateMatchCandidate(r, e, a) \/ UpdateReconciliationRecord(r, e, a)
          PROVE  request[r].kind # "none" /\ request' = [request EXCEPT ![r] = Idle]
      BY <3>2 DEF CreateMatchCandidate, UpdateReconciliationRecord, Holds, Finish
    <3>3. ASSUME NEW r \in Request, NEW b \in Bank, NEW a \in BankAmounts,
                 NEW p \in {"paid", "unpaid"}, CreateBankTransaction(r, b, a, p)
          PROVE  request[r].kind # "none" /\ request' = [request EXCEPT ![r] = Idle]
      BY <3>3 DEF CreateBankTransaction, Holds, Finish
    <3> QED BY <1>3, <3>1, <3>2, <3>3 DEF Respond
  <2>2. \A s \in Request : request'[s].kind = "none"
    BY <2>1 DEF Alone, Idle
  <2> QED BY <1>1, <2>2
<1>4. ASSUME NoOverlap, LockedFirst
      PROVE  Alone' /\ Fresh'
  <2>1. request' = request
    BY <1>4
    DEF LockedFirst, UnmatchReconciliationRecord, AutoSuggestMatches, AddLinks,
        RemoveLink, Complete, UpdateBankTransaction, CloseLedger, ReopenLedger
  <2> QED BY <1>1, <1>4, <2>1 DEF NoOverlap
<1>5. CASE UNCHANGED vars
  BY <1>5 DEF vars, matchVars, bankVars, Alone, Fresh, Holds
<1> QED BY <1>2, <1>3, <1>4, <1>5 DEF NextSerial

LEMMA InitBooks == Init => Books
<1> SUFFICES ASSUME Init  PROVE Books
  OBVIOUS
<1>1. IInv
  BY InitTypeOK, InitSettled DEF IInv
<1>2. Rows(match) = {}
  BY DEF Init, Rows, NoMatch
<1>3. Paying(match)
  BY <1>2 DEF Paying
<1>4. ASSUME NEW S, S \subseteq Rows(match)
      PROVE  Total(match, S) = 0
  BY <1>2, <1>4, TotalIs, AmountsEmpty
<1>5. MatchedAmountExact /\ ExpenseStatusExact
  <2>1. \A b \in Bank : Total(match, ConfirmedOn(match, b)) = 0
    BY <1>4 DEF ConfirmedOn, RowsOf
  <2>2. \A e \in Expense : Total(match, ConfirmedFor(match, e)) = 0
    BY <1>4 DEF ConfirmedFor
  <2> QED BY <2>1, <2>2 DEF Init, MatchedAmountExact, ExpenseStatusExact, StatusFor
<1>6. /\ ClosedBooksBacked /\ Alone /\ Fresh
      /\ \A b \in Bank : bankState[b] # "absent" => bankAmount[b] # 0
  BY DEF Init, ClosedBooksBacked, Alone, Fresh, Holds, Idle
<1> QED BY <1>1, <1>3, <1>5, <1>6 DEF Books, Money

LEMMA InvariantBooks == SpecSerial => []Books
<1>1. Books /\ [NextSerial]_vars => Books'
  <2> SUFFICES ASSUME Books, [NextSerial]_vars  PROVE Books'
    OBVIOUS
  <2>1. [Next]_vars
    BY DEF NextSerial, Next
  <2>2. IInv'
    BY <2>1, NextTypeOK, NextSettled DEF Books, IInv
  <2> QED BY <2>2, NextMoney, NextFresh DEF Books
<1>2. QED
  BY <1>1, InitBooks, PTL DEF SpecSerial

\* When requests do not overlap, a bank row's matched amount is the sum of its confirmed
\* matches, or all of the row when it paid for a completed settlement.
THEOREM MatchedAmountsAreExact == SpecSerial => []MatchedAmountExact
<1>1. Books => MatchedAmountExact
  BY DEF Books, Money
<1>2. QED
  BY <1>1, InvariantBooks, PTL

\* When requests do not overlap, an expense's payment status is the one its confirmed
\* matches add up to, after every confirmation, move, resize, release and completion.
THEOREM ExpenseStatusesAreExact == SpecSerial => []ExpenseStatusExact
<1>1. Books => ExpenseStatusExact
  BY DEF Books, Money
<1>2. QED
  BY <1>1, InvariantBooks, PTL

\* When requests do not overlap, closing holds: as long as the ledger is closed, every
\* expense is covered by confirmed payments and every bank row is used up.
THEOREM ClosedBooksAreBacked == SpecSerial => []ClosedBooksBacked
<1>1. Books => ClosedBooksBacked
  BY DEF Books, Money
<1>2. QED
  BY <1>1, InvariantBooks, PTL
=============================================================================
