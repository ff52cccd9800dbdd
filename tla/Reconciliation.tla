--------------------------- MODULE Reconciliation ---------------------------
(***************************************************************************)
(* Expense reconciliation of one store and one ledger period: bank rows,   *)
(* the candidate and confirmed matches between bank rows and expense items,*)
(* the settlement of unpaid registrations by real payments, and the ledger *)
(* status (apps/api/app/modules: matching, bank, ledgers).                 *)
(*                                                                         *)
(* A handler that takes mutation_lock before it reads is one action.  The  *)
(* session keeps every row it has loaded, so a handler that reads a row    *)
(* before the lock decides on that copy: its first reads are an action of  *)
(* their own (Load...), the copy stays in request[r], and the locked rest  *)
(* of the handler is the action named after it.                            *)
(***************************************************************************)
EXTENDS Integers, FiniteSets, FiniteSetsExt

CONSTANTS
  Bank,          \* identifiers of bank_transactions rows
  Expense,       \* expense_items rows, all operating and of the same ledger
  MatchId,       \* identifiers of expense_bank_matches rows: bounds their number
  Request,       \* HTTP requests that may be in progress at the same time
  ExpenseAmount, \* amount of each expense item
  BankAmounts,   \* amounts a bank row may have
  MatchAmounts,  \* amounts a client may put on a match
  NoBank         \* link of a row that is linked to nothing

ASSUME AmountsAssumption ==
  /\ ExpenseAmount \in [Expense -> Nat \ {0}]
  /\ BankAmounts \subseteq Nat \ {0}
  /\ MatchAmounts \subseteq Nat \ {0}

ASSUME NullAssumption == NoBank \notin Bank
ASSUME TableAssumption == IsFiniteSet(MatchId)

VARIABLES
  bankState,      \* "absent" (not inserted), "active", "archived", "deleted"
  bankAmount,     \* BankTransaction.amount
  paymentStatus,  \* BankTransaction.payment_status
  matchedAmount,  \* BankTransaction.matched_amount
  match,          \* ExpenseBankMatch rows
  expenseStatus,  \* ExpenseItem.payment_status
  settlement,     \* BankPaymentSettlement.status of the row whose source is b
  link,           \* source a real payment is linked to by BankPaymentSettlementLink
  ledger,         \* Ledger.status
  request         \* what each request in progress has loaded before the lock

bankVars == <<bankState, bankAmount, paymentStatus, matchedAmount>>
matchVars == <<match, expenseStatus>>
settlementVars == <<settlement, link>>
vars == <<bankVars, matchVars, settlementVars, ledger, request>>

MatchStatus == {"candidate", "confirmed", "rejected"}
NoMatch == [status |-> "none"]
Idle == [kind |-> "none"]
-----------------------------------------------------------------------------
(* Queries the handlers run.  mt is the match table they run against. *)

Rows(mt) == {m \in MatchId : mt[m].status # "none"}
RowsOf(mt, b) == {m \in Rows(mt) : mt[m].bank = b}
Candidates(mt, b) == {m \in RowsOf(mt, b) : mt[m].status = "candidate"}
ConfirmedOn(mt, b) == {m \in RowsOf(mt, b) : mt[m].status = "confirmed"}
ActiveOn(mt, b) == {m \in RowsOf(mt, b) : mt[m].status # "rejected"}
ConfirmedFor(mt, e) ==
  {m \in Rows(mt) : mt[m].expense = e /\ mt[m].status = "confirmed"}
Total(mt, ms) == MapThenSumSet(LAMBDA m : mt[m].amount, ms)

StatusFor(e, paid) ==
  IF paid = 0 THEN "unpaid"
  ELSE IF paid >= ExpenseAmount[e] THEN "paid" ELSE "partial_paid"

\* refresh_bank_matched_amount and refresh_expense_payment_status after a change to mt.
RefreshBank(mt, b) ==
  matchedAmount' = [matchedAmount EXCEPT ![b] = Total(mt, ConfirmedOn(mt, b))]
RefreshExpenses(mt, es) ==
  expenseStatus' = [e \in Expense |-> IF e \in es
                      THEN StatusFor(e, Total(mt, ConfirmedFor(mt, e)))
                      ELSE expenseStatus[e]]

Linked(s) == {b \in Bank : link[b] = s}
\* The row is the source of a settlement that reserves it.
SourceReserved(b) ==
  settlement[b] = "completed" \/ (settlement[b] = "open" /\ Linked(b) # {})

EditAllowed_SourceOnly(b) == ~SourceReserved(b)
MatchingAllowed_IgnoresReservation(b) == ~SourceReserved(b)
MatchingAllowed_OpenOnly(b) ==
  ~SourceReserved(b) /\ (link[b] # NoBank => settlement[link[b]] # "open")

\* protect_payment_bank: an edit is refused to every linked row, a match only while
\* the settlement is open or its source still carries the approval's match.
EditAllowed(b) == ~SourceReserved(b) /\ link[b] = NoBank
MatchingAllowed(b) ==
  /\ ~SourceReserved(b)
  /\ link[b] # NoBank =>
       /\ settlement[link[b]] # "open"
       /\ ConfirmedOn(match, link[b]) = {}

Init ==
  /\ bankState = [b \in Bank |-> "absent"]
  /\ bankAmount = [b \in Bank |-> 0]
  /\ paymentStatus = [b \in Bank |-> "paid"]
  /\ matchedAmount = [b \in Bank |-> 0]
  /\ match = [m \in MatchId |-> NoMatch]
  /\ expenseStatus = [e \in Expense |-> "unpaid"]
  /\ settlement = [b \in Bank |-> "none"]
  /\ link = [b \in Bank |-> NoBank]
  /\ ledger = "open"
  /\ request = [r \in Request |-> Idle]
-----------------------------------------------------------------------------
(* Reads before the lock. *)

Loaded(r, copy) ==
  /\ request[r].kind = "none"
  /\ request' = [request EXCEPT ![r] = copy]
  /\ UNCHANGED <<bankVars, matchVars, settlementVars, ledger>>

\* confirm_match, reject_match and update_reconciliation_record load the match first.
LoadMatch(r, m) ==
  /\ m \in Rows(match)
  /\ Loaded(r, [kind |-> "match", id |-> m, row |-> match[m]])

\* create_match_candidate and delete_bank_transaction load the bank row first.  A row
\* loaded as archived is refused whatever follows, so only active rows matter.
LoadBank(r, b) ==
  /\ bankState[b] = "active"
  /\ Loaded(r, [kind |-> "bank", bank |-> b, unmatched |-> matchedAmount[b] = 0])

\* delete_bank_transactions_batch checks every row for matches before any lock.
LoadBatch(r, bs) ==
  /\ \A b \in bs : /\ bankState[b] = "active"
                   /\ matchedAmount[b] = 0
                   /\ ActiveOn(match, b) = {}
  /\ Loaded(r, [kind |-> "batch", banks |-> bs])

\* create_bank_transaction looks the ledger up and never locks it.
LoadLedger(r) == ledger = "open" /\ Loaded(r, [kind |-> "ledger"])

\* A refusal, an exception or a lost connection: the transaction rolls back.
Abort(r) ==
  /\ request[r].kind # "none"
  /\ request' = [request EXCEPT ![r] = Idle]
  /\ UNCHANGED <<bankVars, matchVars, settlementVars, ledger>>

Holds(r, kind) == request[r].kind = kind
Finish(r) == request' = [request EXCEPT ![r] = Idle]
-----------------------------------------------------------------------------
(* Matching. *)

MatchRow(b, e, a, st) == [bank |-> b, expense |-> e, amount |-> a, status |-> st]
NewCandidate(b, e, a) == MatchRow(b, e, a, "candidate")
WithStatus(row, st) == MatchRow(row.bank, row.expense, row.amount, st)

\* The pair's row is used again unless it is confirmed; otherwise a row is inserted,
\* which the foreign key refuses when the bank row is gone.
CreateMatchCandidate(r, e, a) ==
  /\ Holds(r, "bank")
  /\ LET b == request[r].bank
         pair == {m \in RowsOf(match, b) : match[m].expense = e}
     IN /\ bankState[b] # "deleted"
        /\ MatchingAllowed(b)
        /\ \A m \in pair : match[m].status # "confirmed"
        /\ \E m \in IF pair # {} THEN pair ELSE MatchId \ Rows(match) :
             match' = [match EXCEPT ![m] = NewCandidate(b, e, a)]
  /\ Finish(r)
  /\ UNCHANGED <<bankVars, expenseStatus, settlementVars, ledger>>

\* Sums are read under the lock; the match's own status and amount are the copy's.  The
\* ledger matters to no expense without an approval form, and to none of a form that has
\* another confirmed match: the expense here may be any.
ConfirmMatch(r) ==
  /\ Holds(r, "match")
  /\ LET m == request[r].id
         row == request[r].row
         onBank == Total(match, ConfirmedOn(match, row.bank) \ {m}) + row.amount
         onExpense ==
           Total(match, ConfirmedFor(match, row.expense) \ {m}) + row.amount
     IN /\ row.status = "candidate"
        /\ bankState[row.bank] = "active"
        /\ MatchingAllowed(row.bank)
        /\ match' = [match EXCEPT ![m] = WithStatus(@, "confirmed")]
        /\ matchedAmount' = [matchedAmount EXCEPT ![row.bank] = onBank]
        /\ expenseStatus' = [expenseStatus EXCEPT ![row.expense] =
             IF onExpense >= ExpenseAmount[row.expense] THEN "paid" ELSE "partial_paid"]
  /\ Finish(r)
  /\ UNCHANGED <<bankState, bankAmount, paymentStatus, settlementVars, ledger>>

\* An already rejected copy writes nothing; nothing is recomputed.
RejectMatch(r) ==
  /\ Holds(r, "match")
  /\ LET m == request[r].id
         row == request[r].row
     IN /\ row.status = "candidate"
        /\ bankState[row.bank] = "active"
        /\ MatchingAllowed(row.bank)
        /\ match' = [match EXCEPT ![m] = WithStatus(@, "rejected")]
  /\ Finish(r)
  /\ UNCHANGED <<bankVars, expenseStatus, settlementVars, ledger>>

UpdateReconciliationRecord_OldNotRefreshed(r, e, a) ==
  /\ Holds(r, "match")
  /\ ledger = "open"
  /\ request[r].row.status = "confirmed"
  /\ LET m == request[r].id
         table == [match EXCEPT ![m] = MatchRow(@.bank, e, a, @.status)]
     IN /\ MatchingAllowed(match[m].bank)
        /\ match' = table
        /\ RefreshBank(table, match[m].bank)
        /\ RefreshExpenses(table, {e})
  /\ Finish(r)
  /\ UNCHANGED <<bankState, bankAmount, paymentStatus, settlementVars, ledger>>

\* Only the columns that differ from the copy are written.
UpdateReconciliationRecord(r, e, a) ==
  /\ Holds(r, "match")
  /\ ledger = "open"
  /\ LET m == request[r].id
         row == request[r].row
         now == match[m]
         new == MatchRow(now.bank, IF e # row.expense THEN e ELSE now.expense,
                         IF a # row.amount THEN a ELSE now.amount, now.status)
         table == [match EXCEPT ![m] = new]
     IN /\ row.status = "confirmed"
        /\ bankState[row.bank] = "active"
        /\ MatchingAllowed(row.bank)
        /\ \A n \in RowsOf(match, new.bank) \ {m} : match[n].expense # new.expense
        /\ match' = table
        /\ RefreshBank(table, row.bank)
        /\ RefreshExpenses(table, {row.expense, e})
  /\ Finish(r)
  /\ UNCHANGED <<bankState, bankAmount, paymentStatus, settlementVars, ledger>>

UnmatchReconciliationRecord_BankNotRefreshed(m) ==
  /\ match[m].status = "confirmed"
  /\ ledger = "open"
  /\ match' = [match EXCEPT ![m] = WithStatus(@, "rejected")]
  /\ RefreshExpenses(match', {match[m].expense})
  /\ UNCHANGED <<bankVars, settlementVars, ledger, request>>

\* Not refused by a settlement: a completed one may lose the match of its source.
UnmatchReconciliationRecord(m) ==
  /\ match[m].status = "confirmed"
  /\ ledger = "open"
  /\ LET table == [match EXCEPT ![m] = WithStatus(@, "rejected")]
     IN /\ match' = table
        /\ RefreshBank(table, match[m].bank)
        /\ RefreshExpenses(table, {match[m].expense})
  /\ UNCHANGED <<bankState, bankAmount, paymentStatus, settlementVars, ledger, request>>

Suggestible(b, e) ==
  /\ bankState[b] = "active"
  /\ ~SourceReserved(b)
  /\ link[b] # NoBank => settlement[link[b]] # "open"
  /\ bankAmount[b] > matchedAmount[b]
  /\ expenseStatus[e] # "paid"
  /\ \A m \in RowsOf(match, b) : match[m].expense # e
  /\ ExpenseAmount[e] - Total(match, ConfirmedFor(match, e))
       = bankAmount[b] - matchedAmount[b]

\* Each bank row and each expense is used once and no suggestible pair is passed over;
\* which pairs win depends on timestamps that are not modelled.
AutoSuggestMatches ==
  \E picked \in SUBSET MatchId :
    /\ picked # {} /\ picked \cap Rows(match) = {}
    /\ \E bankOf \in [picked -> Bank], expenseOf \in [picked -> Expense] :
         /\ \A m \in picked : Suggestible(bankOf[m], expenseOf[m])
         /\ \A m, n \in picked :
              m # n => bankOf[m] # bankOf[n] /\ expenseOf[m] # expenseOf[n]
         /\ \A b \in Bank, e \in Expense :
              Suggestible(b, e) => \E m \in picked : bankOf[m] = b \/ expenseOf[m] = e
         /\ match' = [m \in MatchId |-> IF m \in picked
              THEN NewCandidate(bankOf[m], expenseOf[m],
                     ExpenseAmount[expenseOf[m]]
                       - Total(match, ConfirmedFor(match, expenseOf[m])))
              ELSE match[m]]
    /\ UNCHANGED <<bankVars, expenseStatus, settlementVars, ledger, request>>
-----------------------------------------------------------------------------
(* Settlement of an unpaid registration by real payments. *)

SourceWritable(s) ==
  /\ bankState[s] = "active"
  /\ paymentStatus[s] = "unpaid"
  /\ settlement[s] # "completed"
  /\ ledger = "open"

TargetEligible(b, s) ==
  /\ b # s
  /\ bankState[b] = "active"
  /\ paymentStatus[b] = "paid"
  /\ matchedAmount[b] = 0
  /\ ActiveOn(match, b) = {}
  /\ settlement[b] = "none"
  /\ link[b] \in {NoBank, s}

AddLinks(s, bs) ==
  /\ SourceWritable(s)
  /\ Candidates(match, s) = {}
  /\ bs # {}
  /\ \A b \in bs : TargetEligible(b, s) /\ link[b] = NoBank
  /\ settlement' = [settlement EXCEPT ![s] = "open"]
  /\ link' = [b \in Bank |-> IF b \in bs THEN s ELSE link[b]]
  /\ UNCHANGED <<bankVars, matchVars, ledger, request>>

RemoveLink_KeepsSettlement(s, b) ==
  /\ SourceWritable(s)
  /\ settlement[s] = "open"
  /\ link[b] = s
  /\ link' = [link EXCEPT ![b] = NoBank]
  /\ UNCHANGED <<bankVars, matchVars, settlement, ledger, request>>

RemoveLink(s, b) ==
  /\ SourceWritable(s)
  /\ settlement[s] = "open"
  /\ link[b] = s
  /\ link' = [link EXCEPT ![b] = NoBank]
  /\ settlement' = IF Linked(s) = {b} THEN [settlement EXCEPT ![s] = "none"]
                                      ELSE settlement
  /\ UNCHANGED <<bankVars, matchVars, ledger, request>>

Credited_Dropped(s) == matchedAmount

\* Payments that take over the matches of the source count as matched in full.
Credited(s) == [b \in Bank |->
  IF b \in Linked(s) /\ ConfirmedOn(match, s) # {} THEN bankAmount[b]
                                                   ELSE matchedAmount[b]]

\* confirmed stands for confirm_difference together with a remark.
Complete(s, confirmed) ==
  /\ SourceWritable(s)
  /\ Candidates(match, s) = {}
  /\ settlement[s] = "open" /\ Linked(s) # {}
  /\ \A b \in Linked(s) : TargetEligible(b, s)
  /\ confirmed \/ MapThenSumSet(LAMBDA b : bankAmount[b], Linked(s)) = bankAmount[s]
  /\ settlement' = [settlement EXCEPT ![s] = "completed"]
  /\ bankState' = [bankState EXCEPT ![s] = "archived"]
  /\ matchedAmount' = Credited(s)
  /\ RefreshExpenses(match, {match[m].expense : m \in ConfirmedOn(match, s)})
  /\ UNCHANGED <<bankAmount, paymentStatus, match, link, ledger, request>>
-----------------------------------------------------------------------------
(* Bank rows and the ledger. *)

CreateBankTransaction(r, b, a, p) ==
  /\ Holds(r, "ledger")
  /\ bankState[b] = "absent"
  /\ bankState' = [bankState EXCEPT ![b] = "active"]
  /\ bankAmount' = [bankAmount EXCEPT ![b] = a]
  /\ paymentStatus' = [paymentStatus EXCEPT ![b] = p]
  /\ Finish(r)
  /\ UNCHANGED <<matchedAmount, matchVars, settlementVars, ledger>>

UpdateBankTransaction_Unprotected(b, a, p) ==
  /\ bankState[b] = "active"
  /\ ledger = "open"
  /\ a # bankAmount[b] => matchedAmount[b] = 0 /\ RowsOf(match, b) = {}
  /\ bankAmount' = [bankAmount EXCEPT ![b] = a]
  /\ paymentStatus' = [paymentStatus EXCEPT ![b] = p]
  /\ UNCHANGED <<bankState, matchedAmount, matchVars, settlementVars, ledger, request>>

\* A row with any match, even a rejected one, only changes its payment status.
UpdateBankTransaction(b, a, p) ==
  /\ bankState[b] = "active"
  /\ EditAllowed(b)
  /\ ledger = "open"
  /\ a # bankAmount[b] => matchedAmount[b] = 0 /\ RowsOf(match, b) = {}
  /\ bankAmount' = [bankAmount EXCEPT ![b] = a]
  /\ paymentStatus' = [paymentStatus EXCEPT ![b] = p]
  /\ UNCHANGED <<bankState, matchedAmount, matchVars, settlementVars, ledger, request>>

\* remove_unmatched_bank keeps a row that has history.
Removed(b) == IF RowsOf(match, b) # {} THEN "archived" ELSE "deleted"

DeleteBankTransaction_DropsHistory(r) ==
  /\ Holds(r, "bank")
  /\ LET b == request[r].bank
     IN /\ EditAllowed(b)
        /\ ActiveOn(match, b) = {}
        /\ bankState' = [bankState EXCEPT ![b] = "deleted"]
        /\ match' = [m \in MatchId |->
             IF m \in RowsOf(match, b) THEN NoMatch ELSE match[m]]
  /\ Finish(r)
  /\ UNCHANGED <<bankAmount, paymentStatus, matchedAmount, expenseStatus,
                 settlementVars, ledger>>

DeleteBankTransaction(r) ==
  /\ Holds(r, "bank")
  /\ LET b == request[r].bank
     IN /\ request[r].unmatched
        /\ bankState[b] # "deleted"
        /\ EditAllowed(b)
        /\ ActiveOn(match, b) = {}
        /\ bankState' = [bankState EXCEPT ![b] = Removed(b)]
  /\ Finish(r)
  /\ UNCHANGED <<bankAmount, paymentStatus, matchedAmount, matchVars,
                 settlementVars, ledger>>

\* The match checks of LoadBatch are not repeated.
DeleteBankTransactionsBatch(r) ==
  /\ Holds(r, "batch")
  /\ LET bs == request[r].banks
     IN /\ \A b \in bs : bankState[b] # "deleted" /\ EditAllowed(b)
        /\ bankState' = [b \in Bank |-> IF b \in bs THEN Removed(b) ELSE bankState[b]]
  /\ Finish(r)
  /\ UNCHANGED <<bankAmount, paymentStatus, matchedAmount, matchVars,
                 settlementVars, ledger>>

\* build_close_check: archived rows are counted like the others.
UnmatchedForClose(b) ==
  bankState[b] \in {"active", "archived"} /\ bankAmount[b] > matchedAmount[b]
CanClose_UnpaidOnly ==
  /\ \A e \in Expense : expenseStatus[e] # "unpaid"
  /\ \A b \in Bank : ~UnmatchedForClose(b)
  /\ \A m \in Rows(match) : match[m].status # "candidate"
CanClose ==
  /\ \A e \in Expense : expenseStatus[e] = "paid"
  /\ \A b \in Bank : ~UnmatchedForClose(b)
  /\ \A m \in Rows(match) : match[m].status # "candidate"

CloseLedger ==
  /\ ledger = "open"
  /\ CanClose
  /\ ledger' = "closed"
  /\ UNCHANGED <<bankVars, matchVars, settlementVars, request>>

\* Takes no lock and checks nothing.
ReopenLedger ==
  /\ ledger = "closed"
  /\ ledger' = "open"
  /\ UNCHANGED <<bankVars, matchVars, settlementVars, request>>
-----------------------------------------------------------------------------
Load ==
  \E r \in Request :
    \/ \E m \in MatchId : LoadMatch(r, m)
    \/ \E b \in Bank : LoadBank(r, b)
    \/ \E bs \in SUBSET Bank \ {{}} : LoadBatch(r, bs)
    \/ LoadLedger(r)

Respond ==
  \E r \in Request :
    \/ Abort(r)
    \/ ConfirmMatch(r)
    \/ RejectMatch(r)
    \/ \E e \in Expense, a \in MatchAmounts :
         CreateMatchCandidate(r, e, a) \/ UpdateReconciliationRecord(r, e, a)
    \/ \E b \in Bank, a \in BankAmounts, p \in {"paid", "unpaid"} :
         CreateBankTransaction(r, b, a, p)
    \/ DeleteBankTransaction(r)
    \/ DeleteBankTransactionsBatch(r)

LockedFirst ==
  \/ \E m \in MatchId : UnmatchReconciliationRecord(m)
  \/ AutoSuggestMatches
  \/ \E s \in Bank :
       \/ \E bs \in SUBSET Bank : AddLinks(s, bs)
       \/ \E b \in Bank : RemoveLink(s, b)
       \/ \E c \in BOOLEAN : Complete(s, c)
  \/ \E b \in Bank, a \in BankAmounts, p \in {"paid", "unpaid"} :
       UpdateBankTransaction(b, a, p)
  \/ CloseLedger
  \/ ReopenLedger

Next == Load \/ Respond \/ LockedFirst
Spec == Init /\ [][Next]_vars

\* Requests that never overlap: between a request's first read and its end nothing
\* else happens, which is how the repository's tests drive the handlers.
NoOverlap == \A r \in Request : request[r].kind = "none"
NextSerial == (NoOverlap /\ (Load \/ LockedFirst)) \/ Respond
SpecSerial == Init /\ [][NextSerial]_vars
-----------------------------------------------------------------------------
(* Properties. *)

BankTypeOK ==
  /\ bankState \in [Bank -> {"absent", "active", "archived", "deleted"}]
  /\ bankAmount \in [Bank -> Nat]
  /\ paymentStatus \in [Bank -> {"paid", "unpaid"}]
  /\ DOMAIN matchedAmount = Bank

MatchTypeOK ==
  /\ DOMAIN match = MatchId
  /\ \A m \in Rows(match) : /\ match[m].bank \in Bank
                            /\ match[m].expense \in Expense
                            /\ match[m].status \in MatchStatus
  /\ expenseStatus \in [Expense -> {"unpaid", "partial_paid", "paid"}]

SettlementTypeOK ==
  /\ settlement \in [Bank -> {"none", "open", "completed"}]
  /\ link \in [Bank -> Bank \cup {NoBank}]
  /\ ledger \in {"open", "closed"}

RequestTypeOK ==
  /\ DOMAIN request = Request
  /\ \A r \in Request :
       /\ request[r].kind \in {"none", "match", "bank", "batch", "ledger"}
       /\ Holds(r, "match") => /\ request[r].id \in Rows(match)
                               /\ request[r].row.bank = match[request[r].id].bank
                               /\ request[r].row.expense \in Expense
       /\ Holds(r, "bank") => request[r].bank \in Bank
       /\ Holds(r, "batch") => request[r].banks \subseteq Bank

\* Every variable has its type; a match a request has loaded still exists and is still
\* of the same bank row (rows are reused, never deleted, and no handler moves their bank).
TypeOK == BankTypeOK /\ MatchTypeOK /\ SettlementTypeOK /\ RequestTypeOK

(* Settlement.  These hold whatever the requests overlap. *)

\* A real payment linked to an open settlement carries no live match (docs/2026-10-26
\* settlement note: a reserved payment may not be matched through another entrance).
ReservedNotMatched ==
  \A b \in Bank :
    link[b] # NoBank /\ settlement[link[b]] = "open" => ActiveOn(match, b) = {}

\* A row is never both a registration being settled and a payment that settles one,
\* every settlement has payments and every link a settlement: money cannot be chained.
SettlementsAreStars ==
  /\ \A b \in Bank : link[b] # NoBank =>
       settlement[b] = "none" /\ settlement[link[b]] # "none"
  /\ \A s \in Bank : settlement[s] # "none" => Linked(s) # {}

\* The rows of a settlement stay what completion will rely on: live paid payments, an
\* unpaid source that is live until completion archives it and has no candidate.
SettlementRowsPinned ==
  /\ \A b \in Bank : link[b] # NoBank =>
       bankState[b] = "active" /\ paymentStatus[b] = "paid"
  /\ \A s \in Bank : settlement[s] # "none" =>
       /\ bankState[s] = IF settlement[s] = "open" THEN "active" ELSE "archived"
       /\ paymentStatus[s] = "unpaid"
       /\ Candidates(match, s) = {}

\* A payment that took over the matches of its completed source is matched to nothing
\* itself: the same money never pays two approvals.
MoneyUsedOnce ==
  \A b \in Bank :
    link[b] # NoBank /\ ConfirmedOn(match, link[b]) # {} => ActiveOn(match, b) = {}

\* A payment of a completed settlement whose source is still matched counts as matched
\* in full, so no handler suggests or reuses it.
PaymentsCredited ==
  \A b \in Bank :
    /\ link[b] # NoBank /\ settlement[link[b]] = "completed"
    /\ ConfirmedOn(match, link[b]) # {}
    => matchedAmount[b] = bankAmount[b]

\* A completed settlement is read only: no step changes its status, its payments or
\* the amounts it was completed with.
CompletedStep ==
  \A s \in Bank : settlement[s] = "completed" =>
    /\ settlement'[s] = "completed"
    /\ bankAmount'[s] = bankAmount[s]
    /\ \A b \in Bank : (link'[b] = s <=> link[b] = s)
                       /\ (link[b] = s => bankAmount'[b] = bankAmount[b])
CompletedReadOnly == [][CompletedStep]_vars

(* Bookkeeping.  These hold when requests do not overlap (SpecSerial). *)

\* matched_amount is the confirmed total of the row (docs/features/
\* api-first-implementation-notes.md, 2.6), except that a payment of a completed
\* settlement may instead count as matched in full.
MatchedAmountExact ==
  \A b \in Bank :
    \/ matchedAmount[b] = Total(match, ConfirmedOn(match, b))
    \/ /\ link[b] # NoBank /\ settlement[link[b]] = "completed"
       /\ matchedAmount[b] = bankAmount[b]

\* An expense's payment status says exactly how much of it is confirmed, whichever
\* handler moved, resized, released or completed the matches.
ExpenseStatusExact ==
  \A e \in Expense :
    expenseStatus[e] = StatusFor(e, Total(match, ConfirmedFor(match, e)))

\* While the ledger is closed every expense is covered by confirmed payments and every
\* bank row is used up.
ClosedBooksBacked ==
  ledger = "closed" =>
    /\ \A e \in Expense : Total(match, ConfirmedFor(match, e)) >= ExpenseAmount[e]
    /\ \A b \in Bank : ~UnmatchedForClose(b)
-----------------------------------------------------------------------------
(* What the documentation says and overlapping requests or completed work break. *)

\* "A confirmed match cannot be rejected" (api-first-implementation-notes.md:221).
ConfirmedNotRejected ==
  [][\A r \in Request :
       RejectMatch(r) => match[request[r].id].status # "confirmed"]_vars

\* matched_amount is accumulated from the confirmed matches (docs/features/
\* admin-first-implementation-notes.md:188), of the row or of the registration it settles.
CreditBacked ==
  \A b \in Bank :
    matchedAmount[b] > 0 =>
      \/ ConfirmedOn(match, b) # {}
      \/ link[b] # NoBank /\ ConfirmedOn(match, link[b]) # {}
=============================================================================
