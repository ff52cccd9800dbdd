-------------------------- MODULE RevenueMatching --------------------------
(***************************************************************************)
(* Matching of income bank rows with revenue records, for one store and    *)
(* one ledger period (apps/api/app/modules/matching/router.py:536-1071,    *)
(* revenue/router.py:485-650, ledgers/router.py:44-330).                   *)
(*                                                                         *)
(* Creating a match runs under mutation_lock, the batch also under the     *)
(* lock of its bank row.  Confirming, rejecting and releasing a match take *)
(* no lock: each reads the match, then the bank row, and later writes the  *)
(* absolute values it computed from those copies.  Every read is therefore *)
(* a step of its own and the copies are kept in request[r].                *)
(***************************************************************************)
EXTENDS Integers, FiniteSets, FiniteSetsExt

CONSTANTS
  Bank,         \* income rows of bank_transactions
  Channel,      \* active revenue channels that require a bank match
  LastDay,      \* revenue dates are 1..LastDay
  Record,       \* identifiers of revenue_records rows, none posted from a bank row
  MatchId,      \* identifiers of revenue_bank_matches rows: bounds their number
  Request,      \* HTTP requests that may be in progress at the same time
  BankAmount,   \* amount of each bank row
  NetAmount,    \* net_amount of each revenue record
  MatchAmounts  \* amounts a client may put on a match

ASSUME AmountsAssumption ==
  /\ BankAmount \in [Bank -> Nat \ {0}]
  /\ NetAmount \in [Record -> Nat \ {0}]
  /\ MatchAmounts \subseteq Nat \ {0}
ASSUME DaysAssumption == LastDay \in Nat \ {0}
ASSUME TablesAssumption == IsFiniteSet(Record) /\ IsFiniteSet(MatchId)

VARIABLES
  record,         \* RevenueRecord rows
  match,          \* RevenueBankMatch rows with the records listed for them
  matchedAmount,  \* BankTransaction.matched_amount
  ledger,         \* Ledger.status
  request,        \* what each request in progress has read
  released        \* history: the matches released since the ledger was closed

vars == <<record, match, matchedAmount, ledger, request, released>>

Day == 1..LastDay
Absent == [status |-> "none"]
Idle == [kind |-> "none"]
-----------------------------------------------------------------------------
(* Queries. *)

Records == {x \in Record : record[x].status # "none"}
Rows == {m \in MatchId : match[m].status # "none"}
Active == {m \in Rows : match[m].status # "rejected"}
ActiveOn(b) == {m \in Active : match[m].bank = b}
Confirmed == {m \in Rows : match[m].status = "confirmed"}
NetTotal(rs) == MapThenSumSet(LAMBDA x : NetAmount[x], rs)
ConfirmedTotal(b) ==
  MapThenSumSet(LAMBDA m : match[m].amount, {m \in Confirmed : match[m].bank = b})

\* A match without listed records is a legacy one: it covers its channel and dates.
Covers(m, x) ==
  \/ x \in match[m].records
  \/ /\ match[m].records = {}
     /\ match[m].channel = record[x].channel
     /\ record[x].day \in match[m].from .. match[m].to

\* overlapping_revenue_match: a listed record is found only through the channel of its
\* match and its present date; given identifiers narrow the search to them.
Overlapping(c, from, to, rs) ==
  \E m \in Active :
    /\ match[m].channel = c
    /\ \/ match[m].records = {} /\ match[m].from <= to /\ from <= match[m].to
       \/ \E x \in match[m].records : /\ record[x].day \in from..to
                                      /\ rs # {} => x \in rs

\* uq_revenue_bank_match_range, which counts rejected rows too.
SameKey(b, c, from, to) ==
  {m \in Rows : /\ match[m].bank = b /\ match[m].channel = c
                /\ match[m].from = from /\ match[m].to = to}

Init ==
  /\ record = [x \in Record |-> Absent]
  /\ match = [m \in MatchId |-> Absent]
  /\ matchedAmount = [b \in Bank |-> 0]
  /\ ledger = "open"
  /\ request = [r \in Request |-> Idle]
  /\ released = {}
-----------------------------------------------------------------------------
(* Reads. *)

\* First read of confirm, reject and unmatch.
LoadMatch(r, m) ==
  /\ request[r].kind = "none"
  /\ m \in Rows
  /\ request' = [request EXCEPT ![r] = [kind |-> "match", id |-> m, row |-> match[m]]]
  /\ UNCHANGED <<record, match, matchedAmount, ledger, released>>

\* Their second read.
LoadMatchedBank(r) ==
  /\ request[r].kind = "match"
  /\ request' = [request EXCEPT ![r] =
       [kind |-> "both", id |-> @.id, row |-> @.row,
        matched |-> matchedAmount[@.row.bank]]]
  /\ UNCHANGED <<record, match, matchedAmount, ledger, released>>

\* create_revenue_match_candidate reads the bank row before it takes mutation_lock.
LoadBank(r, b) ==
  /\ request[r].kind = "none"
  /\ request' = [request EXCEPT ![r] =
       [kind |-> "bank", bank |-> b, matched |-> matchedAmount[b]]]
  /\ UNCHANGED <<record, match, matchedAmount, ledger, released>>

Finish(r) == request' = [request EXCEPT ![r] = Idle]

\* A refusal, an exception or a lost connection.
Abort(r) ==
  /\ request[r].kind # "none"
  /\ Finish(r)
  /\ UNCHANGED <<record, match, matchedAmount, ledger, released>>
-----------------------------------------------------------------------------
(* Matches. *)

Row(b, c, from, to, amount, rs, status) ==
  [bank |-> b, channel |-> c, from |-> from, to |-> to, amount |-> amount,
   records |-> rs, status |-> status]

\* rs lists the records; with none given the match is on the channel and the dates.
\* The dates are the client's even when records are listed.
CreateRevenueMatchCandidate(r, c, from, to, amount, rs) ==
  /\ request[r].kind = "bank"
  /\ ledger = "open"
  /\ from <= to
  /\ rs \subseteq {x \in Records : record[x].channel = c}
  /\ rs = {} => \E x \in Records : record[x].channel = c /\ record[x].day \in from..to
  /\ LET b == request[r].bank
     IN /\ amount <= BankAmount[b] - request[r].matched
        /\ ~Overlapping(c, from, to, rs)
        /\ SameKey(b, c, from, to) = {}
        /\ \E m \in MatchId \ Rows :
             match' = [match EXCEPT ![m] = Row(b, c, from, to, amount, rs, "candidate")]
  /\ Finish(r)
  /\ UNCHANGED <<record, matchedAmount, ledger, released>>

ConfirmRevenueMatch_NotCredited(r) ==
  /\ request[r].kind = "both"
  /\ request[r].row.status = "candidate"
  /\ match' = [match EXCEPT ![request[r].id].status = "confirmed"]
  /\ Finish(r)
  /\ UNCHANGED <<record, matchedAmount, ledger, released>>

ConfirmRevenueMatch(r) ==
  /\ request[r].kind = "both"
  /\ LET row == request[r].row
     IN /\ row.status = "candidate"
        /\ row.amount <= BankAmount[row.bank] - request[r].matched
        /\ match' = [match EXCEPT ![request[r].id].status = "confirmed"]
        /\ matchedAmount' =
             [matchedAmount EXCEPT ![row.bank] = request[r].matched + row.amount]
  /\ Finish(r)
  /\ UNCHANGED <<record, ledger, released>>

\* An already rejected copy writes nothing.
RejectRevenueMatch(r) ==
  /\ request[r].kind = "both"
  /\ request[r].row.status = "candidate"
  /\ match' = [match EXCEPT ![request[r].id].status = "rejected"]
  /\ Finish(r)
  /\ UNCHANGED <<record, matchedAmount, ledger, released>>

\* The amount is written only when it differs from the copy.  The ledger is not looked at.
UnmatchRevenueMatch(r) ==
  /\ request[r].kind = "both"
  /\ LET row == request[r].row
         left == Max({0, request[r].matched - row.amount})
     IN /\ row.status = "confirmed"
        /\ match' = [match EXCEPT ![request[r].id].status = "rejected"]
        /\ matchedAmount' = IF left = request[r].matched THEN matchedAmount
                            ELSE [matchedAmount EXCEPT ![row.bank] = left]
  /\ released' = IF ledger = "closed" THEN released \cup {request[r].id} ELSE released
  /\ Finish(r)
  /\ UNCHANGED <<record, ledger>>

ChannelsOf(rs) == {record[x].channel : x \in rs}
PartOf(rs, c) == {x \in rs : record[x].channel = c}
First(rs) == Min({record[x].day : x \in rs})
Last(rs) == Max({record[x].day : x \in rs})

BatchAllowed_OverlapOnly(b, amount, rs) ==
  /\ ActiveOn(b) = {}
  /\ rs # {} /\ rs \subseteq Records
  /\ Cardinality(ChannelsOf(rs)) > 1 => amount = NetTotal(rs)
  /\ \A c \in ChannelsOf(rs) :
       LET part == PartOf(rs, c) IN ~Overlapping(c, First(part), Last(part), part)

BatchAllowed(b, amount, rs) ==
  /\ ActiveOn(b) = {}
  /\ rs # {} /\ rs \subseteq Records
  /\ Cardinality(ChannelsOf(rs)) > 1 => amount = NetTotal(rs)
  /\ \A m \in Active : match[m].records \cap rs = {}
  /\ \A c \in ChannelsOf(rs) :
       LET part == PartOf(rs, c) IN ~Overlapping(c, First(part), Last(part), part)

\* One confirmed match per channel; a rejected row of the same range is used again, its
\* listed records replaced.  The bank row is locked before anything is read from it.
CreateRevenueMatchBatch(b, amount, rs) ==
  /\ ledger = "open"
  /\ BatchAllowed(b, amount, rs)
  /\ LET channels == ChannelsOf(rs)
         AmountOf == [c \in channels |->
                        IF channels = {c} THEN amount ELSE NetTotal(PartOf(rs, c))]
         Reused(c) == SameKey(b, c, First(PartOf(rs, c)), Last(PartOf(rs, c)))
         RowFor(c) == LET part == PartOf(rs, c)
                      IN Row(b, c, First(part), Last(part), AmountOf[c], part, "confirmed")
     IN /\ \E idOf \in [channels -> MatchId] :
             /\ \A c, d \in channels : c # d => idOf[c] # idOf[d]
             /\ \A c \in channels : IF Reused(c) # {} THEN idOf[c] \in Reused(c)
                                                      ELSE idOf[c] \notin Rows
             /\ match' = [m \in MatchId |->
                  IF \E c \in channels : idOf[c] = m
                  THEN RowFor(CHOOSE c \in channels : idOf[c] = m) ELSE match[m]]
        /\ matchedAmount' = [matchedAmount EXCEPT ![b] =
             @ + MapThenSumSet(LAMBDA c : AmountOf[c], channels)]
  /\ UNCHANGED <<record, ledger, request, released>>
-----------------------------------------------------------------------------
(* Revenue records and the ledger. *)

\* uq_revenue_record_day_channel.
Free(c, d) == \A x \in Records : record[x].channel # c \/ record[x].day # d

CreateRevenueRecord(x, c, d) ==
  /\ ledger = "open"
  /\ x \notin Records
  /\ Free(c, d)
  /\ record' = [record EXCEPT ![x] = [channel |-> c, day |-> d, status |-> "recorded"]]
  /\ UNCHANGED <<match, matchedAmount, ledger, request, released>>

\* Matches of the record are not looked at.
UpdateRevenueRecord(x, c, d) ==
  /\ ledger = "open"
  /\ x \in Records
  /\ Free(c, d)
  /\ record' = [record EXCEPT ![x].channel = c, ![x].day = d]
  /\ UNCHANGED <<match, matchedAmount, ledger, request, released>>

DeleteRevenueRecord_RejectedForgotten(x) ==
  /\ ledger = "open"
  /\ x \in Records
  /\ \A m \in Active : ~Covers(m, x)
  /\ record' = [record EXCEPT ![x] = Absent]
  /\ UNCHANGED <<match, matchedAmount, ledger, request, released>>

\* Listing rows of rejected matches still refer to the record: the database refuses.
DeleteRevenueRecord(x) ==
  /\ ledger = "open"
  /\ x \in Records
  /\ \A m \in Active : ~Covers(m, x)
  /\ \A m \in Rows : x \notin match[m].records
  /\ record' = [record EXCEPT ![x] = Absent]
  /\ UNCHANGED <<match, matchedAmount, ledger, request, released>>

\* build_close_check, the revenue side and the bank rows.
CloseCheck_CandidatesIgnored ==
  /\ \A b \in Bank : BankAmount[b] <= matchedAmount[b]
  /\ \A x \in Records : \E m \in Active : Covers(m, x)

CloseCheck ==
  /\ \A b \in Bank : BankAmount[b] <= matchedAmount[b]
  /\ Active \subseteq Confirmed
  /\ \A x \in Records : \E m \in Confirmed : Covers(m, x)

CloseLedger ==
  /\ ledger = "open"
  /\ CloseCheck
  /\ ledger' = "closed"
  /\ UNCHANGED <<record, match, matchedAmount, request, released>>

ReopenLedger ==
  /\ ledger = "closed"
  /\ ledger' = "open"
  /\ released' = {}
  /\ UNCHANGED <<record, match, matchedAmount, request>>
-----------------------------------------------------------------------------
Begin ==
  \E r \in Request :
    (\E m \in MatchId : LoadMatch(r, m)) \/ (\E b \in Bank : LoadBank(r, b))

Continue ==
  \E r \in Request :
    \/ LoadMatchedBank(r)
    \/ ConfirmRevenueMatch(r)
    \/ RejectRevenueMatch(r)
    \/ UnmatchRevenueMatch(r)
    \/ Abort(r)
    \/ \E c \in Channel, from, to \in Day, a \in MatchAmounts, rs \in SUBSET Record :
         CreateRevenueMatchCandidate(r, c, from, to, a, rs)

Whole ==
  \/ \E b \in Bank, a \in MatchAmounts, rs \in SUBSET Record :
       CreateRevenueMatchBatch(b, a, rs)
  \/ \E x \in Record :
       \/ \E c \in Channel, d \in Day :
            CreateRevenueRecord(x, c, d) \/ UpdateRevenueRecord(x, c, d)
       \/ DeleteRevenueRecord(x)
  \/ CloseLedger
  \/ ReopenLedger

Next == Begin \/ Continue \/ Whole
Spec == Init /\ [][Next]_vars

\* Requests that never overlap.
NoOverlap == \A r \in Request : request[r].kind = "none"
NextSerial == (NoOverlap /\ (Begin \/ Whole)) \/ Continue
SpecSerial == Init /\ [][NextSerial]_vars
-----------------------------------------------------------------------------
(* Properties. *)

\* Every variable has its type, and the records a match lists exist.
TypeOK ==
  /\ \A x \in Record : record[x] = Absent
       \/ record[x] \in [channel : Channel, day : Day, status : {"recorded"}]
  /\ DOMAIN match = MatchId
  /\ \A m \in Rows : /\ match[m].bank \in Bank /\ match[m].channel \in Channel
                     /\ match[m].from \in Day /\ match[m].to \in Day
                     /\ match[m].amount \in Nat
                     /\ match[m].records \subseteq Records
                     /\ match[m].status \in {"candidate", "confirmed", "rejected"}
  /\ matchedAmount \in [Bank -> Nat]
  /\ ledger \in {"open", "closed"}
  /\ released \subseteq MatchId
  /\ \A r \in Request : request[r].kind \in {"none", "match", "both", "bank"}

\* matched_amount is the total of the confirmed matches (docs/features/
\* admin-first-implementation-notes.md:188, :191), through confirming, batches, releases
\* and the reuse of rejected rows.
CreditExact == \A b \in Bank : matchedAmount[b] = ConfirmedTotal(b)

\* A batch never takes a record that another live match lists or covers, even after
\* the record was moved to another day or channel or the row of the batch was used before.
TakenOnceStep ==
  \A m \in MatchId :
    /\ match'[m].status = "confirmed"
    /\ match[m].status \in {"none", "rejected"}
    => \A n \in MatchId \ {m}, x \in match'[m].records :
         match'[n].status \in {"candidate", "confirmed"} => ~Covers(n, x)'
BatchTakesFreeRecords == [][TakenOnceStep]_vars

\* While the ledger is closed no match waits for a decision, and every record is covered
\* by a match that is confirmed or that was confirmed at the closing and released since:
\* edits, deletions, creations and decisions begun before the closing change none of it.
ClosedNothingPending ==
  ledger = "closed" =>
    /\ Active \subseteq Confirmed
    /\ \A x \in Records : \E m \in Confirmed \cup released : Covers(m, x)
-----------------------------------------------------------------------------
(* What the documentation says and the code does not keep. *)

\* Linked revenue records cannot be reconciled again (docs/features/
\* store-ledger-workspace-design.md:132).
ListedOnce ==
  \A m, n \in Active : m # n => match[m].records \cap match[n].records = {}
=============================================================================
