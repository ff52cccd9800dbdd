----------------------- MODULE RevenueMatchingProofs -----------------------
(***************************************************************************)
(* Proofs about RevenueMatching for any bank rows, channels, days, records *)
(* and matches, with requests that never overlap (SpecSerial).  Then the   *)
(* copies a request holds of a match and of its bank row are still true    *)
(* when it writes: a confirmation confirms a candidate and never a         *)
(* rejected row, and the amount it writes is the one it should.            *)
(***************************************************************************)
EXTENDS RevenueMatching, Sums

RowFields == {"bank", "channel", "from", "to", "amount", "records", "status"}
IsRow(w) ==
  /\ DOMAIN w = RowFields /\ w = [f \in RowFields |-> w[f]]
  /\ w.bank \in Bank /\ w.channel \in Channel
  /\ w.from \in Day /\ w.to \in Day
  /\ w.amount \in Nat
  /\ w.records \subseteq Record
  /\ w.status \in {"candidate", "confirmed", "rejected"}

\* The types of the variables.
Shaped ==
  /\ record \in [Record -> {Absent} \cup
                   [channel : Channel, day : Day, status : {"recorded"}]]
  /\ DOMAIN match = MatchId /\ match = [m \in MatchId |-> match[m]]
  /\ \A m \in MatchId : match[m] = Absent \/ IsRow(match[m])
  /\ matchedAmount \in [Bank -> Nat]
  /\ ledger \in {"open", "closed"}
  /\ DOMAIN request = Request /\ request = [r \in Request |-> request[r]]
  /\ \A r \in Request : request[r].kind \in {"none", "match", "both", "bank"}
  /\ released \subseteq MatchId

\* The records that matches list exist.
Listed == \A m \in Rows : match[m].records \subseteq Records

\* One request is in progress, and what it has read is still so.
Alone == \A r, s \in Request : request[r].kind # "none" /\ request[s].kind # "none" => r = s
Fresh ==
  \A r \in Request :
    /\ request[r].kind \in {"match", "both"} =>
         request[r].id \in Rows /\ match[request[r].id] = request[r].row
    /\ request[r].kind = "both" => request[r].matched = matchedAmount[request[r].row.bank]
    /\ request[r].kind = "bank" => request[r].bank \in Bank

IInv == Shaped /\ Listed /\ Alone /\ Fresh /\ ClosedNothingPending /\ CreditExact
-----------------------------------------------------------------------------
(* The first and the last day of some records. *)

\* Of the intervals 1..x one is within no other: inclusion of finite sets is well-founded.
LEMMA Least ==
  ASSUME NEW S \in SUBSET Nat, S # {}
  PROVE  Min(S) \in S /\ \A y \in S : Min(S) <= y
<1> DEFINE T == {1..x : x \in S}
<1>1. T \subseteq FiniteSubsetsOf(Nat) /\ T # {}
  <2>1. \A x \in S : 1..x \in SUBSET Nat /\ IsFiniteSet(1..x)
    BY FS_Interval
  <2> QED BY <2>1 DEF FiniteSubsetsOf
<1>2. PICK t \in T : \A u \in T : ~(<<u, t>> \in StrictSubsetOrdering(Nat))
  BY <1>1, FS_StrictSubsetOrderingWellFounded, WFMin
<1>3. PICK x \in S : t = 1..x
  OBVIOUS
<1>4. \A y \in S : x <= y
  <2> SUFFICES ASSUME NEW y \in S, ~(x <= y)  PROVE FALSE
    OBVIOUS
  <2>1. 1..y \subseteq 1..x /\ x \in 1..x /\ x \notin 1..y
    OBVIOUS
  <2>2. 1..y \in SUBSET Nat /\ 1..x \in SUBSET Nat /\ 1..y # 1..x
    BY <2>1
  <2>3. <<1..y, 1..x>> \in StrictSubsetOrdering(Nat)
    BY <2>1, <2>2 DEF StrictSubsetOrdering
  <2>4. 1..y \in T
    OBVIOUS
  <2> QED BY <1>2, <1>3, <2>3, <2>4
<1> QED BY <1>4 DEF Min

LEMMA Greatest ==
  ASSUME NEW n \in Nat, NEW S \in SUBSET (1..n), S # {}
  PROVE  Max(S) \in S /\ \A y \in S : Max(S) >= y
<1> DEFINE T == {n - y : y \in S}
<1>1. Min(T) \in T /\ \A t \in T : Min(T) <= t
  <2>1. \A y \in S : n - y \in Nat
    OBVIOUS
  <2>2. T \in SUBSET Nat /\ T # {}
    BY <2>1
  <2> HIDE DEF T
  <2> QED BY <2>2, Least
<1>2. PICK x \in S : Min(T) = n - x
  BY <1>1
<1>3. \A y \in S : x >= y
  <2> TAKE y \in S
  <2>1. n - x <= n - y
    BY <1>1, <1>2
  <2> QED BY <2>1
<1> QED BY <1>3 DEF Max

LEMMA DaysOfPart ==
  ASSUME Shaped, NEW part \in SUBSET Records, part # {}
  PROVE  /\ First(part) \in Day /\ Last(part) \in Day
         /\ \A x \in part : First(part) <= record[x].day /\ record[x].day <= Last(part)
<1> DEFINE days == {record[x].day : x \in part}
<1>1. \A x \in part : record[x].day \in Day
  BY DEF Shaped, Records, Absent
<1>2. days \in SUBSET Day /\ days # {}
  BY <1>1
<1>3. Min(days) \in days /\ \A y \in days : Min(days) <= y
  <2>1. days \in SUBSET Nat
    BY <1>2 DEF Day
  <2> HIDE DEF days
  <2> QED BY <1>2, <2>1, Least
<1>4. Max(days) \in days /\ \A y \in days : Max(days) >= y
  BY <1>2, Greatest, DaysAssumption DEF Day
<1>5. First(part) = Min(days) /\ Last(part) = Max(days)
  BY DEF First, Last
<1>6. \A x \in part : Min(days) <= record[x].day /\ Max(days) >= record[x].day
  BY <1>3, <1>4
<1>7. First(part) \in Day /\ Last(part) \in Day
  BY <1>2, <1>3, <1>4, <1>5
<1> HIDE DEF days
<1>8. Min(days) \in Int /\ Max(days) \in Int /\ \A x \in part : record[x].day \in Int
  BY <1>1, <1>5, <1>7 DEF Day
<1> QED BY <1>5, <1>6, <1>7, <1>8
-----------------------------------------------------------------------------
(* The total of the confirmed matches of a bank row. *)

Table(t) == \A m \in MatchId : t[m] = Absent \/ IsRow(t[m])
Paid(t, b) == {m \in MatchId : t[m].status = "confirmed" /\ t[m].bank = b}
Total(t, b) == Amounts(t, Paid(t, b))

LEMMA TotalIs ==
  \A b : ConfirmedTotal(b) = Total(match, b) /\ ConfirmedTotal(b)' = Total(match', b)
<1>1. \A b : {m \in Confirmed : match[m].bank = b} = Paid(match, b)
  BY DEF Confirmed, Rows, Paid
<1>2. \A b : {m \in Confirmed' : match'[m].bank = b} = Paid(match', b)
  BY DEF Confirmed, Rows, Paid
<1>3. \A b : ConfirmedTotal(b) = Amounts(match, {m \in Confirmed : match[m].bank = b})
  BY DEF ConfirmedTotal, Amounts
<1>4. \A b : ConfirmedTotal(b)' = Amounts(match', {m \in Confirmed' : match'[m].bank = b})
  BY DEF ConfirmedTotal, Amounts, MapThenSumSet, MapThenFoldSet
<1> QED BY <1>1, <1>2, <1>3, <1>4 DEF Total

LEMMA PaidRows ==
  ASSUME NEW t, Table(t), NEW b
  PROVE  /\ IsFiniteSet(Paid(t, b))
         /\ \A m \in Paid(t, b) : m \in MatchId /\ IsRow(t[m]) /\ t[m].amount \in Nat
         /\ Total(t, b) \in Nat
<1>1. IsFiniteSet(Paid(t, b))
  BY TablesAssumption, FS_Subset DEF Paid
<1>2. \A m \in Paid(t, b) : m \in MatchId /\ IsRow(t[m]) /\ t[m].amount \in Nat
  BY DEF Paid, Table, Absent, IsRow
<1> QED BY <1>1, <1>2, AmountsNat DEF Total

\* Other rows and other columns do not count.
LEMMA SameTotal ==
  ASSUME NEW t, NEW u, Table(t), NEW b,
         \A m \in MatchId : /\ t[m].status = "confirmed" <=> u[m].status = "confirmed"
                            /\ t[m].status = "confirmed" =>
                                 t[m].bank = u[m].bank /\ t[m].amount = u[m].amount
  PROVE  Total(u, b) = Total(t, b)
<1>1. Paid(u, b) = Paid(t, b)
  BY DEF Paid
<1>2. \A m \in Paid(t, b) : u[m].amount = t[m].amount
  BY DEF Paid
<1> QED BY <1>1, <1>2, PaidRows, AmountsAgree DEF Total

LEMMA CreditIs ==
  /\ CreditExact <=> \A b \in Bank : matchedAmount[b] = Total(match, b)
  /\ CreditExact' <=> \A b \in Bank : matchedAmount'[b] = Total(match', b)
  BY TotalIs DEF CreditExact

\* One match more is confirmed.
LEMMA Counted ==
  ASSUME NEW t, NEW u, Table(t), Table(u), NEW i \in MatchId,
         \A m \in MatchId : m # i => u[m] = t[m],
         t[i].status # "confirmed", u[i].status = "confirmed", IsRow(u[i])
  PROVE  /\ Total(u, u[i].bank) = Total(t, u[i].bank) + u[i].amount
         /\ \A b : b # u[i].bank => Total(u, b) = Total(t, b)
<1> DEFINE b == u[i].bank
           S == Paid(u, b)
<1>1. /\ S = Paid(u, b) /\ i \in S /\ S \ {i} = Paid(t, b)
      /\ \A m \in S \ {i} : u[m].amount = t[m].amount
  BY DEF Paid
<1> HIDE DEF S
<1>2. IsFiniteSet(S) /\ \A m \in S : u[m].amount \in Nat
  BY <1>1, PaidRows
<1>3. /\ Amounts(u, S) = u[i].amount + Amounts(t, S \ {i})
      /\ Amounts(t, S \ {i}) \in Nat
  BY <1>1, <1>2, AmountsGrow
<1>4. Total(u, b) = Total(t, b) + u[i].amount
  <2>1. Total(u, b) = Amounts(u, S) /\ Total(t, b) = Amounts(t, S \ {i})
    BY <1>1 DEF Total
  <2>2. u[i].amount \in Nat
    BY DEF IsRow
  <2> QED BY <1>3, <2>1, <2>2
<1>5. ASSUME NEW d, d # b
      PROVE  Total(u, d) = Total(t, d)
  <2>1. Paid(u, d) = Paid(t, d) /\ \A m \in Paid(t, d) : u[m].amount = t[m].amount
    BY <1>1, <1>5 DEF Paid
  <2> QED BY <2>1, PaidRows, AmountsAgree DEF Total
<1> QED BY <1>1, <1>4, <1>5
-----------------------------------------------------------------------------
(* What a batch writes. *)

\* The row of the batch for one channel.
Takes(w, rs, c) ==
  /\ IsRow(w) /\ w.status = "confirmed"
  /\ w.channel = c /\ w.records = PartOf(rs, c)

LEMMA ChannelsFinite ==
  ASSUME NEW rs \in SUBSET Record
  PROVE  /\ IsFiniteSet(rs) /\ IsFiniteSet(ChannelsOf(rs))
         /\ \A c : NetTotal(PartOf(rs, c)) \in Nat
<1>1. IsFiniteSet(rs)
  BY TablesAssumption, FS_Subset
<1>2. IsFiniteSet(ChannelsOf(rs))
  <2> DEFINE f == [x \in rs |-> record[x].channel]
             C == {f[x] : x \in rs}
  <2>1. ChannelsOf(rs) = C
    BY DEF ChannelsOf
  <2>2. IsFiniteSet(C)
    <3> HIDE DEF f
    <3> QED BY <1>1, ImageFinite
  <2> QED BY <2>1, <2>2
<1>3. ASSUME NEW c
      PROVE  NetTotal(PartOf(rs, c)) \in Nat
  <2>1. IsFiniteSet(PartOf(rs, c)) /\ \A x \in PartOf(rs, c) : NetAmount[x] \in Nat
    BY <1>1, FS_Subset, AmountsAssumption DEF PartOf
  <2>2. Weight(NetAmount, PartOf(rs, c)) \in Nat
    BY <2>1, WeightNat
  <2> QED BY <2>2 DEF NetTotal, Weight
<1> QED BY <1>1, <1>2, <1>3

LEMMA BatchWrites ==
  ASSUME Shaped, NEW b \in Bank, NEW amount \in Nat, NEW rs \in SUBSET Record,
         CreateRevenueMatchBatch(b, amount, rs)
  PROVE  \E idOf \in [ChannelsOf(rs) -> MatchId], w \in [ChannelsOf(rs) -> Nat] :
           /\ \A c, d \in ChannelsOf(rs) : c # d => idOf[c] # idOf[d]
           /\ \A c \in ChannelsOf(rs) : /\ match'[idOf[c]].bank = b
                                        /\ match'[idOf[c]].amount = w[c]
                                        /\ idOf[c] \in Rows => match[idOf[c]].bank = b
           /\ matchedAmount' =
                [matchedAmount EXCEPT ![b] = @ + Weight(w, ChannelsOf(rs))]
           /\ \A c \in ChannelsOf(rs) : Takes(match'[idOf[c]], rs, c)
           /\ \A m \in MatchId :
                (\A c \in ChannelsOf(rs) : idOf[c] # m) => match'[m] = match[m]
           /\ DOMAIN match' = MatchId /\ match' = [m \in MatchId |-> match'[m]]
<1> DEFINE channels == ChannelsOf(rs)
           AmountOf == [c \in channels |->
                          IF channels = {c} THEN amount ELSE NetTotal(PartOf(rs, c))]
           RowFor(c) == LET part == PartOf(rs, c)
                        IN Row(b, c, First(part), Last(part), AmountOf[c], part, "confirmed")
           Reused(c) == SameKey(b, c, First(PartOf(rs, c)), Last(PartOf(rs, c)))
<1>0. AmountOf \in [channels -> Nat]
  BY ChannelsFinite
<1>1. PICK idOf \in [channels -> MatchId] :
        /\ \A c, d \in channels : c # d => idOf[c] # idOf[d]
        /\ \A c \in channels : IF Reused(c) # {} THEN idOf[c] \in Reused(c)
                                                 ELSE idOf[c] \notin Rows
        /\ match' = [m \in MatchId |->
             IF \E c \in channels : idOf[c] = m
             THEN RowFor(CHOOSE c \in channels : idOf[c] = m) ELSE match[m]]
  BY DEF CreateRevenueMatchBatch
<1>2. \A c \in channels : Takes(RowFor(c), rs, c)
  <2> TAKE c \in channels
  <2>1. PartOf(rs, c) \in SUBSET Records /\ PartOf(rs, c) # {}
    BY DEF CreateRevenueMatchBatch, BatchAllowed, ChannelsOf, PartOf
  <2>2. First(PartOf(rs, c)) \in Day /\ Last(PartOf(rs, c)) \in Day
    BY <2>1, DaysOfPart
  <2>3. c \in Channel
    BY DEF CreateRevenueMatchBatch, BatchAllowed, ChannelsOf, Shaped, Records, Absent
  <2>4. AmountOf[c] \in Nat
    BY <1>0
  <2> HIDE DEF AmountOf
  <2> QED BY <2>1, <2>2, <2>3, <2>4 DEF Takes, IsRow, RowFields, Row, Records
<1>3. \A c \in channels : match'[idOf[c]] = RowFor(c)
  <2> TAKE c \in channels
  <2>1. (CHOOSE d \in channels : idOf[d] = idOf[c]) = c
    BY <1>1
  <2> HIDE DEF RowFor
  <2> QED BY <1>1, <2>1
<1>7. matchedAmount' = [matchedAmount EXCEPT ![b] = @ + Weight(AmountOf, channels)]
  BY DEF CreateRevenueMatchBatch, Weight
<1>8. \A c \in channels : RowFor(c).bank = b /\ RowFor(c).amount = AmountOf[c]
  BY DEF Row
<1>9. \A c \in channels : idOf[c] \in Rows => match[idOf[c]].bank = b
  BY <1>1 DEF SameKey
<1> HIDE DEF RowFor, AmountOf
<1>4. \A c \in channels : Takes(match'[idOf[c]], rs, c)
  BY <1>2, <1>3
<1>5. \A m \in MatchId : (\A c \in channels : idOf[c] # m) => match'[m] = match[m]
  BY <1>1
<1>6. DOMAIN match' = MatchId /\ match' = [m \in MatchId |-> match'[m]]
  BY <1>1
<1>10. \A c \in channels : /\ match'[idOf[c]].bank = b
                           /\ match'[idOf[c]].amount = AmountOf[c]
  BY <1>3, <1>8
<1>11. \A c, d \in channels : c # d => idOf[c] # idOf[d]
  BY <1>1
<1> DEFINE Writes(f, w) ==
             /\ \A c, d \in channels : c # d => f[c] # f[d]
             /\ \A c \in channels : /\ match'[f[c]].bank = b
                                    /\ match'[f[c]].amount = w[c]
                                    /\ f[c] \in Rows => match[f[c]].bank = b
             /\ matchedAmount' = [matchedAmount EXCEPT ![b] = @ + Weight(w, channels)]
             /\ \A c \in channels : Takes(match'[f[c]], rs, c)
             /\ \A m \in MatchId : (\A c \in channels : f[c] # m) => match'[m] = match[m]
             /\ DOMAIN match' = MatchId /\ match' = [m \in MatchId |-> match'[m]]
<1>12. Writes(idOf, AmountOf)
  BY <1>4, <1>5, <1>6, <1>7, <1>9, <1>10, <1>11
<1> HIDE DEF Writes
<1>13. \E f \in [channels -> MatchId], w \in [channels -> Nat] : Writes(f, w)
  BY <1>0, <1>12
<1> QED BY <1>13 DEF Writes
-----------------------------------------------------------------------------
(* Steps. *)

LEMMA InitIInv == Init => IInv
<1> SUFFICES ASSUME Init  PROVE IInv
  OBVIOUS
<1>1. Shaped /\ Listed /\ Alone /\ Fresh /\ ClosedNothingPending
  BY DEF Init, Shaped, Listed, Rows, Alone, Fresh, ClosedNothingPending, Absent, Idle
<1>2. CreditExact
  <2>1. \A b : Paid(match, b) = {}
    BY DEF Init, Paid, Absent
  <2>2. \A b : Total(match, b) = 0
    BY <2>1, AmountsEmpty DEF Total
  <2> QED BY <2>2, CreditIs DEF Init
<1> QED BY <1>1, <1>2 DEF IInv

\* Nothing of what is covered or credited changes.
LEMMA BooksStay ==
  ASSUME IInv, UNCHANGED <<record, match, matchedAmount, ledger, released>>
  PROVE  Listed' /\ ClosedNothingPending' /\ CreditExact' /\ TakenOnceStep
<1>1. Listed' /\ ClosedNothingPending' /\ TakenOnceStep
  BY DEF IInv, Listed, ClosedNothingPending, TakenOnceStep, Active, Confirmed, Rows,
         Records, Covers
<1>2. CreditExact'
  BY CreditIs DEF IInv
<1> QED BY <1>1, <1>2

\* A request begins when none is in progress.
LEMMA Begins ==
  ASSUME IInv, NoOverlap, Begin
  PROVE  IInv'
<1>0. Shaped
  BY DEF IInv
<1>1. PICK r, q :
        /\ r \in Request /\ request' = [request EXCEPT ![r] = q]
        /\ q.kind \in {"match", "bank"}
        /\ q.kind = "match" => q.id \in Rows /\ match[q.id] = q.row
        /\ q.kind = "bank" => q.bank \in Bank
        /\ UNCHANGED <<record, match, matchedAmount, ledger, released>>
  <2>1. PICK r \in Request :
          (\E m \in MatchId : LoadMatch(r, m)) \/ (\E b \in Bank : LoadBank(r, b))
    BY DEF Begin
  <2>2. CASE \E m \in MatchId : LoadMatch(r, m)
    BY <2>2 DEF LoadMatch
  <2>3. CASE \E b \in Bank : LoadBank(r, b)
    BY <2>3 DEF LoadBank
  <2> QED BY <2>1, <2>2, <2>3
<1>2. Shaped'
  BY <1>0, <1>1 DEF Shaped
<1>3. \A s \in Request : s # r => request'[s].kind = "none"
  BY <1>0, <1>1 DEF NoOverlap, Shaped
<1>4. request'[r] = q
  BY <1>0, <1>1 DEF Shaped
<1>5. Alone'
  BY <1>3 DEF Alone
<1>6. Fresh'
  BY <1>1, <1>3, <1>4 DEF Fresh, Rows
<1> QED BY <1>1, <1>2, <1>5, <1>6, BooksStay DEF IInv

\* A request ends: no other is in progress.
LEMMA Ended ==
  ASSUME IInv, NEW r \in Request, request[r].kind # "none", Finish(r)
  PROVE  /\ Alone' /\ Fresh'
         /\ DOMAIN request' = Request /\ request' = [s \in Request |-> request'[s]]
         /\ \A s \in Request : request'[s].kind \in {"none", "match", "both", "bank"}
<1>1. \A s \in Request : s # r => request[s].kind = "none"
  BY DEF IInv, Alone
<1>2. request' = [request EXCEPT ![r] = Idle] /\ DOMAIN request = Request
  BY DEF Finish, IInv, Shaped
<1>3. \A s \in Request : request'[s].kind = "none"
  BY <1>1, <1>2 DEF Idle
<1> QED BY <1>2, <1>3 DEF Alone, Fresh

\* A request that holds a match ends with another status of that match.
LEMMA Decided ==
  ASSUME IInv, NEW r \in Request, request[r].kind = "both", Finish(r),
         NEW st \in {"confirmed", "rejected"},
         match' = [match EXCEPT ![request[r].id].status = st],
         st = "rejected" \/ request[r].row.status = "candidate",
         released \subseteq released', released' \subseteq released \cup {request[r].id},
         \/ request[r].row.status = "candidate"
         \/ ledger = "closed" => request[r].id \in released',
         UNCHANGED <<record, ledger>>, matchedAmount' \in [Bank -> Nat], CreditExact'
  PROVE  IInv' /\ TakenOnceStep
<1> DEFINE i == request[r].id
<1>0. Shaped
  BY DEF IInv
<1>1. i \in Rows /\ match[i] = request[r].row /\ IsRow(match[i])
  <2>1. i \in Rows /\ match[i] = request[r].row
    BY DEF IInv, Fresh
  <2> QED BY <1>0, <2>1 DEF Shaped, Rows, Absent
<1> HIDE DEF i
<1>2. match' = [match EXCEPT ![i].status = st]
  BY DEF i
<1>3. /\ match'[i] = [match[i] EXCEPT !.status = st]
      /\ \A m \in MatchId : m # i => match'[m] = match[m]
      /\ DOMAIN match' = MatchId /\ match' = [m \in MatchId |-> match'[m]]
  <2>1. DOMAIN match = MatchId /\ match = [m \in MatchId |-> match[m]] /\ i \in MatchId
    BY <1>0, <1>1 DEF Shaped, Rows
  <2> QED BY <1>2, <2>1
<1>4. /\ IsRow(match'[i]) /\ match'[i].status = st
      /\ match'[i].records = match[i].records /\ match'[i].channel = match[i].channel
      /\ match'[i].from = match[i].from /\ match'[i].to = match[i].to
  <2> SUFFICES \A w, v : IsRow(w) /\ v = [w EXCEPT !.status = st]
                 => /\ IsRow(v) /\ v.status = st
                    /\ v.records = w.records /\ v.channel = w.channel
                    /\ v.from = w.from /\ v.to = w.to
    BY <1>1, <1>3
  <2> QED BY DEF IsRow, RowFields
<1>10. /\ released \subseteq released' /\ released' \subseteq MatchId
       /\ match[i].status = "candidate" \/ (ledger = "closed" => i \in released')
  BY <1>0, <1>1 DEF i, Shaped, Rows
<1>5. Shaped'
  BY <1>0, <1>3, <1>4, <1>10, Ended DEF Shaped
<1>6. Rows' = Rows /\ \A m \in Rows, x \in Record : Covers(m, x)' <=> Covers(m, x)
  <2>1. Rows' = Rows
    BY <1>1, <1>3, <1>4 DEF Rows, IsRow
  <2>2. \A m \in MatchId : /\ match'[m].records = match[m].records
                           /\ match'[m].channel = match[m].channel
                           /\ match'[m].from = match[m].from /\ match'[m].to = match[m].to
    BY <1>3, <1>4
  <2>3. record' = record /\ Rows \subseteq MatchId
    BY DEF Rows
  <2> QED BY <2>1, <2>2, <2>3 DEF Covers
<1>9. Listed'
  <2>1. \A m \in MatchId : match'[m].records = match[m].records
    BY <1>3, <1>4
  <2>2. Records' = Records /\ Rows \subseteq MatchId
    BY DEF Records, Rows
  <2> QED BY <1>6, <2>1, <2>2 DEF IInv, Listed
<1>7. ClosedNothingPending'
  <2> SUFFICES ASSUME ledger' = "closed"
               PROVE  /\ (Active \subseteq Confirmed)'
                      /\ \A x \in Records' :
                           \E m \in (Confirmed \cup released)' : Covers(m, x)'
    BY DEF ClosedNothingPending
  <2>1. /\ Active \subseteq Confirmed
        /\ \A x \in Records : \E m \in Confirmed \cup released : Covers(m, x)
    BY DEF IInv, ClosedNothingPending
  <2>2. (Active \subseteq Confirmed)'
    BY <1>1, <1>3, <1>4, <1>6, <2>1 DEF Active, Confirmed
  <2>3. Records' = Records /\ Records \subseteq Record
    BY DEF Records
  <2>4. i \in released'
    BY <1>1, <1>10, <2>1 DEF Active, Confirmed
  <2>5. \A m \in Confirmed \cup released : m \in (Confirmed \cup released)'
    <3> SUFFICES ASSUME NEW m \in Confirmed, m # i  PROVE m \in Confirmed'
      BY <1>10, <2>4
    <3> QED BY <1>3, <1>6 DEF Confirmed, Rows
  <2>6. \A m \in MatchId, x \in Record : Covers(m, x)' <=> Covers(m, x)
    BY <1>3, <1>4 DEF Covers
  <2>7. Confirmed \cup released \subseteq MatchId
    BY <1>0 DEF Shaped, Confirmed, Rows
  <2> QED BY <2>1, <2>2, <2>3, <2>5, <2>6, <2>7
<1>8. TakenOnceStep
  BY <1>1, <1>3, <1>4 DEF TakenOnceStep
<1> QED BY <1>5, <1>7, <1>8, <1>9, Ended DEF IInv

\* The copies are the rows.
LEMMA Held ==
  ASSUME IInv, NEW r \in Request, request[r].kind = "both"
  PROVE  \E i \in MatchId :
           /\ i = request[r].id /\ request[r].row = match[i] /\ IsRow(match[i])
           /\ request[r].matched = matchedAmount[match[i].bank]
           /\ request[r].matched = Total(match, match[i].bank)
           /\ \A b \in Bank : matchedAmount[b] = Total(match, b)
           /\ Table(match)
<1>1. /\ request[r].id \in Rows /\ match[request[r].id] = request[r].row
      /\ request[r].matched = matchedAmount[request[r].row.bank]
  BY DEF IInv, Fresh
<1>2. IsRow(request[r].row) /\ request[r].id \in MatchId /\ Table(match)
  BY <1>1 DEF IInv, Shaped, Table, Rows, Absent
<1>3. \A b \in Bank : matchedAmount[b] = Total(match, b)
  BY CreditIs DEF IInv
<1> QED BY <1>1, <1>2, <1>3 DEF IsRow

\* Only the status of one row changes.
LEMMA OneStatus ==
  ASSUME Shaped, NEW i \in MatchId, IsRow(match[i]), NEW st \in {"confirmed", "rejected"},
         match' = [match EXCEPT ![i].status = st]
  PROVE  /\ Table(match) /\ Table(match') /\ IsRow(match'[i])
         /\ \A m \in MatchId : m # i => match'[m] = match[m]
         /\ match'[i].status = st /\ match'[i].bank = match[i].bank
         /\ match'[i].amount = match[i].amount
<1>1. /\ match'[i] = [match[i] EXCEPT !.status = st]
      /\ \A m \in MatchId : m # i => match'[m] = match[m]
  BY DEF Shaped
<1>2. /\ IsRow(match'[i]) /\ match'[i].status = st /\ match'[i].bank = match[i].bank
      /\ match'[i].amount = match[i].amount
  BY <1>1 DEF IsRow, RowFields
<1> QED BY <1>1, <1>2 DEF Table, Shaped

LEMMA CreditConfirmed ==
  ASSUME IInv, NEW r \in Request, ConfirmRevenueMatch(r)
  PROVE  matchedAmount' \in [Bank -> Nat] /\ CreditExact'
<1>1. PICK i \in MatchId :
        /\ i = request[r].id /\ request[r].row = match[i] /\ IsRow(match[i])
        /\ request[r].matched = Total(match, match[i].bank)
        /\ \A b \in Bank : matchedAmount[b] = Total(match, b)
        /\ Table(match)
  BY Held DEF ConfirmRevenueMatch
<1>2. /\ match[i].status = "candidate"
      /\ match' = [match EXCEPT ![i].status = "confirmed"]
      /\ matchedAmount' = [matchedAmount EXCEPT
           ![match[i].bank] = Total(match, match[i].bank) + match[i].amount]
  BY <1>1 DEF ConfirmRevenueMatch
<1>3. /\ Table(match') /\ IsRow(match'[i])
      /\ \A m \in MatchId : m # i => match'[m] = match[m]
      /\ match'[i].status = "confirmed" /\ match'[i].bank = match[i].bank
      /\ match'[i].amount = match[i].amount
  BY <1>1, <1>2, OneStatus DEF IInv
<1>4. match[i].status # "confirmed"
  BY <1>2
<1>5. /\ Total(match', match[i].bank) = Total(match, match[i].bank) + match[i].amount
      /\ \A b : b # match[i].bank => Total(match', b) = Total(match, b)
  BY <1>1, <1>3, <1>4, Counted
<1>6. /\ Total(match, match[i].bank) + match[i].amount \in Nat
      /\ match[i].bank \in Bank /\ matchedAmount \in [Bank -> Nat]
  BY <1>1, PaidRows DEF IsRow, IInv, Shaped
<1>7. matchedAmount' \in [Bank -> Nat]
  BY <1>2, <1>6
<1>8. \A b \in Bank : matchedAmount'[b] = Total(match', b)
  BY <1>1, <1>2, <1>5, <1>6
<1> QED BY <1>7, <1>8, CreditIs

LEMMA CreditRejected ==
  ASSUME IInv, NEW r \in Request, RejectRevenueMatch(r)
  PROVE  matchedAmount' \in [Bank -> Nat] /\ CreditExact'
<1>1. PICK i \in MatchId :
        /\ i = request[r].id /\ request[r].row = match[i] /\ IsRow(match[i])
        /\ \A b \in Bank : matchedAmount[b] = Total(match, b)
        /\ Table(match)
  BY Held DEF RejectRevenueMatch
<1>2. /\ match[i].status = "candidate"
      /\ match' = [match EXCEPT ![i].status = "rejected"]
      /\ matchedAmount' = matchedAmount
  BY <1>1 DEF RejectRevenueMatch
<1>3. /\ match'[i].status = "rejected"
      /\ \A m \in MatchId : m # i => match'[m] = match[m]
  BY <1>1, <1>2, OneStatus DEF IInv
<1>4. \A b : Total(match', b) = Total(match, b)
  <2>1. \A m \in MatchId : /\ match[m].status = "confirmed" <=> match'[m].status = "confirmed"
                           /\ match[m].status = "confirmed" => match[m] = match'[m]
    BY <1>2, <1>3
  <2> QED BY <1>1, <2>1, SameTotal
<1> QED BY <1>1, <1>2, <1>4, CreditIs DEF IInv, Shaped

\* The credit taken back is part of the total, so that nothing is cut off at zero.
LEMMA CreditReleased ==
  ASSUME IInv, NEW r \in Request, UnmatchRevenueMatch(r)
  PROVE  matchedAmount' \in [Bank -> Nat] /\ CreditExact'
<1>1. PICK i \in MatchId :
        /\ i = request[r].id /\ request[r].row = match[i] /\ IsRow(match[i])
        /\ request[r].matched = Total(match, match[i].bank)
        /\ \A b \in Bank : matchedAmount[b] = Total(match, b)
        /\ Table(match)
  BY Held DEF UnmatchRevenueMatch
<1> DEFINE b0 == match[i].bank
           left == Max({0, request[r].matched - request[r].row.amount})
<1>2. /\ match[i].status = "confirmed"
      /\ match' = [match EXCEPT ![i].status = "rejected"]
      /\ matchedAmount' = IF left = request[r].matched THEN matchedAmount
                           ELSE [matchedAmount EXCEPT ![b0] = left]
  BY <1>1 DEF UnmatchRevenueMatch
<1>3. /\ Table(match') /\ IsRow(match'[i])
      /\ \A m \in MatchId : m # i => match'[m] = match[m]
      /\ match'[i].status = "rejected" /\ match'[i].bank = b0
      /\ match'[i].amount = match[i].amount
  BY <1>1, <1>2, OneStatus DEF IInv
<1>4. match'[i].status # "confirmed"
  BY <1>3
<1>5. /\ Total(match, b0) = Total(match', b0) + match[i].amount
      /\ \A b : b # b0 => Total(match', b) = Total(match, b)
  <2>1. \A m \in MatchId : m # i => match[m] = match'[m]
    BY <1>3
  <2>2. match[i].status = "confirmed" /\ IsRow(match[i]) /\ Table(match) /\ Table(match')
    BY <1>1, <1>2, <1>3
  <2> QED BY <1>3, <1>4, <2>1, <2>2, Counted
<1>6. /\ Total(match', b0) \in Nat /\ match[i].amount \in Nat
      /\ b0 \in Bank /\ matchedAmount \in [Bank -> Nat]
  BY <1>1, <1>3, PaidRows DEF IsRow, IInv, Shaped
<1>7. left = Total(match', b0)
  <2>1. request[r].matched - request[r].row.amount = Total(match', b0)
    BY <1>1, <1>5, <1>6
  <2>2. \A n \in Nat : Max({0, n}) = n
    BY DEF Max
  <2> QED BY <1>6, <2>1, <2>2
<1> HIDE DEF left
<1>8. matchedAmount' \in [Bank -> Nat] /\ matchedAmount'[b0] = left
      /\ \A b \in Bank : b # b0 => matchedAmount'[b] = matchedAmount[b]
  <2>1. matchedAmount[b0] = request[r].matched /\ left \in Nat
    BY <1>1, <1>6, <1>7
  <2> QED BY <1>2, <1>6, <2>1
<1>9. \A b \in Bank : matchedAmount'[b] = Total(match', b)
  BY <1>1, <1>5, <1>7, <1>8
<1> QED BY <1>8, <1>9, CreditIs

LEMMA Continues ==
  ASSUME IInv, Continue
  PROVE  IInv' /\ TakenOnceStep
<1>0. Shaped
  BY DEF IInv
<1>1. PICK r \in Request :
    \/ LoadMatchedBank(r)
    \/ ConfirmRevenueMatch(r)
    \/ RejectRevenueMatch(r)
    \/ UnmatchRevenueMatch(r)
    \/ Abort(r)
    \/ \E c \in Channel, from, to \in Day, a \in MatchAmounts, rs \in SUBSET Record :
         CreateRevenueMatchCandidate(r, c, from, to, a, rs)
  BY DEF Continue
<1>2. CASE LoadMatchedBank(r)
  <2>1. PICK q : /\ request' = [request EXCEPT ![r] = q]
                 /\ q.kind = "both" /\ q.id = request[r].id /\ q.row = request[r].row
                 /\ q.matched = matchedAmount[q.row.bank]
                 /\ request[r].kind = "match"
                 /\ UNCHANGED <<record, match, matchedAmount, ledger, released>>
    <3> DEFINE q == [kind |-> "both", id |-> request[r].id, row |-> request[r].row,
                     matched |-> matchedAmount[request[r].row.bank]]
    <3>1. request' = [request EXCEPT ![r] = q]
      BY <1>2 DEF LoadMatchedBank
    <3>2. /\ request[r].kind = "match"
          /\ UNCHANGED <<record, match, matchedAmount, ledger, released>>
      BY <1>2 DEF LoadMatchedBank
    <3>3. /\ q.kind = "both" /\ q.id = request[r].id /\ q.row = request[r].row
          /\ q.matched = matchedAmount[q.row.bank]
      OBVIOUS
    <3> QED BY <3>1, <3>2, <3>3
  <2>2. /\ \A s \in Request : s # r => request'[s] = request[s]
        /\ request'[r] = q
    BY <1>0, <2>1 DEF Shaped
  <2>3. Shaped'
    BY <1>0, <2>1 DEF Shaped
  <2>4. Alone'
    BY <2>1, <2>2 DEF IInv, Alone
  <2>5. Fresh'
    BY <2>1, <2>2 DEF IInv, Fresh, Rows
  <2> QED BY <2>1, <2>3, <2>4, <2>5, BooksStay DEF IInv
<1>3. CASE ConfirmRevenueMatch(r)
  BY <1>3, Decided, CreditConfirmed DEF ConfirmRevenueMatch
<1>4. CASE RejectRevenueMatch(r)
  BY <1>4, Decided, CreditRejected DEF RejectRevenueMatch
<1>5. CASE UnmatchRevenueMatch(r)
  BY <1>5, Decided, CreditReleased DEF UnmatchRevenueMatch
<1>6. CASE Abort(r)
  BY <1>0, <1>6, Ended, BooksStay DEF Abort, IInv, Shaped
<1>7. ASSUME NEW c \in Channel, NEW from \in Day, NEW to \in Day, NEW a \in MatchAmounts,
             NEW rs \in SUBSET Record, CreateRevenueMatchCandidate(r, c, from, to, a, rs)
      PROVE  IInv' /\ TakenOnceStep
  <2>1. PICK m \in MatchId \ Rows : \E w :
          /\ w = Row(request[r].bank, c, from, to, a, rs, "candidate")
          /\ match' = [match EXCEPT ![m] = w]
    BY <1>7 DEF CreateRevenueMatchCandidate
  <2>2. PICK w : /\ w = Row(request[r].bank, c, from, to, a, rs, "candidate")
                 /\ match' = [match EXCEPT ![m] = w]
    BY <2>1
  <2>7. request[r].bank \in Bank /\ a \in Nat /\ rs \subseteq Records
    BY <1>7, AmountsAssumption DEF CreateRevenueMatchCandidate, IInv, Fresh
  <2>3. IsRow(w) /\ w.status = "candidate" /\ w.records = rs
    BY <2>2, <2>7 DEF Row, IsRow, RowFields
  <2>4. request[r].kind # "none" /\ Finish(r) /\ ledger = "open"
        /\ UNCHANGED <<record, matchedAmount, ledger, released>>
    BY <1>7 DEF CreateRevenueMatchCandidate
  <2>5. Shaped'
    BY <1>0, <2>2, <2>3, <2>4, Ended DEF Shaped
  <2>6. ClosedNothingPending' /\ TakenOnceStep
    BY <1>0, <2>2, <2>3, <2>4 DEF ClosedNothingPending, TakenOnceStep, Shaped
  <2>8. /\ match'[m] = w /\ match[m].status = "none"
        /\ \A n \in MatchId : n # m => match'[n] = match[n]
    BY <1>0, <2>2 DEF Shaped, Rows
  <2>9. Listed'
    <3>1. Records' = Records
      BY <2>4 DEF Records
    <3> QED BY <2>3, <2>7, <2>8, <3>1 DEF IInv, Listed, Rows
  <2>10. CreditExact'
    <3>1. Table(match)
      BY <1>0 DEF Shaped, Table
    <3>2. \A b : Total(match', b) = Total(match, b)
      BY <2>3, <2>8, <3>1, SameTotal
    <3> QED BY <2>4, <3>2, CreditIs DEF IInv
  <2> QED BY <2>4, <2>5, <2>6, <2>9, <2>10, Ended DEF IInv
<1> QED BY <1>1, <1>2, <1>3, <1>4, <1>5, <1>6, <1>7

\* A batch looks at listed records and at ranges, and its own matches share no channel.
LEMMA BatchTakesFree ==
  ASSUME Shaped, Listed, NEW b \in Bank, NEW amount \in Nat, NEW rs \in SUBSET Record,
         CreateRevenueMatchBatch(b, amount, rs)
  PROVE  Shaped' /\ Listed' /\ TakenOnceStep
<1> DEFINE channels == ChannelsOf(rs)
<1>1. PICK idOf \in [channels -> MatchId], w \in [channels -> Nat] :
        /\ \A c, d \in channels : c # d => idOf[c] # idOf[d]
        /\ matchedAmount' = [matchedAmount EXCEPT ![b] = @ + Weight(w, channels)]
        /\ \A c \in channels : Takes(match'[idOf[c]], rs, c)
        /\ \A m \in MatchId : (\A c \in channels : idOf[c] # m) => match'[m] = match[m]
        /\ DOMAIN match' = MatchId /\ match' = [m \in MatchId |-> match'[m]]
  BY BatchWrites
<1>2. /\ UNCHANGED <<record, ledger, request, released>>
      /\ BatchAllowed(b, amount, rs) /\ rs \subseteq Records
  BY DEF CreateRevenueMatchBatch, BatchAllowed
<1>3. Shaped'
  <2>1. \A m \in MatchId : match'[m] = Absent \/ IsRow(match'[m])
    BY <1>1 DEF Takes, Shaped
  <2>2. Weight(w, channels) \in Nat
    BY ChannelsFinite, WeightNat
  <2>3. matchedAmount' \in [Bank -> Nat]
    BY <1>1, <2>2 DEF Shaped
  <2> QED BY <1>1, <1>2, <2>1, <2>3 DEF Shaped
<1>5. Listed'
  <2>1. Records' = Records
    BY <1>2 DEF Records
  <2>2. \A m \in MatchId : match'[m] = match[m] \/ match'[m].records \subseteq Records
    BY <1>1, <1>2 DEF Takes, PartOf
  <2> QED BY <2>1, <2>2 DEF Listed, Rows
<1>4. ASSUME NEW m \in MatchId, match'[m].status = "confirmed",
             match[m].status \in {"none", "rejected"},
             NEW n \in MatchId \ {m}, NEW x \in match'[m].records,
             match'[n].status \in {"candidate", "confirmed"}
      PROVE  ~Covers(n, x)'
  <2>1. PICK c \in channels : m = idOf[c]
    BY <1>1, <1>4
  <2>2. x \in PartOf(rs, c) /\ x \in Records /\ x \in rs /\ record[x].channel = c
    BY <1>1, <1>2, <1>4, <2>1 DEF Takes, PartOf
  <2>3. CASE \E d \in channels : n = idOf[d]
    <3>1. PICK d \in channels : n = idOf[d]
      BY <2>3
    <3>2. d # c /\ match'[n].records = PartOf(rs, d)
      BY <1>1, <2>1, <3>1 DEF Takes
    <3>3. PartOf(rs, d) # {} /\ x \notin PartOf(rs, d)
      BY <2>2, <3>2 DEF ChannelsOf, PartOf
    <3> QED BY <3>2, <3>3 DEF Covers
  <2>4. CASE match'[n] = match[n]
    <3>1. n \in Active /\ IsRow(match[n])
      BY <1>4, <2>4 DEF Active, Rows, Shaped, Absent
    <3>2. x \notin match[n].records
      BY <1>2, <2>2, <3>1 DEF BatchAllowed
    <3> DEFINE part == PartOf(rs, c)
    <3>3. part \in SUBSET Records /\ x \in part
      BY <1>2, <2>2 DEF PartOf
    <3>4. ~Overlapping(c, First(part), Last(part), part)
      BY <1>2 DEF BatchAllowed
    <3>5. /\ First(part) \in Day /\ Last(part) \in Day
          /\ First(part) <= record[x].day /\ record[x].day <= Last(part)
      <4> HIDE DEF part
      <4> QED BY <3>3, DaysOfPart
    <3> HIDE DEF part
    <3>6. record[x].day \in Day
      BY <2>2 DEF Shaped, Records, Absent
    <3>7. ~(/\ match[n].records = {} /\ match[n].channel = c
            /\ record[x].day \in match[n].from .. match[n].to)
      <4> SUFFICES ASSUME match[n].records = {}, match[n].channel = c,
                          record[x].day \in match[n].from .. match[n].to
                   PROVE  FALSE
        OBVIOUS
      <4>1. match[n].from <= Last(part) /\ First(part) <= match[n].to
        BY <3>1, <3>5, <3>6 DEF IsRow, Day
      <4> QED BY <3>1, <3>4, <4>1 DEF Overlapping
    <3> QED BY <1>2, <2>2, <2>4, <3>2, <3>7 DEF Covers
  <2> QED BY <1>1, <2>3, <2>4
<1> QED BY <1>3, <1>4, <1>5 DEF TakenOnceStep

\* The bank row has no live match before: the matches of the batch are its total.
LEMMA BatchCredits ==
  ASSUME IInv, NEW b \in Bank, NEW amount \in Nat, NEW rs \in SUBSET Record,
         CreateRevenueMatchBatch(b, amount, rs)
  PROVE  CreditExact'
<1> DEFINE channels == ChannelsOf(rs)
<1>1. PICK idOf \in [channels -> MatchId], w \in [channels -> Nat] :
        /\ \A c, d \in channels : c # d => idOf[c] # idOf[d]
        /\ \A c \in channels : /\ match'[idOf[c]].bank = b
                               /\ match'[idOf[c]].amount = w[c]
                               /\ idOf[c] \in Rows => match[idOf[c]].bank = b
        /\ matchedAmount' = [matchedAmount EXCEPT ![b] = @ + Weight(w, channels)]
        /\ \A c \in channels : Takes(match'[idOf[c]], rs, c)
        /\ \A m \in MatchId : (\A c \in channels : idOf[c] # m) => match'[m] = match[m]
  BY BatchWrites DEF IInv
<1>2. /\ Table(match) /\ \A d \in Bank : matchedAmount[d] = Total(match, d)
      /\ matchedAmount \in [Bank -> Nat]
  BY CreditIs DEF IInv, Shaped, Table
<1>3. Paid(match, b) = {}
  BY DEF CreateRevenueMatchBatch, BatchAllowed, ActiveOn, Active, Rows, Paid
<1>4. Paid(match', b) = {idOf[c] : c \in channels}
  <2>1. \A c \in channels : idOf[c] \in Paid(match', b)
    BY <1>1 DEF Paid, Takes
  <2>2. ASSUME NEW m \in Paid(match', b)
        PROVE  \E c \in channels : m = idOf[c]
    <3>1. CASE match'[m] = match[m]
      BY <1>3, <3>1 DEF Paid
    <3> QED BY <1>1, <3>1 DEF Paid
  <2> QED BY <2>1, <2>2
<1>5. Total(match', b) = Weight(w, channels) /\ Weight(w, channels) \in Nat
  <2>1. IsFiniteSet(channels)
    BY ChannelsFinite
  <2>2. \A c \in channels : match'[idOf[c]].amount = w[c] /\ w[c] \in Nat
    BY <1>1
  <2>3. \A c, d \in channels : c # d => idOf[c] # idOf[d]
    BY <1>1
  <2> HIDE DEF channels
  <2>4. Amounts(match', {idOf[c] : c \in channels}) = Weight(w, channels)
    BY <2>1, <2>2, <2>3, AmountsOver
  <2>5. Weight(w, channels) \in Nat
    BY <2>1, <2>2, WeightNat
  <2> QED BY <1>4, <2>4, <2>5 DEF Total
<1>6. Total(match, b) = 0
  BY <1>3, AmountsEmpty DEF Total
<1>7. ASSUME NEW d \in Bank, d # b
      PROVE  Total(match', d) = Total(match, d)
  <2>1. \A m \in MatchId : m \in Paid(match', d) <=> m \in Paid(match, d)
    <3> TAKE m \in MatchId
    <3>1. CASE \E c \in channels : m = idOf[c]
      BY <1>1, <1>7, <3>1 DEF Paid, Rows
    <3>2. CASE \A c \in channels : m # idOf[c]
      BY <1>1, <3>2 DEF Paid
    <3> QED BY <3>1, <3>2
  <2>2. Paid(match', d) = Paid(match, d)
    BY <2>1 DEF Paid
  <2>3. \A m \in Paid(match, d) : match'[m].amount = match[m].amount
    BY <1>1, <1>7, <2>2 DEF Paid
  <2> QED BY <1>2, <2>2, <2>3, PaidRows, AmountsAgree DEF Total
<1> HIDE DEF channels
<1>8. \A d \in Bank : matchedAmount'[d] = Total(match', d)
  BY <1>1, <1>2, <1>5, <1>6, <1>7
<1> QED BY <1>8, CreditIs

LEMMA Moved ==
  ASSUME NEW old \in [channel : Channel, day : Day, status : {"recorded"}],
         NEW c, NEW d, NEW new, new = [old EXCEPT !.channel = c, !.day = d]
  PROVE  new = [channel |-> c, day |-> d, status |-> "recorded"]
  OBVIOUS

\* A handler that is one step, while no request is in progress.
LEMMA Wholes ==
  ASSUME IInv, NoOverlap, Whole
  PROVE  IInv' /\ TakenOnceStep
<1>0. Shaped
  BY DEF IInv
<1> DEFINE Kept == Shaped /\ Listed /\ ClosedNothingPending
<1>1. ASSUME NEW b \in Bank, NEW a \in MatchAmounts, NEW rs \in SUBSET Record,
             CreateRevenueMatchBatch(b, a, rs)
      PROVE  Kept' /\ TakenOnceStep /\ CreditExact'
  <2>1. a \in Nat /\ Listed
    BY AmountsAssumption DEF IInv
  <2>2. Shaped' /\ Listed' /\ TakenOnceStep
    BY <1>0, <1>1, <2>1, BatchTakesFree
  <2>3. ClosedNothingPending'
    BY <1>1 DEF CreateRevenueMatchBatch, ClosedNothingPending
  <2>4. CreditExact'
    BY <1>1, <2>1, BatchCredits
  <2> QED BY <2>2, <2>3, <2>4
<1>2. ASSUME NEW x \in Record, NEW c \in Channel, NEW d \in Day,
             CreateRevenueRecord(x, c, d) \/ UpdateRevenueRecord(x, c, d)
      PROVE  Kept' /\ TakenOnceStep /\ UNCHANGED <<match, matchedAmount>>
  <2>1. /\ ledger = "open" /\ UNCHANGED <<match, matchedAmount, ledger, request, released>>
        /\ record' = [record EXCEPT
                        ![x] = [channel |-> c, day |-> d, status |-> "recorded"]]
    <3>1. CASE CreateRevenueRecord(x, c, d)
      BY <3>1 DEF CreateRevenueRecord
    <3>2. CASE UpdateRevenueRecord(x, c, d)
      <4>1. record[x] \in [channel : Channel, day : Day, status : {"recorded"}]
        BY <1>0, <3>2 DEF UpdateRevenueRecord, Shaped, Records, Absent
      <4>2. PICK new : new = [record[x] EXCEPT !.channel = c, !.day = d]
        OBVIOUS
      <4>3. new = [channel |-> c, day |-> d, status |-> "recorded"]
        BY <4>1, <4>2, Moved
      <4>4. record' = [record EXCEPT ![x] = new]
        BY <1>0, <3>2, <4>2 DEF UpdateRevenueRecord, Shaped
      <4> QED BY <3>2, <4>3, <4>4 DEF UpdateRevenueRecord
    <3> QED BY <1>2, <3>1, <3>2
  <2>2. Listed'
    <3>1. Records \subseteq Records'
      BY <1>0, <2>1 DEF Shaped, Records
    <3> QED BY <2>1, <3>1 DEF IInv, Listed, Rows
  <2> QED BY <1>0, <2>1, <2>2 DEF Shaped, ClosedNothingPending, TakenOnceStep
<1>3. ASSUME NEW x \in Record, DeleteRevenueRecord(x)
      PROVE  Kept' /\ TakenOnceStep /\ UNCHANGED <<match, matchedAmount>>
  <2>1. Listed'
    <3>1. Records' = Records \ {x}
      BY <1>0, <1>3 DEF DeleteRevenueRecord, Shaped, Records, Absent
    <3> QED BY <1>3, <3>1 DEF DeleteRevenueRecord, IInv, Listed, Rows
  <2>2. Shaped' /\ ClosedNothingPending' /\ TakenOnceStep
    BY <1>0, <1>3 DEF DeleteRevenueRecord, Shaped, ClosedNothingPending, TakenOnceStep
  <2> QED BY <1>3, <2>1, <2>2 DEF DeleteRevenueRecord
<1>4. ASSUME CloseLedger
      PROVE  Kept' /\ TakenOnceStep /\ UNCHANGED <<match, matchedAmount>>
  <2>1. ClosedNothingPending'
    BY <1>4 DEF CloseLedger, CloseCheck, ClosedNothingPending, Active, Confirmed, Rows,
                Records, Covers
  <2>2. Listed'
    BY <1>4 DEF CloseLedger, IInv, Listed, Rows, Records
  <2> QED BY <1>0, <1>4, <2>1, <2>2 DEF CloseLedger, Shaped, TakenOnceStep
<1>5. ASSUME ReopenLedger
      PROVE  Kept' /\ TakenOnceStep /\ UNCHANGED <<match, matchedAmount>>
  <2>1. Listed'
    BY <1>5 DEF ReopenLedger, IInv, Listed, Rows, Records
  <2> QED BY <1>0, <1>5, <2>1 DEF ReopenLedger, Shaped, ClosedNothingPending, TakenOnceStep
<1>9. UNCHANGED <<match, matchedAmount>> => CreditExact'
  BY CreditIs DEF IInv
<1> HIDE DEF Kept
<1>6. Kept' /\ TakenOnceStep /\ CreditExact'
  BY <1>1, <1>2, <1>3, <1>4, <1>5, <1>9 DEF Whole
<1>7. request' = request
  BY DEF Whole, CreateRevenueMatchBatch, CreateRevenueRecord, UpdateRevenueRecord,
         DeleteRevenueRecord, CloseLedger, ReopenLedger
<1>8. Alone' /\ Fresh'
  BY <1>7 DEF NoOverlap, Alone, Fresh
<1> QED BY <1>6, <1>8 DEF IInv, Kept

LEMMA Steps ==
  ASSUME IInv, [NextSerial]_vars
  PROVE  IInv' /\ [TakenOnceStep]_vars
<1>1. CASE NoOverlap /\ Begin
  <2>1. match' = match
    BY <1>1 DEF Begin, LoadMatch, LoadBank
  <2> QED BY <1>1, <2>1, Begins DEF TakenOnceStep
<1>2. CASE NoOverlap /\ Whole
  BY <1>2, Wholes
<1>3. CASE Continue
  BY <1>3, Continues
<1>4. CASE UNCHANGED vars
  <2>1. Shaped' /\ Alone' /\ Fresh'
    BY <1>4 DEF vars, IInv, Shaped, Alone, Fresh, Rows
  <2> QED BY <1>4, <2>1, BooksStay DEF vars, IInv
<1> QED BY <1>1, <1>2, <1>3, <1>4 DEF NextSerial

THEOREM Invariance == SpecSerial => []IInv
<1>1. Init => IInv
  BY InitIInv
<1>2. IInv /\ [NextSerial]_vars => IInv'
  BY Steps
<1> QED BY <1>1, <1>2, PTL DEF SpecSerial
-----------------------------------------------------------------------------
\* No handler leaves a row half written, a request of no kind or a match of a record that
\* is gone: delete_revenue_record looks at every match, the rejected ones too.
THEOREM TypesHold == SpecSerial => []TypeOK
<1>1. IInv => TypeOK
  BY DEF IInv, Shaped, Listed, TypeOK, Rows, Absent, IsRow
<1> QED BY <1>1, Invariance, PTL

\* matched_amount of an income row is the total of its confirmed matches, over every
\* confirmation, batch, release and reuse of a rejected row, as long as requests do not
\* overlap.
THEOREM CreditIsExact == SpecSerial => []CreditExact
<1>1. IInv => CreditExact
  BY DEF IInv
<1> QED BY <1>1, Invariance, PTL

\* What close_ledger checked of matches and records stays true until the ledger is
\* reopened, but for the matches released since.
THEOREM ClosedStaysDecided == SpecSerial => []ClosedNothingPending
<1>1. IInv => ClosedNothingPending
  BY DEF IInv
<1> QED BY <1>1, Invariance, PTL

\* create_revenue_match_batch takes no record that a live match lists or covers, whatever
\* days and channels the records have been moved to and whatever rows are used again.
THEOREM TakesFreeRecords == SpecSerial => BatchTakesFreeRecords
<1>1. IInv /\ [NextSerial]_vars => [TakenOnceStep]_vars
  BY Steps
<1> QED BY <1>1, Invariance, PTL DEF SpecSerial, BatchTakesFreeRecords
=============================================================================
