------------------------- MODULE FinancePagesProofs -------------------------
(***************************************************************************)
(* Proofs about the pages of the client that match money: reconciliation,  *)
(* pre-opening and revenue, for any stores, rows and channels and without  *)
(* a bound on what the user does.  Each page has an inductive invariant,   *)
(* and AdminWebProofs composes them.                                       *)
(***************************************************************************)
EXTENDS AdminWeb, Sums
-----------------------------------------------------------------------------
(* The reconciliation page.  A plan on its way is that of the open dialog, since opening
   and closing one leave the plans of others without effect; what is saved is the pair the
   dialog was opened for, or nothing. *)

\* The shape of the state: which fields there are.
UiFields == {"page", "clicks", "store", "list", "tx", "cands", "cand", "cache", "dlg", "saving"}
IsUi(u) == DOMAIN u = UiFields /\ u = [f \in UiFields |-> u[f]]
DlgFields == {"kind", "tx", "item", "plan", "ver", "ready"}
IsDlg(d) == DOMAIN d = DlgFields /\ d = [f \in DlgFields |-> d[f]]
CallFields == {"op", "store", "tx", "item", "plan", "ver", "last", "st"}
IsCall(c) == DOMAIN c = CallFields /\ c = [f \in CallFields |-> c[f]]
RowFields == {"tx", "item", "st", "plan", "ver"}
IsRow(r) == DOMAIN r = RowFields /\ r = [f \in RowFields |-> r[f]]
DbFields == {"rows", "plan", "saw"}
IsDb(d) == DOMAIN d = DbFields /\ d = [f \in DbFields |-> d[f]]

Shaped ==
  /\ IsUi(ui) /\ IsDlg(ui.dlg) /\ IsDb(db)
  /\ \A c \in net : IsCall(c)
  /\ \A r \in db.rows : IsRow(r)
  /\ db.plan \in [Matching!Item -> Nat]
  /\ DOMAIN db.saw = Matching!Item /\ db.saw = [i \in Matching!Item |-> db.saw[i]]

\* The plan in the dialog, the plan on its way, and the candidate under the dialog.
Owned(dlg) == dlg.ready => dlg.kind # "none" /\ dlg.plan = dlg.item
PlansOnTheWay ==
  \A c \in net : c.op = "plan" /\ ui.dlg.kind # "none" => c.item = ui.dlg.item
CandidateStays == ui.dlg.kind = "confirm" => ui.cand \in {None, ui.dlg.item}

\* What is saved, on its way and as a row.
OwnPlan(x) == x.plan \in {None, x.item}
Carries(c) == c.op \in {"create", "confirm", "edit"}

PageInv ==
  /\ Owned(ui.dlg) /\ PlansOnTheWay /\ CandidateStays
  /\ \A c \in net : Carries(c) => OwnPlan(c)
RowsInv ==
  /\ \A r \in db.rows : OwnPlan(r)
  /\ Matching!NoBlindOverwrite

MatchingInv == Shaped /\ PageInv /\ RowsInv
-----------------------------------------------------------------------------
(* Steps of the page that leave the dialog alone. *)

\* The page goes on with the same dialog, and with the same candidate, none, or no dialog.
SameDialog(u, v) ==
  /\ IsUi(v) /\ v.dlg = u.dlg
  /\ v.cand \in {u.cand, None} \/ u.dlg.kind = "none"

\* A call is as before but for its answer, or it goes on from creating to confirming, or
\* it brings no plan and saves none.
Descends(c, d) ==
  /\ c.item = d.item /\ c.plan = d.plan
  /\ c.op = d.op \/ (c.op = "confirm" /\ d.op = "create")
Harmless(c) == c.op # "plan" /\ ~Carries(c)
CallsStay == \A c \in net' : /\ IsCall(c)
                             /\ Harmless(c) \/ \E d \in net : Descends(c, d)

LEMMA Answered ==
  ASSUME NEW c, IsCall(c), NEW answer, NEW d, d = [c EXCEPT !.st = answer]
  PROVE  IsCall(d) /\ Descends(d, c)
<1>1. /\ d.item = c.item /\ d.plan = c.plan /\ d.op = c.op
      /\ DOMAIN d = CallFields
  BY DEF IsCall, CallFields
<1>2. d = [f \in CallFields |-> d[f]]
  BY DEF IsCall, CallFields
<1>3. IsCall(d)
  BY ONLY <1>1, <1>2 DEF IsCall
<1>4. Descends(d, c)
  BY ONLY <1>1 DEF Descends
<1> QED BY <1>3, <1>4

LEMMA SentCall ==
  ASSUME NEW op, NEW s, NEW t, NEW i
  PROVE  /\ IsCall(Matching!Call(op, s, t, i)) /\ Matching!Call(op, s, t, i).op = op
         /\ Matching!Call(op, s, t, i).item = i /\ Matching!Call(op, s, t, i).plan = None
  BY DEF Matching!Call, IsCall, CallFields

LEMMA DoShape ==
  ASSUME NEW u, IsUi(u), Matching!Do(u)
  PROVE  IsUi(ui') /\ ui'.dlg = u.dlg /\ ui'.cand = u.cand /\ ui'.store = u.store
  BY DEF Matching!Do, IsUi, UiFields

LEMMA SelectShape ==
  ASSUME NEW u, IsUi(u), NEW t, NEW s
  PROVE  /\ IsUi(Matching!Select(u, t, s)) /\ Matching!Select(u, t, s).dlg = u.dlg
         /\ Matching!Select(u, t, s).cand = None
  BY DEF Matching!Select, IsUi, UiFields

LEMMA EmptiedShape ==
  ASSUME NEW u, IsUi(u)
  PROVE  /\ IsUi(Matching!Emptied(u)) /\ Matching!Emptied(u).dlg = u.dlg
         /\ Matching!Emptied(u).cand = u.cand
  BY DEF Matching!Emptied, IsUi, UiFields

LEMMA PageGoesOn ==
  ASSUME MatchingInv, SameDialog(ui, ui'), CallsStay, db' = db
  PROVE  MatchingInv'
<1>1. Shaped'
  BY DEF MatchingInv, Shaped, SameDialog, CallsStay
<1>2. PageInv'
  <2>1. Owned(ui.dlg)'
    BY DEF MatchingInv, PageInv, Owned, SameDialog
  <2>2. PlansOnTheWay'
    <3> SUFFICES ASSUME NEW c \in net', c.op = "plan", ui.dlg.kind # "none"
                 PROVE  c.item = ui.dlg.item
      BY DEF PlansOnTheWay, SameDialog
    <3>1. PICK d \in net : Descends(c, d)
      BY DEF CallsStay, Harmless
    <3> QED BY <3>1 DEF Descends, MatchingInv, PageInv, PlansOnTheWay
  <2>3. CandidateStays'
    BY DEF MatchingInv, PageInv, CandidateStays, SameDialog
  <2>4. ASSUME NEW c \in net', Carries(c)
        PROVE  OwnPlan(c)
    <3>1. PICK d \in net : Descends(c, d)
      BY <2>4 DEF CallsStay, Harmless
    <3> QED BY <2>4, <3>1 DEF Descends, Carries, OwnPlan, MatchingInv, PageInv
  <2> QED BY <2>1, <2>2, <2>3, <2>4 DEF PageInv, Carries, OwnPlan
<1>3. RowsInv'
  BY DEF MatchingInv, RowsInv, OwnPlan, Matching!NoBlindOverwrite
<1> QED BY <1>1, <1>2, <1>3 DEF MatchingInv

\* Calls that load something but a plan.
Loading(calls) == \A c \in calls : IsCall(c) /\ Harmless(c)

LEMMA LoadsHarmless ==
  /\ \A s, last : Loading(Matching!LoadWorkspace(s, last))
  /\ \A s, t : Loading(Matching!Preloads(s, t)) /\ Loading({Matching!Candidates(s, t)})
  /\ \A s, t : Loading({[Matching!Candidates(s, t) EXCEPT !.last = TRUE]})
  /\ \A s, t, i : Loading({Matching!Call("unmatch", s, t, i)})
<1>1. ASSUME NEW s, NEW last  PROVE Loading(Matching!LoadWorkspace(s, last))
  <2> DEFINE c == Matching!Workspace(s)
             d == [c EXCEPT !.last = last]
  <2>1. IsCall(c) /\ c.op = "workspace"
    BY SentCall DEF Matching!Workspace
  <2> HIDE DEF c
  <2>2. IsCall(d) /\ d.op = "workspace"
    BY <2>1 DEF IsCall, CallFields
  <2>3. Matching!LoadWorkspace(s, last) = {d}
    BY DEF Matching!LoadWorkspace, c
  <2> HIDE DEF d
  <2> QED BY <2>2, <2>3 DEF Loading, Harmless, Carries
<1>2. ASSUME NEW s, NEW t
      PROVE  Loading(Matching!Preloads(s, t)) /\ Loading({Matching!Candidates(s, t)})
  <2>1. \A x : IsCall(Matching!Preload(s, x)) /\ Matching!Preload(s, x).op = "preload"
    BY SentCall DEF Matching!Preload
  <2>2. IsCall(Matching!Candidates(s, t)) /\ Matching!Candidates(s, t).op = "candidates"
    BY SentCall DEF Matching!Candidates
  <2>3. \A c \in Matching!Preloads(s, t) : \E x : c = Matching!Preload(s, x)
    BY DEF Matching!Preloads
  <2> QED BY <2>1, <2>2, <2>3 DEF Loading, Harmless, Carries
<1>3. ASSUME NEW s, NEW t  PROVE Loading({[Matching!Candidates(s, t) EXCEPT !.last = TRUE]})
  <2>1. IsCall(Matching!Candidates(s, t)) /\ Matching!Candidates(s, t).op = "candidates"
    BY SentCall DEF Matching!Candidates
  <2>2. ASSUME NEW c, IsCall(c), c.op = "candidates", NEW d, d = [c EXCEPT !.last = TRUE]
        PROVE  IsCall(d) /\ d.op = "candidates"
    BY <2>2 DEF IsCall, CallFields
  <2> QED BY <2>1, <2>2 DEF Loading, Harmless, Carries
<1>4. ASSUME NEW s, NEW t, NEW i  PROVE Loading({Matching!Call("unmatch", s, t, i)})
  <2>1. /\ IsCall(Matching!Call("unmatch", s, t, i))
        /\ Matching!Call("unmatch", s, t, i).op = "unmatch"
    BY SentCall
  <2> QED BY <2>1 DEF Loading, Harmless, Carries
<1> QED BY <1>1, <1>2, <1>3, <1>4

LEMMA OnlyLoads ==
  ASSUME Shaped, NEW calls, Loading(calls), NEW rest \in SUBSET net, net' = rest \cup calls
  PROVE  CallsStay
<1>1. \A c \in net : IsCall(c) /\ Descends(c, c)
  BY DEF Shaped, Descends
<1> QED BY <1>1 DEF Loading, CallsStay

LEMMA OnlyAnswered ==
  ASSUME Shaped, NEW c, net' = net \ {c}
  PROVE  CallsStay
  BY DEF Shaped, CallsStay, Descends

\* The answers of the loads.
LEMMA LoadsAnswered ==
  ASSUME MatchingInv, Matching!DoneWorkspace \/ Matching!DoneCandidates \/ Matching!DonePreload
  PROVE  MatchingInv'
<1>0. IsUi(ui) /\ Shaped
  BY DEF MatchingInv, Shaped
<1>1. CASE Matching!DoneWorkspace
  <2>1. PICK c, v, w :
          /\ c \in net
          /\ \E saving : v = [ui EXCEPT !.saving = saving]
          /\ w = [v EXCEPT !.list = c.store]
          /\ ui' = v \/ ui' = Matching!Select(w, None, None)
          /\ net' = net \ {c} /\ db' = db
    BY <1>1 DEF Matching!DoneWorkspace, Matching!Calls, Matching!After
  <2>2. IsUi(v) /\ v.dlg = ui.dlg /\ v.cand = ui.cand
    BY <1>0, <2>1 DEF IsUi, UiFields
  <2>3. ui' = v \/ ui' = Matching!Select(w, None, None)
    BY <2>1
  <2>4. IsUi(w) /\ w.dlg = v.dlg
    BY <2>1, <2>2 DEF IsUi, UiFields
  <2>5. SameDialog(ui, ui')
    BY <2>2, <2>3, <2>4, SelectShape DEF SameDialog
  <2>6. CallsStay
    BY <1>0, <2>1, OnlyAnswered
  <2> QED BY <2>1, <2>5, <2>6, PageGoesOn
<1>2. CASE Matching!DoneCandidates
  <2>1. PICK c, cache, calls :
          /\ c \in net
          /\ ui' = ui \/ ui' = [Matching!Select(ui, ui.tx, c.store) EXCEPT !.cache = cache]
          /\ Loading(calls) /\ net' = (net \ {c}) \cup calls /\ db' = db
    <3>1. PICK c \in Matching!Calls("candidates") : \E answer \in Matching!Answers(c) :
            /\ ui' = IF answer = "ok"
                     THEN [Matching!Select(ui, ui.tx, c.store) EXCEPT
                             !.cache = IF c.last THEN @ ELSE @ \cup {c.tx}]
                     ELSE ui
            /\ Matching!After(c, IF c.last THEN {} ELSE Matching!Preloads(c.store, c.tx))
            /\ UNCHANGED db
      BY <1>2 DEF Matching!DoneCandidates
    <3>2. Loading(IF c.last THEN {} ELSE Matching!Preloads(c.store, c.tx))
      BY LoadsHarmless DEF Loading
    <3> QED BY <3>1, <3>2 DEF Matching!After, Matching!Calls
  <2>2. ASSUME NEW v, IsUi(v), NEW w, w = [v EXCEPT !.cache = cache]
        PROVE  IsUi(w) /\ w.dlg = v.dlg /\ w.cand = v.cand
    BY <2>2 DEF IsUi, UiFields
  <2>3. SameDialog(ui, ui')
    BY <1>0, <2>1, <2>2, SelectShape DEF SameDialog
  <2>4. CallsStay
    BY <1>0, <2>1, OnlyLoads
  <2> QED BY <2>1, <2>3, <2>4, PageGoesOn
<1>3. CASE Matching!DonePreload
  <2>1. PICK c, cache : /\ c \in net
                        /\ ui' = ui \/ ui' = [ui EXCEPT !.cache = cache]
                        /\ net' = net \ {c} /\ db' = db
    BY <1>3 DEF Matching!DonePreload, Matching!Calls, Matching!After
  <2>2. ASSUME NEW w, w = [ui EXCEPT !.cache = cache]
        PROVE  IsUi(w) /\ w.dlg = ui.dlg /\ w.cand = ui.cand
    BY <1>0, <2>2 DEF IsUi, UiFields
  <2>3. SameDialog(ui, ui')
    BY <1>0, <2>1, <2>2 DEF SameDialog
  <2>4. CallsStay
    BY <1>0, <2>1, OnlyAnswered
  <2> QED BY <2>1, <2>3, <2>4, PageGoesOn
<1> QED BY <1>1, <1>2, <1>3

\* What the user does outside of a dialog.
LEMMA UserMoves ==
  ASSUME MatchingInv,
         \/ \E s \in Store : Matching!SwitchStore(s)
         \/ Matching!Focus \/ Matching!Search
         \/ \E t \in Matching!Tx : Matching!SelectTransaction(t)
         \/ \E i \in Matching!Item : Matching!PickCandidate(i) \/ Matching!Unmatch(i)
  PROVE  MatchingInv'
<1>0. /\ IsUi(ui) /\ Shaped
      /\ \A u : IsUi(u) /\ Matching!Do(u) => /\ IsUi(ui') /\ ui'.dlg = u.dlg
                                            /\ ui'.cand = u.cand
  BY DoShape DEF MatchingInv, Shaped
<1>1. ASSUME NEW u, NEW calls, SameDialog(ui, u), Matching!Do(u), Loading(calls),
             net' = net \cup calls, db' = db
      PROVE  MatchingInv'
  <2>1. SameDialog(ui, ui')
    BY <1>0, <1>1 DEF SameDialog
  <2>2. CallsStay
    BY <1>0, <1>1, OnlyLoads
  <2> QED BY <1>1, <2>1, <2>2, PageGoesOn
<1>2. ASSUME NEW s \in Store, Matching!SwitchStore(s)  PROVE MatchingInv'
  <2> DEFINE v == Matching!Emptied(ui)
  <2>1. IsUi(v) /\ v.dlg = ui.dlg /\ v.cand = ui.cand
    BY <1>0, EmptiedShape
  <2>2. /\ Matching!Do([v EXCEPT !.store = s]) /\ db' = db
        /\ net' = net \cup Matching!LoadWorkspace(s, FALSE)
    BY <1>2 DEF Matching!SwitchStore, Matching!Start
  <2> HIDE DEF v
  <2>3. ASSUME NEW w, w = [v EXCEPT !.store = s]  PROVE SameDialog(ui, w)
    BY <2>1, <2>3 DEF IsUi, UiFields, SameDialog
  <2> QED BY <1>1, <2>2, <2>3, LoadsHarmless
<1>3. ASSUME Matching!Focus  PROVE MatchingInv'
  <2>1. SameDialog(ui, Matching!Emptied(ui))
    BY <1>0, EmptiedShape DEF SameDialog
  <2>2. /\ Matching!Do(Matching!Emptied(ui)) /\ db' = db
        /\ net' = net \cup Matching!LoadWorkspace(ui.store, FALSE)
    BY <1>3 DEF Matching!Focus, Matching!Start
  <2> QED BY <1>1, <2>1, <2>2, LoadsHarmless
<1>4. ASSUME Matching!Search  PROVE MatchingInv'
  <2>1. SameDialog(ui, ui)
    BY <1>0 DEF SameDialog
  <2>2. /\ Matching!Do(ui) /\ db' = db
        /\ net' = net \cup {[Matching!Candidates(ui.store, ui.tx) EXCEPT !.last = TRUE]}
    BY <1>4 DEF Matching!Search, Matching!Start
  <2> QED BY <1>1, <2>1, <2>2, LoadsHarmless
<1>5. ASSUME NEW t \in Matching!Tx, Matching!SelectTransaction(t)  PROVE MatchingInv'
  <2>1. CASE t \in ui.cache
    <3>1. SameDialog(ui, Matching!Select(ui, t, TxStore[t]))
      BY <1>0, SelectShape DEF SameDialog
    <3>2. /\ Matching!Do(Matching!Select(ui, t, TxStore[t])) /\ db' = db
          /\ net' = net \cup Matching!Preloads(ui.store, t)
      BY <1>5, <2>1 DEF Matching!SelectTransaction, Matching!Start
    <3> QED BY <1>1, <3>1, <3>2, LoadsHarmless
  <2>2. CASE t \notin ui.cache
    <3>1. /\ Matching!Do([ui EXCEPT !.tx = t]) /\ db' = db
          /\ net' = net \cup {Matching!Candidates(ui.store, t)}
      BY <1>5, <2>2 DEF Matching!SelectTransaction, Matching!Start
    <3>2. ASSUME NEW w, w = [ui EXCEPT !.tx = t]  PROVE SameDialog(ui, w)
      BY <1>0, <3>2 DEF IsUi, UiFields, SameDialog
    <3> QED BY <1>1, <3>1, <3>2, LoadsHarmless
  <2> QED BY <2>1, <2>2
<1>6. ASSUME NEW i \in Matching!Item, Matching!PickCandidate(i)  PROVE MatchingInv'
  <2>1. /\ Matching!Do([ui EXCEPT !.cand = i]) /\ net' = net \cup {} /\ db' = db
        /\ ui.dlg.kind = "none"
    BY <1>6 DEF Matching!PickCandidate, Matching!Offered, Matching!NoDialog
  <2>2. ASSUME NEW w, w = [ui EXCEPT !.cand = i]  PROVE SameDialog(ui, w)
    BY <1>0, <2>1, <2>2 DEF IsUi, UiFields, SameDialog
  <2>3. Loading({})
    BY DEF Loading
  <2> QED BY <1>1, <2>1, <2>2, <2>3
<1>7. ASSUME NEW i \in Matching!Item, Matching!Unmatch(i)  PROVE MatchingInv'
  <2>1. PICK r \in Matching!Recorded(i) :
          net' = net \cup {Matching!Call("unmatch", ui.store, r.tx, i)}
    BY <1>7 DEF Matching!Unmatch, Matching!Start
  <2>2. Matching!Do([ui EXCEPT !.saving = TRUE]) /\ db' = db
    BY <1>7 DEF Matching!Unmatch
  <2>3. ASSUME NEW w, w = [ui EXCEPT !.saving = TRUE]  PROVE SameDialog(ui, w)
    BY <1>0, <2>3 DEF IsUi, UiFields, SameDialog
  <2> QED BY <1>1, <2>1, <2>2, <2>3, LoadsHarmless
<1> QED BY <1>2, <1>3, <1>4, <1>5, <1>6, <1>7
-----------------------------------------------------------------------------
(* The dialogs. *)

LEMMA ClosedFacts ==
  IsDlg(Matching!Closed) /\ Matching!Closed.kind = "none" /\ Matching!Closed.ready = FALSE
  BY DEF Matching!Closed, IsDlg, DlgFields

LEMMA WithDialog ==
  ASSUME NEW u, IsUi(u), NEW d, NEW v, v = [u EXCEPT !.dlg = d]
  PROVE  IsUi(v) /\ v.dlg = d /\ v.cand = u.cand
  BY DEF IsUi, UiFields

\* A step of the page, whatever it does to the dialog and the calls.
SavesOwn(calls) == \A c \in calls : IsCall(c) /\ (Carries(c) => OwnPlan(c))
PlansFor(d, calls) == \A c \in calls : c.op = "plan" /\ d.kind # "none" => c.item = d.item
PageOK(u) == /\ IsUi(u) /\ IsDlg(u.dlg) /\ Owned(u.dlg)
             /\ u.dlg.kind = "confirm" => u.cand \in {None, u.dlg.item}

LEMMA PageChanges ==
  ASSUME MatchingInv, PageOK(ui'), SavesOwn(net'), PlansFor(ui'.dlg, net'), db' = db
  PROVE  MatchingInv'
<1>1. Shaped'
  BY DEF MatchingInv, Shaped, PageOK, SavesOwn
<1>2. PageInv'
  BY DEF PageInv, PageOK, SavesOwn, PlansFor, PlansOnTheWay, CandidateStays, Owned, Carries,
         OwnPlan
<1>3. RowsInv'
  BY DEF MatchingInv, RowsInv, OwnPlan, Matching!NoBlindOverwrite
<1> QED BY <1>1, <1>2, <1>3 DEF MatchingInv

LEMMA PageNow ==
  ASSUME MatchingInv
  PROVE  PageOK(ui) /\ SavesOwn(net) /\ PlansFor(ui.dlg, net)
  BY DEF MatchingInv, Shaped, PageInv, PageOK, SavesOwn, PlansFor, PlansOnTheWay, CandidateStays

LEMMA PlanOfFacts ==
  ASSUME NEW i
  PROVE  IsCall(Matching!PlanOf(i)) /\ Matching!PlanOf(i).op = "plan" /\ Matching!PlanOf(i).item = i
  BY SentCall DEF Matching!PlanOf

\* A dialog opened leaves the plans of others without effect and asks for its own.
LEMMA Opened ==
  ASSUME MatchingInv, NEW kind \in {"confirm", "edit"}, NEW t, NEW i, NEW d, NEW u,
         d = [Matching!Closed EXCEPT !.kind = kind, !.tx = t, !.item = i],
         u = [ui EXCEPT !.dlg = d], Matching!Do(u), kind = "confirm" => ui.cand = i,
         net' = Matching!LoadPlan(i), db' = db
  PROVE  MatchingInv'
<1>1. IsDlg(d) /\ d.kind = kind /\ d.item = i /\ d.ready = FALSE
  BY DEF Matching!Closed, IsDlg, DlgFields
<1>2. IsUi(ui)
  BY DEF MatchingInv, Shaped
<1>3. IsUi(u) /\ u.dlg = d /\ u.cand = ui.cand
  BY <1>2, WithDialog
<1>4. IsUi(ui') /\ ui'.dlg = d /\ ui'.cand = ui.cand
  BY <1>3, DoShape
<1>5. PageOK(ui')
  BY <1>1, <1>4 DEF PageOK, Owned
<1>6. SavesOwn(net') /\ PlansFor(ui'.dlg, net')
  BY <1>1, <1>4, PageNow, PlanOfFacts
     DEF Matching!LoadPlan, Matching!Overtaken, Matching!Calls, SavesOwn, PlansFor, Carries
<1> QED BY <1>5, <1>6, PageChanges

LEMMA DialogsOpen ==
  ASSUME MatchingInv, Matching!OpenConfirm \/ \E i \in Matching!Item : Matching!OpenEdit(i)
  PROVE  MatchingInv'
<1>1. CASE Matching!OpenConfirm
  <2>1. PICK d, u : /\ d = [Matching!Closed EXCEPT !.kind = "confirm", !.tx = ui.tx,
                                                  !.item = ui.cand]
                    /\ u = [ui EXCEPT !.dlg = d] /\ Matching!Do(u)
                    /\ net' = Matching!LoadPlan(ui.cand) /\ db' = db
    BY <1>1 DEF Matching!OpenConfirm
  <2> QED BY <2>1, Opened
<1>2. CASE \E i \in Matching!Item : Matching!OpenEdit(i)
  <2>1. PICK i, t, d, u : /\ d = [Matching!Closed EXCEPT !.kind = "edit", !.tx = t, !.item = i]
                          /\ u = [ui EXCEPT !.dlg = d] /\ Matching!Do(u)
                          /\ net' = Matching!LoadPlan(i) /\ db' = db
    BY <1>2 DEF Matching!OpenEdit
  <2> QED BY <2>1, Opened
<1> QED BY <1>1, <1>2

LEMMA PlanArrives ==
  ASSUME MatchingInv, Matching!DonePlan
  PROVE  MatchingInv'
<1>1. PICK c \in net, answer \in Matching!Answer :
        /\ c.op = "plan" /\ net' = net \ {c} /\ db' = db
        /\ ui' = [ui EXCEPT !.dlg = IF answer = "ok" /\ @.kind # "none"
              THEN [@ EXCEPT !.plan = c.item, !.ver = db.plan[c.item], !.ready = TRUE] ELSE @]
  BY DEF Matching!DonePlan, Matching!Calls, Matching!After
<1>2. SavesOwn(net')
  BY <1>1, PageNow DEF SavesOwn
<1>3. PageOK(ui) /\ PlansFor(ui.dlg, net) /\ IsUi(ui) /\ IsDlg(ui.dlg)
  BY PageNow DEF PageOK
<1>4. CASE answer = "ok" /\ ui.dlg.kind # "none"
  <2>1. PICK e : /\ e = [ui.dlg EXCEPT !.plan = c.item, !.ver = db.plan[c.item], !.ready = TRUE]
                 /\ ui' = [ui EXCEPT !.dlg = e]
    BY <1>1, <1>3, <1>4 DEF IsUi, UiFields
  <2>2. IsDlg(e) /\ e.plan = c.item /\ e.item = ui.dlg.item /\ e.kind = ui.dlg.kind
    BY <1>3, <2>1 DEF IsDlg, DlgFields
  <2>3. IsUi(ui') /\ ui'.dlg = e /\ ui'.cand = ui.cand
    BY <1>3, <2>1, WithDialog
  <2>4. c.item = ui.dlg.item
    BY <1>1, <1>3, <1>4 DEF PlansFor
  <2>5. PageOK(ui')
    BY <1>3, <1>4, <2>2, <2>3, <2>4 DEF PageOK, Owned
  <2>6. PlansFor(ui'.dlg, net')
    BY <1>1, <1>3, <2>2, <2>3 DEF PlansFor
  <2> QED BY <1>1, <1>2, <2>5, <2>6, PageChanges
<1>5. CASE ~(answer = "ok" /\ ui.dlg.kind # "none")
  <2>1. ui' = [ui EXCEPT !.dlg = ui.dlg]
    BY <1>1, <1>3, <1>5 DEF IsUi, UiFields
  <2>2. IsUi(ui') /\ ui'.dlg = ui.dlg /\ ui'.cand = ui.cand
    BY <1>3, <2>1, WithDialog
  <2>3. PageOK(ui') /\ PlansFor(ui'.dlg, net')
    BY <1>1, <1>3, <2>2 DEF PageOK, PlansFor
  <2> QED BY <1>1, <1>2, <2>3, PageChanges
<1> QED BY <1>4, <1>5

LEMMA DialogCloses ==
  ASSUME MatchingInv, Matching!Cancel
  PROVE  MatchingInv'
<1>1. PICK u : /\ u = [ui EXCEPT !.dlg = Matching!Closed] /\ Matching!Do(u)
               /\ net' = net \ Matching!Overtaken /\ db' = db
  BY DEF Matching!Cancel
<1>2. IsUi(ui) /\ SavesOwn(net)
  BY PageNow DEF PageOK
<1>3. IsUi(u) /\ u.dlg = Matching!Closed /\ u.cand = ui.cand
  BY <1>1, <1>2, WithDialog
<1>4. IsUi(ui') /\ ui'.dlg = Matching!Closed
  BY <1>1, <1>3, DoShape
<1>5. PageOK(ui') /\ SavesOwn(net') /\ PlansFor(ui'.dlg, net')
  BY <1>1, <1>2, <1>4, ClosedFacts DEF PageOK, Owned, SavesOwn, PlansFor
<1> QED BY <1>1, <1>5, PageChanges

\* What a dialog sends: of its own item, or of none that is selected.
LEMMA PlannedFacts ==
  ASSUME NEW op \in {"create", "edit"}, NEW s, NEW t, NEW i, PageOK(ui),
         ui.dlg.ready, i = ui.dlg.item, NEW c \in Matching!Planned(Matching!Call(op, s, t, i))
  PROVE  IsCall(c) /\ c.op = op /\ OwnPlan(c)
<1>1. PICK p \in {ui.dlg.plan, None} :
        c = [Matching!Call(op, s, t, i) EXCEPT !.plan = p, !.ver = ui.dlg.ver]
  BY DEF Matching!Planned
<1>2. /\ IsCall(Matching!Call(op, s, t, i)) /\ Matching!Call(op, s, t, i).op = op
      /\ Matching!Call(op, s, t, i).item = i
  BY SentCall
<1>3. ASSUME NEW b, IsCall(b), b.op = op, b.item = i,
             c = [b EXCEPT !.plan = p, !.ver = ui.dlg.ver]
      PROVE  IsCall(c) /\ c.op = op /\ c.item = i /\ c.plan = p
  BY <1>3 DEF IsCall, CallFields
<1>4. ui.dlg.plan = i
  BY DEF PageOK, Owned
<1> QED BY <1>1, <1>2, <1>3, <1>4 DEF OwnPlan

LEMMA SubmitsMatch ==
  ASSUME MatchingInv, Matching!SubmitConfirm \/ Matching!SubmitEdit
  PROVE  MatchingInv'
<1>0. PageOK(ui) /\ SavesOwn(net) /\ PlansFor(ui.dlg, net) /\ IsUi(ui) /\ MatchingInv
  BY PageNow DEF PageOK
<1>1. ASSUME NEW c, IsCall(c), c.op # "plan", OwnPlan(c), net' = net \cup {c},
             NEW u, u = [ui EXCEPT !.saving = TRUE], Matching!Do(u), db' = db
      PROVE  MatchingInv'
  <2>1. IsUi(u) /\ u.dlg = ui.dlg /\ u.cand = ui.cand
    BY <1>0, <1>1 DEF IsUi, UiFields
  <2>2. IsUi(ui') /\ ui'.dlg = ui.dlg /\ ui'.cand = ui.cand
    BY <1>1, <2>1, DoShape
  <2>3. PageOK(ui') /\ SavesOwn(net') /\ PlansFor(ui'.dlg, net')
    BY <1>0, <1>1, <2>2 DEF PageOK, SavesOwn, PlansFor
  <2> QED BY <1>1, <2>3, PageChanges
<1>2. CASE Matching!SubmitConfirm
  <2>1. PICK c \in Matching!Planned(Matching!Call("create", ui.store, ui.tx, ui.cand)) :
          net' = net \cup {c} /\ Matching!Do([ui EXCEPT !.saving = TRUE]) /\ db' = db
    BY <1>2 DEF Matching!SubmitConfirm, Matching!Start
  <2>2. ui.dlg.ready /\ ui.cand = ui.dlg.item
    BY <1>0, <1>2 DEF Matching!SubmitConfirm, Matching!MayConfirm, PageOK
  <2>3. IsCall(c) /\ c.op = "create" /\ OwnPlan(c)
    BY <1>0, <2>2, PlannedFacts
  <2> QED BY <1>1, <2>1, <2>3
<1>3. CASE Matching!SubmitEdit
  <2>1. PICK c \in Matching!Planned(Matching!Call("edit", ui.store, ui.dlg.tx, ui.dlg.item)) :
          net' = net \cup {c} /\ Matching!Do([ui EXCEPT !.saving = TRUE]) /\ db' = db
    BY <1>3 DEF Matching!SubmitEdit, Matching!Start
  <2>2. ui.dlg.ready
    BY <1>3 DEF Matching!SubmitEdit, Matching!MayEdit
  <2>3. IsCall(c) /\ c.op = "edit" /\ OwnPlan(c)
    BY <1>0, <2>2, PlannedFacts
  <2> QED BY <1>1, <2>1, <2>3
<1> QED BY <1>2, <1>3

\* Saving a match ends: the dialog goes on to the second call, stays, or is closed.
LEMMA SavesEnd ==
  ASSUME MatchingInv, Matching!DoneCreate \/ Matching!DoneSave
  PROVE  MatchingInv'
<1>0. PageOK(ui) /\ SavesOwn(net) /\ PlansFor(ui.dlg, net) /\ IsUi(ui) /\ Shaped
  BY PageNow DEF PageOK, MatchingInv
<1>1. ASSUME NEW c, net' = net \ {c}, ui' = [ui EXCEPT !.saving = FALSE], db' = db
      PROVE  MatchingInv'
  <2>1. SameDialog(ui, ui')
    BY <1>0, <1>1 DEF IsUi, UiFields, SameDialog
  <2> QED BY <1>0, <1>1, <2>1, OnlyAnswered, PageGoesOn
<1>2. CASE Matching!DoneCreate
  <2>1. PICK c, d :
          /\ c \in net
          /\ c.op = "create" /\ d = [c EXCEPT !.op = "confirm", !.st = "sent"] /\ db' = db
          /\ \/ ui' = ui /\ net' = (net \ {c}) \cup {d}
             \/ ui' = [ui EXCEPT !.saving = FALSE] /\ net' = net \ {c}
    BY <1>2 DEF Matching!DoneCreate, Matching!Settled, Matching!After
  <2>2. IsCall(d) /\ Descends(d, c)
    <3>1. IsCall(c)
      BY <1>0, <2>1 DEF Shaped
    <3>2. d.op = "confirm" /\ d.item = c.item /\ d.plan = c.plan /\ IsCall(d)
      BY <2>1, <3>1 DEF IsCall, CallFields
    <3> QED BY <2>1, <3>1, <3>2 DEF Descends
  <2>3. CASE ui' = ui /\ net' = (net \ {c}) \cup {d}
    <3>1. CallsStay
      BY <1>0, <2>1, <2>2, <2>3 DEF Shaped, CallsStay, Descends
    <3>2. SameDialog(ui, ui')
      BY <1>0, <2>3 DEF SameDialog
    <3> QED BY <2>1, <3>1, <3>2, PageGoesOn
  <2>4. CASE ui' = [ui EXCEPT !.saving = FALSE] /\ net' = net \ {c}
    BY <1>1, <2>1, <2>4
  <2> QED BY <2>1, <2>3, <2>4
<1>3. CASE Matching!DoneSave
  <2>1. PICK c \in net :
          /\ db' = db
          /\ \/ /\ ui' = [Matching!Emptied(ui) EXCEPT
                            !.dlg = IF c.op = "unmatch" THEN @ ELSE Matching!Closed]
                /\ net' = (net \ {c}) \cup Matching!LoadWorkspace(c.store, TRUE)
             \/ ui' = [ui EXCEPT !.saving = FALSE] /\ net' = net \ {c}
    BY <1>3 DEF Matching!DoneSave, Matching!Settled, Matching!After
  <2>2. CASE /\ ui' = [Matching!Emptied(ui) EXCEPT
                         !.dlg = IF c.op = "unmatch" THEN @ ELSE Matching!Closed]
             /\ net' = (net \ {c}) \cup Matching!LoadWorkspace(c.store, TRUE)
    <3>1. PICK v, d : /\ v = Matching!Emptied(ui) /\ d \in {ui.dlg, Matching!Closed}
                      /\ ui' = [v EXCEPT !.dlg = d]
      <4>1. IsUi(Matching!Emptied(ui)) /\ Matching!Emptied(ui).dlg = ui.dlg
        BY <1>0, EmptiedShape
      <4> QED BY <2>2, <4>1 DEF IsUi, UiFields
    <3>2. IsUi(v) /\ v.dlg = ui.dlg /\ v.cand = ui.cand
      BY <1>0, <3>1, EmptiedShape
    <3>3. IsUi(ui') /\ ui'.dlg = d /\ ui'.cand = ui.cand
      BY <3>1, <3>2, WithDialog
    <3>4. PageOK(ui')
      BY <1>0, <3>1, <3>3, ClosedFacts DEF PageOK, Owned
    <3>5. Loading(Matching!LoadWorkspace(c.store, TRUE))
      BY LoadsHarmless
    <3>6. SavesOwn(net')
      BY <1>0, <2>2, <3>5 DEF SavesOwn, Loading, Harmless
    <3>7. PlansFor(ui'.dlg, net')
      BY <1>0, <2>2, <3>1, <3>3, <3>5, ClosedFacts DEF PlansFor, Loading, Harmless
    <3> QED BY <2>1, <3>4, <3>6, <3>7, PageChanges
  <2>3. CASE ui' = [ui EXCEPT !.saving = FALSE] /\ net' = net \ {c}
    BY <1>1, <2>1, <2>3
  <2> QED BY <2>1, <2>2, <2>3
<1> QED BY <1>2, <1>3
-----------------------------------------------------------------------------
(* The API. *)

DbShaped ==
  /\ IsDb(db) /\ \A r \in db.rows : IsRow(r)
  /\ db.plan \in [Matching!Item -> Nat]
  /\ DOMAIN db.saw = Matching!Item /\ db.saw = [i \in Matching!Item |-> db.saw[i]]

LEMMA ApiServes ==
  ASSUME MatchingInv, ui' = ui, CallsStay, DbShaped', RowsInv'
  PROVE  MatchingInv'
<1>1. Shaped'
  BY DEF MatchingInv, Shaped, CallsStay, DbShaped
<1>2. PageOK(ui') /\ PageOK(ui)
  BY PageNow DEF PageOK
<1>3. SavesOwn(net') /\ PlansFor(ui'.dlg, net')
  BY PageNow DEF CallsStay, SavesOwn, PlansFor, Harmless, Descends, Carries, OwnPlan
<1>4. PageInv'
  BY <1>2, <1>3 DEF PageInv, PageOK, SavesOwn, PlansFor, PlansOnTheWay, CandidateStays,
                    Owned, Carries, OwnPlan
<1> QED BY <1>1, <1>4 DEF MatchingInv

LEMMA AnswersStay ==
  ASSUME Shaped, NEW c \in net, NEW answer, net' = (net \ {c}) \cup {[c EXCEPT !.st = answer]}
  PROVE  CallsStay
<1>1. IsCall(c)
  BY DEF Shaped
<1>2. \A d : d = [c EXCEPT !.st = answer] => IsCall(d) /\ Descends(d, c)
  BY <1>1, Answered
<1>3. \A d \in net : IsCall(d) /\ Descends(d, d)
  BY DEF Shaped, Descends
<1> QED BY <1>2, <1>3 DEF CallsStay

LEMMA RejectStays ==
  ASSUME Shaped, NEW c \in net, net' = Matching!Reject(c) \/ net' = Matching!Resolve(c)
  PROVE  CallsStay
  BY AnswersStay DEF Matching!Reject, Matching!Resolve

\* Rows change, plans do not: the new rows are their approval's own.
LEMMA RowsChange ==
  ASSUME MatchingInv, NEW rows, db' = [db EXCEPT !.rows = rows],
         \A r \in rows : IsRow(r) /\ OwnPlan(r)
  PROVE  DbShaped' /\ RowsInv'
<1>1. IsDb(db) /\ DbShaped
  BY DEF MatchingInv, Shaped, DbShaped
<1>2. db'.rows = rows /\ db'.plan = db.plan /\ db'.saw = db.saw /\ IsDb(db')
  BY <1>1 DEF IsDb, DbFields
<1>3. DbShaped'
  BY <1>1, <1>2 DEF DbShaped
<1>4. RowsInv'
  BY <1>2 DEF MatchingInv, RowsInv, OwnPlan, Matching!NoBlindOverwrite
<1> QED BY <1>3, <1>4

LEMMA RowsNow ==
  ASSUME MatchingInv
  PROVE  (\A r \in db.rows : IsRow(r) /\ OwnPlan(r)) /\ Shaped
  BY DEF MatchingInv, Shaped, RowsInv

LEMMA DbStays ==
  ASSUME MatchingInv, db' = db
  PROVE  DbShaped' /\ RowsInv'
  BY DEF MatchingInv, Shaped, DbShaped, RowsInv, OwnPlan, Matching!NoBlindOverwrite

\* A row created takes the place of the pair's.
LEMMA Creates ==
  ASSUME MatchingInv, Matching!ServeCreate
  PROVE  MatchingInv'
<1>0. Shaped /\ IsDb(db)
  BY DEF MatchingInv, Shaped
<1>1. PICK c \in net :
        /\ c.op = "create" /\ ui' = ui
        /\ net' \in {Matching!Resolve(c), Matching!Reject(c)}
        /\ \/ db' = db
           \/ db' = [db EXCEPT !.rows = (db.rows \ Matching!Pair(c)) \cup {Matching!NewRow(c)}]
  BY <1>0 DEF Matching!ServeCreate, Matching!Calls, IsDb, DbFields
<1>2. CallsStay
  BY <1>0, <1>1, RejectStays
<1>3. DbShaped' /\ RowsInv'
  <2>1. PICK new : new = Matching!NewRow(c)
    OBVIOUS
  <2>2. IsRow(new) /\ new.item = c.item /\ new.plan = c.plan
    BY <2>1 DEF Matching!NewRow, IsRow, RowFields
  <2>3. OwnPlan(new)
    BY <1>1, <2>2, PageNow DEF SavesOwn, Carries, OwnPlan
  <2>4. CASE db' = db
    BY <2>4, DbStays
  <2>5. CASE db' = [db EXCEPT !.rows = (db.rows \ Matching!Pair(c)) \cup {new}]
    BY <2>2, <2>3, <2>5, RowsNow, RowsChange
  <2> QED BY <1>1, <2>1, <2>4, <2>5
<1> QED BY <1>1, <1>2, <1>3, ApiServes

\* What is saved with a confirmed row: the plan it asks for was the approval's plan.
LEMMA PlanSaved ==
  ASSUME MatchingInv, NEW old \in db.rows, NEW r, NEW st, IsRow(r), OwnPlan(r),
         Matching!PlanAccepted(r), Matching!SavePlan(r, old, st)
  PROVE  DbShaped' /\ RowsInv'
<1>0. IsDb(db) /\ DbShaped
  BY DEF MatchingInv, Shaped, DbShaped
<1>1a. PICK changed \in BOOLEAN : \E new :
        /\ changed => r.plan # None
        /\ new = [r EXCEPT !.st = st]
        /\ db'.rows = (db.rows \ {old}) \cup {new}
        /\ db'.plan = [db.plan EXCEPT ![r.item] = IF changed THEN @ + 1 ELSE @]
        /\ db'.saw = [db.saw EXCEPT ![r.item] = IF changed THEN r.ver ELSE @]
        /\ IsDb(db')
  BY <1>0 DEF Matching!SavePlan, IsDb, DbFields
<1>1. PICK new :
        /\ changed => r.plan # None
        /\ new = [r EXCEPT !.st = st]
        /\ db'.rows = (db.rows \ {old}) \cup {new}
        /\ db'.plan = [db.plan EXCEPT ![r.item] = IF changed THEN @ + 1 ELSE @]
        /\ db'.saw = [db.saw EXCEPT ![r.item] = IF changed THEN r.ver ELSE @]
        /\ IsDb(db')
  BY <1>1a
<1>2. IsRow(new) /\ OwnPlan(new)
  <2>1. IsRow(new) /\ new.item = r.item /\ new.plan = r.plan
    BY <1>1 DEF IsRow, RowFields
  <2> QED BY <2>1 DEF OwnPlan
<1>3. \A x \in db'.rows : IsRow(x) /\ OwnPlan(x)
  BY <1>1, <1>2, RowsNow
<1>4. /\ db'.plan \in [Matching!Item -> Nat]
      /\ DOMAIN db'.saw = Matching!Item /\ db'.saw = [i \in Matching!Item |-> db'.saw[i]]
  <2>1. PICK v : /\ db'.plan = [db.plan EXCEPT ![r.item] = v]
                 /\ v = IF changed THEN db.plan[r.item] + 1 ELSE db.plan[r.item]
    BY <1>1
  <2>2. r.item \in Matching!Item => v \in Nat
    BY <1>0, <2>1 DEF DbShaped
  <2>3. db'.plan \in [Matching!Item -> Nat]
    <3>1. db.plan \in [Matching!Item -> Nat] /\ db'.plan = [db.plan EXCEPT ![r.item] = v]
      BY <1>0, <2>1 DEF DbShaped
    <3> QED BY ONLY <2>2, <3>1
  <2>4. PICK w : db'.saw = [db.saw EXCEPT ![r.item] = w]
    BY <1>1
  <2>5. DOMAIN db'.saw = Matching!Item /\ db'.saw = [i \in Matching!Item |-> db'.saw[i]]
    BY <1>0, <2>4 DEF DbShaped
  <2> QED BY <2>3, <2>5
<1>5. ASSUME NEW i \in Matching!Item, db'.plan[i] > 0
      PROVE  db'.saw[i] = db'.plan[i] - 1
  <2>1. CASE changed /\ i = r.item
    <3>1. r.ver = db.plan[i] /\ db.plan[i] \in Nat
      BY <1>0, <1>1, <2>1 DEF Matching!PlanAccepted, DbShaped
    <3>2. db'.plan[i] = db.plan[i] + 1 /\ db'.saw[i] = r.ver
      BY <1>0, <1>1, <2>1 DEF DbShaped
    <3> QED BY <3>1, <3>2
  <2>2. CASE ~(changed /\ i = r.item)
    <3>1. db'.plan[i] = db.plan[i] /\ db'.saw[i] = db.saw[i]
      BY <1>0, <1>1, <2>2 DEF DbShaped
    <3> QED BY <1>5, <3>1 DEF MatchingInv, RowsInv, Matching!NoBlindOverwrite
  <2> QED BY <2>1, <2>2
<1>6. DbShaped'
  BY <1>1, <1>3, <1>4 DEF DbShaped
<1>7. RowsInv'
  BY <1>3, <1>5
  DEF RowsInv, OwnPlan, Matching!NoBlindOverwrite
<1> QED BY <1>6, <1>7

LEMMA Confirms ==
  ASSUME MatchingInv, Matching!ServeConfirm
  PROVE  MatchingInv'
<1>0. Shaped
  BY DEF MatchingInv
<1>1. PICK c \in net :
        /\ ui' = ui /\ net' \in {Matching!Resolve(c), Matching!Reject(c)}
        /\ \/ db' = db
           \/ \E r \in Matching!Pair(c) : /\ Matching!PlanAccepted(r)
                                          /\ Matching!SavePlan(r, r, "confirmed")
  BY DEF Matching!ServeConfirm, Matching!Calls
<1>2. CallsStay
  BY <1>0, <1>1, RejectStays
<1>3. DbShaped' /\ RowsInv'
  <2>1. CASE db' = db
    BY <2>1, DbStays
  <2>2. ASSUME NEW r \in Matching!Pair(c), Matching!PlanAccepted(r),
               Matching!SavePlan(r, r, "confirmed")
        PROVE  DbShaped' /\ RowsInv'
    <3>1. r \in db.rows /\ IsRow(r) /\ OwnPlan(r)
      BY RowsNow DEF Matching!Pair
    <3> QED BY <2>2, <3>1, PlanSaved
  <2> QED BY <1>1, <2>1, <2>2
<1> QED BY <1>1, <1>2, <1>3, ApiServes

LEMMA Edits ==
  ASSUME MatchingInv, Matching!ServeEdit
  PROVE  MatchingInv'
<1>0. Shaped
  BY DEF MatchingInv
<1>1. PICK c, r, asked :
        /\ c \in net /\ r \in db.rows
        /\ c.op = "edit" /\ r.item = c.item /\ ui' = ui
        /\ asked = [r EXCEPT !.plan = c.plan, !.ver = c.ver]
        /\ net' \in {Matching!Resolve(c), Matching!Reject(c)}
        /\ db' = db \/ (Matching!PlanAccepted(asked) /\ Matching!SavePlan(asked, r, "confirmed"))
  BY DEF Matching!ServeEdit, Matching!Calls, Matching!Confirmed, Matching!Pair
<1>2. CallsStay
  BY <1>0, <1>1, RejectStays
<1>3. DbShaped' /\ RowsInv'
  <2>1. CASE db' = db
    BY <2>1, DbStays
  <2>2. CASE Matching!PlanAccepted(asked) /\ Matching!SavePlan(asked, r, "confirmed")
    <3>1. IsRow(r) /\ OwnPlan(c)
      BY <1>1, RowsNow, PageNow DEF SavesOwn, Carries
    <3>2. IsRow(asked) /\ asked.item = r.item /\ asked.plan = c.plan
      BY <1>1, <3>1 DEF IsRow, RowFields
    <3>3. OwnPlan(asked)
      BY <1>1, <3>1, <3>2 DEF OwnPlan
    <3> QED BY <1>1, <2>2, <3>2, <3>3, PlanSaved
  <2> QED BY <1>1, <2>1, <2>2
<1> QED BY <1>1, <1>2, <1>3, ApiServes

LEMMA Unmatches ==
  ASSUME MatchingInv, Matching!ServeUnmatch
  PROVE  MatchingInv'
<1>0. Shaped
  BY DEF MatchingInv
<1>1. PICK c, rows :
        /\ c \in net
        /\ ui' = ui /\ net' \in {Matching!Resolve(c), Matching!Reject(c)}
        /\ rows = {IF r \in Matching!Pair(c) /\ r.st = "confirmed"
                   THEN [r EXCEPT !.st = "rejected"] ELSE r : r \in db.rows}
        /\ db' = [db EXCEPT !.rows = rows]
  <2>1. IsDb(db)
    BY <1>0 DEF Shaped
  <2> QED BY <2>1 DEF Matching!ServeUnmatch, Matching!Calls, IsDb, DbFields
<1>2. CallsStay
  BY <1>0, <1>1, RejectStays
<1>3. ASSUME NEW x \in rows  PROVE IsRow(x) /\ OwnPlan(x)
  <2>1. PICK r \in db.rows :
          x = IF r \in Matching!Pair(c) /\ r.st = "confirmed"
              THEN [r EXCEPT !.st = "rejected"] ELSE r
    BY <1>1
  <2>2. IsRow(r) /\ OwnPlan(r)
    BY RowsNow
  <2>3. CASE x = [r EXCEPT !.st = "rejected"]
    <3>1. IsRow(x) /\ x.item = r.item /\ x.plan = r.plan
      BY <2>2, <2>3 DEF IsRow, RowFields
    <3> QED BY <2>2, <3>1 DEF OwnPlan
  <2> QED BY <2>1, <2>2, <2>3
<1>4. DbShaped' /\ RowsInv'
  BY <1>1, <1>3, RowsChange
<1> QED BY <1>1, <1>2, <1>4, ApiServes

LEMMA Others ==
  ASSUME MatchingInv, Matching!OtherPlan \/ Matching!Lose({"create", "confirm", "edit", "unmatch"})
  PROVE  MatchingInv'
<1>0. Shaped /\ DbShaped
  BY DEF MatchingInv, Shaped, DbShaped
<1>1. CASE Matching!Lose({"create", "confirm", "edit", "unmatch"})
  <2>1. PICK c \in net : net' = Matching!Reject(c) /\ ui' = ui /\ db' = db
    BY <1>1 DEF Matching!Lose
  <2>2. CallsStay
    BY <1>0, <2>1, RejectStays
  <2> QED BY <2>1, <2>2, DbStays, ApiServes
<1>2. CASE Matching!OtherPlan
  <2>1. PICK i \in Matching!Item : /\ ui' = ui /\ net' = net /\ IsDb(db')
                                   /\ db'.rows = db.rows
                                   /\ db'.plan = [db.plan EXCEPT ![i] = @ + 1]
                                   /\ db'.saw = [db.saw EXCEPT ![i] = db.plan[i]]
    <3>1. IsDb(db)
      BY <1>0 DEF DbShaped
    <3>2. PICK i \in Matching!Item :
            /\ db' = [db EXCEPT !.plan[i] = @ + 1, !.saw[i] = db.plan[i]]
            /\ ui' = ui /\ net' = net
      BY <1>2 DEF Matching!OtherPlan
    <3>3. /\ db'.rows = db.rows /\ IsDb(db')
          /\ db'.plan = [db.plan EXCEPT ![i] = @ + 1]
          /\ db'.saw = [db.saw EXCEPT ![i] = db.plan[i]]
      BY <3>1, <3>2 DEF IsDb, DbFields
    <3> QED BY <3>2, <3>3
  <2>2. CallsStay
    BY <1>0, <2>1 DEF Shaped, CallsStay, Descends
  <2>3. DbShaped'
    BY <1>0, <2>1 DEF DbShaped
  <2>4. Matching!NoBlindOverwrite'
    BY <1>0, <2>1 DEF DbShaped, MatchingInv, RowsInv, Matching!NoBlindOverwrite
  <2>5. RowsInv'
    BY <2>1, <2>4
    DEF MatchingInv, RowsInv, OwnPlan
  <2> QED BY <2>1, <2>2, <2>3, <2>5, ApiServes
<1> QED BY <1>1, <1>2
-----------------------------------------------------------------------------
LEMMA MatchingInit == Matching!Init => MatchingInv
<1> SUFFICES ASSUME Matching!Init  PROVE MatchingInv
  OBVIOUS
<1>1. IsUi(ui) /\ ui.dlg = Matching!Closed
  BY DEF Matching!Init, IsUi, UiFields
<1>2. /\ IsDb(db) /\ db.rows = {}
      /\ db.plan = [i \in Matching!Item |-> 0] /\ db.saw = [i \in Matching!Item |-> 0]
  BY DEF Matching!Init, IsDb, DbFields
<1>3. Loading(net)
  BY LoadsHarmless DEF Matching!Init
<1>4. Shaped
  BY <1>1, <1>2, <1>3, ClosedFacts DEF Shaped, Loading
<1>5. PageInv
  BY <1>1, <1>3, ClosedFacts
     DEF PageInv, Owned, PlansOnTheWay, CandidateStays, Loading, Harmless
<1>6. RowsInv
  BY <1>2 DEF RowsInv, Matching!NoBlindOverwrite
<1> QED BY <1>4, <1>5, <1>6 DEF MatchingInv

\* Every step of the page keeps the invariant, and so does a step that changes nothing.
LEMMA MatchingStep == MatchingInv /\ [Matching!Next]_vars => MatchingInv'
<1>1. MatchingInv /\ Matching!Next => MatchingInv'
  BY Creates, Confirms, Edits, Unmatches, Others, LoadsAnswered, PlanArrives, SavesEnd,
     UserMoves, DialogsOpen, DialogCloses, SubmitsMatch DEF Matching!Next
<1>2. MatchingInv /\ UNCHANGED vars => MatchingInv'
  <2> SUFFICES ASSUME MatchingInv, UNCHANGED vars  PROVE MatchingInv'
    OBVIOUS
  <2>1. ui' = ui /\ net' = net /\ db' = db
    BY DEF vars
  <2>2. CallsStay
    BY <2>1 DEF MatchingInv, Shaped, CallsStay, Descends
  <2> QED BY <2>1, <2>2, DbStays, ApiServes
<1> QED BY <1>1, <1>2
-----------------------------------------------------------------------------
(* The types of the reconciliation page.  The plans change at most MaxPlan times. *)

Selected == Store \cup {None}
DialogOfTypes ==
  [kind : {"none", "confirm", "edit"}, tx : Matching!Tx \cup {None},
   item : Matching!Item \cup {None}, plan : Matching!Item \cup {None}, ver : Nat,
   ready : BOOLEAN]
MatchingUi ==
  [page : {"reconciliation"}, clicks : Nat, store : Selected, list : Selected,
   tx : Matching!Tx \cup {None}, cands : Selected, cand : Matching!Item \cup {None},
   cache : SUBSET Matching!Tx, dlg : DialogOfTypes, saving : BOOLEAN]
MatchingCall ==
  [op : {"workspace", "candidates", "preload", "plan", "create", "confirm", "edit", "unmatch"},
   store : Selected, tx : Matching!Tx \cup {None}, item : Matching!Item \cup {None},
   plan : Matching!Item \cup {None}, ver : Nat, last : BOOLEAN,
   st : {"sent", "ok", "err"}]
MatchingCallOk(c) ==
  /\ c \in MatchingCall
  /\ c.op = "plan" => c.item \in Matching!Item
  /\ c.op = "create" => c.tx \in Matching!Tx /\ c.item \in Matching!Item
  /\ c.op = "preload" \/ (c.op = "candidates" /\ ~c.last) => c.tx \in Matching!Tx
MatchRow == [tx : Matching!Tx, item : Matching!Item, st : Matching!Status,
             plan : Matching!Item \cup {None}, ver : Nat]
MatchingDb == [rows : SUBSET MatchRow, plan : [Matching!Item -> Nat],
               saw : [Matching!Item -> Nat]]
FewPlans == \A i \in Matching!Item : db.plan[i] <= MaxPlan
DialogFilled == ui.dlg.kind = "edit" => ui.dlg.tx \in Matching!Tx /\ ui.dlg.item \in Matching!Item

MatchingTypes ==
  /\ ui \in MatchingUi /\ DialogFilled
  /\ \A c \in net : MatchingCallOk(c)
  /\ db \in MatchingDb /\ FewPlans

LEMMA MatchingCallMade ==
  ASSUME NEW s \in Selected, NEW t \in Matching!Tx \cup {None},
         NEW i \in Matching!Item \cup {None},
         NEW op \in {"workspace", "candidates", "preload", "plan", "create", "edit", "unmatch"}
  PROVE  /\ Matching!Call(op, s, t, i) \in MatchingCall
         /\ Matching!Call(op, s, t, i).op = op /\ Matching!Call(op, s, t, i).tx = t
         /\ Matching!Call(op, s, t, i).item = i
  BY DEF Matching!Call, MatchingCall

LEMMA LoadsOfTypes ==
  ASSUME NEW s \in Selected
  PROVE  /\ \A last \in BOOLEAN : \A c \in Matching!LoadWorkspace(s, last) : MatchingCallOk(c)
         /\ \A t : \A c \in Matching!Preloads(s, t) : MatchingCallOk(c)
         /\ \A t \in Matching!Tx : MatchingCallOk(Matching!Candidates(s, t))
         /\ \A t \in Matching!Tx \cup {None} :
              MatchingCallOk([Matching!Candidates(s, t) EXCEPT !.last = TRUE])
         /\ \A i \in Matching!Item : MatchingCallOk(Matching!PlanOf(i))
         /\ \A t \in Matching!Tx, i \in Matching!Item :
              MatchingCallOk(Matching!Call("unmatch", s, t, i))
<1>1. ASSUME NEW last \in BOOLEAN, NEW c \in Matching!LoadWorkspace(s, last)
      PROVE  MatchingCallOk(c)
  <2>1. PICK d : d = Matching!Call("workspace", s, None, None) /\ c = [d EXCEPT !.last = last]
    BY <1>1 DEF Matching!LoadWorkspace, Matching!Workspace
  <2>2. d \in MatchingCall /\ d.op = "workspace"
    BY <2>1, MatchingCallMade
  <2>3. c \in MatchingCall /\ c.op = "workspace"
    BY <2>1, <2>2 DEF MatchingCall
  <2> QED BY <2>3 DEF MatchingCallOk
<1>2. ASSUME NEW t, NEW c \in Matching!Preloads(s, t)  PROVE MatchingCallOk(c)
  <2>1. PICK x \in Matching!Tx : c = Matching!Call("preload", s, x, None)
    BY <1>2 DEF Matching!Preloads, Matching!Preload
  <2>2. c \in MatchingCall /\ c.op = "preload" /\ c.tx = x
    BY <2>1, MatchingCallMade
  <2> QED BY <2>2 DEF MatchingCallOk
<1>3. ASSUME NEW t \in Matching!Tx  PROVE MatchingCallOk(Matching!Candidates(s, t))
  BY MatchingCallMade DEF MatchingCallOk, Matching!Candidates
<1>4. ASSUME NEW t \in Matching!Tx \cup {None}
      PROVE  MatchingCallOk([Matching!Candidates(s, t) EXCEPT !.last = TRUE])
  <2>1. PICK d, c : d = Matching!Call("candidates", s, t, None) /\ c = [d EXCEPT !.last = TRUE]
    OBVIOUS
  <2>2. d \in MatchingCall /\ d.op = "candidates"
    BY <2>1, MatchingCallMade
  <2>3. c \in MatchingCall /\ c.op = "candidates" /\ c.last
    BY <2>1, <2>2 DEF MatchingCall
  <2>4. MatchingCallOk(c)
    BY <2>3 DEF MatchingCallOk
  <2> QED BY <2>1, <2>4 DEF Matching!Candidates
<1>5. ASSUME NEW i \in Matching!Item  PROVE MatchingCallOk(Matching!PlanOf(i))
  BY MatchingCallMade DEF MatchingCallOk, Matching!PlanOf, Selected
<1>6. ASSUME NEW t \in Matching!Tx, NEW i \in Matching!Item
      PROVE  MatchingCallOk(Matching!Call("unmatch", s, t, i))
  BY MatchingCallMade DEF MatchingCallOk
<1> QED BY <1>1, <1>2, <1>3, <1>4, <1>5, <1>6

LEMMA AnswerOfTypes ==
  ASSUME NEW c, MatchingCallOk(c), NEW st \in {"sent", "ok", "err"}
  PROVE  MatchingCallOk([c EXCEPT !.st = st])
<1>1. PICK d : d = [c EXCEPT !.st = st]
  OBVIOUS
<1>2. /\ d \in MatchingCall /\ d.op = c.op /\ d.tx = c.tx /\ d.item = c.item
      /\ d.last = c.last
  BY <1>1 DEF MatchingCallOk, MatchingCall
<1>3. MatchingCallOk(d)
  BY <1>2 DEF MatchingCallOk
<1> QED BY <1>1, <1>3

LEMMA NetAnswered ==
  ASSUME MatchingTypes, NEW c \in net, net' \in {Matching!Resolve(c), Matching!Reject(c)}
  PROVE  \A d \in net' : MatchingCallOk(d)
  BY AnswerOfTypes DEF MatchingTypes, Matching!Resolve, Matching!Reject

\* No plan has changed more often than all of them together.
LEMMA PlanBelow ==
  ASSUME db \in MatchingDb, NEW i \in Matching!Item
  PROVE  /\ Matching!PlanChanges \in Nat /\ db.plan[i] \in Nat
         /\ db.plan[i] <= Matching!PlanChanges
<1>1. PICK w : w = db.plan
  OBVIOUS
<1>2. /\ w \in [Matching!Item -> Nat] /\ DOMAIN w = Matching!Item
      /\ IsFiniteSet(Matching!Item) /\ \A j \in Matching!Item : w[j] \in Nat
  BY <1>1, PlansAssumption DEF MatchingDb, Matching!Item
<1>3. Matching!PlanChanges = Weight(w, Matching!Item)
  BY <1>1, <1>2
  DEF Weight, MapThenSumSet, MapThenFoldSet, Matching!PlanChanges, Matching!FoldFunction,
      Matching!FoldFunctionOnSet, Matching!MapThenFoldSet
<1>4. Weight(w, Matching!Item) = w[i] + Weight(w, Matching!Item \ {i})
  BY <1>2, WeightSplit
<1>5. Weight(w, Matching!Item \ {i}) \in Nat
  <2>1. IsFiniteSet(Matching!Item \ {i})
    BY <1>2, FS_Subset
  <2> QED BY <1>2, <2>1, WeightNat
<1> QED BY <1>1, <1>2, <1>3, <1>4, <1>5

LEMMA SavedOfTypes ==
  ASSUME db \in MatchingDb, FewPlans, NEW r \in MatchRow, NEW old, NEW st \in Matching!Status,
         Matching!SavePlan(r, old, st)
  PROVE  db' \in MatchingDb /\ FewPlans'
<1>1. PICK changed \in BOOLEAN :
        /\ changed => r.plan # None /\ Matching!PlanChanges < MaxPlan
        /\ db' = [db EXCEPT !.rows = (@ \ {old}) \cup {[r EXCEPT !.st = st]},
                            !.plan[r.item] = IF changed THEN @ + 1 ELSE @,
                            !.saw[r.item] = IF changed THEN r.ver ELSE @]
  BY DEF Matching!SavePlan
<1>2. PICK i, new, rows, plan, saw :
        /\ i = r.item /\ new = [r EXCEPT !.st = st] /\ rows = (db.rows \ {old}) \cup {new}
        /\ plan = [db.plan EXCEPT ![i] = IF changed THEN @ + 1 ELSE @]
        /\ saw = [db.saw EXCEPT ![i] = IF changed THEN r.ver ELSE @]
  OBVIOUS
<1>3. /\ i \in Matching!Item /\ new \in MatchRow /\ r.ver \in Nat
      /\ db.rows \subseteq MatchRow /\ db.plan \in [Matching!Item -> Nat]
      /\ db.saw \in [Matching!Item -> Nat]
  BY <1>2 DEF MatchRow, MatchingDb
<1>4. rows \subseteq MatchRow /\ saw \in [Matching!Item -> Nat]
  BY <1>2, <1>3
<1>5. plan \in [Matching!Item -> Nat]
  <2>1. db.plan[i] + 1 \in Nat
    BY <1>3
  <2> QED BY <1>2, <1>3, <2>1
<1>6. \A j \in Matching!Item : plan[j] <= MaxPlan
  <2>1. changed => db.plan[i] + 1 <= MaxPlan
    BY <1>1, <1>3, PlanBelow, PlansAssumption
  <2> QED BY <1>2, <1>3, <2>1 DEF FewPlans
<1>7. db' = [db EXCEPT !.rows = rows, !.plan = plan, !.saw = saw]
  BY <1>1, <1>2 DEF MatchingDb
<1>8. db' \in MatchingDb /\ db'.plan = plan
  BY <1>4, <1>5, <1>7 DEF MatchingDb
<1> QED BY <1>6, <1>8 DEF FewPlans

LEMMA ServedOfTypes ==
  ASSUME MatchingTypes,
         \/ Matching!ServeConfirm \/ Matching!ServeEdit \/ Matching!ServeUnmatch
         \/ Matching!Lose({"create", "confirm", "edit", "unmatch"}) \/ Matching!OtherPlan
  PROVE  MatchingTypes'
<1>0. db \in MatchingDb /\ FewPlans /\ db.rows \subseteq MatchRow /\ "confirmed" \in Matching!Status
  BY DEF MatchingTypes, MatchingDb, Matching!Status
<1>1. CASE Matching!ServeConfirm
  <2>1. PICK c \in net :
          /\ net' \in {Matching!Resolve(c), Matching!Reject(c)} /\ ui' = ui
          /\ \/ db' = db
             \/ \E r \in db.rows : Matching!SavePlan(r, r, "confirmed")
    BY <1>1 DEF Matching!ServeConfirm, Matching!Calls, Matching!Pair
  <2>2. db' \in MatchingDb /\ FewPlans'
    BY <1>0, <2>1, SavedOfTypes DEF FewPlans
  <2> QED BY <2>1, <2>2, NetAnswered DEF MatchingTypes, DialogFilled
<1>2. CASE Matching!ServeEdit
  <2>1. PICK c, r : /\ c \in net /\ r \in db.rows
                    /\ net' \in {Matching!Resolve(c), Matching!Reject(c)} /\ ui' = ui
                    /\ \/ db' = db
                       \/ Matching!SavePlan([r EXCEPT !.plan = c.plan, !.ver = c.ver], r,
                                            "confirmed")
    BY <1>2 DEF Matching!ServeEdit, Matching!Calls, Matching!Confirmed
  <2>2. PICK asked : asked = [r EXCEPT !.plan = c.plan, !.ver = c.ver]
    OBVIOUS
  <2>3. asked \in MatchRow
    <3>1. r \in MatchRow /\ c.plan \in Matching!Item \cup {None} /\ c.ver \in Nat
      BY <1>0, <2>1 DEF MatchingTypes, MatchingCallOk, MatchingCall
    <3> QED BY <2>2, <3>1 DEF MatchRow
  <2>4. db' \in MatchingDb /\ FewPlans'
    BY <1>0, <2>1, <2>2, <2>3, SavedOfTypes DEF FewPlans
  <2> QED BY <2>1, <2>4, NetAnswered DEF MatchingTypes, DialogFilled
<1>3. CASE Matching!ServeUnmatch
  <2>1. PICK c \in net :
          /\ net' \in {Matching!Resolve(c), Matching!Reject(c)} /\ ui' = ui
          /\ db' = [db EXCEPT !.rows = {IF r \in Matching!Pair(c) /\ r.st = "confirmed"
                                        THEN [r EXCEPT !.st = "rejected"] ELSE r : r \in @}]
    BY <1>3 DEF Matching!ServeUnmatch, Matching!Calls
  <2>2. PICK rows : rows = {IF r \in Matching!Pair(c) /\ r.st = "confirmed"
                            THEN [r EXCEPT !.st = "rejected"] ELSE r : r \in db.rows}
    OBVIOUS
  <2>3. rows \subseteq MatchRow
    BY <1>0, <2>2 DEF MatchRow, Matching!Status
  <2>4. db' = [db EXCEPT !.rows = rows]
    BY <2>1, <2>2
  <2>5. db' \in MatchingDb /\ db'.plan = db.plan
    BY <1>0, <2>3, <2>4 DEF MatchingDb
  <2> QED BY <1>0, <2>1, <2>5, NetAnswered DEF MatchingTypes, DialogFilled, FewPlans
<1>4. CASE Matching!Lose({"create", "confirm", "edit", "unmatch"})
  <2>1. PICK c \in net : net' = Matching!Reject(c) /\ ui' = ui /\ db' = db
    BY <1>4 DEF Matching!Lose
  <2> QED BY <2>1, NetAnswered DEF MatchingTypes, DialogFilled, FewPlans
<1>5. CASE Matching!OtherPlan
  <2>1. PICK i \in Matching!Item :
          /\ Matching!PlanChanges < MaxPlan /\ ui' = ui /\ net' = net
          /\ db' = [db EXCEPT !.plan[i] = @ + 1, !.saw[i] = db.plan[i]]
    BY <1>5 DEF Matching!OtherPlan
  <2>2. PICK plan, saw : /\ plan = [db.plan EXCEPT ![i] = @ + 1]
                         /\ saw = [db.saw EXCEPT ![i] = db.plan[i]]
                         /\ db' = [db EXCEPT !.plan = plan, !.saw = saw]
    BY <1>0, <2>1 DEF MatchingDb
  <2>3. /\ db.plan \in [Matching!Item -> Nat] /\ db.saw \in [Matching!Item -> Nat]
        /\ db.plan[i] + 1 \in Nat /\ db.plan[i] + 1 <= MaxPlan
    BY <1>0, <2>1, PlanBelow, PlansAssumption DEF MatchingDb
  <2>4. plan \in [Matching!Item -> Nat] /\ saw \in [Matching!Item -> Nat]
    BY <2>2, <2>3
  <2>5. \A j \in Matching!Item : plan[j] <= MaxPlan
    BY <1>0, <2>2, <2>3 DEF FewPlans
  <2>6. db' \in MatchingDb /\ db'.plan = plan
    BY <1>0, <2>2, <2>4 DEF MatchingDb
  <2> QED BY <2>1, <2>5, <2>6 DEF MatchingTypes, DialogFilled, FewPlans
<1> QED BY <1>1, <1>2, <1>3, <1>4, <1>5

LEMMA CreatedOfTypes ==
  ASSUME MatchingTypes, Matching!ServeCreate
  PROVE  MatchingTypes'
<1>0. db \in MatchingDb /\ db.rows \subseteq MatchRow
  BY DEF MatchingTypes, MatchingDb
<1>1. PICK c \in net :
        /\ c.op = "create" /\ ui' = ui
        /\ net' \in {Matching!Resolve(c), Matching!Reject(c)}
        /\ \/ db' = db
           \/ db' = [db EXCEPT !.rows = (db.rows \ Matching!Pair(c)) \cup {Matching!NewRow(c)}]
  BY <1>0 DEF Matching!ServeCreate, Matching!Calls, MatchingDb
<1>2. CASE db' = db
  BY <1>1, <1>2, NetAnswered DEF MatchingTypes, DialogFilled, FewPlans
<1>3. CASE db' = [db EXCEPT !.rows = (db.rows \ Matching!Pair(c)) \cup {Matching!NewRow(c)}]
  <2>1. PICK new, rows : /\ new = Matching!NewRow(c)
                         /\ rows = (db.rows \ Matching!Pair(c)) \cup {new}
                         /\ db' = [db EXCEPT !.rows = rows]
    BY <1>3
  <2>2. c \in MatchingCall /\ c.tx \in Matching!Tx /\ c.item \in Matching!Item
    BY <1>1 DEF MatchingTypes, MatchingCallOk
  <2>3. new \in MatchRow
    BY <2>1, <2>2 DEF Matching!NewRow, MatchRow, MatchingCall, Matching!Status
  <2>4. rows \subseteq MatchRow
    BY <1>0, <2>1, <2>3
  <2>5. db' \in MatchingDb /\ db'.plan = db.plan
    BY <1>0, <2>1, <2>4 DEF MatchingDb
  <2> QED BY <1>1, <2>5, NetAnswered DEF MatchingTypes, DialogFilled, FewPlans
<1> QED BY <1>1, <1>2, <1>3

\* The page goes on as u.
UiOfTypes(u) ==
  /\ u \in MatchingUi
  /\ u.dlg.kind = "edit" => u.dlg.tx \in Matching!Tx /\ u.dlg.item \in Matching!Item

LEMMA TypesGoOn ==
  ASSUME MatchingTypes, UiOfTypes(ui'), \A c \in net' : MatchingCallOk(c), db' = db
  PROVE  MatchingTypes'
  BY DEF MatchingTypes, UiOfTypes, DialogFilled, FewPlans

LEMMA DoOfTypes ==
  ASSUME MatchingTypes, NEW u, UiOfTypes(u), Matching!Do(u),
         \A c \in net' : MatchingCallOk(c), db' = db
  PROVE  MatchingTypes'
<1>1. ui' = [u EXCEPT !.clicks = @ + 1] /\ u.clicks + 1 \in Nat
  BY DEF Matching!Do, UiOfTypes, MatchingUi
<1>2. UiOfTypes(ui')
  BY <1>1 DEF UiOfTypes, MatchingUi
<1> QED BY <1>2, TypesGoOn

LEMMA UiNow ==
  ASSUME MatchingTypes
  PROVE  /\ UiOfTypes(ui) /\ ui \in MatchingUi /\ ui.store \in Selected
         /\ \A c \in net : MatchingCallOk(c)
         /\ \A c \in net : c.store \in Selected
  BY DEF MatchingTypes, UiOfTypes, DialogFilled, MatchingUi, MatchingCallOk, MatchingCall

LEMMA SelectedOfTypes ==
  ASSUME NEW u, UiOfTypes(u), NEW t \in Matching!Tx \cup {None}, NEW s \in Selected
  PROVE  UiOfTypes(Matching!Select(u, t, s))
  BY DEF UiOfTypes, MatchingUi, Matching!Select

LEMMA EmptiedOfTypes ==
  ASSUME NEW u, UiOfTypes(u)
  PROVE  UiOfTypes(Matching!Emptied(u)) /\ Matching!Emptied(u).store = u.store
  BY DEF UiOfTypes, MatchingUi, Matching!Emptied

LEMMA AnsweredOfTypes ==
  ASSUME MatchingTypes,
         Matching!DoneWorkspace \/ Matching!DoneCandidates \/ Matching!DonePreload
  PROVE  MatchingTypes'
<1>0. /\ UiOfTypes(ui) /\ ui \in MatchingUi
      /\ \A c \in net : MatchingCallOk(c) /\ c.store \in Selected
      /\ None \in Selected /\ ui.tx \in Matching!Tx \cup {None}
  BY UiNow DEF Selected, MatchingUi
<1>1. CASE Matching!DoneWorkspace
  <2>1. PICK c, v : /\ c \in net
                    /\ v = [ui EXCEPT !.saving = IF c.last THEN FALSE ELSE @]
                    /\ \/ ui' = v
                       \/ ui' = Matching!Select([v EXCEPT !.list = c.store], None, None)
                    /\ net' = net \ {c} /\ db' = db
    BY <1>1 DEF Matching!DoneWorkspace, Matching!Calls, Matching!After
  <2>2. UiOfTypes(v)
    BY <1>0, <2>1 DEF UiOfTypes, MatchingUi
  <2>3. PICK w : w = [v EXCEPT !.list = c.store]
    OBVIOUS
  <2>4. UiOfTypes(w)
    BY <1>0, <2>1, <2>2, <2>3 DEF UiOfTypes, MatchingUi
  <2>5. UiOfTypes(Matching!Select(w, None, None))
    BY <1>0, <2>4, SelectedOfTypes
  <2>6. UiOfTypes(ui')
    BY <2>1, <2>2, <2>3, <2>5
  <2> QED BY <1>0, <2>1, <2>6, TypesGoOn
<1>2. CASE Matching!DoneCandidates
  <2>1. PICK c \in net :
          /\ c.op = "candidates"
          /\ \/ ui' = ui
             \/ ui' = [Matching!Select(ui, ui.tx, c.store) EXCEPT
                         !.cache = IF c.last THEN @ ELSE @ \cup {c.tx}]
          /\ Matching!After(c, IF c.last THEN {} ELSE Matching!Preloads(c.store, c.tx))
          /\ db' = db
    BY <1>2 DEF Matching!DoneCandidates, Matching!Calls
  <2>2. PICK v, w : /\ v = Matching!Select(ui, ui.tx, c.store)
                    /\ w = [v EXCEPT !.cache = IF c.last THEN @ ELSE @ \cup {c.tx}]
    OBVIOUS
  <2>3. UiOfTypes(v)
    BY <1>0, <2>2, SelectedOfTypes
  <2>4. ~c.last => c.tx \in Matching!Tx
    BY <1>0, <2>1 DEF MatchingCallOk
  <2>5. UiOfTypes(w)
    BY <2>2, <2>3, <2>4 DEF UiOfTypes, MatchingUi
  <2>6. UiOfTypes(ui')
    BY <1>0, <2>1, <2>2, <2>5
  <2>7. \A d \in net' : MatchingCallOk(d)
    BY <1>0, <2>1, LoadsOfTypes DEF Matching!After
  <2> QED BY <2>1, <2>6, <2>7, TypesGoOn
<1>3. CASE Matching!DonePreload
  <2>1. PICK c \in net : /\ c.op = "preload"
                         /\ ui' = ui \/ ui' = [ui EXCEPT !.cache = @ \cup {c.tx}]
                         /\ net' = net \ {c} /\ db' = db
    BY <1>3 DEF Matching!DonePreload, Matching!Calls, Matching!After
  <2>2. c.tx \in Matching!Tx
    BY <1>0, <2>1 DEF MatchingCallOk
  <2>3. UiOfTypes(ui')
    BY <1>0, <2>1, <2>2 DEF UiOfTypes, MatchingUi
  <2> QED BY <1>0, <2>1, <2>3, TypesGoOn
<1> QED BY <1>1, <1>2, <1>3

LEMMA MovesOfTypes ==
  ASSUME MatchingTypes,
         \/ \E s \in Store : Matching!SwitchStore(s)
         \/ Matching!Focus \/ Matching!Search
         \/ \E t \in Matching!Tx : Matching!SelectTransaction(t)
         \/ \E i \in Matching!Item : Matching!PickCandidate(i) \/ Matching!Unmatch(i)
  PROVE  MatchingTypes'
<1>0. /\ UiOfTypes(ui) /\ ui \in MatchingUi /\ ui.store \in Selected
      /\ \A c \in net : MatchingCallOk(c)
      /\ ui.tx \in Matching!Tx \cup {None} /\ db.rows \subseteq MatchRow
      /\ \A s \in Store : s \in Selected
  BY UiNow DEF Selected, MatchingUi, MatchingTypes, MatchingDb
<1>1. ASSUME NEW s \in Store, Matching!SwitchStore(s)  PROVE MatchingTypes'
  <2>1. PICK v, w : v = Matching!Emptied(ui) /\ w = [v EXCEPT !.store = s]
    OBVIOUS
  <2>2. UiOfTypes(v)
    BY <1>0, <2>1, EmptiedOfTypes
  <2>3. UiOfTypes(w)
    BY <1>0, <2>1, <2>2 DEF UiOfTypes, MatchingUi
  <2>4. /\ Matching!Do(w) /\ net' = net \cup Matching!LoadWorkspace(s, FALSE) /\ db' = db
    BY <1>1, <2>1 DEF Matching!SwitchStore, Matching!Start
  <2>5. \A c \in net' : MatchingCallOk(c)
    BY <1>0, <2>4, LoadsOfTypes
  <2> QED BY <2>3, <2>4, <2>5, DoOfTypes
<1>2. ASSUME Matching!Focus  PROVE MatchingTypes'
  <2>1. /\ Matching!Do(Matching!Emptied(ui)) /\ db' = db
        /\ net' = net \cup Matching!LoadWorkspace(ui.store, FALSE)
    BY <1>2 DEF Matching!Focus, Matching!Start
  <2>2. \A c \in net' : MatchingCallOk(c)
    BY <1>0, <2>1, LoadsOfTypes
  <2> QED BY <1>0, <2>1, <2>2, EmptiedOfTypes, DoOfTypes
<1>3. ASSUME Matching!Search  PROVE MatchingTypes'
  <2>1. /\ Matching!Do(ui) /\ db' = db
        /\ net' = net \cup {[Matching!Candidates(ui.store, ui.tx) EXCEPT !.last = TRUE]}
    BY <1>3 DEF Matching!Search, Matching!Start
  <2>2. \A c \in net' : MatchingCallOk(c)
    BY <1>0, <2>1, LoadsOfTypes
  <2> QED BY <1>0, <2>1, <2>2, DoOfTypes
<1>4. ASSUME NEW t \in Matching!Tx, Matching!SelectTransaction(t)  PROVE MatchingTypes'
  <2>1. CASE t \in ui.cache
    <3>1. /\ Matching!Do(Matching!Select(ui, t, TxStore[t])) /\ db' = db
          /\ net' = net \cup Matching!Preloads(ui.store, t)
      BY <1>4, <2>1 DEF Matching!SelectTransaction, Matching!Start
    <3>2. TxStore[t] \in Selected
      BY StoresAssumption DEF Matching!Tx, Selected
    <3>3. \A c \in net' : MatchingCallOk(c)
      BY <1>0, <3>1, LoadsOfTypes
    <3> QED BY <1>0, <3>1, <3>2, <3>3, SelectedOfTypes, DoOfTypes
  <2>2. CASE t \notin ui.cache
    <3>1. /\ Matching!Do([ui EXCEPT !.tx = t]) /\ db' = db
          /\ net' = net \cup {Matching!Candidates(ui.store, t)}
      BY <1>4, <2>2 DEF Matching!SelectTransaction, Matching!Start
    <3>2. UiOfTypes([ui EXCEPT !.tx = t])
      BY <1>0 DEF UiOfTypes, MatchingUi
    <3>3. \A c \in net' : MatchingCallOk(c)
      BY <1>0, <3>1, LoadsOfTypes
    <3> QED BY <3>1, <3>2, <3>3, DoOfTypes
  <2> QED BY <2>1, <2>2
<1>5. ASSUME NEW i \in Matching!Item, Matching!PickCandidate(i)  PROVE MatchingTypes'
  <2>1. Matching!Do([ui EXCEPT !.cand = i]) /\ net' = net /\ db' = db
    BY <1>5 DEF Matching!PickCandidate
  <2>2. UiOfTypes([ui EXCEPT !.cand = i])
    BY <1>0 DEF UiOfTypes, MatchingUi
  <2> QED BY <1>0, <2>1, <2>2, DoOfTypes
<1>6. ASSUME NEW i \in Matching!Item, Matching!Unmatch(i)  PROVE MatchingTypes'
  <2>1. PICK r \in db.rows : net' = net \cup {Matching!Call("unmatch", ui.store, r.tx, i)}
    BY <1>6 DEF Matching!Unmatch, Matching!Start, Matching!Recorded, Matching!Confirmed
  <2>2. Matching!Do([ui EXCEPT !.saving = TRUE]) /\ db' = db
    BY <1>6 DEF Matching!Unmatch
  <2>3. UiOfTypes([ui EXCEPT !.saving = TRUE])
    BY <1>0 DEF UiOfTypes, MatchingUi
  <2>4. r.tx \in Matching!Tx
    BY <1>0, <2>1 DEF MatchRow
  <2>5. \A c \in net' : MatchingCallOk(c)
    BY <1>0, <2>1, <2>4, LoadsOfTypes
  <2> QED BY <2>2, <2>3, <2>5, DoOfTypes
<1> QED BY <1>1, <1>2, <1>3, <1>4, <1>5, <1>6

LEMMA DialogOfKind ==
  /\ Matching!Closed \in DialogOfTypes /\ Matching!Closed.kind = "none"
  /\ \A kind \in {"confirm", "edit"}, t \in Matching!Tx, i \in Matching!Item :
       LET d == [Matching!Closed EXCEPT !.kind = kind, !.tx = t, !.item = i]
       IN d \in DialogOfTypes /\ d.tx = t /\ d.item = i
  BY DEF Matching!Closed, DialogOfTypes

LEMMA DialogsOfTypes ==
  ASSUME MatchingTypes,
         \/ Matching!OpenConfirm \/ Matching!Cancel \/ Matching!DonePlan
         \/ \E i \in Matching!Item : Matching!OpenEdit(i)
  PROVE  MatchingTypes'
<1>0. /\ UiOfTypes(ui) /\ ui \in MatchingUi /\ ui.dlg \in DialogOfTypes
      /\ \A c \in net : MatchingCallOk(c) /\ db.rows \subseteq MatchRow
      /\ db \in MatchingDb
  BY UiNow DEF MatchingUi, MatchingTypes, MatchingDb
<1>1. ASSUME NEW d \in DialogOfTypes,
             d.kind = "edit" => d.tx \in Matching!Tx /\ d.item \in Matching!Item
      PROVE  UiOfTypes([ui EXCEPT !.dlg = d])
  BY <1>0, <1>1 DEF UiOfTypes, MatchingUi
<1>2. ASSUME NEW i \in Matching!Item, net' = Matching!LoadPlan(i)
      PROVE  \A c \in net' : MatchingCallOk(c)
  <2>1. MatchingCallOk(Matching!PlanOf(i))
    BY LoadsOfTypes DEF Selected
  <2> QED BY <1>0, <1>2, <2>1 DEF Matching!LoadPlan
<1>3. CASE Matching!OpenConfirm
  <2>1. PICK d : d = [Matching!Closed EXCEPT !.kind = "confirm", !.tx = ui.tx, !.item = ui.cand]
    OBVIOUS
  <2>2. ui.tx \in Matching!Tx /\ ui.cand \in Matching!Item
    BY <1>0, <1>3 DEF Matching!OpenConfirm, MatchingUi
  <2>3. d \in DialogOfTypes /\ d.tx = ui.tx /\ d.item = ui.cand
    BY <2>1, <2>2, DialogOfKind DEF DialogOfTypes, Matching!Closed
  <2>4. /\ Matching!Do([ui EXCEPT !.dlg = d]) /\ net' = Matching!LoadPlan(ui.cand)
        /\ db' = db
    BY <1>3, <2>1 DEF Matching!OpenConfirm
  <2> QED BY <1>1, <1>2, <2>2, <2>3, <2>4, DoOfTypes
<1>4. CASE \E i \in Matching!Item : Matching!OpenEdit(i)
  <2>1. PICK i \in Matching!Item : Matching!OpenEdit(i)
    BY <1>4
  <2>2. PICK r \in db.rows :
          Matching!Do([ui EXCEPT !.dlg = [Matching!Closed EXCEPT !.kind = "edit", !.tx = r.tx,
                                                                  !.item = i]])
    BY <2>1 DEF Matching!OpenEdit, Matching!Recorded, Matching!Confirmed
  <2>3. PICK d : d = [Matching!Closed EXCEPT !.kind = "edit", !.tx = r.tx, !.item = i]
    OBVIOUS
  <2>4. r.tx \in Matching!Tx
    BY <1>0, <2>2 DEF MatchingDb, MatchRow
  <2>5. d \in DialogOfTypes /\ d.tx = r.tx /\ d.item = i
    BY <2>3, <2>4, DialogOfKind
  <2>6. Matching!Do([ui EXCEPT !.dlg = d]) /\ net' = Matching!LoadPlan(i) /\ db' = db
    BY <2>1, <2>2, <2>3 DEF Matching!OpenEdit
  <2> QED BY <1>1, <1>2, <2>4, <2>5, <2>6, DoOfTypes
<1>5. CASE Matching!Cancel
  <2>1. /\ Matching!Do([ui EXCEPT !.dlg = Matching!Closed]) /\ net' \subseteq net /\ db' = db
    BY <1>5 DEF Matching!Cancel
  <2> QED BY <1>0, <1>1, <2>1, DialogOfKind, DoOfTypes
<1>6. CASE Matching!DonePlan
  <2>1. PICK c, d :
          /\ c \in net /\ c.op = "plan" /\ net' = net \ {c} /\ db' = db
          /\ ui' = [ui EXCEPT !.dlg = d]
          /\ d = ui.dlg \/ d = [ui.dlg EXCEPT !.plan = c.item, !.ver = db.plan[c.item],
                                              !.ready = TRUE]
    <3>1. PICK c \in net, answer \in Matching!Answer :
            /\ c.op = "plan" /\ net' = net \ {c} /\ db' = db
            /\ ui' = [ui EXCEPT !.dlg = IF answer = "ok" /\ @.kind # "none"
                        THEN [@ EXCEPT !.plan = c.item, !.ver = db.plan[c.item], !.ready = TRUE]
                        ELSE @]
      BY <1>6 DEF Matching!DonePlan, Matching!Calls, Matching!After
    <3>2. PICK d : d = IF answer = "ok" /\ ui.dlg.kind # "none"
                       THEN [ui.dlg EXCEPT !.plan = c.item, !.ver = db.plan[c.item],
                                           !.ready = TRUE]
                       ELSE ui.dlg
      OBVIOUS
    <3>3. ui' = [ui EXCEPT !.dlg = d]
      BY <1>0, <3>1, <3>2 DEF MatchingUi
    <3> QED BY <3>1, <3>2, <3>3
  <2>2. c.item \in Matching!Item /\ db.plan[c.item] \in Nat
    BY <1>0, <2>1 DEF MatchingCallOk, MatchingDb
  <2>3. /\ d \in DialogOfTypes /\ d.kind = ui.dlg.kind /\ d.tx = ui.dlg.tx
        /\ d.item = ui.dlg.item
    BY <1>0, <2>1, <2>2 DEF DialogOfTypes
  <2>4. UiOfTypes(ui')
    BY <1>0, <1>1, <2>1, <2>3 DEF UiOfTypes
  <2> QED BY <1>0, <2>1, <2>4, TypesGoOn
<1> QED BY <1>3, <1>4, <1>5, <1>6

LEMMA SubmitsOfTypes ==
  ASSUME MatchingTypes, Matching!SubmitConfirm \/ Matching!SubmitEdit
  PROVE  MatchingTypes'
<1>0. /\ UiOfTypes(ui) /\ ui \in MatchingUi /\ ui.dlg \in DialogOfTypes
      /\ ui.store \in Selected /\ \A c \in net : MatchingCallOk(c)
  BY UiNow DEF MatchingUi
<1>1. ASSUME NEW op \in {"create", "edit"}, NEW t \in Matching!Tx, NEW i \in Matching!Item,
             NEW c \in Matching!Planned(Matching!Call(op, ui.store, t, i))
      PROVE  MatchingCallOk(c)
  <2>1. PICK e, p : /\ e = Matching!Call(op, ui.store, t, i) /\ p \in {ui.dlg.plan, None}
                    /\ c = [e EXCEPT !.plan = p, !.ver = ui.dlg.ver]
    BY <1>1 DEF Matching!Planned
  <2>2. e \in MatchingCall /\ e.op = op /\ e.tx = t /\ e.item = i
    BY <1>0, <2>1, MatchingCallMade
  <2>3. p \in Matching!Item \cup {None} /\ ui.dlg.ver \in Nat
    BY <1>0, <2>1 DEF DialogOfTypes
  <2>4. c \in MatchingCall /\ c.op = op /\ c.tx = t /\ c.item = i
    BY <2>1, <2>2, <2>3 DEF MatchingCall
  <2> QED BY <2>4 DEF MatchingCallOk
<1>2. UiOfTypes([ui EXCEPT !.saving = TRUE])
  BY <1>0 DEF UiOfTypes, MatchingUi
<1>3. CASE Matching!SubmitConfirm
  <2>1. ui.tx \in Matching!Tx /\ ui.cand \in Matching!Item
    BY <1>0, <1>3 DEF Matching!SubmitConfirm, MatchingUi
  <2>2. PICK c \in Matching!Planned(Matching!Call("create", ui.store, ui.tx, ui.cand)) :
          net' = net \cup {c}
    BY <1>3 DEF Matching!SubmitConfirm, Matching!Start
  <2>3. Matching!Do([ui EXCEPT !.saving = TRUE]) /\ db' = db
    BY <1>3 DEF Matching!SubmitConfirm
  <2>4. \A d \in net' : MatchingCallOk(d)
    BY <1>0, <1>1, <2>1, <2>2
  <2> QED BY <1>2, <2>3, <2>4, DoOfTypes
<1>4. CASE Matching!SubmitEdit
  <2>1. ui.dlg.tx \in Matching!Tx /\ ui.dlg.item \in Matching!Item
    BY <1>0, <1>4 DEF Matching!SubmitEdit, Matching!MayEdit, UiOfTypes
  <2>2. PICK c \in Matching!Planned(Matching!Call("edit", ui.store, ui.dlg.tx, ui.dlg.item)) :
          net' = net \cup {c}
    BY <1>4 DEF Matching!SubmitEdit, Matching!Start
  <2>3. Matching!Do([ui EXCEPT !.saving = TRUE]) /\ db' = db
    BY <1>4 DEF Matching!SubmitEdit
  <2>4. \A d \in net' : MatchingCallOk(d)
    BY <1>0, <1>1, <2>1, <2>2
  <2> QED BY <1>2, <2>3, <2>4, DoOfTypes
<1> QED BY <1>3, <1>4

LEMMA SavesEndOfTypes ==
  ASSUME MatchingTypes, Matching!DoneCreate \/ Matching!DoneSave
  PROVE  MatchingTypes'
<1>0. /\ UiOfTypes(ui) /\ ui \in MatchingUi
      /\ \A c \in net : MatchingCallOk(c) /\ c.store \in Selected
  BY UiNow
<1>1. UiOfTypes([ui EXCEPT !.saving = FALSE])
  BY <1>0 DEF UiOfTypes, MatchingUi
<1>2. CASE Matching!DoneCreate
  <2>1. PICK c \in net :
          /\ db' = db
          /\ \/ ui' = ui /\ net' = (net \ {c}) \cup {[c EXCEPT !.op = "confirm", !.st = "sent"]}
             \/ ui' = [ui EXCEPT !.saving = FALSE] /\ net' = net \ {c}
    BY <1>2 DEF Matching!DoneCreate, Matching!Settled, Matching!After
  <2>2. PICK d : d = [c EXCEPT !.op = "confirm", !.st = "sent"]
    OBVIOUS
  <2>3. d \in MatchingCall /\ d.op = "confirm"
    BY <1>0, <2>1, <2>2 DEF MatchingCallOk, MatchingCall
  <2>4. MatchingCallOk(d)
    BY <2>3 DEF MatchingCallOk
  <2>5. \A e \in net' : MatchingCallOk(e)
    BY <1>0, <2>1, <2>2, <2>4
  <2> QED BY <1>0, <1>1, <2>1, <2>5, TypesGoOn
<1>3. CASE Matching!DoneSave
  <2>1. PICK c, d : /\ c \in net /\ db' = db
                    /\ d = ui.dlg \/ d = Matching!Closed
                    /\ \/ /\ ui' = [Matching!Emptied(ui) EXCEPT !.dlg = d]
                          /\ net' = (net \ {c}) \cup Matching!LoadWorkspace(c.store, TRUE)
                       \/ ui' = [ui EXCEPT !.saving = FALSE] /\ net' = net \ {c}
    <3>1. Matching!Emptied(ui).dlg = ui.dlg
      BY <1>0 DEF Matching!Emptied, MatchingUi
    <3>2. PICK c \in net :
            /\ db' = db
            /\ IF c.st = "ok"
               THEN /\ ui' = [Matching!Emptied(ui) EXCEPT
                                !.dlg = IF c.op = "unmatch" THEN @ ELSE Matching!Closed]
                    /\ Matching!After(c, Matching!LoadWorkspace(c.store, TRUE))
               ELSE ui' = [ui EXCEPT !.saving = FALSE] /\ Matching!After(c, {})
      BY <1>3 DEF Matching!DoneSave, Matching!Settled
    <3>3. PICK d : d = IF c.op = "unmatch" THEN ui.dlg ELSE Matching!Closed
      OBVIOUS
    <3> QED BY <3>1, <3>2, <3>3 DEF Matching!After
  <2>2. PICK v, w : v = Matching!Emptied(ui) /\ w = [v EXCEPT !.dlg = d]
    OBVIOUS
  <2>3. UiOfTypes(v)
    BY <1>0, <2>2, EmptiedOfTypes
  <2>4. d \in DialogOfTypes /\ (d.kind = "edit" => d = ui.dlg)
    BY <1>0, <2>1, DialogOfKind DEF MatchingUi
  <2>5. UiOfTypes(w)
    BY <1>0, <2>2, <2>3, <2>4 DEF UiOfTypes, MatchingUi
  <2>6. UiOfTypes(ui')
    BY <1>1, <2>1, <2>2, <2>5
  <2>7. \A e \in net' : MatchingCallOk(e)
    <3>1. \A e \in Matching!LoadWorkspace(c.store, TRUE) : MatchingCallOk(e)
      BY <1>0, <2>1, LoadsOfTypes
    <3> QED BY <1>0, <2>1, <3>1
  <2> QED BY <2>1, <2>6, <2>7, TypesGoOn
<1> QED BY <1>2, <1>3

LEMMA MatchingTypesInit == Matching!Init => MatchingTypes
<1> SUFFICES ASSUME Matching!Init  PROVE MatchingTypes
  OBVIOUS
<1>1. Home \in Selected /\ None \in Selected
  BY StoresAssumption DEF Selected
<1>2. ui \in MatchingUi /\ ui.dlg.kind = "none"
  BY <1>1, DialogOfKind DEF Matching!Init, MatchingUi
<1>3. \A c \in net : MatchingCallOk(c)
  BY <1>1, LoadsOfTypes DEF Matching!Init
<1>4. db \in MatchingDb /\ FewPlans
  BY PlansAssumption DEF Matching!Init, MatchingDb, FewPlans
<1> QED BY <1>2, <1>3, <1>4 DEF MatchingTypes, DialogFilled

LEMMA MatchingTypesStep == MatchingTypes /\ [Matching!Next]_vars => MatchingTypes'
<1>1. MatchingTypes /\ Matching!Next => MatchingTypes'
  BY CreatedOfTypes, ServedOfTypes, AnsweredOfTypes, MovesOfTypes, DialogsOfTypes,
     SubmitsOfTypes, SavesEndOfTypes DEF Matching!Next
<1>2. MatchingTypes /\ UNCHANGED vars => MatchingTypes'
  BY DEF MatchingTypes, DialogFilled, FewPlans, vars
<1> QED BY <1>1, <1>2

LEMMA MatchingHolds ==
  /\ MatchingTypes => Matching!TypeOK
  /\ MatchingInv => /\ Matching!PlanIsOwn /\ Matching!NoBlindOverwrite
<1>1. ASSUME MatchingTypes  PROVE Matching!TypeOK
  <2>1. /\ ui \in MatchingUi /\ ui.dlg \in DialogOfTypes /\ db.rows \subseteq MatchRow
        /\ db.plan \in [Matching!Item -> Nat]
    BY <1>1 DEF MatchingTypes, MatchingUi, MatchingDb
  <2>2. db.plan \in [Matching!Item -> 0..MaxPlan]
    <3>1. \A i \in Matching!Item : db.plan[i] \in 0..MaxPlan
      BY <1>1, <2>1, PlansAssumption DEF MatchingTypes, FewPlans
    <3> QED BY <2>1, <3>1
  <2> QED BY <2>1, <2>2 DEF Matching!TypeOK, MatchingUi, DialogOfTypes, MatchRow, Selected
<1>2. MatchingInv => Matching!PlanIsOwn
  BY DEF MatchingInv, PageInv, RowsInv, Owned, OwnPlan, Matching!PlanIsOwn
<1> QED BY <1>1, <1>2 DEF MatchingInv, RowsInv
-----------------------------------------------------------------------------
(* The pre-opening page.  A bank row has one confirmed match at most, so the sum over its
   matches is the amount of that one, and a match undone leaves the other sums as they
   were. *)

OpeningRow == [bank : DOMAIN BankRow, appr : DOMAIN Approval, amount : Nat,
               st : {"confirmed", "rejected"}]
OpeningCall ==
  [op : {"load", "candidates", "validate", "confirm", "unmatch", "close"},
   bank : DOMAIN BankRow \cup {None}, appr : DOMAIN Approval \cup {None}, amount : Nat,
   st : {"sent", "ok", "err"}]
OpeningUi ==
  [page : {"preopening"}, clicks : Nat, rows : SUBSET OpeningRow, closed : BOOLEAN,
   bank : DOMAIN BankRow \cup {None}, appr : DOMAIN Approval \cup {None}, cands : BOOLEAN,
   dlg : {"none", "confirm", "close", "unmatch"}, saving : BOOLEAN]

\* The calls about a match name its bank row and its approval.
OpeningCallOk(c) ==
  /\ c \in OpeningCall
  /\ c.op \in {"validate", "confirm", "unmatch"} =>
       c.bank \in DOMAIN BankRow /\ c.appr \in DOMAIN Approval
OpeningRows == /\ db \in [rows : SUBSET OpeningRow, matched : [DOMAIN BankRow -> Nat],
                          closed : BOOLEAN]
               /\ IsFiniteSet(db.rows)
OpeningPage == ui \in OpeningUi /\ \A c \in net : OpeningCallOk(c)

OpeningInv == OpeningRows /\ OpeningPage /\ Opening!UsedOnce

\* The sums of the page are those of Sums.
LEMMA RowsAreWeights ==
  ASSUME NEW S, IsFiniteSet(S)
  PROVE  Opening!Amounts(S) = Weight([r \in S |-> r.amount], S)
<1> DEFINE w == [r \in S |-> r.amount]
           J == CHOOSE J : J = [s \in SUBSET S |->
                   IF s = {} THEN 0
                   ELSE LET x == CHOOSE x \in s : TRUE IN x.amount + J[s \ {x}]]
<1>1. Opening!Amounts(S) = J[S]
  BY DEF Opening!Amounts, Opening!MapThenSumSet, Opening!MapThenFoldSet
<1>2. \A s \in SUBSET S : s # {} => w[CHOOSE x \in s : TRUE] = (CHOOSE x \in s : TRUE).amount
  OBVIOUS
<1>3. PICK I : Adds(I, w, S)
  <2> HIDE DEF w
  <2> QED BY AddsExists
<1>4. I = [s \in SUBSET S |->
             IF s = {} THEN 0
             ELSE LET x == CHOOSE x \in s : TRUE IN x.amount + I[s \ {x}]]
  <2> HIDE DEF w
  <2> QED BY <1>2, <1>3 DEF Adds
<1>5. J = [s \in SUBSET S |->
             IF s = {} THEN 0
             ELSE LET x == CHOOSE x \in s : TRUE IN x.amount + J[s \ {x}]]
  BY <1>4
<1> HIDE DEF w, J
<1>6. Adds(J, w, S)
  BY <1>2, <1>5 DEF Adds
<1> QED BY <1>1, <1>6, WeightAdds DEF w

LEMMA NoRows == Opening!Amounts({}) = 0
  BY RowsAreWeights, WeightEmpty, FS_EmptySet

LEMMA RowsNat ==
  ASSUME NEW S, IsFiniteSet(S), \A r \in S : r.amount \in Nat
  PROVE  Opening!Amounts(S) \in Nat
<1> DEFINE w == [r \in S |-> r.amount]
<1>1. \A r \in S : w[r] \in Nat
  OBVIOUS
<1>2. Opening!Amounts(S) = Weight(w, S)
  BY RowsAreWeights
<1> HIDE DEF w
<1> QED BY <1>1, <1>2, WeightNat

LEMMA RowsSplit ==
  ASSUME NEW S, IsFiniteSet(S), \A r \in S : r.amount \in Nat, NEW x \in S
  PROVE  /\ Opening!Amounts(S) = x.amount + Opening!Amounts(S \ {x})
         /\ Opening!Amounts(S \ {x}) \in Nat
<1> DEFINE w == [r \in S |-> r.amount]
           v == [r \in S \ {x} |-> r.amount]
<1>1. IsFiniteSet(S \ {x})
  BY FS_Subset
<1>2. /\ Opening!Amounts(S) = Weight(w, S)
      /\ Opening!Amounts(S \ {x}) = Weight(v, S \ {x})
  BY <1>1, RowsAreWeights
<1>3. /\ \A r \in S : w[r] \in Nat
      /\ \A r \in S \ {x} : v[r] = w[r]
      /\ w[x] = x.amount
  OBVIOUS
<1> HIDE DEF w, v
<1>4. Weight(w, S) = w[x] + Weight(w, S \ {x})
  BY <1>3, WeightSplit
<1>5. Weight(v, S \ {x}) = Weight(w, S \ {x})
  BY <1>1, <1>3, WeightAgrees
<1>6. Opening!Amounts(S \ {x}) \in Nat
  BY <1>1, RowsNat
<1> QED BY <1>2, <1>3, <1>4, <1>5, <1>6

\* One row alone.
LEMMA OneRow ==
  ASSUME NEW x, x.amount \in Nat
  PROVE  Opening!Amounts({x}) = x.amount
<1>1. PICK S : S = {x}
  OBVIOUS
<1>2. IsFiniteSet(S) /\ x \in S /\ S \ {x} = {} /\ \A r \in S : r.amount \in Nat
  BY <1>1, FS_Singleton
<1>3. Opening!Amounts(S) = x.amount + Opening!Amounts(S \ {x})
  BY <1>2, RowsSplit
<1> QED BY <1>1, <1>2, <1>3, NoRows

\* One row more.
LEMMA RowAdded ==
  ASSUME NEW S, IsFiniteSet(S), \A r \in S : r.amount \in Nat,
         NEW x, x \notin S, x.amount \in Nat
  PROVE  Opening!Amounts(S \cup {x}) = Opening!Amounts(S) + x.amount
<1>1. PICK T : T = S \cup {x}
  OBVIOUS
<1>2. IsFiniteSet(T) /\ x \in T /\ T \ {x} = S /\ \A r \in T : r.amount \in Nat
  BY <1>1, FS_AddElement
<1>3. Opening!Amounts(T) = x.amount + Opening!Amounts(T \ {x})
  BY <1>2, RowsSplit
<1>4. Opening!Amounts(S) \in Nat
  BY RowsNat
<1>5. Opening!Amounts(T) = x.amount + Opening!Amounts(S)
  BY <1>2, <1>3
<1>6. Opening!Amounts(S \cup {x}) = Opening!Amounts(T)
  BY <1>1
<1> QED BY <1>4, <1>5, <1>6
-----------------------------------------------------------------------------
(* The API. *)

OfAppr(a) == {r \in Opening!Confirmed : r.appr = a}
OfBank(b) == {r \in Opening!Confirmed : r.bank = b}

LEMMA ConfirmedRows ==
  ASSUME OpeningRows
  PROVE  /\ \A r \in Opening!Confirmed : r \in OpeningRow /\ r.amount \in Nat
         /\ IsFiniteSet(Opening!Confirmed)
         /\ \A a : IsFiniteSet(OfAppr(a)) /\ \A b : IsFiniteSet(OfBank(b))
<1>1. /\ Opening!Confirmed \in SUBSET db.rows
      /\ \A a : OfAppr(a) \in SUBSET db.rows
      /\ \A b : OfBank(b) \in SUBSET db.rows
  BY DEF Opening!Confirmed, OfAppr, OfBank
<1>2. \A S \in SUBSET db.rows : IsFiniteSet(S)
  BY FS_Subset DEF OpeningRows
<1>3. \A r \in db.rows : r \in OpeningRow /\ r.amount \in Nat
  BY DEF OpeningRows, OpeningRow
<1> QED BY <1>1, <1>2, <1>3

\* The books of the page, in these names.
LEMMA UsedOnceIs ==
  Opening!UsedOnce <=>
    /\ \A q, r \in Opening!Confirmed : q.bank = r.bank => q = r
    /\ \A a \in DOMAIN Approval : Opening!Amounts(OfAppr(a)) <= Approval[a]
    /\ \A b \in DOMAIN BankRow : db.matched[b] = Opening!Amounts(OfBank(b))
  BY DEF Opening!UsedOnce, OfAppr, OfBank

\* A call of the API is answered.
LEMMA OpeningAnswered ==
  ASSUME OpeningPage, NEW c \in net, NEW st \in {"ok", "err"},
         net' = (net \ {c}) \cup {[c EXCEPT !.st = st]}, ui' = ui
  PROVE  OpeningPage'
<1>1. PICK d : d = [c EXCEPT !.st = st]
  OBVIOUS
<1>2. OpeningCallOk(c)
  BY DEF OpeningPage
<1>3. OpeningCallOk(d)
  BY <1>1, <1>2 DEF OpeningCallOk, OpeningCall
<1>4. \A e \in net' : e \in net \/ e = d
  BY <1>1
<1> QED BY <1>3, <1>4 DEF OpeningPage

LEMMA OpeningRefused ==
  ASSUME OpeningInv, OpeningPage', db' = db
  PROVE  OpeningInv'
<1>1. OpeningRows'
  BY DEF OpeningInv, OpeningRows
<1>2. Opening!UsedOnce'
  BY DEF OpeningInv, Opening!UsedOnce, Opening!Confirmed
<1> QED BY <1>1, <1>2 DEF OpeningInv

LEMMA OpeningConfirms == ASSUME OpeningInv, Opening!ServeConfirm  PROVE OpeningInv'
<1>0. OpeningRows /\ OpeningPage /\ Opening!UsedOnce
  BY DEF OpeningInv
<1>1. PICK c, st :
        /\ c \in net /\ c.op = "confirm" /\ st \in {"ok", "err"} /\ ui' = ui
        /\ net' = (net \ {c}) \cup {[c EXCEPT !.st = st]}
        /\ \/ db' = db
           \/ /\ ~Opening!Occupied(c.bank) /\ Opening!Fits(c)
              /\ db' = [db EXCEPT
                   !.rows = {r \in @ : <<r.bank, r.appr>> # <<c.bank, c.appr>>} \cup
                            {[bank |-> c.bank, appr |-> c.appr, amount |-> c.amount,
                              st |-> "confirmed"]},
                   !.matched[c.bank] = c.amount]
  BY DEF Opening!ServeConfirm, Opening!Calls, Opening!Resolve, Opening!Reject
<1>2. OpeningPage'
  BY <1>0, <1>1, OpeningAnswered
<1>3. CASE db' = db
  BY <1>2, <1>3, OpeningRefused
<1>4. CASE /\ ~Opening!Occupied(c.bank) /\ Opening!Fits(c)
           /\ db' = [db EXCEPT
                !.rows = {r \in @ : <<r.bank, r.appr>> # <<c.bank, c.appr>>} \cup
                         {[bank |-> c.bank, appr |-> c.appr, amount |-> c.amount,
                           st |-> "confirmed"]},
                !.matched[c.bank] = c.amount]
  <2>1. c.bank \in DOMAIN BankRow /\ c.appr \in DOMAIN Approval /\ c.amount \in Nat
    BY <1>0, <1>1 DEF OpeningPage, OpeningCallOk, OpeningCall
  <2>2. PICK new, kept, rows, matched :
          /\ new = [bank |-> c.bank, appr |-> c.appr, amount |-> c.amount,
                    st |-> "confirmed"]
          /\ kept = {r \in db.rows : <<r.bank, r.appr>> # <<c.bank, c.appr>>}
          /\ rows = kept \cup {new} /\ matched = [db.matched EXCEPT ![c.bank] = c.amount]
          /\ db' = [db EXCEPT !.rows = rows, !.matched = matched]
    BY <1>4
  <2>3. /\ new \in OpeningRow /\ new.bank = c.bank /\ new.appr = c.appr
        /\ new.amount = c.amount /\ new.st = "confirmed"
    BY <2>1, <2>2 DEF OpeningRow
  <2>4. /\ db \in [rows : SUBSET OpeningRow, matched : [DOMAIN BankRow -> Nat],
                   closed : BOOLEAN]
        /\ IsFiniteSet(db.rows)
    BY <1>0 DEF OpeningRows
  <2>5. kept \in SUBSET db.rows /\ rows \in SUBSET OpeningRow /\ IsFiniteSet(rows)
    <3>1. kept \in SUBSET db.rows
      BY <2>2
    <3>2. IsFiniteSet(kept)
      BY <2>4, <3>1, FS_Subset
    <3>3. IsFiniteSet(rows)
      BY <2>2, <3>2, FS_AddElement
    <3> QED BY <2>2, <2>3, <2>4, <3>1, <3>3
  <2>6. /\ matched \in [DOMAIN BankRow -> Nat]
        /\ \A b \in DOMAIN BankRow :
             matched[b] = IF b = c.bank THEN c.amount ELSE db.matched[b]
    BY <2>1, <2>2, <2>4
  <2>7. OpeningRows' /\ db'.rows = rows /\ db'.matched = matched
    BY <2>2, <2>4, <2>5, <2>6 DEF OpeningRows
  <2>8. \A r \in Opening!Confirmed : r.bank # c.bank
    BY <1>4 DEF Opening!Occupied, Opening!Active, Opening!Confirmed
  <2>9. Opening!Confirmed' = Opening!Confirmed \cup {new} /\ new \notin Opening!Confirmed
    <3>1. Opening!Confirmed' = {r \in rows : r.st = "confirmed"}
      BY <2>7 DEF Opening!Confirmed
    <3>2. \A r \in Opening!Confirmed : <<r.bank, r.appr>> # <<c.bank, c.appr>>
      BY <2>8
    <3>3. \A r \in db.rows : r.st = "confirmed" => r \in kept
      BY <2>2, <3>2 DEF Opening!Confirmed
    <3> QED BY <2>2, <2>3, <2>5, <2>8, <3>1, <3>3 DEF Opening!Confirmed
  <2>10. /\ \A r \in Opening!Confirmed : r.amount \in Nat
         /\ \A a : IsFiniteSet(OfAppr(a))
    BY <1>0, ConfirmedRows
  <2>11. ASSUME NEW a \in DOMAIN Approval
         PROVE  Opening!Amounts(OfAppr(a)') <= Approval[a]
    <3>1. CASE a = c.appr
      <4>1. OfAppr(a)' = OfAppr(a) \cup {new}
        BY <2>3, <2>9, <3>1 DEF OfAppr
      <4>2. /\ \A r \in OfAppr(a) : r.amount \in Nat
            /\ new \notin OfAppr(a) /\ IsFiniteSet(OfAppr(a)) /\ new.amount \in Nat
        BY <2>1, <2>3, <2>9, <2>10 DEF OfAppr
      <4>3. PICK S : S = OfAppr(a)
        OBVIOUS
      <4>4. Opening!Amounts(S \cup {new}) = Opening!Amounts(S) + new.amount
        BY <4>2, <4>3, RowAdded
      <4>5. c.amount + Opening!Amounts(S) <= Approval[a]
        BY <1>4, <3>1, <4>3 DEF Opening!Fits, OfAppr
      <4>6. Opening!Amounts(S) \in Nat
        BY <4>2, <4>3, RowsNat
      <4>7. Opening!Amounts(S) + new.amount <= Approval[a]
        BY <2>1, <2>3, <4>5, <4>6
      <4> QED BY <4>1, <4>3, <4>4, <4>7
    <3>2. CASE a # c.appr
      <4>1. OfAppr(a)' = OfAppr(a)
        BY <2>3, <2>9, <3>2 DEF OfAppr
      <4> QED BY <1>0, <4>1, UsedOnceIs
    <3> QED BY <3>1, <3>2
  <2>12. ASSUME NEW b \in DOMAIN BankRow
         PROVE  matched[b] = Opening!Amounts(OfBank(b)')
    <3>1. CASE b = c.bank
      <4>1. OfBank(b)' = {new}
        BY <2>3, <2>8, <2>9, <3>1 DEF OfBank
      <4>2. Opening!Amounts({new}) = new.amount
        BY <2>1, <2>3, OneRow
      <4> QED BY <2>3, <2>6, <3>1, <4>1, <4>2
    <3>2. CASE b # c.bank
      <4>1. OfBank(b)' = OfBank(b)
        BY <2>3, <2>9, <3>2 DEF OfBank
      <4> QED BY <1>0, <2>6, <3>2, <4>1, UsedOnceIs
    <3> QED BY <3>1, <3>2
  <2>13. \A q, r \in Opening!Confirmed' : q.bank = r.bank => q = r
    BY <1>0, <2>3, <2>8, <2>9, UsedOnceIs
  <2>14. Opening!UsedOnce'
    <3>1. \A a \in DOMAIN Approval :
            Opening!Amounts({r \in Opening!Confirmed' : r.appr = a}) <= Approval[a]
      BY <2>11 DEF OfAppr
    <3>2. \A b \in DOMAIN BankRow :
            db'.matched[b] = Opening!Amounts({r \in Opening!Confirmed' : r.bank = b})
      BY <2>7, <2>12 DEF OfBank
    <3> QED BY <2>13, <3>1, <3>2 DEF Opening!UsedOnce
  <2> QED BY <1>2, <2>7, <2>14 DEF OpeningInv
<1> QED BY <1>1, <1>3, <1>4

LEMMA OpeningUnmatches == ASSUME OpeningInv, Opening!ServeUnmatch  PROVE OpeningInv'
<1>0. OpeningRows /\ OpeningPage /\ Opening!UsedOnce
  BY DEF OpeningInv
<1>1. PICK c, st :
        /\ c \in net /\ c.op = "unmatch" /\ st \in {"ok", "err"} /\ ui' = ui
        /\ net' = (net \ {c}) \cup {[c EXCEPT !.st = st]}
        /\ \/ db' = db
           \/ LET left == {r \in db.rows : <<r.bank, r.appr>> # <<c.bank, c.appr>>}
              IN db' = [db EXCEPT
                   !.rows = left \cup {[r EXCEPT !.st = "rejected"] : r \in db.rows \ left},
                   !.matched[c.bank] = Opening!Amounts(
                     {r \in left : r.bank = c.bank /\ r \in Opening!Confirmed})]
  BY DEF Opening!ServeUnmatch, Opening!Calls, Opening!Resolve, Opening!Reject
<1>2. OpeningPage'
  BY <1>0, <1>1, OpeningAnswered
<1>3. CASE db' = db
  BY <1>2, <1>3, OpeningRefused
<1>4. CASE LET left == {r \in db.rows : <<r.bank, r.appr>> # <<c.bank, c.appr>>}
           IN db' = [db EXCEPT
                !.rows = left \cup {[r EXCEPT !.st = "rejected"] : r \in db.rows \ left},
                !.matched[c.bank] = Opening!Amounts(
                  {r \in left : r.bank = c.bank /\ r \in Opening!Confirmed})]
  <2>1. c.bank \in DOMAIN BankRow /\ c.appr \in DOMAIN Approval
    BY <1>0, <1>1 DEF OpeningPage, OpeningCallOk
  <2>2. PICK left, own :
          /\ left = {r \in db.rows : <<r.bank, r.appr>> # <<c.bank, c.appr>>}
          /\ own = {r \in left : r.bank = c.bank /\ r \in Opening!Confirmed}
    OBVIOUS
  <2>3. PICK gone : gone = {[r EXCEPT !.st = "rejected"] : r \in db.rows \ left}
    OBVIOUS
  <2>4. db' = [db EXCEPT !.rows = left \cup gone,
                         !.matched[c.bank] = Opening!Amounts(own)]
    BY <1>4, <2>2, <2>3
  <2>5. PICK rows, matched :
          /\ rows = left \cup gone
          /\ matched = [db.matched EXCEPT ![c.bank] = Opening!Amounts(own)]
          /\ db' = [db EXCEPT !.rows = rows, !.matched = matched]
    BY <2>4
  <2>6. /\ db \in [rows : SUBSET OpeningRow, matched : [DOMAIN BankRow -> Nat],
                   closed : BOOLEAN]
        /\ IsFiniteSet(db.rows)
    BY <1>0 DEF OpeningRows
  <2>7. left \in SUBSET db.rows /\ own \in SUBSET db.rows
    BY <2>2
  <2>8. gone \in SUBSET OpeningRow /\ \A r \in gone : r.st = "rejected"
    <3>1. \A r \in OpeningRow : /\ [r EXCEPT !.st = "rejected"] \in OpeningRow
                               /\ [r EXCEPT !.st = "rejected"].st = "rejected"
      BY DEF OpeningRow
    <3>2. \A r \in db.rows : r \in OpeningRow
      BY <2>6
    <3>3. ASSUME NEW x \in gone  PROVE x \in OpeningRow /\ x.st = "rejected"
      <4>1. PICK r \in db.rows : x = [r EXCEPT !.st = "rejected"]
        BY <2>3
      <4> QED BY <3>1, <3>2, <4>1
    <3> QED BY <3>3
  <2>9. IsFiniteSet(gone)
    <3>1. PICK f, C : /\ C = db.rows \ left
                      /\ f = [r \in C |-> [r EXCEPT !.st = "rejected"]]
      OBVIOUS
    <3>2. gone = {f[r] : r \in C}
      BY <2>3, <3>1
    <3>3. C \in SUBSET db.rows
      BY <3>1
    <3>4. IsFiniteSet(C)
      BY <2>6, <3>3, FS_Subset
    <3> QED BY <3>2, <3>4, ImageFinite
  <2>10. rows \in SUBSET OpeningRow /\ IsFiniteSet(rows)
    <3>1. IsFiniteSet(left)
      BY <2>6, <2>7, FS_Subset
    <3> QED BY <2>5, <2>6, <2>7, <2>8, <2>9, <3>1, FS_Union
  <2>11. Opening!Amounts(own) \in Nat
    <3>1. IsFiniteSet(own) /\ \A r \in own : r.amount \in Nat
      BY <2>6, <2>7, FS_Subset DEF OpeningRow
    <3> QED BY <3>1, RowsNat
  <2>12. /\ matched \in [DOMAIN BankRow -> Nat]
         /\ \A b \in DOMAIN BankRow :
              matched[b] = IF b = c.bank THEN Opening!Amounts(own) ELSE db.matched[b]
    BY <2>1, <2>5, <2>6, <2>11
  <2>13. OpeningRows' /\ db'.rows = rows /\ db'.matched = matched
    BY <2>5, <2>6, <2>10, <2>12 DEF OpeningRows
  <2>14. Opening!Confirmed' = {r \in Opening!Confirmed : r \in left}
    BY <2>5, <2>7, <2>8, <2>13 DEF Opening!Confirmed
  <2>15. \A r \in Opening!Confirmed :
           r \in left <=> ~(r.bank = c.bank /\ r.appr = c.appr)
    BY <2>2 DEF Opening!Confirmed
  <2>16. ASSUME NEW a \in DOMAIN Approval
         PROVE  Opening!Amounts(OfAppr(a)') <= Approval[a]
    <3>0. /\ \A r \in OfAppr(a) : r.amount \in Nat
          /\ IsFiniteSet(OfAppr(a)) /\ Opening!Amounts(OfAppr(a)) <= Approval[a]
      BY <1>0, ConfirmedRows, UsedOnceIs DEF OfAppr
    <3>1. CASE \E x \in OfAppr(a) : x \notin left
      <4>1. PICK x \in OfAppr(a) : x \notin left
        BY <3>1
      <4>2. \A r \in Opening!Confirmed : r \notin left => r = x
        BY <1>0, <2>15, <4>1, UsedOnceIs DEF OfAppr
      <4>3. PICK S : S = OfAppr(a)
        OBVIOUS
      <4>4. OfAppr(a)' = S \ {x}
        BY <2>14, <4>1, <4>2, <4>3 DEF OfAppr
      <4>5. /\ Opening!Amounts(S) = x.amount + Opening!Amounts(S \ {x})
            /\ Opening!Amounts(S \ {x}) \in Nat
        BY <3>0, <4>1, <4>3, RowsSplit
      <4>6. x.amount \in Nat /\ Opening!Amounts(S) <= Approval[a] /\ Approval[a] \in Nat
        BY <3>0, <4>1, <4>3, TotalsAssumption
      <4>7. Opening!Amounts(S \ {x}) <= Approval[a]
        BY <4>5, <4>6
      <4> QED BY <4>4, <4>7
    <3>2. CASE ~ \E x \in OfAppr(a) : x \notin left
      <4>1. OfAppr(a)' = OfAppr(a)
        BY <2>14, <3>2 DEF OfAppr
      <4> QED BY <3>0, <4>1
    <3> QED BY <3>1, <3>2
  <2>17. ASSUME NEW b \in DOMAIN BankRow
         PROVE  matched[b] = Opening!Amounts(OfBank(b)')
    <3>1. CASE b = c.bank
      <4>1. OfBank(b)' = own
        BY <2>2, <2>14, <3>1 DEF OfBank
      <4> QED BY <2>12, <3>1, <4>1
    <3>2. CASE b # c.bank
      <4>1. OfBank(b)' = OfBank(b)
        BY <2>14, <2>15, <3>2 DEF OfBank
      <4> QED BY <1>0, <2>12, <3>2, <4>1, UsedOnceIs
    <3> QED BY <3>1, <3>2
  <2>18. \A q, r \in Opening!Confirmed' : q.bank = r.bank => q = r
    BY <1>0, <2>14, UsedOnceIs
  <2>19. Opening!UsedOnce'
    <3>1. \A a \in DOMAIN Approval :
            Opening!Amounts({r \in Opening!Confirmed' : r.appr = a}) <= Approval[a]
      BY <2>16 DEF OfAppr
    <3>2. \A b \in DOMAIN BankRow :
            db'.matched[b] = Opening!Amounts({r \in Opening!Confirmed' : r.bank = b})
      BY <2>13, <2>17 DEF OfBank
    <3> QED BY <2>18, <3>1, <3>2 DEF Opening!UsedOnce
  <2> QED BY <1>2, <2>13, <2>19 DEF OpeningInv
<1> QED BY <1>1, <1>3, <1>4

LEMMA ClosesOrLost ==
  ASSUME OpeningInv,
         Opening!ServeClose \/ Opening!Lose({"confirm", "unmatch", "close"})
  PROVE  OpeningInv'
<1>0. OpeningRows /\ OpeningPage /\ Opening!UsedOnce
  BY DEF OpeningInv
<1>1. PICK c, st : /\ c \in net /\ st \in {"ok", "err"} /\ ui' = ui
                   /\ net' = (net \ {c}) \cup {[c EXCEPT !.st = st]}
                   /\ db' = db \/ db' = [db EXCEPT !.closed = TRUE]
  <2>1. CASE Opening!ServeClose
    BY <2>1 DEF Opening!ServeClose, Opening!Calls, Opening!Resolve, Opening!Reject
  <2>2. CASE Opening!Lose({"confirm", "unmatch", "close"})
    BY <2>2 DEF Opening!Lose, Opening!Reject
  <2> QED BY <2>1, <2>2
<1>2. OpeningPage'
  BY <1>0, <1>1, OpeningAnswered
<1>3. OpeningRows' /\ db'.rows = db.rows /\ db'.matched = db.matched
  BY <1>0, <1>1 DEF OpeningRows
<1>4. Opening!UsedOnce'
  BY <1>0, <1>3 DEF Opening!UsedOnce, Opening!Confirmed
<1> QED BY <1>2, <1>3, <1>4 DEF OpeningInv
-----------------------------------------------------------------------------
(* The page. *)

LEMMA OpeningCallMade ==
  ASSUME NEW op \in {"load", "candidates", "validate", "confirm", "unmatch", "close"},
         NEW b \in DOMAIN BankRow \cup {None}, NEW a \in DOMAIN Approval \cup {None},
         NEW n \in Nat,
         op \in {"validate", "confirm", "unmatch"} =>
           b \in DOMAIN BankRow /\ a \in DOMAIN Approval
  PROVE  OpeningCallOk(Opening!Call(op, b, a, n))
  BY DEF Opening!Call, OpeningCallOk, OpeningCall

LEMMA OpeningMoves ==
  ASSUME OpeningInv, db' = db, ui' \in OpeningUi,
         \A c \in net' : c \in net \/ OpeningCallOk(c)
  PROVE  OpeningInv'
<1>1. OpeningPage'
  BY DEF OpeningInv, OpeningPage
<1> QED BY <1>1, OpeningRefused

LEMMA OpeningClick ==
  ASSUME NEW u \in OpeningUi, Opening!Do(u)
  PROVE  ui' \in OpeningUi
<1>1. PICK n : n = u.clicks + 1 /\ ui' = [u EXCEPT !.clicks = n]
  BY DEF Opening!Do
<1>2. n \in Nat
  BY <1>1 DEF OpeningUi
<1> QED BY <1>1, <1>2 DEF OpeningUi

LEMMA OpeningAnswers ==
  ASSUME OpeningInv, \/ Opening!DoneLoad \/ Opening!DoneCandidates
                     \/ Opening!DoneValidate \/ Opening!DoneSave
  PROVE  OpeningInv'
<1>0. ui \in OpeningUi /\ \A c \in net : OpeningCallOk(c)
  BY DEF OpeningInv, OpeningPage
<1>1. OpeningRows
  BY DEF OpeningInv
<1>2. CASE Opening!DoneLoad
  <2>1. PICK c, rows, closed :
          /\ rows = Opening!Confirmed /\ closed = db.closed
          /\ ui' = [ui EXCEPT !.rows = rows, !.closed = closed] \/ ui' = ui
          /\ net' = net \ {c} /\ db' = db
    BY <1>2 DEF Opening!DoneLoad, Opening!After
  <2>2. rows \in SUBSET OpeningRow /\ closed \in BOOLEAN
    BY <1>1, <2>1 DEF OpeningRows, Opening!Confirmed
  <2>3. ui' \in OpeningUi
    BY <1>0, <2>1, <2>2 DEF OpeningUi
  <2> QED BY <2>1, <2>3, OpeningMoves
<1>3. CASE Opening!DoneCandidates
  <2>1. PICK c, cands : /\ cands \in BOOLEAN /\ ui' = [ui EXCEPT !.cands = cands]
                        /\ net' = net \ {c} /\ db' = db
    <3>1. \A answer : (answer = "ok") \in BOOLEAN
      OBVIOUS
    <3> QED BY <1>3, <3>1 DEF Opening!DoneCandidates, Opening!After
  <2>2. ui' \in OpeningUi
    BY <1>0, <2>1 DEF OpeningUi
  <2> QED BY <2>1, <2>2, OpeningMoves
<1>4. CASE Opening!DoneValidate
  <2>1. PICK c, d : /\ c \in net /\ c.op = "validate" /\ d = [c EXCEPT !.op = "confirm"]
                    /\ ui' = [ui EXCEPT !.saving = TRUE]
                    /\ net' = (net \ {c}) \cup {d} /\ db' = db
    BY <1>4 DEF Opening!DoneValidate, Opening!Calls, Opening!After
  <2>2. ui' \in OpeningUi
    BY <1>0, <2>1 DEF OpeningUi
  <2>3. OpeningCallOk(d)
    BY <1>0, <2>1 DEF OpeningCallOk, OpeningCall
  <2> QED BY <2>1, <2>2, <2>3, OpeningMoves
<1>5. CASE Opening!DoneSave
  <2>1. PICK c, b, a, d :
          /\ b \in {ui.bank, None} /\ a \in {ui.appr, None} /\ d = Opening!Load
          /\ \/ /\ ui' = [ui EXCEPT !.dlg = "none", !.saving = FALSE, !.bank = b, !.appr = a]
                /\ net' = {e \in net \ {c} : e.op # "load"} \cup {d}
             \/ ui' = [ui EXCEPT !.saving = FALSE] /\ net' = net \ {c}
          /\ db' = db
    <3>1. PICK c : 
          /\ \/ /\ ui' = [ui EXCEPT !.dlg = "none", !.saving = FALSE,
                              !.bank = IF c.op = "confirm" THEN None ELSE @,
                              !.appr = IF c.op = "confirm" THEN None ELSE @]
                /\ net' = {e \in net \ {c} : e.op # "load"} \cup {Opening!Load}
             \/ ui' = [ui EXCEPT !.saving = FALSE] /\ net' = net \ {c}
          /\ db' = db
      BY <1>5 DEF Opening!DoneSave, Opening!After
    <3>2. PICK b, a : /\ b = IF c.op = "confirm" THEN None ELSE ui.bank
                      /\ a = IF c.op = "confirm" THEN None ELSE ui.appr
      OBVIOUS
    <3> QED BY <3>1, <3>2
  <2>2. ui' \in OpeningUi
    BY <1>0, <2>1 DEF OpeningUi
  <2>3. OpeningCallOk(d)
    BY <2>1, OpeningCallMade DEF Opening!Load
  <2> QED BY <2>1, <2>2, <2>3, OpeningMoves
<1> QED BY <1>2, <1>3, <1>4, <1>5

LEMMA OpeningButtons ==
  ASSUME OpeningInv,
         \/ \E b \in DOMAIN BankRow : Opening!SelectBank(b)
         \/ \E a \in DOMAIN Approval : Opening!SelectApproval(a)
         \/ \E n \in Nat : Opening!Submit(n)
         \/ \E action \in {"close", "unmatch"} : Opening!Ask(action)
         \/ Opening!OpenConfirm \/ Opening!Cancel
  PROVE  OpeningInv'
<1>0. ui \in OpeningUi /\ \A c \in net : OpeningCallOk(c)
  BY DEF OpeningInv, OpeningPage
<1>1. ASSUME NEW b \in DOMAIN BankRow, Opening!SelectBank(b)  PROVE OpeningInv'
  <2>1. PICK u, d : /\ u = [ui EXCEPT !.bank = b, !.appr = None, !.cands = FALSE]
                    /\ Opening!Do(u) /\ d = Opening!Call("candidates", b, None, 0)
                    /\ \A c \in net' : c \in net \/ c = d
                    /\ db' = db
    BY <1>1 DEF Opening!SelectBank, Opening!Restart
  <2>2. u \in OpeningUi
    BY <1>0, <2>1 DEF OpeningUi
  <2>3. OpeningCallOk(d)
    BY <2>1, OpeningCallMade
  <2> QED BY <2>1, <2>2, <2>3, OpeningClick, OpeningMoves
<1>2. ASSUME NEW a \in DOMAIN Approval, Opening!SelectApproval(a)  PROVE OpeningInv'
  <2>1. PICK u : u = [ui EXCEPT !.appr = a] /\ Opening!Do(u) /\ net' = net /\ db' = db
    BY <1>2 DEF Opening!SelectApproval
  <2>2. u \in OpeningUi
    BY <1>0, <2>1 DEF OpeningUi
  <2> QED BY <2>1, <2>2, OpeningClick, OpeningMoves
<1>3. ASSUME NEW n \in Nat, Opening!Submit(n)  PROVE OpeningInv'
  <2>1. PICK d : /\ d = Opening!Call("validate", ui.bank, ui.appr, n) /\ Opening!Do(ui)
                 /\ None \notin {ui.bank, ui.appr}
                 /\ net' = net \cup {d} /\ db' = db
    BY <1>3 DEF Opening!Submit, Opening!MaySubmit, Opening!Start
  <2>2. ui.bank \in DOMAIN BankRow /\ ui.appr \in DOMAIN Approval
    BY <1>0, <2>1 DEF OpeningUi
  <2>3. OpeningCallOk(d)
    BY <2>1, <2>2, OpeningCallMade
  <2> QED BY <1>0, <2>1, <2>3, OpeningClick, OpeningMoves
<1>4. CASE \/ \E action \in {"close", "unmatch"} : Opening!Ask(action)
           \/ Opening!OpenConfirm \/ Opening!Cancel
  <2>1. PICK u, dlg : /\ dlg \in {"none", "confirm", "close", "unmatch"}
                      /\ u = [ui EXCEPT !.dlg = dlg] /\ Opening!Do(u)
                      /\ net' = net /\ db' = db
    BY <1>4 DEF Opening!Ask, Opening!OpenConfirm, Opening!Cancel
  <2>2. u \in OpeningUi
    BY <1>0, <2>1 DEF OpeningUi
  <2> QED BY <2>1, <2>2, OpeningClick, OpeningMoves
<1> QED BY <1>1, <1>2, <1>3, <1>4

LEMMA OpeningExecutes == ASSUME OpeningInv, Opening!Execute  PROVE OpeningInv'
<1>0. ui \in OpeningUi /\ \A c \in net : OpeningCallOk(c)
  BY DEF OpeningInv, OpeningPage
<1>1. PICK u : u = [ui EXCEPT !.saving = TRUE] /\ Opening!Do(u) /\ db' = db
  BY DEF Opening!Execute
<1>2. u \in OpeningUi
  BY <1>0, <1>1 DEF OpeningUi
<1>3. ui' \in OpeningUi
  BY <1>1, <1>2, OpeningClick
<1>4. \/ net' = net \cup {Opening!Call("close", None, None, 0)}
      \/ \E r \in ui.rows : net' = net \cup {Opening!Call("unmatch", r.bank, r.appr, 0)}
  BY DEF Opening!Execute, Opening!Start
<1>5. CASE net' = net \cup {Opening!Call("close", None, None, 0)}
  <2>1. OpeningCallOk(Opening!Call("close", None, None, 0))
    BY OpeningCallMade
  <2> QED BY <1>1, <1>3, <1>5, <2>1, OpeningMoves
<1>6. ASSUME NEW r \in ui.rows,
             net' = net \cup {Opening!Call("unmatch", r.bank, r.appr, 0)}
      PROVE  OpeningInv'
  <2>1. r.bank \in DOMAIN BankRow /\ r.appr \in DOMAIN Approval
    BY <1>0 DEF OpeningUi, OpeningRow
  <2>2. OpeningCallOk(Opening!Call("unmatch", r.bank, r.appr, 0))
    BY <2>1, OpeningCallMade
  <2> QED BY <1>1, <1>3, <1>6, <2>2, OpeningMoves
<1> QED BY <1>4, <1>5, <1>6

LEMMA OpeningInit == ASSUME Opening!Init PROVE OpeningInv
<1>1. ui \in OpeningUi
  BY DEF Opening!Init, OpeningUi
<1>2. OpeningCallOk(Opening!Load)
  BY OpeningCallMade DEF Opening!Load
<1>3. OpeningPage
  BY <1>1, <1>2 DEF Opening!Init, OpeningPage
<1>4. OpeningRows
  BY FS_EmptySet DEF Opening!Init, OpeningRows
<1>5. Opening!Confirmed = {}
  BY DEF Opening!Init, Opening!Confirmed
<1>6. /\ \A a : OfAppr(a) = {}
      /\ \A b : OfBank(b) = {}
  BY <1>5 DEF OfAppr, OfBank
<1>7. \A b \in DOMAIN BankRow : db.matched[b] = 0
  BY DEF Opening!Init
<1>8. \A a \in DOMAIN Approval : 0 <= Approval[a]
  BY TotalsAssumption
<1>9. Opening!UsedOnce
  BY <1>5, <1>6, <1>7, <1>8, NoRows, UsedOnceIs
<1> QED BY <1>3, <1>4, <1>9 DEF OpeningInv

LEMMA OpeningStep == OpeningInv /\ Opening!Next => OpeningInv'
<1> SUFFICES ASSUME OpeningInv, Opening!Next PROVE OpeningInv'
  OBVIOUS
<1>1. CASE \/ Opening!ServeConfirm \/ Opening!ServeUnmatch \/ Opening!ServeClose
           \/ Opening!Lose({"confirm", "unmatch", "close"})
  BY <1>1, OpeningConfirms, OpeningUnmatches, ClosesOrLost
<1>2. CASE \/ Opening!DoneLoad \/ Opening!DoneCandidates
           \/ Opening!DoneValidate \/ Opening!DoneSave
  BY <1>2, OpeningAnswers
<1>3. CASE \/ \E b \in DOMAIN BankRow : Opening!SelectBank(b)
           \/ \E a \in DOMAIN Approval : Opening!SelectApproval(a)
           \/ \E n \in Nat : Opening!Submit(n)
           \/ \E action \in {"close", "unmatch"} : Opening!Ask(action)
           \/ Opening!OpenConfirm \/ Opening!Cancel
  BY <1>3, OpeningButtons
<1>4. CASE Opening!Execute
  BY <1>4, OpeningExecutes
<1>5. \A m : \A n \in 1..m : n \in Nat
  OBVIOUS
<1> QED BY <1>1, <1>2, <1>3, <1>4, <1>5 DEF Opening!Next

LEMMA OpeningHolds == OpeningInv => Opening!TypeOK /\ Opening!UsedOnce
<1> SUFFICES ASSUME OpeningInv PROVE Opening!TypeOK
  BY DEF OpeningInv
<1>1. ui \in OpeningUi /\ OpeningRows
  BY DEF OpeningInv, OpeningPage
<1>2. \A r \in db.rows : r.bank \in DOMAIN BankRow /\ r.appr \in DOMAIN Approval
  BY <1>1 DEF OpeningRows, OpeningRow
<1> QED BY <1>1, <1>2 DEF Opening!TypeOK, OpeningUi, OpeningRows
-----------------------------------------------------------------------------
(* The revenue page: the newest load is on its way, or was answered, or failed.  *)

Sheet == [Day -> Channel \cup {None}]
RevenueUi ==
  [page : {"revenue"}, clicks : Nat, channel : Channel, known : SUBSET Channel,
   recs : [Channel -> Sheet], rows : Sheet, of : Channel \cup {None}, dirty : BOOLEAN,
   editing : BOOLEAN, entry : Channel \cup {None}, busy : BOOLEAN, error : BOOLEAN,
   req : Nat, saved : Channel \cup {None}]
LoadCall == [op : {"load"}, channel : Channel, req : Nat, last : BOOLEAN]
SaveCall == [op : {"save"}, channel : Channel, rows : Sheet, write : SUBSET Day,
             delete : SUBSET Day]
AddCall == [op : {"add"}, channel : Channel]
RevenueTyped ==
  /\ ui \in RevenueUi /\ ui.channel \in ui.known
  /\ net \subseteq LoadCall \cup SaveCall \cup AddCall
  /\ db \in [Channel -> Sheet]

Loads(calls) == {c \in calls : c.op = "load"}
LoadsOwn == \A c \in Loads(net) : /\ c.req <= ui.req
                                  /\ c.req = ui.req => c.channel \in {ui.channel, ui.saved}
GridKept == \/ \E c \in Loads(net) : c.req = ui.req
            \/ ui.error \/ ui.of \in {None, ui.channel, ui.saved}

RevenueInv == RevenueTyped /\ LoadsOwn /\ GridKept

\* The page goes on with the load that was the newest.
LEMMA GridStays ==
  ASSUME RevenueInv, ui' \in RevenueUi, ui'.req = ui.req, ui'.channel = ui.channel,
         ui.known \subseteq ui'.known, ui'.saved = ui.saved, ui'.error = ui.error,
         ui'.of \in {ui.of, ui.channel}, net' \subseteq LoadCall \cup SaveCall \cup AddCall,
         Loads(net') = Loads(net), db' \in [Channel -> Sheet]
  PROVE  RevenueInv'
<1>1. RevenueTyped'
  BY DEF RevenueInv, RevenueTyped
<1>2. LoadsOwn'
  BY DEF RevenueInv, LoadsOwn
<1>3. GridKept'
  BY DEF RevenueInv, GridKept
<1> QED BY <1>1, <1>2, <1>3 DEF RevenueInv

\* A load begins: of the selected channel, or of the one just saved.
LEMMA LoadBegins ==
  ASSUME RevenueInv, ui' \in RevenueUi, ui'.req = ui.req + 1, ui'.channel \in ui'.known,
         NEW x \in Channel, x \in {ui'.channel, ui'.saved}, NEW last \in BOOLEAN,
         NEW rest \in SUBSET net, net' = rest \cup {Revenue!Load(x, ui.req + 1, last)},
         db' = db
  PROVE  RevenueInv'
<1>1. PICK c : /\ c \in LoadCall /\ c.channel = x /\ c.req = ui.req + 1
               /\ c.op = "load" /\ net' = rest \cup {c}
  BY DEF Revenue!Load, LoadCall, RevenueInv, RevenueTyped, RevenueUi
<1>2. RevenueTyped'
  BY <1>1 DEF RevenueInv, RevenueTyped
<1>3. /\ \A d \in Loads(rest) : d.req \in Nat /\ d.req <= ui.req
      /\ ui.req \in Nat
  BY DEF RevenueInv, RevenueTyped, LoadsOwn, Loads, LoadCall, SaveCall, AddCall, RevenueUi
<1>4. LoadsOwn'
  BY <1>1, <1>3 DEF LoadsOwn, Loads
<1>5. GridKept'
  BY <1>1 DEF GridKept, Loads
<1> QED BY <1>2, <1>4, <1>5 DEF RevenueInv

LEMMA LeastNat ==
  ASSUME NEW T \in SUBSET Nat, T # {}
  PROVE  \E m \in T : \A k \in T : m <= k
<1>1. IsWellFoundedOn(OpToRel(<, Nat), Nat)
  BY NatLessThanWellFounded
<1>2. PICK m \in T : \A k \in T : ~(<<k, m>> \in OpToRel(<, Nat))
  BY <1>1, WFMin
<1>3. \A k \in T : ~(k < m)
  BY <1>2 DEF OpToRel
<1> QED BY <1>3

LEMMA BeginFacts ==
  ASSUME NEW u \in RevenueUi
  PROVE  /\ Revenue!Begin(u) \in RevenueUi /\ Revenue!Begin(u).channel = u.channel
         /\ Revenue!Begin(u).known = u.known /\ Revenue!Begin(u).saved = u.saved
         /\ Revenue!Begin(u).req = u.req + 1
<1>0. PICK v : v = Revenue!Begin(u)
  OBVIOUS
<1>1. PICK n \in Nat : /\ n = u.req + 1
                        /\ v = [u EXCEPT !.req = n, !.busy = TRUE, !.error = FALSE]
  <2>1. u.req + 1 \in Nat
    BY DEF RevenueUi
  <2>2. v = [u EXCEPT !.req = u.req + 1, !.busy = TRUE, !.error = FALSE]
    BY <1>0 DEF Revenue!Begin
  <2> QED BY <2>1, <2>2
<1>2. v = [page |-> u.page, clicks |-> u.clicks, channel |-> u.channel, known |-> u.known,
           recs |-> u.recs, rows |-> u.rows, of |-> u.of, dirty |-> u.dirty,
           editing |-> u.editing, entry |-> u.entry, busy |-> TRUE, error |-> FALSE,
           req |-> n, saved |-> u.saved]
  BY <1>1 DEF RevenueUi
<1>3. /\ v \in RevenueUi /\ v.channel = u.channel /\ v.known = u.known
      /\ v.req = u.req + 1 /\ v.saved = u.saved
  BY <1>1, <1>2 DEF RevenueUi
<1> QED BY <1>0, <1>3

LEMMA ChooseFacts ==
  ASSUME NEW u \in RevenueUi, NEW x \in Channel
  PROVE  /\ Revenue!Choose(u, x) \in RevenueUi /\ Revenue!Choose(u, x).channel = x
         /\ Revenue!Choose(u, x).known = u.known /\ Revenue!Choose(u, x).req = u.req
<1>0. PICK v : v = Revenue!Choose(u, x)
  OBVIOUS
<1>1. PICK editing \in BOOLEAN : v = [u EXCEPT !.channel = x, !.editing = editing]
  <2>1. (u.editing /\ u.entry = x) \in BOOLEAN
    OBVIOUS
  <2> QED BY <1>0, <2>1 DEF Revenue!Choose
<1>2. v \in RevenueUi /\ v.channel = x /\ v.known = u.known /\ v.req = u.req
  BY <1>1 DEF RevenueUi
<1> QED BY <1>0, <1>2

LEMMA ClickFacts ==
  ASSUME NEW u \in RevenueUi, Revenue!Do(u)
  PROVE  /\ ui' \in RevenueUi /\ ui'.channel = u.channel /\ ui'.known = u.known
         /\ ui'.req = u.req /\ ui'.saved = u.saved /\ ui'.error = u.error /\ ui'.of = u.of
  BY DEF Revenue!Do, RevenueUi

\* What the user does to the grid.
SameLoad(u) == /\ u \in RevenueUi /\ u.req = ui.req /\ u.channel = ui.channel
               /\ u.known = ui.known /\ u.saved = ui.saved /\ u.error = ui.error
               /\ u.of \in {ui.of, ui.channel}

LEMMA GridActs ==
  ASSUME RevenueInv,
         Revenue!Edit \/ Revenue!CancelEdit \/ Revenue!ClearRows
           \/ \E d \in Day : Revenue!Type(d)
  PROVE  RevenueInv'
<1>1. ui \in RevenueUi /\ ui.recs[ui.channel] \in Sheet /\ Revenue!Empty \in Sheet
  BY DEF RevenueInv, RevenueTyped, RevenueUi, Revenue!Empty, Sheet
<1>2. ASSUME NEW u, SameLoad(u), Revenue!Do(u), net' = net, db' = db
      PROVE  RevenueInv'
  BY <1>2, ClickFacts, GridStays DEF RevenueInv, RevenueTyped, SameLoad
<1>3. CASE Revenue!Edit
  <2>1. ASSUME NEW u, u = [ui EXCEPT !.editing = TRUE, !.dirty = FALSE]
        PROVE  SameLoad(u)
    BY <1>1, <2>1 DEF SameLoad, RevenueUi
  <2> QED BY <1>2, <1>3, <2>1 DEF Revenue!Edit
<1>4. CASE Revenue!CancelEdit
  <2>1. ASSUME NEW u, u = [ui EXCEPT !.editing = FALSE, !.dirty = FALSE,
                                     !.rows = ui.recs[ui.channel], !.of = ui.channel]
        PROVE  SameLoad(u)
    BY <1>1, <2>1 DEF SameLoad, RevenueUi
  <2> QED BY <1>2, <1>4, <2>1 DEF Revenue!CancelEdit
<1>5. CASE Revenue!ClearRows
  <2>1. ASSUME NEW u, u = [ui EXCEPT !.rows = Revenue!Empty, !.of = ui.channel, !.dirty = TRUE]
        PROVE  SameLoad(u)
    BY <1>1, <2>1 DEF SameLoad, RevenueUi
  <2> QED BY <1>2, <1>5, <2>1 DEF Revenue!ClearRows
<1>6. ASSUME NEW d \in Day, Revenue!Type(d)  PROVE RevenueInv'
  <2>1. PICK v \in {ui.channel, None} :
          Revenue!Do([ui EXCEPT !.rows[d] = v, !.dirty = TRUE])
    BY <1>6 DEF Revenue!Type
  <2>2. ASSUME NEW u, u = [ui EXCEPT !.rows[d] = v, !.dirty = TRUE]  PROVE SameLoad(u)
    <3>1. PICK rows : rows = [ui.rows EXCEPT ![d] = v]
      OBVIOUS
    <3>2. ui.channel \in Channel /\ ui.rows \in Sheet
      BY <1>1 DEF RevenueUi
    <3>3. rows \in Sheet
      BY <3>1, <3>2 DEF Sheet
    <3>4. u = [ui EXCEPT !.rows = rows, !.dirty = TRUE]
      BY <1>1, <2>2, <3>1 DEF RevenueUi
    <3> QED BY <1>1, <3>3, <3>4 DEF SameLoad, RevenueUi
  <2> QED BY <1>2, <1>6, <2>1, <2>2 DEF Revenue!Type
<1> QED BY <1>3, <1>4, <1>5, <1>6

\* The user asks for a channel, or for another filter.
LEMMA ChannelActs ==
  ASSUME RevenueInv,
         \/ \E x \in Channel : \/ Revenue!Select(x) \/ Revenue!StartEntry(x)
                               \/ Revenue!AddChannel(x)
         \/ Revenue!Filter
  PROVE  RevenueInv'
<1>1. ui \in RevenueUi /\ ui.known \subseteq Channel /\ ui.channel \in ui.known
  BY DEF RevenueInv, RevenueTyped, RevenueUi
<1>2. ASSUME NEW u \in RevenueUi, NEW v, v = Revenue!Begin(u), Revenue!Do(v),
             u.req = ui.req, u.channel \in u.known, db' = db,
             net' = net \cup {Revenue!Load(u.channel, ui.req + 1, FALSE)}
      PROVE  RevenueInv'
  <2>1. /\ ui' \in RevenueUi /\ ui'.req = ui.req + 1 /\ ui'.channel \in ui'.known
        /\ ui'.channel = u.channel /\ u.channel \in Channel
    <3>1. v \in RevenueUi /\ v.channel = u.channel /\ v.known = u.known /\ v.req = u.req + 1
      BY <1>2, BeginFacts
    <3>2. u.channel \in Channel
      BY DEF RevenueUi
    <3>3. /\ ui' \in RevenueUi /\ ui'.channel = v.channel /\ ui'.known = v.known
          /\ ui'.req = v.req
      BY <1>2, <3>1, ClickFacts
    <3> QED BY <1>2, <3>1, <3>2, <3>3
  <2> QED BY <1>2, <2>1, LoadBegins
<1>3. ASSUME NEW x \in Channel, Revenue!Select(x)  PROVE RevenueInv'
  <2>1. PICK u : u = Revenue!Choose(ui, x)
    OBVIOUS
  <2>2. u \in RevenueUi /\ u.channel = x /\ u.known = ui.known /\ u.req = ui.req
    BY <1>1, <2>1, ChooseFacts
  <2>3. /\ Revenue!Do(Revenue!Begin(u)) /\ x \in ui.known /\ db' = db
        /\ net' = net \cup {Revenue!Load(x, ui.req + 1, FALSE)}
    BY <1>3, <2>1 DEF Revenue!Select
  <2> QED BY <1>2, <2>2, <2>3
<1>4. ASSUME NEW x \in Channel, Revenue!StartEntry(x)  PROVE RevenueInv'
  <2>1. CASE x # ui.channel
    <3>1. PICK w, u : w = [ui EXCEPT !.entry = x] /\ u = Revenue!Choose(w, x)
      OBVIOUS
    <3>2. w \in RevenueUi /\ w.known = ui.known /\ w.req = ui.req
      BY <1>1, <3>1 DEF RevenueUi
    <3>3. u \in RevenueUi /\ u.channel = x /\ u.known = w.known /\ u.req = w.req
      BY <3>1, <3>2, ChooseFacts
    <3>4. /\ Revenue!Do(Revenue!Begin(u)) /\ x \in ui.known /\ db' = db
          /\ net' = net \cup {Revenue!Load(x, ui.req + 1, FALSE)}
      BY <1>4, <2>1, <3>1 DEF Revenue!StartEntry
    <3> QED BY <1>2, <3>2, <3>3, <3>4
  <2>2. CASE x = ui.channel
    <3>1. PICK u : u = [ui EXCEPT !.entry = None, !.editing = TRUE] /\ Revenue!Do(u)
      BY <1>4, <2>2 DEF Revenue!StartEntry
    <3>2. SameLoad(u)
      BY <1>1, <3>1 DEF SameLoad, RevenueUi
    <3>3. net' = net /\ db' = db
      BY <1>4, <2>2 DEF Revenue!StartEntry
    <3> QED BY <3>1, <3>2, <3>3, ClickFacts, GridStays DEF RevenueInv, RevenueTyped, SameLoad
  <2> QED BY <2>1, <2>2
<1>5. ASSUME NEW x \in Channel, Revenue!AddChannel(x)  PROVE RevenueInv'
  <2>1. PICK u, c : /\ u = [ui EXCEPT !.busy = TRUE] /\ Revenue!Do(u) /\ db' = db
                    /\ c = [op |-> "add", channel |-> x] /\ net' = net \cup {c}
    BY <1>5 DEF Revenue!AddChannel
  <2>2. SameLoad(u) /\ c \in AddCall /\ c.op = "add"
    BY <1>1, <2>1 DEF SameLoad, RevenueUi, AddCall
  <2> QED BY <2>1, <2>2, ClickFacts, GridStays
          DEF RevenueInv, RevenueTyped, SameLoad, Loads
<1>6. CASE Revenue!Filter
  BY <1>1, <1>2, <1>6 DEF Revenue!Filter
<1> QED BY <1>3, <1>4, <1>5, <1>6
\* Saving.
LEMMA SaveActs ==
  ASSUME RevenueInv, Revenue!Save \/ Revenue!SaveRow \/ Revenue!DoneSave
  PROVE  RevenueInv'
<1>1. /\ ui \in RevenueUi /\ ui.known \subseteq Channel /\ ui.channel \in ui.known
      /\ db \in [Channel -> Sheet] /\ net \subseteq LoadCall \cup SaveCall \cup AddCall
      /\ \A c \in net : c.op = "save" => c \in SaveCall
  BY DEF RevenueInv, RevenueTyped, RevenueUi, LoadCall, AddCall
<1>2. CASE Revenue!Save
  <2>1. PICK u, c : /\ u = [ui EXCEPT !.busy = TRUE] /\ Revenue!Do(u) /\ db' = db
                    /\ \E write, delete \in SUBSET Day :
                         c = [op |-> "save", channel |-> ui.channel, rows |-> ui.rows,
                              write |-> write, delete |-> delete]
                    /\ net' = net \cup {c}
    BY <1>2 DEF Revenue!Save
  <2>2. SameLoad(u)
    BY <1>1, <2>1 DEF SameLoad, RevenueUi
  <2>3. c \in SaveCall /\ c.op = "save"
    BY <1>1, <2>1 DEF SaveCall, RevenueUi
  <2> QED BY <1>1, <2>1, <2>2, <2>3, ClickFacts, GridStays DEF SameLoad, Loads
<1>3. CASE Revenue!SaveRow
  <2>1. PICK c, d, rest, left :
          /\ c \in net /\ c.op = "save" /\ d \in c.write \cup c.delete
          /\ rest \subseteq c.write /\ left \subseteq c.delete
          /\ net' = (net \ {c}) \cup {[c EXCEPT !.write = rest, !.delete = left]}
          /\ db' \in {db, [db EXCEPT ![c.channel][d] = c.rows[d]]}
          /\ ui' = ui
    <3>1. PICK c \in net :
            /\ c.op = "save" /\ c.write \cup c.delete # {} /\ ui' = ui
            /\ LET d == Revenue!Min(IF c.write # {} THEN c.write ELSE c.delete)
               IN /\ net' = (net \ {c}) \cup
                        {[c EXCEPT !.write = @ \ {d},
                                   !.delete = IF c.write = {} THEN @ \ {d} ELSE @]}
                  /\ db' \in {db, [db EXCEPT ![c.channel][d] = c.rows[d]]}
      BY <1>3 DEF Revenue!SaveRow, Revenue!Calls
    <3>2. PICK d : d = Revenue!Min(IF c.write # {} THEN c.write ELSE c.delete)
      OBVIOUS
    <3>3. d \in c.write \cup c.delete
      <4>1. PICK days : days = IF c.write # {} THEN c.write ELSE c.delete
        OBVIOUS
      <4>2. c.write \subseteq Day /\ c.delete \subseteq Day
        BY <1>1, <3>1 DEF SaveCall
      <4>3. days \subseteq Nat /\ days # {} /\ days \subseteq c.write \cup c.delete
        BY <3>1, <4>1, <4>2, DaysAssumption
      <4>4. PICK m \in days : \A k \in days : m <= k
        BY <4>3, LeastNat
      <4>5. Revenue!Min(days) \in days
        BY <4>3, <4>4 DEF Revenue!Min
      <4> QED BY <3>2, <4>1, <4>3, <4>5
    <3>4. PICK rest, left : /\ rest = c.write \ {d}
                            /\ left = IF c.write = {} THEN c.delete \ {d} ELSE c.delete
      OBVIOUS
    <3>5. net' = (net \ {c}) \cup {[c EXCEPT !.write = rest, !.delete = left]}
      BY <3>1, <3>2, <3>4
    <3>6. rest \subseteq c.write /\ left \subseteq c.delete
      BY <3>4
    <3>7. db' \in {db, [db EXCEPT ![c.channel][d] = c.rows[d]]}
      BY <3>1, <3>2
    <3> QED BY <3>1, <3>3, <3>5, <3>6, <3>7
  <2>2. PICK e : /\ e \in SaveCall /\ e.op = "save" /\ net' = (net \ {c}) \cup {e}
    <3>1. PICK e : e = [c EXCEPT !.write = rest, !.delete = left]
      OBVIOUS
    <3>2. e \in SaveCall
      <4>1. c \in SaveCall
        BY <1>1, <2>1
      <4>2. rest \in SUBSET Day /\ left \in SUBSET Day
        BY <2>1, <4>1 DEF SaveCall
      <4> QED BY <3>1, <4>1, <4>2 DEF SaveCall
    <3>3. e.op = "save"
      BY <3>2 DEF SaveCall
    <3> QED BY <2>1, <3>1, <3>2, <3>3
  <2>3. db' \in [Channel -> Sheet]
    <3>1. d \in Day /\ c.rows[d] \in Channel \cup {None} /\ c.channel \in Channel
      BY <1>1, <2>1 DEF SaveCall, Sheet
    <3>2. PICK sheet : sheet = [db[c.channel] EXCEPT ![d] = c.rows[d]]
      OBVIOUS
    <3>3. sheet \in Sheet
      BY <1>1, <3>1, <3>2 DEF Sheet
    <3>4. db' \in {db, [db EXCEPT ![c.channel] = sheet]}
      BY <2>1, <3>2
    <3> QED BY <1>1, <3>1, <3>3, <3>4
  <2>4. Loads(net') = Loads(net)
    BY <2>1, <2>2 DEF Loads
  <2> QED BY <1>1, <2>1, <2>2, <2>3, <2>4, GridStays
<1>4. CASE Revenue!DoneSave
  <2>1. PICK c, u, v : /\ c \in net /\ c.op = "save" /\ u = Revenue!Begin(ui)
                       /\ v = [u EXCEPT !.saved = c.channel] /\ ui' = v /\ db' = db
                       /\ net' = (net \ {c}) \cup
                                   {Revenue!Load(c.channel, ui.req + 1, TRUE)}
    BY <1>4 DEF Revenue!DoneSave, Revenue!Calls
  <2>2. /\ u \in RevenueUi /\ u.channel = ui.channel /\ u.known = ui.known
        /\ u.req = ui.req + 1 /\ u.saved = ui.saved
    BY <1>1, <2>1, BeginFacts
  <2>3. c.channel \in Channel
    BY <1>1, <2>1 DEF SaveCall
  <2>4. /\ v \in RevenueUi /\ v.channel = u.channel /\ v.known = u.known
        /\ v.req = u.req /\ v.saved = c.channel
    <3>1. v = [u EXCEPT !.saved = c.channel] /\ u \in RevenueUi
      BY <2>1, <2>2
    <3>2. v \in RevenueUi
      <4>1. PICK x : x = c.channel /\ x \in Channel /\ v = [u EXCEPT !.saved = x]
        BY <2>3, <3>1
      <4> QED BY <3>1, <4>1 DEF RevenueUi
    <3>3. v.channel = u.channel /\ v.known = u.known /\ v.req = u.req /\ v.saved = c.channel
      BY <3>1 DEF RevenueUi
    <3> QED BY <3>2, <3>3
  <2>5. PICK rest \in SUBSET net :
          net' = rest \cup {Revenue!Load(c.channel, ui.req + 1, TRUE)}
    BY <2>1
  <2>6. /\ ui' \in RevenueUi /\ ui'.req = ui.req + 1 /\ ui'.channel \in ui'.known
        /\ ui'.saved = c.channel /\ db' = db
    BY <1>1, <2>1, <2>2, <2>4
  <2> QED BY <2>3, <2>5, <2>6, LoadBegins
<1> QED BY <1>2, <1>3, <1>4

LEMMA ChannelAdded ==
  ASSUME RevenueInv, Revenue!DoneAdd  PROVE RevenueInv'
<1>1. /\ ui \in RevenueUi /\ ui.known \subseteq Channel /\ ui.channel \in ui.known
      /\ db \in [Channel -> Sheet] /\ net \subseteq LoadCall \cup SaveCall \cup AddCall
      /\ \A c \in net : c.op = "add" => c \in AddCall
  BY DEF RevenueInv, RevenueTyped, RevenueUi, LoadCall, SaveCall
<1>2. PICK c \in net :
        /\ c.op = "add" /\ db' = db
        /\ \/ /\ ui' = Revenue!Begin(Revenue!Choose(Revenue!Listed(ui, c.channel), c.channel))
              /\ net' = (net \ {c}) \cup {Revenue!Load(c.channel, ui.req + 1, FALSE)}
           \/ ui' = [ui EXCEPT !.busy = FALSE] /\ net' = net \ {c}
  BY DEF Revenue!DoneAdd, Revenue!Calls
<1>3. c.channel \in Channel
  BY <1>1, <1>2 DEF AddCall
<1>4. CASE /\ ui' = Revenue!Begin(Revenue!Choose(Revenue!Listed(ui, c.channel), c.channel))
           /\ net' = (net \ {c}) \cup {Revenue!Load(c.channel, ui.req + 1, FALSE)}
  <2>1. PICK u, v : /\ u = [ui EXCEPT !.known = @ \cup {c.channel}]
                    /\ v = Revenue!Choose(u, c.channel) /\ ui' = Revenue!Begin(v)
    BY <1>4 DEF Revenue!Listed
  <2>2. u \in RevenueUi /\ u.known = ui.known \cup {c.channel} /\ u.req = ui.req
    BY <1>1, <1>3, <2>1 DEF RevenueUi
  <2>3. v \in RevenueUi /\ v.channel = c.channel /\ v.known = u.known /\ v.req = u.req
    BY <1>3, <2>1, <2>2, ChooseFacts
  <2>4. /\ ui' \in RevenueUi /\ ui'.channel = v.channel /\ ui'.known = v.known
        /\ ui'.req = v.req + 1
    BY <2>1, <2>3, BeginFacts
  <2> QED BY <1>2, <1>3, <1>4, <2>2, <2>3, <2>4, LoadBegins
<1>5. CASE ui' = [ui EXCEPT !.busy = FALSE] /\ net' = net \ {c}
  <2>1. SameLoad(ui')
    BY <1>1, <1>5 DEF SameLoad, RevenueUi
  <2>2. Loads(net') = Loads(net)
    BY <1>2, <1>5 DEF Loads
  <2> QED BY <1>1, <1>2, <1>5, <2>1, <2>2, GridStays DEF SameLoad
<1> QED BY <1>2, <1>4, <1>5

\* An answer that is the newest decides what the grid shows; any other changes nothing of it.
LEMMA RecordsLoaded ==
  ASSUME RevenueInv, Revenue!DoneLoad  PROVE RevenueInv'
<1>1. /\ ui \in RevenueUi /\ ui.known \subseteq Channel /\ ui.channel \in ui.known
      /\ db \in [Channel -> Sheet] /\ net \subseteq LoadCall \cup SaveCall \cup AddCall
      /\ \A c \in net : c.op = "load" => c \in LoadCall
  BY DEF RevenueInv, RevenueTyped, RevenueUi, AddCall, SaveCall
<1>2. PICK c, u, busy, dirty :
        /\ c \in net /\ c.op = "load" /\ net' = net \ {c} /\ db' = db
        /\ busy \in BOOLEAN /\ dirty \in BOOLEAN
        /\ ui' = [u EXCEPT !.busy = busy, !.dirty = dirty]
        /\ IF c.req # ui.req THEN u = ui
           ELSE u = Revenue!Shown(ui, c) \/ u = [ui EXCEPT !.error = TRUE]
  <2>1. PICK c \in net, answer \in Revenue!Answer :
          /\ c.op = "load" /\ net' = net \ {c} /\ db' = db
          /\ LET u == IF ~Revenue!Newest(c) THEN ui
                      ELSE IF answer = "ok" THEN Revenue!Shown(ui, c)
                      ELSE [ui EXCEPT !.error = TRUE]
             IN ui' = [u EXCEPT !.busy = @ /\ c.req # ui.req /\ ~c.last,
                                !.dirty = @ /\ ~c.last]
    BY DEF Revenue!DoneLoad, Revenue!Calls
  <2>2. PICK u : u = IF c.req # ui.req THEN ui
                     ELSE IF answer = "ok" THEN Revenue!Shown(ui, c)
                     ELSE [ui EXCEPT !.error = TRUE]
    OBVIOUS
  <2>3. ui' = [u EXCEPT !.busy = u.busy /\ c.req # ui.req /\ ~c.last,
                        !.dirty = u.dirty /\ ~c.last]
    BY <2>1, <2>2 DEF Revenue!Newest
  <2>4. PICK busy \in BOOLEAN, dirty \in BOOLEAN :
          ui' = [u EXCEPT !.busy = busy, !.dirty = dirty]
    <3>1. /\ (u.busy /\ c.req # ui.req /\ ~c.last) \in BOOLEAN
          /\ (u.dirty /\ ~c.last) \in BOOLEAN
      OBVIOUS
    <3> QED BY <2>3, <3>1
  <2> QED BY <2>1, <2>2, <2>4
<1>3. c.channel \in Channel
  BY <1>1, <1>2 DEF LoadCall
<1>4. /\ u \in RevenueUi /\ u.req = ui.req /\ u.channel = ui.channel
      /\ u.known = ui.known /\ u.saved = ui.saved
      /\ c.req # ui.req => u = ui
      /\ c.req = ui.req => u.error \/ u.of = c.channel
  <2>1. CASE c.req # ui.req
    BY <1>1, <1>2, <2>1
  <2>2. CASE c.req = ui.req /\ u = [ui EXCEPT !.error = TRUE]
    BY <1>1, <2>2 DEF RevenueUi
  <2>3. CASE c.req = ui.req /\ u = Revenue!Shown(ui, c)
    <3>1. PICK editing, entry :
            /\ editing \in BOOLEAN /\ entry \in {ui.entry, None}
            /\ u = [ui EXCEPT !.recs = db, !.rows = db[c.channel], !.of = c.channel,
                              !.dirty = FALSE, !.editing = editing, !.entry = entry]
      <4>1. (ui.entry = c.channel) \in BOOLEAN
        OBVIOUS
      <4> QED BY <2>3, <4>1 DEF Revenue!Shown
    <3>2. db[c.channel] \in Sheet /\ entry \in Channel \cup {None}
      BY <1>1, <1>3, <3>1 DEF RevenueUi
    <3> QED BY <1>1, <1>3, <2>3, <3>1, <3>2 DEF RevenueUi
  <2> QED BY <1>2, <2>1, <2>2, <2>3
<1>5. /\ ui' \in RevenueUi /\ ui'.req = ui.req /\ ui'.channel = ui.channel
      /\ ui'.known = ui.known /\ ui'.saved = ui.saved
      /\ ui'.error = u.error /\ ui'.of = u.of
  BY <1>2, <1>4 DEF RevenueUi
<1>6. RevenueTyped'
  BY <1>1, <1>2, <1>5 DEF RevenueTyped
<1>7. LoadsOwn'
  BY <1>2, <1>5 DEF RevenueInv, LoadsOwn, Loads
<1>8. GridKept'
  <2>1. CASE c.req = ui.req
    BY <1>2, <1>4, <1>5, <2>1 DEF RevenueInv, LoadsOwn, GridKept, Loads
  <2>2. CASE c.req # ui.req
    BY <1>2, <1>4, <1>5, <2>2 DEF RevenueInv, GridKept, Loads
  <2> QED BY <2>1, <2>2
<1> QED BY <1>6, <1>7, <1>8 DEF RevenueInv

LEMMA RevenueInit == Revenue!Init => RevenueInv
<1> SUFFICES ASSUME Revenue!Init  PROVE RevenueInv
  OBVIOUS
<1>1. PICK x \in Known :
        /\ ui = [page |-> "revenue", clicks |-> 0, channel |-> x, known |-> Known,
                 recs |-> [y \in Channel |-> Revenue!Empty], rows |-> Revenue!Empty,
                 of |-> None, dirty |-> FALSE, editing |-> FALSE, entry |-> None,
                 busy |-> TRUE, error |-> FALSE, req |-> 1, saved |-> None]
        /\ net = {Revenue!Load(x, 1, FALSE)}
  BY DEF Revenue!Init
<1>2. Revenue!Empty \in Sheet
  BY DEF Revenue!Empty, Sheet
<1>3. ui \in RevenueUi /\ ui.channel = x /\ ui.known = Known /\ ui.req = 1 /\ ui.of = None
  BY <1>1, <1>2, ChannelsAssumption DEF RevenueUi
<1>4. PICK c : c \in LoadCall /\ c.channel = x /\ c.req = 1 /\ net = {c}
  BY <1>1, ChannelsAssumption DEF Revenue!Load, LoadCall
<1>5. db \in [Channel -> Sheet]
  BY <1>2 DEF Revenue!Init, Sheet
<1>6. RevenueTyped
  BY <1>3, <1>4, <1>5 DEF RevenueTyped
<1>7. LoadsOwn /\ GridKept
  BY <1>3, <1>4 DEF LoadsOwn, GridKept, Loads
<1> QED BY <1>6, <1>7 DEF RevenueInv

LEMMA RevenueStep == RevenueInv /\ Revenue!Next => RevenueInv'
  BY GridActs, ChannelActs, SaveActs, ChannelAdded, RecordsLoaded DEF Revenue!Next

LEMMA RevenueHolds == RevenueInv => Revenue!TypeOK /\ Revenue!GridIsOwn
<1> SUFFICES ASSUME RevenueInv  PROVE Revenue!TypeOK /\ Revenue!GridIsOwn
  OBVIOUS
<1>1. Revenue!TypeOK
  BY DEF RevenueInv, RevenueTyped, RevenueUi, Sheet, Revenue!TypeOK
<1>2. Revenue!GridIsOwn
  BY DEF RevenueInv, GridKept, Loads, Revenue!GridIsOwn, Revenue!Calls
<1> QED BY <1>1, <1>2
=============================================================================
