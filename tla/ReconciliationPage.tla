------------------------- MODULE ReconciliationPage -------------------------
(***************************************************************************)
(* The approval reconciliation page of the admin client                    *)
(* (finance/reconciliation/page.tsx, workbench and records): the queue of  *)
(* bank rows of a store, the candidates of the selected row with their     *)
(* cache and preloading, the confirm and the edit dialog with the          *)
(* accounting plan they load, and the saves.  An item stands for its       *)
(* approval.  The voucher forms of the page are in Forms.                  *)
(***************************************************************************)
EXTENDS Browser, Functions

CONSTANTS Home,       \* the store in the address the page was opened with
          TxStore,    \* bank row -> its store
          ItemStore,  \* expense item -> its store
          MaxPlan     \* bound on the changes of an accounting plan

Tx == DOMAIN TxStore
Item == DOMAIN ItemStore
Status == {"candidate", "confirmed", "rejected"}
Closed == [kind |-> "none", tx |-> None, item |-> None, plan |-> None, ver |-> 0,
           ready |-> FALSE]

Call(op, s, t, i) ==
  [op |-> op, store |-> s, tx |-> t, item |-> i, plan |-> None, ver |-> 0,
   last |-> FALSE, st |-> "sent"]
Workspace(s) == Call("workspace", s, None, None)
Candidates(s, t) == Call("candidates", s, t, None)
Preload(s, t) == Call("preload", s, t, None)
PlanOf(i) == Call("plan", None, None, i)
-----------------------------------------------------------------------------
(* The API. *)

Confirmed == {r \in db.rows : r.st = "confirmed"}

\* A list is the rows the API had of a store at some moment: which of them are matched
\* by now is open, so only the store is kept and the answer may come with the response.
\* Candidates for a bank row of another store are refused.
Answers(c) == IF c.tx # None /\ TxStore[c.tx] # c.store THEN {"err"} ELSE Answer

\* The row of a pair, if there is one: the table has a unique constraint on the pair.
Pair(c) == {r \in db.rows : r.tx = c.tx /\ r.item = c.item}
NewRow(c) == [tx |-> c.tx, item |-> c.item, st |-> "candidate", plan |-> c.plan, ver |-> c.ver]
\* A row that asks for no plan leaves the approval's as it is.
PlanAccepted_Blind(r) == TRUE
PlanAccepted(r) == r.plan = None \/ r.ver = db.plan[r.item]
CreateAllowed(c) ==
  /\ TxStore[c.tx] = ItemStore[c.item]
  /\ PlanAccepted(c)
  /\ \A r \in Pair(c) : r.st # "confirmed"

\* create_match_candidate: the pair's unconfirmed row is used again.
ServeCreate == \E c \in Calls("create") :
  /\ c.st = "sent"
  /\ IF CreateAllowed(c)
     THEN /\ db' = [db EXCEPT !.rows = (@ \ Pair(c)) \cup {NewRow(c)}]
          /\ net' \in {Resolve(c), Reject(c)}
     ELSE net' = Reject(c) /\ UNCHANGED db
  /\ UNCHANGED ui

\* confirm_match and update_reconciliation_record: the plan the row asks for is checked
\* again and saved when it differs.
PlanChanges == FoldFunction(+, 0, db.plan)
SavePlan(r, old, st) ==
  \E changed \in BOOLEAN :
    /\ changed => r.plan # None /\ PlanChanges < MaxPlan
    /\ db' = [db EXCEPT !.rows = (@ \ {old}) \cup {[r EXCEPT !.st = st]},
                        !.plan[r.item] = IF changed THEN @ + 1 ELSE @,
                        !.saw[r.item] = IF changed THEN r.ver ELSE @]
\* A match that is confirmed already is answered as such and left alone.
ServeConfirm == \E c \in Calls("confirm"), r \in db.rows :
  /\ c.st = "sent" /\ r \in Pair(c)
  /\ IF r.st = "candidate" /\ PlanAccepted(r)
     THEN SavePlan(r, r, "confirmed") /\ net' \in {Resolve(c), Reject(c)}
     ELSE /\ net' \in (IF r.st = "confirmed" THEN {Resolve(c)} ELSE {}) \cup {Reject(c)}
          /\ UNCHANGED db
  /\ UNCHANGED ui
\* The rows of the edit dialog are those of the record's own approval, and its form has no
\* field for one of them: the page never moves a match to another approval or store.  The
\* move the API also allows is an action of Reconciliation.
ServeEdit == \E c \in Calls("edit"), r \in Confirmed :
  /\ c.st = "sent" /\ r \in Pair(c)
  /\ LET asked == [r EXCEPT !.plan = c.plan, !.ver = c.ver]
     IN \/ /\ PlanAccepted(asked)
           /\ SavePlan(asked, r, "confirmed")
           /\ net' \in {Resolve(c), Reject(c)}
        \/ /\ ~PlanAccepted(asked) /\ net' = Reject(c) /\ UNCHANGED db
  /\ UNCHANGED ui
ServeUnmatch == \E c \in Calls("unmatch") :
  /\ c.st = "sent"
  /\ db' = [db EXCEPT !.rows = {IF r \in Pair(c) /\ r.st = "confirmed"
                                THEN [r EXCEPT !.st = "rejected"] ELSE r : r \in @}]
  /\ net' \in {Resolve(c), Reject(c)}
  /\ UNCHANGED ui

\* Another user changes the plan of an approval.
OtherPlan == \E i \in Item :
  /\ PlanChanges < MaxPlan
  /\ db' = [db EXCEPT !.plan[i] = @ + 1, !.saw[i] = db.plan[i]]
  /\ UNCHANGED <<ui, net>>
-----------------------------------------------------------------------------
(* Loads. *)

Select(u, t, cands) == [u EXCEPT !.tx = t, !.cands = cands, !.cand = None]
\* loadStoreWorkspace: the candidates cache is emptied when the load starts; the records
\* are loaded with it, by a numbered load (LatestAnswer).
Emptied(u) == [u EXCEPT !.cache = {}]
LoadWorkspace(s, last) == {[Workspace(s) EXCEPT !.last = last]}

DoneWorkspace == \E c \in Calls("workspace"), answer \in Answer :
  /\ ui' = LET v == [ui EXCEPT !.saving = IF c.last THEN FALSE ELSE @]
           IN IF answer = "ok" THEN Select([v EXCEPT !.list = c.store], None, None) ELSE v
  /\ After(c, {})
  /\ UNCHANGED db

\* preloadNextTransactions: more rows of the list, unless cached or on their way.
Preloads(s, t) == {Preload(s, x) : x \in {y \in Tx : TxStore[y] = ui.list} \ ({t} \cup ui.cache)}

DoneCandidates == \E c \in Calls("candidates") : \E answer \in Answers(c) :
  /\ ui' = IF answer = "ok"
           THEN [Select(ui, ui.tx, c.store) EXCEPT
                   !.cache = IF c.last THEN @ ELSE @ \cup {c.tx}]
           ELSE ui
  /\ After(c, IF c.last THEN {} ELSE Preloads(c.store, c.tx))
  /\ UNCHANGED db

DonePreload == \E c \in Calls("preload") : \E answer \in Answers(c) :
  /\ ui' = IF answer = "ok" THEN [ui EXCEPT !.cache = @ \cup {c.tx}] ELSE ui
  /\ After(c, {})
  /\ UNCHANGED db

NoDialog == ui.dlg.kind = "none"

\* What the page offers: the controls of its header, the bank rows in the list of the
\* selected store, the candidates, the matched records, and the two dialogs.
Header == NoDialog /\ Room
Listed(t) == NoDialog /\ ui.store # None /\ TxStore[t] = ui.list
Offered(i) == NoDialog /\ ItemStore[i] = ui.cands
Recorded(i) == {r \in Confirmed : NoDialog /\ ui.store # None /\ r.item = i}
MayConfirm == ui.dlg.kind = "confirm" /\ ui.dlg.ready /\ ~ui.saving
MayEdit == ui.dlg.kind = "edit" /\ ui.dlg.ready /\ ~ui.saving

\* The select of the page, or the route's store; the effects load and reset.
SwitchStore(s) ==
  /\ Header /\ s # ui.store
  /\ Do([Emptied(ui) EXCEPT !.store = s])
  /\ net' = Start(LoadWorkspace(s, FALSE))
  /\ UNCHANGED db

\* The window gets the focus again, or the refresh button.
Focus ==
  /\ ui.store # None /\ Room
  /\ Do(Emptied(ui))
  /\ net' = Start(LoadWorkspace(ui.store, FALSE))
  /\ UNCHANGED db

SelectTransaction(t) ==
  /\ Listed(t) /\ t # ui.tx
  /\ IF t \in ui.cache
     THEN /\ Do(Select(ui, t, TxStore[t]))
          /\ net' = Start(Preloads(ui.store, t))
     ELSE /\ Room
          /\ Do([ui EXCEPT !.tx = t])
          /\ net' = Start({Candidates(ui.store, t)})
  /\ UNCHANGED db

\* The filter form searches by approval number or template, with or without a bank row;
\* its result is not cached and nothing is preloaded after it (last).
Search ==
  /\ Header /\ ui.store # None
  /\ net' = Start({[Candidates(ui.store, ui.tx) EXCEPT !.last = TRUE]})
  /\ Do(ui)
  /\ UNCHANGED db

PickCandidate(i) ==
  /\ Offered(i)
  /\ Do([ui EXCEPT !.cand = i])
  /\ UNCHANGED <<net, db>>
-----------------------------------------------------------------------------
(* The two dialogs and what they save. *)

Overtaken_None == {}
\* What ++accountingRequestVersion.current leaves without effect, when a dialog is opened
\* and when it is closed: the items and the plan of another dialog's approval.
Overtaken == Calls("plan")
LoadPlan(i) == (net \ Overtaken) \cup {PlanOf(i)}

OpenConfirm ==
  /\ Header /\ ui.tx # None /\ ui.cand # None
  /\ Do([ui EXCEPT !.dlg = [Closed EXCEPT !.kind = "confirm", !.tx = ui.tx,
                                           !.item = ui.cand]])
  /\ net' = LoadPlan(ui.cand)
  /\ UNCHANGED db

OpenEdit(i) ==
  /\ Room
  /\ \E r \in Recorded(i) :
       Do([ui EXCEPT !.dlg = [Closed EXCEPT !.kind = "edit", !.tx = r.tx, !.item = i]])
  /\ net' = LoadPlan(i)
  /\ UNCHANGED db

DonePlan == \E c \in Calls("plan"), answer \in Answer :
  /\ ui' = [ui EXCEPT !.dlg = IF answer = "ok" /\ @.kind # "none"
              THEN [@ EXCEPT !.plan = c.item, !.ver = db.plan[c.item], !.ready = TRUE] ELSE @]
  /\ After(c, {})
  /\ UNCHANGED db

Cancel ==
  /\ ~NoDialog /\ ~ui.saving
  /\ Do([ui EXCEPT !.dlg = Closed])
  /\ net' = net \ Overtaken
  /\ UNCHANGED db

\* accountingPayload: an approval without a plan may be left without one.
Planned(c) ==
  {[c EXCEPT !.plan = p, !.ver = ui.dlg.ver] :
     p \in {ui.dlg.plan} \cup (IF ui.dlg.ver = 0 THEN {None} ELSE {})}

\* The selection may have been reset under the dialog: then nothing is sent.
SubmitConfirm ==
  /\ MayConfirm
  /\ ui.tx # None /\ ui.cand # None
  /\ Do([ui EXCEPT !.saving = TRUE])
  /\ \E c \in Planned(Call("create", ui.store, ui.tx, ui.cand)) : net' = Start({c})
  /\ UNCHANGED db

\* The categories of the items are saved between the two calls; one that fails ends it.
DoneCreate == \E c \in Settled("create"), categories \in Answer :
  /\ IF "err" \notin {c.st, categories}
     THEN UNCHANGED ui /\ After(c, {[c EXCEPT !.op = "confirm", !.st = "sent"]})
     ELSE ui' = [ui EXCEPT !.saving = FALSE] /\ After(c, {})
  /\ UNCHANGED db

SubmitEdit ==
  /\ MayEdit
  /\ Do([ui EXCEPT !.saving = TRUE])
  /\ \E c \in Planned(Call("edit", ui.store, ui.dlg.tx, ui.dlg.item)) : net' = Start({c})
  /\ UNCHANGED db

\* Not disabled while something is saved.
Unmatch(i) ==
  /\ Room
  /\ \E r \in Recorded(i) :
       net' = Start({Call("unmatch", ui.store, r.tx, i)})
  /\ Do([ui EXCEPT !.saving = TRUE])
  /\ UNCHANGED db

\* The store reloaded is the one selected when the save began.
DoneSave == \E c \in Settled("confirm") \cup Settled("edit") \cup Settled("unmatch") :
  /\ IF c.st = "ok"
     THEN /\ ui' = [Emptied(ui) EXCEPT
                      !.dlg = IF c.op = "unmatch" THEN @ ELSE Closed]
          /\ After(c, LoadWorkspace(c.store, TRUE))
     ELSE ui' = [ui EXCEPT !.saving = FALSE] /\ After(c, {})
  /\ UNCHANGED db
-----------------------------------------------------------------------------
Init ==
  /\ ui = [page |-> "reconciliation", clicks |-> 0, store |-> Home, list |-> None, tx |-> None,
           cands |-> None, cand |-> None, cache |-> {}, dlg |-> Closed, saving |-> FALSE]
  /\ net = LoadWorkspace(Home, FALSE)
  /\ db = [rows |-> {}, plan |-> [i \in Item |-> 0], saw |-> [i \in Item |-> 0]]

Next ==
  \/ ServeCreate \/ ServeConfirm \/ ServeEdit \/ ServeUnmatch \/ Lose({"create", "confirm", "edit", "unmatch"})
  \/ OtherPlan
  \/ DoneWorkspace \/ DoneCandidates \/ DonePreload
  \/ DonePlan \/ DoneCreate \/ DoneSave
  \/ \E s \in Store : SwitchStore(s)
  \/ Focus \/ Search
  \/ \E t \in Tx : SelectTransaction(t)
  \/ \E i \in Item : PickCandidate(i) \/ OpenEdit(i) \/ Unmatch(i)
  \/ OpenConfirm \/ Cancel \/ SubmitConfirm \/ SubmitEdit

Spec == Init /\ [][Next]_vars

TypeOK ==
  /\ {ui.store, ui.list, ui.cands} \subseteq Store \cup {None}
  /\ ui.tx \in Tx \cup {None} /\ ui.cand \in Item \cup {None} /\ ui.cache \subseteq Tx
  /\ ui.dlg.kind \in {"none", "confirm", "edit"} /\ ui.saving \in BOOLEAN
  /\ \A r \in db.rows : r.tx \in Tx /\ r.item \in Item /\ r.st \in Status
  /\ db.plan \in [Item -> 0..MaxPlan]

\* The accounting plan a dialog shows and sends was loaded for the approval the dialog
\* is about, however late the plan of a dialog closed before it arrives.
PlanIsOwn ==
  /\ ui.dlg.ready => ui.dlg.plan = ui.dlg.item
  /\ \A r \in db.rows : r.plan \in {None, r.item}

\* A plan is only overwritten by someone who was shown the version it replaces.
NoBlindOverwrite == \A i \in Item : db.plan[i] > 0 => db.saw[i] = db.plan[i] - 1
=============================================================================
