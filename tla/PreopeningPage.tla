--------------------------- MODULE PreopeningPage ---------------------------
(***************************************************************************)
(* Pre-opening expenses: the matching page of a store                      *)
(* (store-ledgers/[storeId]/preopening/page.tsx) and the handlers it calls *)
(* (modules/preopening/router.py).  The API serializes its mutations by    *)
(* mutation_lock and the row locks; what is left to interleave is several  *)
(* calls of this page.  A payment settlement that protects a bank row is   *)
(* the subject of Reconciliation and left out.                             *)
(***************************************************************************)
EXTENDS Browser, FiniteSetsExt

CONSTANTS Bank,      \* bank row -> its amount
          Approval   \* approval -> the total of its items

Call(op, b, a, n) == [op |-> op, bank |-> b, appr |-> a, amount |-> n, st |-> "sent"]
Amounts(rows) == MapThenSumSet(LAMBDA r : r.amount, rows)
Confirmed == {r \in db.rows : r.st = "confirmed"}
Active == {r \in db.rows : r.st # "rejected"}
-----------------------------------------------------------------------------
(* The API. *)

Occupied(b) == \E r \in Active : r.bank = b
\* The approval as it was read, before another call of the page was served.
Fits_Unpaid(c) == c.amount <= Bank[c.bank] /\ c.amount <= Approval[c.appr]
Fits(c) ==
  /\ c.amount <= Bank[c.bank]
  /\ c.amount + Amounts({r \in Confirmed : r.appr = c.appr}) <= Approval[c.appr]

\* confirm: the row of the pair is used again.
ServeConfirm == \E c \in Calls("confirm") :
  /\ c.st = "sent"
  /\ \/ /\ ~db.closed /\ ~Occupied(c.bank) /\ Fits(c)
        /\ db' = [db EXCEPT
             !.rows = {r \in @ : <<r.bank, r.appr>> # <<c.bank, c.appr>>} \cup
                      {[bank |-> c.bank, appr |-> c.appr, amount |-> c.amount,
                        st |-> "confirmed"]},
             !.matched[c.bank] = c.amount]
        /\ net' \in {Resolve(c), Reject(c)}
     \/ /\ db.closed \/ Occupied(c.bank) \/ ~Fits(c)
        /\ net' = Reject(c) /\ UNCHANGED db
  /\ UNCHANGED ui

\* unmatch does not ask whether the row is still confirmed; matched_amount is recomputed.
UnmatchAllowed == ~db.closed
ServeUnmatch == \E c \in Calls("unmatch") :
  /\ c.st = "sent"
  /\ \/ /\ UnmatchAllowed
        /\ LET left == {r \in db.rows : <<r.bank, r.appr>> # <<c.bank, c.appr>>}
           IN db' = [db EXCEPT
                !.rows = left \cup {[r EXCEPT !.st = "rejected"] : r \in db.rows \ left},
                !.matched[c.bank] = Amounts({r \in left : r.bank = c.bank /\ r \in Confirmed})]
        /\ net' \in {Resolve(c), Reject(c)}
     \/ ~UnmatchAllowed /\ net' = Reject(c) /\ UNCHANGED db
  /\ UNCHANGED ui

ServeClose == \E c \in Calls("close") :
  /\ c.st = "sent"
  /\ db' = [db EXCEPT !.closed = TRUE]
  /\ net' \in {IF db.closed THEN Reject(c) ELSE Resolve(c), Reject(c)}
  /\ UNCHANGED ui
-----------------------------------------------------------------------------
(* The page.  ui.rows and ui.closed are the workspace as it was last loaded, ui.cands
   whether the candidates of the selected row have arrived. *)

\* load is numbered by generation.current; the candidates by the cleanup of their effect.
Load == Call("load", None, None, 0)
DoneLoad == \E c \in Calls("load"), answer \in Answer :
  /\ ui' = IF answer = "ok" THEN [ui EXCEPT !.rows = Confirmed, !.closed = db.closed] ELSE ui
  /\ After(c, {})
  /\ UNCHANGED db

\* What the page offers: the bank rows not matched yet, and the submission.
Listed(b) == ui.dlg = "none" /\ ~ui.closed /\ ~ \E r \in ui.rows : r.bank = b
MaySubmit == /\ ui.dlg = "confirm" /\ ~ui.saving /\ ~ui.closed
             /\ None \notin {ui.bank, ui.appr}

SelectBank(b) ==
  /\ Listed(b) /\ b # ui.bank
  /\ Do([ui EXCEPT !.bank = b, !.appr = None, !.cands = FALSE])
  /\ net' = Restart({Call("candidates", b, None, 0)})
  /\ UNCHANGED db

DoneCandidates == \E c \in Calls("candidates"), answer \in Answer :
  /\ ui' = [ui EXCEPT !.cands = answer = "ok"]
  /\ After(c, {})
  /\ UNCHANGED db

SelectApproval(a) ==
  /\ ui.dlg = "none" /\ ui.cands
  /\ Do([ui EXCEPT !.appr = a])
  /\ UNCHANGED <<net, db>>

OpenConfirm ==
  /\ ui.dlg = "none" /\ None \notin {ui.bank, ui.appr} /\ ~ui.closed
  /\ Calls("candidates") = {}
  /\ Do([ui EXCEPT !.dlg = "confirm"])
  /\ UNCHANGED <<net, db>>

\* The button is disabled by saving, which is set after the form has been validated: a
\* click that comes before that runs the handler once more.
Submit(n) ==
  /\ MaySubmit /\ Room
  /\ Call("validate", ui.bank, ui.appr, n) \notin net
  /\ Do(ui)
  /\ net' = Start({Call("validate", ui.bank, ui.appr, n)})
  /\ UNCHANGED db
DoneValidate == \E c \in Calls("validate") :
  /\ ui' = [ui EXCEPT !.saving = TRUE]
  /\ After(c, {[c EXCEPT !.op = "confirm"]})
  /\ UNCHANGED db

Ask(action) ==
  /\ ui.dlg = "none" /\ ~ui.closed
  /\ Do([ui EXCEPT !.dlg = action])
  /\ UNCHANGED <<net, db>>
Execute ==
  /\ ui.dlg \in {"close", "unmatch"} /\ ~ui.saving
  /\ Do([ui EXCEPT !.saving = TRUE])
  /\ \/ ui.dlg = "close" /\ net' = Start({Call("close", None, None, 0)})
     \/ /\ ui.dlg = "unmatch"
        /\ \E r \in ui.rows : net' = Start({Call("unmatch", r.bank, r.appr, 0)})
  /\ UNCHANGED db

\* On success the dialog goes, and the selection with it after a match; then load.
DoneSave == \E c \in Settled("confirm") \cup Settled("unmatch") \cup Settled("close") :
  /\ IF c.st = "ok"
     THEN /\ ui' = [ui EXCEPT !.dlg = "none", !.saving = FALSE,
                              !.bank = IF c.op = "confirm" THEN None ELSE @,
                              !.appr = IF c.op = "confirm" THEN None ELSE @]
          /\ net' = {d \in net \ {c} : d.op # "load"} \cup {Load}
     ELSE ui' = [ui EXCEPT !.saving = FALSE] /\ After(c, {})
  /\ UNCHANGED db

Cancel ==
  /\ ui.dlg # "none" /\ ~ui.saving
  /\ Do([ui EXCEPT !.dlg = "none"])
  /\ UNCHANGED <<net, db>>
-----------------------------------------------------------------------------
Init ==
  /\ ui = [page |-> "preopening", clicks |-> 0, rows |-> {}, closed |-> FALSE,
           bank |-> None, appr |-> None, cands |-> FALSE, dlg |-> "none", saving |-> FALSE]
  /\ net = {Load}
  /\ db = [rows |-> {}, matched |-> [b \in DOMAIN Bank |-> 0], closed |-> FALSE]

Next ==
  \/ ServeConfirm \/ ServeUnmatch \/ ServeClose \/ Lose({"confirm", "unmatch", "close"})
  \/ DoneLoad \/ DoneCandidates \/ DoneValidate \/ DoneSave
  \/ \E b \in DOMAIN Bank : SelectBank(b)
  \/ \E a \in DOMAIN Approval : SelectApproval(a)
  \/ \E n \in 1..Max({Bank[b] : b \in DOMAIN Bank}) : Submit(n)
  \/ \E action \in {"close", "unmatch"} : Ask(action)
  \/ OpenConfirm \/ Execute \/ Cancel

TypeOK ==
  /\ ui.bank \in DOMAIN Bank \cup {None} /\ ui.appr \in DOMAIN Approval \cup {None}
  /\ ui.dlg \in {"none", "confirm", "close", "unmatch"}
  /\ \A r \in db.rows : r.bank \in DOMAIN Bank /\ r.appr \in DOMAIN Approval
  /\ db.matched \in [DOMAIN Bank -> Nat]

\* Two clicks, or a second try after a lost answer, neither use a bank row twice nor pay
\* an approval beyond its total, and what a row counts as matched is what its matches say.
UsedOnce ==
  /\ \A q, r \in Confirmed : q.bank = r.bank => q = r
  /\ \A a \in DOMAIN Approval :
       Amounts({r \in Confirmed : r.appr = a}) <= Approval[a]
  /\ \A b \in DOMAIN Bank : db.matched[b] = Amounts({r \in Confirmed : r.bank = b})
=============================================================================
