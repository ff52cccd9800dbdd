------------------------------ MODULE BankPage ------------------------------
(***************************************************************************)
(* The bank page of the admin client (bank/page.tsx): the form for one     *)
(* row, the batch entry, the file import, the dialogs that ask about       *)
(* duplicates and special rows, and the handlers of the API they call      *)
(* (modules/bank/router.py).  Two rows are duplicates when store, day,     *)
(* counterparty and amount agree: their key.  The API answers a call or    *)
(* does nothing of it before the user tries again.                         *)
(***************************************************************************)
EXTENDS Browser

CONSTANTS Key   \* what makes rows duplicates of each other

EntryForm == {"single", "entry", "import"}
\* agreed: allow_duplicates; asked: the special type was confirmed; edit: the key of the
\* row that is edited.
Call(op, form, k) == [op |-> op, form |-> form, key |-> k, st |-> "sent", edit |-> None,
                      special |-> FALSE, asked |-> FALSE, agreed |-> FALSE, req |-> 0]

\* A row made with the form for one row without a word about duplicates, or any other.
Class(c) == IF c.form = "single" /\ ~c.agreed THEN "unasked" ELSE "other"
Rows(k) == db[k]["unasked"] + db[k]["other"]
-----------------------------------------------------------------------------
(* The API. *)

Duplicate(c) == Rows(c.key) > (IF c.edit = c.key THEN 1 ELSE 0) /\ ~c.agreed
Unserved(op) == {c \in Calls(op) : c.st = "sent"}

\* create looks for duplicates and commits later, without a lock; an import skips the
\* duplicates it finds.
CheckCreate == \E c \in Unserved("create") :
  /\ net' = (net \ {c}) \cup
       {[c EXCEPT !.st = IF ~Duplicate(c) THEN "checked"
                         ELSE IF c.form = "import" THEN "ok" ELSE "conflict"]}
  /\ UNCHANGED <<ui, db>>
\* Assumed: nobody else makes a row between the check and the commit, and an answer is lost
\* before the check or after the commit, so the page's own retry does not come between them.
CommitCreate == \E c \in Calls("create") :
  /\ c.st = "checked"
  /\ db' = [db EXCEPT ![c.key][Class(c)] = @ + 1]
  /\ net' \in {Resolve(c), Reject(c)}
  /\ UNCHANGED ui

\* update holds the mutation lock from the check to the commit.
ServeUpdate == \E c \in Unserved("update") :
  /\ \/ /\ Duplicate(c)
        /\ net' = (net \ {c}) \cup {[c EXCEPT !.st = "conflict"]}
        /\ UNCHANGED db
     \/ /\ ~Duplicate(c)
        /\ \E class \in {"unasked", "other"} :
             /\ db[c.edit][class] > 0
             /\ LET without == [db EXCEPT ![c.edit][class] = @ - 1]
                IN db' = [without EXCEPT ![c.key][IF c.edit = c.key THEN class ELSE Class(c)] = @ + 1]
        /\ net' \in {Resolve(c), Reject(c)}
     \/ Rows(c.edit) = 0 /\ net' = Reject(c) /\ UNCHANGED db
  /\ UNCHANGED ui

ServeDelete == \E c \in Unserved("delete") :
  /\ \/ \E class \in {"unasked", "other"} :
          /\ db[c.key][class] > 0
          /\ db' = [db EXCEPT ![c.key][class] = @ - 1]
          /\ net' \in {Resolve(c), Reject(c)}
     \/ Rows(c.key) = 0 /\ net' = Reject(c) /\ UNCHANGED db
  /\ UNCHANGED ui
-----------------------------------------------------------------------------
(* The submission of a form. *)

\* finally: the ref of the form for one row and the spinner of the page.
Finally(u, c) == [u EXCEPT !.ref = IF c.form = "single" THEN FALSE ELSE @, !.busy = FALSE]
AskDuplicate(u, c) == [Finally(u, c) EXCEPT !.duplicate = c]
AskSpecial(u, c) == [Finally(u, c) EXCEPT !.special = c]

\* From the validated form, or a confirmed dialog, to the next await; c is replaced.
Go(u, c, rest) ==
  IF c.edit = None /\ ~c.agreed /\ c.form # "import"
  THEN ui' = u /\ net' = rest \cup {[c EXCEPT !.op = "check"]}
  ELSE IF c.special /\ ~c.asked
  THEN ui' = AskSpecial(u, c) /\ net' = rest
  ELSE ui' = u /\ net' = rest \cup {[c EXCEPT !.op = IF c.edit = None THEN "create" ELSE "update"]}

\* submitTransaction returns at once while an earlier submission is out; isLoading, which
\* any load of the page clears, would not do.
Locked_Busy(c) == c.form = "single" /\ ui.busy
Locked(c) == c.form = "single" /\ ui.ref
Submit(u, c, rest) ==
  IF Locked(c) THEN ui' = u /\ net' = rest
  ELSE Go([u EXCEPT !.busy = TRUE, !.ref = IF c.form = "single" THEN TRUE ELSE @], c, rest)

\* What is in reach: a dialog covers its form, a form the page, the spinner the rows.
NoDialog == ui.duplicate = None /\ ui.special = None
Header == ui.form = None /\ NoDialog
Listed(k) == Header /\ ~ui.busy /\ Rows(k) > 0
MaySave == ui.form \in {"single", "entry"} /\ NoDialog /\ ~ui.busy /\ Room
MayImport == ui.form = "import" /\ NoDialog /\ ~ui.busy /\ Room

Press(k, special) ==
  /\ MaySave
  /\ special => ui.form = "single"
  /\ LET c == [Call("validate", ui.form, k) EXCEPT !.special = special, !.edit = ui.edit]
     IN c \notin net /\ net' = net \cup {c}
  /\ Do(ui)
  /\ UNCHANGED db
DoneValidate == \E c \in Calls("validate") :
  /\ Submit(ui, c, net \ {c})
  /\ UNCHANGED db

DoneCheck == \E c \in Calls("check"), answer \in Answer :
  /\ IF answer = "err" THEN ui' = Finally(ui, c) /\ net' = net \ {c}
     ELSE IF Rows(c.key) > 0 THEN ui' = AskDuplicate(ui, c) /\ net' = net \ {c}
     ELSE IF c.special /\ ~c.asked THEN ui' = AskSpecial(ui, c) /\ net' = net \ {c}
     ELSE UNCHANGED ui /\ net' = (net \ {c}) \cup {[c EXCEPT !.op = "create"]}
  /\ UNCHANGED db

ConfirmDuplicate ==
  /\ ui.duplicate # None
  /\ ui.clicks < MaxClicks
  /\ Submit([ui EXCEPT !.duplicate = None, !.clicks = @ + 1],
            [ui.duplicate EXCEPT !.agreed = TRUE, !.st = "sent"], net)
  /\ UNCHANGED db
ConfirmSpecial ==
  /\ ui.special # None /\ ~ui.busy
  /\ ui.clicks < MaxClicks
  /\ Submit([ui EXCEPT !.special = None, !.clicks = @ + 1],
            [ui.special EXCEPT !.asked = TRUE, !.st = "sent"], net)
  /\ UNCHANGED db
Decline ==
  /\ ~NoDialog
  /\ Do([ui EXCEPT !.duplicate = None, !.special = None])
  /\ UNCHANGED <<net, db>>

\* What was saved is followed by a load of the list and of the summary.
DoneSave == \E c \in Settled("create") \cup Settled("update") \cup Settled("delete") :
  /\ c.st # "checked"
  /\ IF c.st = "ok"
     THEN /\ ui' = [ui EXCEPT !.form = IF c.form \in EntryForm THEN None ELSE @,
                              !.edit = IF c.form = "single" THEN None ELSE @,
                              !.preview = IF c.form = "import" THEN None ELSE @,
                              !.req = @ + 1, !.busy = TRUE]
          /\ net' = (net \ {c}) \cup {[Call("load", c.form, c.key) EXCEPT !.req = ui.req + 1]}
     ELSE /\ ui' = IF c.st = "conflict" THEN AskDuplicate(ui, c) ELSE Finally(ui, c)
          /\ net' = net \ {c}
  /\ UNCHANGED db

\* loadData is numbered; of an overtaken load of the page nothing is left.
DoneLoad == \E c \in Calls("load") :
  /\ ui' = [ui EXCEPT !.busy = @ /\ c.req # ui.req]
  /\ net' = (net \ {c}) \cup (IF c.form = None THEN {} ELSE {[c EXCEPT !.op = "summary"]})
  /\ UNCHANGED db
DoneSummary == \E c \in Calls("summary") :
  /\ ui' = Finally(ui, c)
  /\ net' = net \ {c}
  /\ UNCHANGED db
-----------------------------------------------------------------------------
(* The rest of the page. *)

Reload ==
  /\ Room
  /\ Do([ui EXCEPT !.req = @ + 1, !.busy = TRUE])
  /\ net' = {c \in net : c.op = "load" => c.form # None} \cup
            {[Call("load", None, None) EXCEPT !.req = ui.req + 1]}
  /\ UNCHANGED db

\* The window gets the focus; the filter form is used.
Focus == Reload
Query == Header /\ Reload

Open(form) ==
  /\ Header
  /\ \E k \in {None} \cup (IF form = "single" THEN {j \in Key : Listed(j)} ELSE {}) :
       Do([ui EXCEPT !.form = form, !.edit = k, !.file = None, !.preview = None])
  /\ UNCHANGED <<net, db>>
\* Closing the form for one row takes its dialogs with it.
Close ==
  /\ ui.form # None
  /\ Do(IF ui.form = "single"
        THEN [ui EXCEPT !.form = None, !.edit = None, !.duplicate = None, !.special = None]
        ELSE [ui EXCEPT !.form = None])
  /\ UNCHANGED <<net, db>>

\* A preview is of the file that was chosen when it was asked for; an import takes the one
\* chosen now.
ChooseFile(k) ==
  /\ ui.form = "import" /\ NoDialog
  /\ Do([ui EXCEPT !.file = k, !.preview = None])
  /\ UNCHANGED <<net, db>>
Preview ==
  /\ MayImport /\ ui.file # None
  /\ Do([ui EXCEPT !.busy = TRUE])
  /\ net' = net \cup {Call("preview", "import", ui.file)}
  /\ UNCHANGED db
DonePreview == \E c \in Calls("preview"), answer \in Answer :
  /\ ui' = [Finally(ui, c) EXCEPT
       !.preview = IF answer = "ok" THEN [found |-> Rows(c.key) > 0] ELSE @]
  /\ net' = net \ {c}
  /\ UNCHANGED db
Import ==
  /\ MayImport /\ ui.preview # None /\ ui.file # None
  /\ LET c == Call("create", "import", ui.file)
     IN IF ui.preview.found
        THEN Do([ui EXCEPT !.duplicate = c]) /\ UNCHANGED net
        ELSE Do([ui EXCEPT !.busy = TRUE]) /\ net' = net \cup {c}
  /\ UNCHANGED db

\* One row, or the rows selected: the API removes all of them or none.
Delete(k) ==
  /\ Listed(k) /\ Room
  /\ Do([ui EXCEPT !.busy = TRUE])
  /\ net' = net \cup {Call("delete", "delete", k)}
  /\ UNCHANGED db
-----------------------------------------------------------------------------
Init ==
  /\ ui = [page |-> "bank", clicks |-> 0, form |-> None, edit |-> None, busy |-> TRUE,
           ref |-> FALSE, duplicate |-> None, special |-> None, file |-> None,
           preview |-> None, req |-> 1]
  /\ net = {[Call("load", None, None) EXCEPT !.req = 1]}
  /\ db = [k \in Key |-> [class \in {"unasked", "other"} |-> 0]]

Next ==
  \/ CheckCreate \/ CommitCreate \/ ServeUpdate \/ ServeDelete
  \/ Lose({"create", "update", "delete"})
  \/ \E k \in Key : ChooseFile(k) \/ Delete(k) \/ \E special \in BOOLEAN : Press(k, special)
  \/ DoneValidate \/ DoneCheck \/ ConfirmDuplicate \/ ConfirmSpecial \/ Decline
  \/ DoneSave \/ DoneLoad \/ DoneSummary
  \/ Focus \/ Query \/ Close \/ Preview \/ DonePreview \/ Import
  \/ \E form \in EntryForm : Open(form)

TypeOK ==
  /\ ui.form \in EntryForm \cup {None} /\ {ui.edit, ui.file} \subseteq Key \cup {None}
  /\ {ui.busy, ui.ref} \subseteq BOOLEAN
  /\ \A k \in Key : \A class \in DOMAIN db[k] : db[k][class] \in Nat

\* The form for one row never leaves two rows of a key without having asked whether the
\* second is meant, however often it is submitted while the API is at work between its
\* check and its commit, and whatever loads in between.
DuplicatesAsked == \A k \in Key : db[k]["unasked"] <= 1
=============================================================================
