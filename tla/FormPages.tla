----------------------------- MODULE FormPages -----------------------------
(***************************************************************************)
(* The forms and row buttons that send one save to the API.  They are the  *)
(* same machine and differ in what holds a second press back; the profile  *)
(* of a form says what its handler and its dialog do:                      *)
(*   late        the handler awaits its own validation before it raises    *)
(*               the busy flag (onFinish validates before the handler)     *)
(*   background  a load that runs by itself clears the busy flag           *)
(*   unique      the API takes the same filling once, or its repetition    *)
(*               changes nothing                                           *)
(*   second      another call follows the save: files, or a confirmation   *)
(*   reloads     the page loads its list before it lowers the flag         *)
(*   closable    the dialog can be closed while the save is out            *)
(*   enter       the Enter key in a field saves, busy or not               *)
(*   inline      the form is part of the page and always open              *)
(*   direct      a row button: no dialog, the press is the filling         *)
(* A filling is what the user enters between two openings of the form.     *)
(* Forms are submitted with their button; Enter is modelled where a field  *)
(* asks for it by itself.                                                  *)
(***************************************************************************)
EXTENDS Browser

CONSTANTS Form,     \* the forms
          Profile   \* form -> its profile

Has(feature) == feature \in Profile[ui.form]
Dialog == ~Has("inline") /\ ~Has("direct")
Call(op, fill) == [op |-> op, fill |-> fill, st |-> "sent"]
Fills == 0..MaxClicks
-----------------------------------------------------------------------------
\* The dialog is opened, or what an inline form holds is replaced.  The overlay of a
\* dialog or of a loading table holds row buttons back.
Open ==
  /\ ~Has("direct") /\ (Dialog => ~ui.open)
  /\ Do([ui EXCEPT !.open = TRUE, !.fill = @ + 1])
  /\ UNCHANGED <<net, db>>

MayClose_Always == Dialog /\ ui.open
MayClose == Dialog /\ ui.open /\ (ui.busy => Has("closable"))

Close ==
  /\ MayClose
  /\ Do([ui EXCEPT !.open = FALSE])
  /\ UNCHANGED <<net, db>>

\* The button with the busy flag on it shows a spinner and takes no press.
Enabled_Always == ui.open
Enabled == ui.open /\ (~ui.busy \/ Has("enter"))

Submit ==
  /\ ~Has("direct") /\ Enabled /\ Room
  /\ IF Has("late")
     THEN Do(ui) /\ net' = net \cup {Call("validate", ui.fill)}
     ELSE Do([ui EXCEPT !.busy = TRUE]) /\ net' = net \cup {Call("save", ui.fill)}
  /\ UNCHANGED db

Press ==
  /\ Has("direct") /\ ~ui.busy /\ Room
  /\ Do([ui EXCEPT !.fill = @ + 1, !.busy = TRUE])
  /\ net' = net \cup {Call("save", ui.fill + 1)}
  /\ UNCHANGED db

\* The form is valid: the handler goes on with the busy flag it was rendered with.
DoneValidate == \E c \in Calls("validate") :
  /\ ui' = [ui EXCEPT !.busy = TRUE]
  /\ After(c, {Call("save", c.fill)})
  /\ UNCHANGED db

Invalid == \E c \in Calls("validate") : net' = net \ {c} /\ UNCHANGED <<ui, db>>
-----------------------------------------------------------------------------
Unanswered == {c \in Calls("save") : c.st = "sent"}

Serve == \E c \in Unanswered :
  /\ IF Has("unique") /\ db[c.fill] > 0
     THEN net' \in {Resolve(c), Reject(c)} /\ UNCHANGED db
     ELSE \/ /\ net' \in {Resolve(c), Reject(c)}
             /\ db' = [db EXCEPT ![c.fill] = @ + 1]
          \/ net' = Reject(c) /\ UNCHANGED db
  /\ UNCHANGED ui

\* The form is closed or emptied, whatever it holds by now.
Emptied(c) == [ui EXCEPT !.open = ~Dialog, !.busy = Has("reloads"),
                         !.fill = IF Has("inline") THEN @ + 1 ELSE @,
                         !.lost = IF ui.open /\ ui.fill # c.fill THEN TRUE ELSE @]
Finish(c) == /\ ui' = Emptied(c)
             /\ After(c, IF Has("reloads") THEN {Call("load", c.fill)} ELSE {})

\* The error is shown and what was entered stays.
Fail(c) == /\ ui' = [ui EXCEPT !.busy = FALSE, !.erred = @ \cup {c.fill}]
           /\ net' = net \ {c}

DoneSave == \E c \in Settled("save") :
  /\ IF c.st = "err" THEN Fail(c)
     ELSE IF Has("second") THEN After(c, {Call("second", c.fill)}) /\ UNCHANGED ui
     ELSE Finish(c)
  /\ UNCHANGED db

DoneSecond == \E c \in Calls("second"), answer \in Answer :
  /\ IF answer = "ok" THEN Finish(c) ELSE Fail(c)
  /\ UNCHANGED db

\* A failed load shows its own error; the flag is lowered either way.
DoneLoad == \E c \in Calls("load") :
  /\ ui' = [ui EXCEPT !.busy = FALSE]
  /\ net' = net \ {c}
  /\ UNCHANGED db

\* A focus refresh, a finished job or a change of the store ran a load to its end.
Background ==
  /\ Has("background") /\ ui.busy
  /\ Do([ui EXCEPT !.busy = FALSE])
  /\ UNCHANGED <<net, db>>
-----------------------------------------------------------------------------
Show(g) == [page |-> "form", form |-> g, clicks |-> 0, busy |-> FALSE, lost |-> FALSE,
            open |-> "inline" \in Profile[g], fill |-> 0, erred |-> {}]
Init ==
  /\ \E g \in Form : ui = Show(g)
  /\ net = {}
  /\ db = [i \in Fills |-> 0]

Next == \/ Open \/ Close \/ Submit \/ Press \/ DoneValidate \/ Invalid
        \/ Serve \/ DoneSave \/ DoneSecond \/ DoneLoad \/ Background
Spec == Init /\ [][Next]_vars
-----------------------------------------------------------------------------
TypeOK ==
  /\ ui.form \in Form /\ {ui.open, ui.busy, ui.lost} \subseteq BOOLEAN
  /\ ui.erred \subseteq Nat /\ ui.fill \in Nat
  /\ \A c \in net : c.op \in {"validate", "save", "second", "load"} /\ c.fill \in Nat
  /\ \A i \in DOMAIN db : db[i] \in Nat

\* A form that nothing else makes ready again saves a filling a second time only after it
\* has shown the user that the first time failed.
Held == Profile[ui.form] \cap {"late", "background", "enter"} = {}
SavedOnce == Held \/ Has("unique") =>
  \A i \in DOMAIN db : db[i] > 1 => i \in ui.erred

\* A form that cannot be closed while it saves never throws away a filling but the one it
\* has saved.
InputKept == Held /\ ~Has("closable") /\ ~Has("inline") => ~ui.lost
=============================================================================
