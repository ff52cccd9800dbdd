--------------------------- MODULE AdminWebProofs ---------------------------
(***************************************************************************)
(* Proofs about AdminWeb.  The other pages first, each with an inductive   *)
(* invariant as in FinancePagesProofs: the forms, the bank page, the       *)
(* synchronization page and the row of tabs.  A page keeps its own name    *)
(* and a step is the step of the page that is shown, so the invariants of  *)
(* all pages together are an invariant of the client, and what each page   *)
(* promises holds for every value of the constants.                        *)
(***************************************************************************)
EXTENDS FinancePagesProofs, SequenceTheorems
-----------------------------------------------------------------------------
(* The forms and row buttons.  A form that nothing but its own handler makes ready again
   has at most one call out, and none while it takes a press; a filling that has been saved
   is then still on the screen only while its call is out or after the user has seen it
   fail. *)

FormUi == [page : {"form"}, form : Form, clicks : Nat, busy : BOOLEAN, lost : BOOLEAN,
           open : BOOLEAN, fill : Nat, erred : SUBSET Nat]
FormCall == [op : {"validate", "save", "second", "load"}, fill : Nat,
             st : {"sent", "ok", "err"}]
Typed == ui \in FormUi /\ net \subseteq FormCall /\ db \in [Submits!Fills -> Nat]

\* No filling has been saved before the user has entered it.
Entered ==
  /\ \A c \in net : c.fill <= ui.fill
  /\ \A i \in Submits!Fills : i > ui.fill => db[i] = 0

OneCall ==
  Submits!Held => /\ \A c, d \in net : c = d
                  /\ net # {} => ui.busy
                  /\ \A c \in net : c.op # "validate"

\* The two reasons for a filling to be saved once.
UniqueOnce == Submits!Has("unique") => \A i \in Submits!Fills : db[i] <= 1
HeldOnce ==
  Submits!Held => /\ \A i \in Submits!Fills : db[i] > 1 => i \in ui.erred
                  /\ \A c \in net : c.op = "save" /\ c.st = "sent" /\ c.fill \in Submits!Fills =>
                       db[c.fill] = 0 \/ c.fill \in ui.erred

\* What the open form holds is new, or failed, or on its way.
Saves(c) == c.op \in {"save", "second"}
FormNew ==
  Submits!Held /\ ui.open /\ ~Submits!Has("direct") /\ ui.fill \in Submits!Fills =>
    \/ db[ui.fill] = 0 \/ ui.fill \in ui.erred
    \/ \E c \in net : Saves(c) /\ c.fill = ui.fill

\* Under a dialog that stays while it saves, the filling stays too.
Locks == Submits!Held /\ ~Submits!Has("closable") /\ ~Submits!Has("inline")
FillingStays ==
  Locks => /\ ~ui.lost
           /\ \A c \in net : Saves(c) => c.fill = ui.fill /\ (Submits!Dialog => ui.open)

FormsInv == Typed /\ Entered /\ OneCall /\ UniqueOnce /\ HeldOnce /\ FormNew /\ FillingStays
-----------------------------------------------------------------------------
LEMMA FormsInit == Submits!Init => FormsInv
<1> SUFFICES ASSUME Submits!Init  PROVE FormsInv
  OBVIOUS
<1>1. PICK g \in Form : ui = Submits!Show(g)
  BY DEF Submits!Init
<1>2. ui \in FormUi /\ ui.fill = 0 /\ ~ui.lost
  BY <1>1 DEF Submits!Show, FormUi
<1>3. net = {} /\ db \in [Submits!Fills -> Nat] /\ \A i \in Submits!Fills : db[i] = 0
  BY DEF Submits!Init
<1> QED
  BY <1>2, <1>3
  DEF FormsInv, Typed, Entered, OneCall, UniqueOnce, HeldOnce, FormNew, FillingStays

(* What the assignments of the handlers do to the state of the form. *)

Fields(v, u, open, busy, lost, fill, erred) ==
  /\ v \in FormUi /\ v.form = u.form
  /\ v.open = open /\ v.busy = busy /\ v.lost = lost /\ v.fill = fill /\ v.erred = erred

FormRow(u, open, busy, lost, fill, erred) ==
  [page |-> "form", form |-> u.form, clicks |-> u.clicks, busy |-> busy, lost |-> lost,
   open |-> open, fill |-> fill, erred |-> erred]

LEMMA FormRowFields ==
  ASSUME NEW u \in FormUi, NEW open \in BOOLEAN, NEW busy \in BOOLEAN, NEW lost \in BOOLEAN,
         NEW fill \in Nat, NEW erred \in SUBSET Nat
  PROVE  Fields(FormRow(u, open, busy, lost, fill, erred), u, open, busy, lost, fill, erred)
  BY DEF FormRow, FormUi, Fields

LEMMA Assigned ==
  ASSUME NEW u \in FormUi, NEW open \in BOOLEAN, NEW busy \in BOOLEAN, NEW lost \in BOOLEAN,
         NEW fill \in Nat, NEW erred \in SUBSET Nat
  PROVE  /\ Fields([u EXCEPT !.open = open, !.fill = fill],
                   u, open, u.busy, u.lost, fill, u.erred)
         /\ Fields([u EXCEPT !.open = open], u, open, u.busy, u.lost, u.fill, u.erred)
         /\ Fields([u EXCEPT !.busy = busy], u, u.open, busy, u.lost, u.fill, u.erred)
         /\ Fields([u EXCEPT !.fill = fill, !.busy = busy],
                   u, u.open, busy, u.lost, fill, u.erred)
         /\ Fields([u EXCEPT !.busy = busy, !.erred = erred],
                   u, u.open, busy, u.lost, u.fill, erred)
         /\ Fields([u EXCEPT !.open = open, !.busy = busy, !.fill = fill, !.lost = lost],
                   u, open, busy, lost, fill, u.erred)
         /\ Fields(u, u, u.open, u.busy, u.lost, u.fill, u.erred)
<1>1. /\ u.open \in BOOLEAN /\ u.busy \in BOOLEAN /\ u.lost \in BOOLEAN
      /\ u.fill \in Nat /\ u.erred \in SUBSET Nat
  BY DEF FormUi
<1>2. ASSUME NEW v, v = [u EXCEPT !.open = open, !.fill = fill]
      PROVE  v = FormRow(u, open, u.busy, u.lost, fill, u.erred)
  BY <1>2 DEF FormUi, FormRow
<1>3. ASSUME NEW v, v = [u EXCEPT !.open = open]
      PROVE  v = FormRow(u, open, u.busy, u.lost, u.fill, u.erred)
  BY <1>3 DEF FormUi, FormRow
<1>4. ASSUME NEW v, v = [u EXCEPT !.busy = busy]
      PROVE  v = FormRow(u, u.open, busy, u.lost, u.fill, u.erred)
  BY <1>4 DEF FormUi, FormRow
<1>5. ASSUME NEW v, v = [u EXCEPT !.fill = fill, !.busy = busy]
      PROVE  v = FormRow(u, u.open, busy, u.lost, fill, u.erred)
  BY <1>5 DEF FormUi, FormRow
<1>6. ASSUME NEW v, v = [u EXCEPT !.busy = busy, !.erred = erred]
      PROVE  v = FormRow(u, u.open, busy, u.lost, u.fill, erred)
  BY <1>6 DEF FormUi, FormRow
<1>7. ASSUME NEW v, v = [u EXCEPT !.open = open, !.busy = busy, !.fill = fill, !.lost = lost]
      PROVE  v = FormRow(u, open, busy, lost, fill, u.erred)
  BY <1>7 DEF FormUi, FormRow
<1>8. u = FormRow(u, u.open, u.busy, u.lost, u.fill, u.erred)
  BY DEF FormUi, FormRow
<1> QED BY <1>1, <1>2, <1>3, <1>4, <1>5, <1>6, <1>7, <1>8, FormRowFields

\* A click is counted.
LEMMA DoFields ==
  ASSUME NEW u \in FormUi, Submits!Do(u)
  PROVE  Fields(ui', u, u.open, u.busy, u.lost, u.fill, u.erred)
  BY DEF Submits!Do, FormUi, Fields

\* The form on the page does not change, and so its profile does not.
LEMMA SameForm ==
  ASSUME ui'.form = ui.form
  PROVE  /\ \A feature : Submits!Has(feature)' = Submits!Has(feature)
         /\ Submits!Held' = Submits!Held /\ Locks' = Locks /\ Submits!Dialog' = Submits!Dialog
  BY DEF Submits!Has, Submits!Held, Locks, Submits!Dialog
-----------------------------------------------------------------------------
(* The actions of the user. *)

LEMMA OpenIInv == ASSUME FormsInv, Submits!Open  PROVE FormsInv'
<1>1. ui \in FormUi /\ ui.fill \in Nat /\ ui.fill + 1 \in Nat
  BY DEF FormsInv, Typed, FormUi
<1>2. Fields(ui', ui, TRUE, ui.busy, ui.lost, ui.fill + 1, ui.erred)
  <2>1. PICK u : Submits!Do(u) /\ Fields(u, ui, TRUE, ui.busy, ui.lost, ui.fill + 1, ui.erred)
    BY <1>1, Assigned DEF Submits!Open
  <2> QED BY <2>1, DoFields DEF Fields
<1>3. /\ ui' \in FormUi /\ ui'.form = ui.form /\ ui'.busy = ui.busy /\ ui'.lost = ui.lost
      /\ ui'.fill = ui.fill + 1 /\ ui'.erred = ui.erred
  BY <1>2 DEF Fields
<1>4. net' = net /\ db' = db /\ ~Submits!Has("direct") /\ (Submits!Dialog => ~ui.open)
  BY DEF Submits!Open
<1>5. Typed' /\ Entered'
  BY <1>1, <1>3, <1>4 DEF FormsInv, Typed, Entered, Submits!Fills, FormCall
<1>6. (OneCall /\ UniqueOnce /\ HeldOnce)'
  BY <1>3, <1>4, SameForm DEF FormsInv, OneCall, UniqueOnce, HeldOnce, Submits!Fills
<1>7. FormNew'
  BY <1>1, <1>3, <1>4 DEF FormsInv, Typed, Entered, FormNew, Submits!Fills
<1>8. FillingStays'
  BY <1>3, <1>4, SameForm DEF FormsInv, FillingStays, Locks, Submits!Dialog
<1> QED BY <1>5, <1>6, <1>7, <1>8 DEF FormsInv

LEMMA FormCallFields ==
  ASSUME NEW op \in {"validate", "save", "second", "load"}, NEW n \in Nat
  PROVE  /\ Submits!Call(op, n) \in FormCall
         /\ Submits!Call(op, n).op = op /\ Submits!Call(op, n).fill = n
         /\ Submits!Call(op, n).st = "sent"
  BY DEF Submits!Call, FormCall

\* What is left of the invariant where the form can be made ready by something else.
LEMMA NotHeld ==
  ASSUME FormsInv, ~Submits!Held, Typed', Entered', UniqueOnce', ui'.form = ui.form
  PROVE  FormsInv'
  BY SameForm DEF FormsInv, OneCall, HeldOnce, FormNew, FillingStays, Locks

LEMMA CloseIInv == ASSUME FormsInv, Submits!Close  PROVE FormsInv'
<1>1. ui \in FormUi
  BY DEF FormsInv, Typed
<1>2. Fields(ui', ui, FALSE, ui.busy, ui.lost, ui.fill, ui.erred)
  <2>1. PICK u : Submits!Do(u) /\ Fields(u, ui, FALSE, ui.busy, ui.lost, ui.fill, ui.erred)
    BY <1>1, Assigned DEF Submits!Close, FormUi
  <2> QED BY <2>1, DoFields DEF Fields
<1>3. /\ ui' \in FormUi /\ ui'.form = ui.form /\ ui'.busy = ui.busy /\ ui'.lost = ui.lost
      /\ ui'.fill = ui.fill /\ ui'.erred = ui.erred /\ ~ui'.open
  BY <1>2 DEF Fields
<1>4. net' = net /\ db' = db /\ (ui.busy => Submits!Has("closable"))
  BY DEF Submits!Close, Submits!MayClose
<1>5. (Typed /\ Entered /\ OneCall /\ UniqueOnce /\ HeldOnce)'
  BY <1>3, <1>4, SameForm
  DEF FormsInv, Typed, Entered, OneCall, UniqueOnce, HeldOnce, Submits!Fills, FormCall
<1>6. FormNew'
  BY <1>3 DEF FormNew
<1>7. FillingStays'
  BY <1>3, <1>4, SameForm DEF FormsInv, OneCall, FillingStays, Locks
<1> QED BY <1>5, <1>6, <1>7 DEF FormsInv

\* A save begins: a filling that is new, or that the user has seen fail.
LEMMA SaveBegins ==
  ASSUME FormsInv, NEW n \in Nat, net' = net \cup {Submits!Call("save", n)}, db' = db,
         Fields(ui', ui, ui.open, TRUE, ui.lost, n, ui.erred), n >= ui.fill,
         Submits!Held => net = {},
         Submits!Held /\ n \in Submits!Fills => db[n] = 0 \/ n \in ui.erred,
         Submits!Dialog => ui.open
  PROVE  FormsInv'
<1> DEFINE c == Submits!Call("save", n)
<1>1. /\ ui' \in FormUi /\ ui'.form = ui.form /\ ui'.open = ui.open /\ ui'.lost = ui.lost
      /\ ui'.fill = n /\ ui'.erred = ui.erred /\ ui'.busy
  BY DEF Fields
<1>2. c \in FormCall /\ c.op = "save" /\ c.fill = n /\ net' = net \cup {c}
  BY FormCallFields
<1> HIDE DEF c
<1>3. ui.fill \in Nat /\ \A d \in net : d.fill \in Nat
  BY DEF FormsInv, Typed, FormUi, FormCall
<1>4. Typed' /\ Entered'
  BY <1>1, <1>2, <1>3 DEF FormsInv, Typed, Entered, Submits!Fills, FormCall
<1>5. UniqueOnce' /\ OneCall' /\ HeldOnce'
  BY <1>1, <1>2, SameForm DEF FormsInv, UniqueOnce, OneCall, HeldOnce, Submits!Fills
<1>6. FormNew'
  BY <1>1, <1>2 DEF FormNew, Saves
<1>7. FillingStays'
  BY <1>1, <1>2, SameForm DEF FormsInv, FillingStays, Locks
<1> QED BY <1>4, <1>5, <1>6, <1>7 DEF FormsInv

LEMMA SubmitIInv == ASSUME FormsInv, Submits!Submit  PROVE FormsInv'
<1>1. /\ ui \in FormUi /\ ui.fill \in Nat
      /\ Fields(ui, ui, ui.open, ui.busy, ui.lost, ui.fill, ui.erred)
  BY Assigned DEF FormsInv, Typed, FormUi
<1>2. ui.open /\ (ui.busy => Submits!Has("enter")) /\ ~Submits!Has("direct") /\ db' = db
  BY DEF Submits!Submit, Submits!Enabled
<1>3. CASE Submits!Has("late")
  <2>1. Submits!Do(ui) /\ net' = net \cup {Submits!Call("validate", ui.fill)}
    BY <1>3 DEF Submits!Submit
  <2>2. /\ ui' \in FormUi /\ ui'.form = ui.form /\ ui'.fill = ui.fill
    BY <1>1, <2>1, DoFields DEF Fields
  <2>3. Typed' /\ Entered' /\ UniqueOnce'
    BY <1>1, <1>2, <2>1, <2>2, SameForm, FormCallFields
    DEF FormsInv, Typed, Entered, UniqueOnce, Submits!Fills, FormCall
  <2>4. ~Submits!Held
    BY <1>3 DEF Submits!Held, Submits!Has
  <2> QED BY <2>2, <2>3, <2>4, NotHeld
<1>4. CASE ~Submits!Has("late")
  <2>1. Fields(ui', ui, ui.open, TRUE, ui.lost, ui.fill, ui.erred)
    <3>1. PICK u : Submits!Do(u) /\ Fields(u, ui, ui.open, TRUE, ui.lost, ui.fill, ui.erred)
      BY <1>1, <1>4, Assigned DEF Submits!Submit, FormUi
    <3> QED BY <3>1, DoFields DEF Fields
  <2>2. net' = net \cup {Submits!Call("save", ui.fill)}
    BY <1>4 DEF Submits!Submit
  <2>3. Submits!Held => net = {}
    BY <1>2 DEF FormsInv, OneCall, Submits!Held, Submits!Has
  <2>4. Submits!Held /\ ui.fill \in Submits!Fills => db[ui.fill] = 0 \/ ui.fill \in ui.erred
    BY <1>2, <2>3 DEF FormsInv, FormNew
  <2>5. ui.fill >= ui.fill
    BY <1>1
  <2> QED BY <1>1, <1>2, <2>1, <2>2, <2>3, <2>4, <2>5, SaveBegins
<1> QED BY <1>3, <1>4

LEMMA PressIInv == ASSUME FormsInv, Submits!Press  PROVE FormsInv'
<1>1. ui \in FormUi /\ ui.fill \in Nat /\ ui.fill + 1 \in Nat
  BY DEF FormsInv, Typed, FormUi
<1>2. Fields(ui', ui, ui.open, TRUE, ui.lost, ui.fill + 1, ui.erred)
  <2>1. PICK u : Submits!Do(u) /\ Fields(u, ui, ui.open, TRUE, ui.lost, ui.fill + 1, ui.erred)
    BY <1>1, Assigned DEF Submits!Press, FormUi
  <2> QED BY <2>1, DoFields DEF Fields
<1>3. net' = net \cup {Submits!Call("save", ui.fill + 1)} /\ db' = db /\ ~Submits!Dialog
  BY DEF Submits!Press, Submits!Dialog
<1>4. Submits!Held => net = {}
  BY DEF Submits!Press, FormsInv, OneCall
<1>5. ui.fill + 1 \in Submits!Fills => db[ui.fill + 1] = 0
  BY <1>1 DEF FormsInv, Entered
<1>6. ui.fill + 1 >= ui.fill
  BY <1>1
<1> QED BY <1>1, <1>2, <1>3, <1>4, <1>5, <1>6, SaveBegins

LEMMA BackgroundIInv == ASSUME FormsInv, Submits!Background  PROVE FormsInv'
<1>1. ui \in FormUi
  BY DEF FormsInv, Typed
<1>2. PICK u : Submits!Do(u) /\ Fields(u, ui, ui.open, FALSE, ui.lost, ui.fill, ui.erred)
  BY <1>1, Assigned DEF Submits!Background, FormUi
<1>3. ui' \in FormUi /\ ui'.form = ui.form /\ ui'.fill = ui.fill
  BY <1>2, DoFields DEF Fields
<1>4. net' = net /\ db' = db /\ ~Submits!Held
  BY DEF Submits!Background, Submits!Held, Submits!Has
<1>5. Typed' /\ Entered' /\ UniqueOnce'
  BY <1>3, <1>4, SameForm DEF FormsInv, Typed, Entered, UniqueOnce, Submits!Fills, FormCall
<1> QED BY <1>3, <1>4, <1>5, NotHeld
-----------------------------------------------------------------------------
(* The API, and what follows its answers. *)

\* A held form has no other call.
LEMMA Alone == ASSUME FormsInv, Submits!Held, NEW c \in net  PROVE net = {c} /\ ui.busy
  BY DEF FormsInv, OneCall

LEMMA ValidatedIInv == ASSUME FormsInv, Submits!DoneValidate \/ Submits!Invalid  PROVE FormsInv'
<1>1. PICK c \in net : /\ c.op = "validate" /\ db' = db
                       /\ \/ /\ ui' = [ui EXCEPT !.busy = TRUE]
                             /\ net' = (net \ {c}) \cup {Submits!Call("save", c.fill)}
                          \/ ui' = ui /\ net' = net \ {c}
  BY DEF Submits!DoneValidate, Submits!Invalid, Submits!Calls, Submits!After
<1>2. ui \in FormUi /\ c.fill \in Nat
  BY DEF FormsInv, Typed, FormCall
<1>3. ui' \in FormUi /\ ui'.form = ui.form /\ ui'.fill = ui.fill
  <2>1. CASE ui' = [ui EXCEPT !.busy = TRUE]
    <3>1. Fields(ui', ui, ui.open, TRUE, ui.lost, ui.fill, ui.erred)
      BY <1>2, <2>1, Assigned DEF FormUi
    <3> QED BY <3>1 DEF Fields
  <2> QED BY <1>1, <1>2, <2>1
<1>4. ~Submits!Held
  BY <1>1 DEF FormsInv, OneCall
<1>5. Typed' /\ Entered' /\ UniqueOnce'
  BY <1>1, <1>2, <1>3, SameForm, FormCallFields
  DEF FormsInv, Typed, Entered, UniqueOnce, Submits!Fills, FormCall
<1> QED BY <1>3, <1>4, <1>5, NotHeld

LEMMA ServeIInv == ASSUME FormsInv, Submits!Serve  PROVE FormsInv'
<1>1. PICK c \in net : /\ c.op = "save" /\ c.st = "sent" /\ ui' = ui
                       /\ net' \in {Submits!Resolve(c), Submits!Reject(c)}
                       /\ \/ db' = db
                          \/ /\ ~(Submits!Has("unique") /\ db[c.fill] > 0)
                             /\ db' = [db EXCEPT ![c.fill] = @ + 1]
  BY DEF Submits!Serve, Submits!Unanswered, Submits!Calls
<1>2. PICK st \in {"ok", "err"} : net' = (net \ {c}) \cup {[c EXCEPT !.st = st]}
  BY <1>1 DEF Submits!Resolve, Submits!Reject
<1> DEFINE d == [c EXCEPT !.st = st]
<1>3. /\ d \in FormCall /\ d.op = "save" /\ d.fill = c.fill /\ d.st # "sent"
      /\ c.fill \in Nat /\ net' = (net \ {c}) \cup {d}
  BY <1>1, <1>2 DEF FormsInv, Typed, FormCall
<1> HIDE DEF d
<1>4. db \in [Submits!Fills -> Nat] /\ net \subseteq FormCall /\ ui.fill \in Nat
  BY DEF FormsInv, Typed, FormUi
<1>5. /\ db' \in [Submits!Fills -> Nat]
      /\ \A i \in Submits!Fills : i # c.fill => db'[i] = db[i]
      /\ c.fill \in Submits!Fills => db'[c.fill] \in {db[c.fill], db[c.fill] + 1}
      /\ Submits!Has("unique") /\ c.fill \in Submits!Fills /\ db[c.fill] > 0 =>
           db'[c.fill] = db[c.fill]
  BY <1>1, <1>4
<1>6. Typed' /\ Entered'
  <2>1. \A i \in Submits!Fills : i > ui.fill => db'[i] = 0
    <3> SUFFICES ASSUME NEW i \in Submits!Fills, i > ui.fill  PROVE db'[i] = 0
      OBVIOUS
    <3>1. i # c.fill
      BY <1>3, <1>4 DEF FormsInv, Entered, Submits!Fills
    <3> QED BY <1>5, <3>1 DEF FormsInv, Entered
  <2> QED BY <1>1, <1>3, <1>4, <1>5, <2>1 DEF FormsInv, Typed, Entered, Submits!Fills
<1>7. UniqueOnce'
  BY <1>1, <1>4, <1>5 DEF FormsInv, UniqueOnce, Submits!Has, Submits!Fills
<1>8. OneCall'
  BY <1>1, <1>3, Alone, SameForm DEF FormsInv, OneCall
<1>9. HeldOnce'
  <2> SUFFICES ASSUME Submits!Held
               PROVE  /\ \A i \in Submits!Fills : db'[i] > 1 => i \in ui.erred
                      /\ net' = {d}
    BY <1>1, <1>3, SameForm DEF HeldOnce, Submits!Fills
  <2>1. c.fill \in Submits!Fills => db[c.fill] = 0 \/ c.fill \in ui.erred
    BY <1>1 DEF FormsInv, HeldOnce
  <2>2. \A i \in Submits!Fills : db[i] \in Nat /\ (db[i] > 1 => i \in ui.erred)
    BY <1>4 DEF FormsInv, HeldOnce
  <2> QED BY <1>3, <1>5, <2>1, <2>2, Alone
<1>10. FormNew'
  BY <1>1, <1>3, <1>5, SameForm DEF FormsInv, FormNew, Saves, Submits!Fills
<1>11. FillingStays'
  BY <1>1, <1>3, SameForm DEF FormsInv, FillingStays, Saves
<1> QED BY <1>6, <1>7, <1>8, <1>9, <1>10, <1>11 DEF FormsInv

LEMMA FinishIInv ==
  ASSUME FormsInv, NEW c \in net, Saves(c), Submits!Finish(c), UNCHANGED db
  PROVE  FormsInv'
<1>1. ui \in FormUi /\ ui.fill \in Nat /\ ui.lost \in BOOLEAN /\ c.fill \in Nat
  BY DEF FormsInv, Typed, FormUi, FormCall
<1> DEFINE open == ~Submits!Dialog
           busy == Submits!Has("reloads")
           fill == IF Submits!Has("inline") THEN ui.fill + 1 ELSE ui.fill
           lost == IF ui.open /\ ui.fill # c.fill THEN TRUE ELSE ui.lost
<1>2. /\ open \in BOOLEAN /\ busy \in BOOLEAN /\ lost \in BOOLEAN /\ fill \in Nat
      /\ fill \in {ui.fill, ui.fill + 1}
      /\ Submits!Has("reloads") => busy
      /\ ui.fill = c.fill => lost = ui.lost
      /\ open => ~Submits!Dialog
      /\ Submits!Has("inline") => fill = ui.fill + 1
  <2>1. open \in BOOLEAN /\ busy \in BOOLEAN
    BY DEF Submits!Dialog, Submits!Has
  <2>2. lost \in BOOLEAN /\ (ui.fill = c.fill => lost = ui.lost)
    BY <1>1
  <2>3. /\ fill \in Nat /\ fill \in {ui.fill, ui.fill + 1}
        /\ Submits!Has("inline") => fill = ui.fill + 1
    BY <1>1
  <2> QED BY <2>1, <2>2, <2>3
<1>3. Fields(ui', ui, open, busy, lost, fill, ui.erred)
  <2>1. ui' = [ui EXCEPT !.open = open, !.busy = busy, !.fill = fill, !.lost = lost]
    BY DEF Submits!Finish, Submits!Emptied
  <2>2. ui.erred \in SUBSET Nat
    BY <1>1 DEF FormUi
  <2> HIDE DEF open, busy, fill, lost
  <2>3. Fields([ui EXCEPT !.open = open, !.busy = busy, !.fill = fill, !.lost = lost],
               ui, open, busy, lost, fill, ui.erred)
    BY <1>1, <1>2, <2>2, Assigned
  <2> QED BY <2>1, <2>3
<1> HIDE DEF open, busy, fill, lost
<1>4. /\ ui' \in FormUi /\ ui'.form = ui.form /\ ui'.fill = fill /\ ui'.erred = ui.erred
      /\ ui'.open = open /\ ui'.busy = busy /\ ui'.lost = lost
  BY <1>3 DEF Fields
<1> DEFINE extra == IF Submits!Has("reloads") THEN {Submits!Call("load", c.fill)} ELSE {}
<1>5. /\ net' = (net \ {c}) \cup extra
      /\ extra \subseteq FormCall /\ (extra # {} => Submits!Has("reloads"))
      /\ \A d, e \in extra : d = e
      /\ \A d \in extra : d.op = "load" /\ d.fill = c.fill
  BY <1>1, FormCallFields DEF Submits!Finish, Submits!After
<1> HIDE DEF extra
<1>6. fill \in {ui.fill, ui.fill + 1} /\ c.fill <= ui.fill
  BY <1>2 DEF FormsInv, Entered
<1>7. Typed' /\ Entered'
  BY <1>1, <1>4, <1>5, <1>6 DEF FormsInv, Typed, Entered, Submits!Fills, FormCall
<1>8. UniqueOnce'
  BY <1>4, SameForm DEF FormsInv, UniqueOnce, Submits!Fills
<1>9. OneCall'
  BY <1>2, <1>4, <1>5, Alone, SameForm DEF OneCall
<1>10. HeldOnce'
  BY <1>4, <1>5, Alone, SameForm DEF FormsInv, HeldOnce, Submits!Fills
<1>11. FormNew'
  <2> SUFFICES ASSUME open, ~Submits!Has("direct"), fill \in Submits!Fills  PROVE db[fill] = 0
    BY <1>4, SameForm DEF FormNew, Submits!Fills
  <2>1. fill = ui.fill + 1
    BY <1>2 DEF Submits!Dialog
  <2> QED BY <1>1, <2>1 DEF FormsInv, Entered
<1>12. FillingStays'
  <2> SUFFICES ASSUME Locks  PROVE ~lost /\ \A d \in net' : ~Saves(d)
    BY <1>4, SameForm DEF FillingStays
  <2>1. net = {c} /\ ui.fill = c.fill /\ ~ui.lost
    BY Alone DEF FormsInv, FillingStays, Locks
  <2> QED BY <1>2, <1>5, <2>1 DEF Saves
<1> QED BY <1>7, <1>8, <1>9, <1>10, <1>11, <1>12 DEF FormsInv

LEMMA FailIInv ==
  ASSUME FormsInv, NEW c \in net, Saves(c), Submits!Fail(c), UNCHANGED db
  PROVE  FormsInv'
<1>1. ui \in FormUi /\ ui.erred \cup {c.fill} \in SUBSET Nat /\ net' = net \ {c}
  BY DEF FormsInv, Typed, FormUi, FormCall, Submits!Fail
<1>2. Fields(ui', ui, ui.open, FALSE, ui.lost, ui.fill, ui.erred \cup {c.fill})
  BY <1>1, Assigned DEF Submits!Fail, FormUi
<1>3. /\ ui' \in FormUi /\ ui'.form = ui.form /\ ui'.fill = ui.fill /\ ui'.open = ui.open
      /\ ui'.lost = ui.lost /\ ui'.erred = ui.erred \cup {c.fill}
  BY <1>2 DEF Fields
<1>4. Typed' /\ Entered' /\ UniqueOnce'
  BY <1>1, <1>3, SameForm DEF FormsInv, Typed, Entered, UniqueOnce, Submits!Fills, FormCall
<1>5. Submits!Held => net = {c} /\ net' = {}
  BY <1>1, Alone
<1>6. OneCall' /\ HeldOnce'
  BY <1>3, <1>5, SameForm DEF FormsInv, OneCall, HeldOnce, Submits!Fills
<1>7. FormNew'
  BY <1>3, <1>5, SameForm DEF FormsInv, FormNew, Submits!Fills
<1>8. FillingStays'
  BY <1>3, <1>5, SameForm DEF FormsInv, FillingStays, Locks
<1> QED BY <1>4, <1>6, <1>7, <1>8 DEF FormsInv

LEMMA DoneSaveIInv == ASSUME FormsInv, Submits!DoneSave  PROVE FormsInv'
<1>1. PICK c \in net :
        /\ c.op = "save" /\ UNCHANGED db
        /\ \/ Submits!Fail(c) \/ Submits!Finish(c)
           \/ Submits!After(c, {Submits!Call("second", c.fill)}) /\ UNCHANGED ui
  BY DEF Submits!DoneSave, Submits!Settled
<1>2. Saves(c)
  BY <1>1 DEF Saves
<1>3. CASE Submits!After(c, {Submits!Call("second", c.fill)}) /\ UNCHANGED ui
  <2>1. PICK d : /\ net' = (net \ {c}) \cup {d} /\ d \in FormCall
                 /\ d.op = "second" /\ d.fill = c.fill
    BY <1>3, FormCallFields DEF Submits!After, FormsInv, Typed, FormCall
  <2>2. (Typed /\ Entered /\ UniqueOnce)'
    BY <1>1, <1>3, <2>1, SameForm DEF FormsInv, Typed, Entered, UniqueOnce, Submits!Fills, FormCall
  <2>3. (OneCall /\ HeldOnce)'
    BY <1>1, <1>3, <2>1, Alone, SameForm DEF FormsInv, OneCall, HeldOnce, Submits!Fills
  <2>4. (FormNew /\ FillingStays)'
    BY <1>1, <1>2, <1>3, <2>1, SameForm DEF FormsInv, FormNew, FillingStays, Saves, Submits!Fills
  <2> QED BY <2>2, <2>3, <2>4 DEF FormsInv
<1> QED BY <1>1, <1>2, <1>3, FailIInv, FinishIInv

LEMMA DoneSecondIInv == ASSUME FormsInv, Submits!DoneSecond  PROVE FormsInv'
<1>1. PICK c \in net : c.op = "second" /\ UNCHANGED db /\ (Submits!Fail(c) \/ Submits!Finish(c))
  BY DEF Submits!DoneSecond, Submits!Calls
<1> QED BY <1>1, FailIInv, FinishIInv DEF Saves

LEMMA DoneLoadIInv == ASSUME FormsInv, Submits!DoneLoad  PROVE FormsInv'
<1>1. PICK c \in net : /\ c.op = "load" /\ UNCHANGED db /\ net' = net \ {c}
                       /\ ui' = [ui EXCEPT !.busy = FALSE]
  BY DEF Submits!DoneLoad, Submits!Calls
<1>2. ui \in FormUi
  BY DEF FormsInv, Typed
<1>3. Fields(ui', ui, ui.open, FALSE, ui.lost, ui.fill, ui.erred)
  BY <1>1, <1>2, Assigned DEF FormUi
<1>4. /\ ui' \in FormUi /\ ui'.form = ui.form /\ ui'.fill = ui.fill /\ ui'.open = ui.open
      /\ ui'.lost = ui.lost /\ ui'.erred = ui.erred
  BY <1>3 DEF Fields
<1>5. Typed' /\ Entered' /\ UniqueOnce'
  BY <1>1, <1>4, SameForm DEF FormsInv, Typed, Entered, UniqueOnce, Submits!Fills, FormCall
<1>6. Submits!Held => net = {c} /\ net' = {}
  BY <1>1, Alone
<1>7. OneCall' /\ HeldOnce'
  BY <1>1, <1>4, <1>6, SameForm DEF FormsInv, OneCall, HeldOnce, Submits!Fills
<1>8. FormNew' /\ FillingStays'
  BY <1>1, <1>4, <1>6, SameForm DEF FormsInv, FormNew, FillingStays, Locks, Saves, Submits!Fills
<1> QED BY <1>5, <1>7, <1>8 DEF FormsInv
-----------------------------------------------------------------------------
LEMMA FormsStep == FormsInv /\ [Submits!Next]_vars => FormsInv'
<1>1. FormsInv /\ Submits!Next => FormsInv'
  BY OpenIInv, CloseIInv, SubmitIInv, PressIInv, ValidatedIInv, ServeIInv, DoneSaveIInv,
     DoneSecondIInv, DoneLoadIInv, BackgroundIInv DEF Submits!Next
<1>2. FormsInv /\ UNCHANGED vars => FormsInv'
  <2> SUFFICES ASSUME FormsInv, UNCHANGED vars  PROVE FormsInv'
    OBVIOUS
  <2>1. ui' = ui /\ net' = net /\ db' = db
    BY DEF vars
  <2> QED
    BY <2>1, SameForm
    DEF FormsInv, Typed, Entered, OneCall, UniqueOnce, HeldOnce, FormNew, FillingStays,
        Submits!Fills
<1> QED BY <1>1, <1>2

LEMMA FormsHold == FormsInv => Submits!TypeOK /\ Submits!SavedOnce /\ Submits!InputKept
<1>1. FormsInv => Submits!TypeOK
  BY DEF FormsInv, Typed, FormUi, FormCall, Submits!TypeOK
<1>2. FormsInv => Submits!SavedOnce
  <2> SUFFICES ASSUME FormsInv, Submits!Held \/ Submits!Has("unique"), NEW i \in DOMAIN db, db[i] > 1
               PROVE  i \in ui.erred
    BY DEF Submits!SavedOnce
  <2>1. i \in Submits!Fills /\ db[i] \in Nat
    BY DEF FormsInv, Typed
  <2>2. ~(db[i] <= 1)
    BY <2>1
  <2> QED BY <2>1, <2>2 DEF FormsInv, UniqueOnce, HeldOnce
<1>3. FormsInv => Submits!InputKept
  BY DEF FormsInv, FillingStays, Locks, Submits!InputKept
<1> QED BY <1>1, <1>2, <1>3
-----------------------------------------------------------------------------
(* The bank page.  The ref of the form for one row lets one of its submissions work at a
   time, until the summary after it; so nothing is added to the rows nobody was asked about
   between the check of the API and its commit. *)

BankForm == Bank!EntryForm \cup {"delete", None}
BankCall ==
  [op : {"validate", "check", "create", "update", "delete", "load", "summary", "preview"},
   form : BankForm, key : Key \cup {None}, st : {"sent", "checked", "conflict", "ok", "err"},
   edit : Key \cup {None}, special : BOOLEAN, asked : BOOLEAN, agreed : BOOLEAN, req : Nat]
BankUi ==
  [page : {"bank"}, clicks : Nat, form : Bank!EntryForm \cup {None}, edit : Key \cup {None},
   busy : BOOLEAN, ref : BOOLEAN, duplicate : BankCall \cup {None},
   special : BankCall \cup {None}, file : Key \cup {None},
   preview : [found : BOOLEAN] \cup {None}, req : Nat]
Classes == {"unasked", "other"}

\* What a form fills a call with: only the form for one row edits.
Filled(c) == /\ c \in BankCall /\ c.key \in Key /\ c.form \in Bank!EntryForm
             /\ c.edit # None => c.form = "single"
BankCallOk(c) ==
  /\ c \in BankCall
  /\ c.op \in {"validate", "check", "create", "update"} => Filled(c)
  /\ c.op \in {"check", "create"} => c.edit = None
  /\ c.op = "update" => c.edit # None
  /\ c.op = "delete" => c.key \in Key /\ c.form = "delete"
  /\ c.op = "preview" => c.form = "import"
  /\ c.op \notin {"create", "update", "delete"} => c.st = "sent"
  /\ c.st \in {"checked", "conflict"} => c.op \in {"create", "update"}
BankUiOk(u) ==
  /\ u \in BankUi
  /\ u.form \in {"entry", "import"} => u.edit = None
  /\ u.duplicate # None => Filled(u.duplicate)
  /\ u.special # None => Filled(u.special)
BankTyped ==
  /\ BankUiOk(ui)
  /\ \A c \in net : BankCallOk(c)
  /\ db \in [Key -> [Classes -> Nat]]

\* A submission of the form for one row works from its first await to the summary.
Works(c) == c.form = "single" /\ c.op \in {"check", "create", "update", "load", "summary"}
OneWorks == \A c \in net : Works(c) => ui.ref /\ \A d \in net : Works(d) => d = c

Checked(c) == c.op = "create" /\ c.st = "checked" /\ c.form = "single" /\ ~c.agreed
ChecksHold == \A c \in net : Checked(c) => db[c.key]["unasked"] = 0

BankInv == BankTyped /\ OneWorks /\ ChecksHold /\ Bank!DuplicatesAsked

\* A step of the page.
LEMMA BankPageMoves ==
  ASSUME BankInv, BankUiOk(ui'), db' = db, \A c \in net' : BankCallOk(c), OneWorks',
         \A c \in net' : c \in net \/ ~Checked(c)
  PROVE  BankInv'
<1>1. BankTyped'
  BY DEF BankInv, BankTyped
<1>2. ChecksHold'
  BY DEF BankInv, ChecksHold, Checked
<1>3. Bank!DuplicatesAsked'
  BY DEF BankInv, Bank!DuplicatesAsked
<1> QED BY <1>1, <1>2, <1>3 DEF BankInv

\* A call goes on as another, which works only if it did, or some call comes that does not.
LEMMA StillOne ==
  ASSUME BankInv, ui'.ref = ui.ref, NEW c, NEW d, net' = (net \ {c}) \cup {d},
         Works(d) => c \in net /\ Works(c)
  PROVE  OneWorks'
  BY DEF BankInv, OneWorks, Works

\* A call ends; the ref is given back if it was the submission's.
LEMMA OneLess ==
  ASSUME BankInv, NEW c \in net, net' = net \ {c},
         ui'.ref = ui.ref \/ Works(c)
  PROVE  OneWorks'
  BY DEF BankInv, OneWorks, Works

\* What the user does without sending anything.
LEMMA NoCall ==
  ASSUME BankInv, ui'.ref = ui.ref, net' \subseteq net
  PROVE  OneWorks'
  BY DEF BankInv, OneWorks, Works

LEMMA BankClick ==
  ASSUME NEW u, BankUiOk(u), Bank!Do(u)
  PROVE  BankUiOk(ui') /\ ui'.ref = u.ref /\ ui'.req = u.req
  BY DEF Bank!Do, BankUiOk, BankUi

\* finally, and the dialogs that take its place.
LEMMA FinallyFacts ==
  ASSUME NEW u, BankUiOk(u), NEW c
  PROVE  /\ BankUiOk(Bank!Finally(u, c))
         /\ Bank!Finally(u, c).ref = IF c.form = "single" THEN FALSE ELSE u.ref
<1>1. PICK v, ref :
        /\ ref \in BOOLEAN
        /\ v = [u EXCEPT !.ref = ref, !.busy = FALSE] /\ v = Bank!Finally(u, c)
        /\ ref = IF c.form = "single" THEN FALSE ELSE u.ref
  BY DEF Bank!Finally, BankUiOk, BankUi
<1>2. BankUiOk(v) /\ v.ref = ref
  BY <1>1 DEF BankUiOk, BankUi
<1> QED BY <1>1, <1>2

LEMMA AskFacts ==
  ASSUME NEW u, BankUiOk(u), NEW c, Filled(c)
  PROVE  /\ BankUiOk(Bank!AskDuplicate(u, c)) /\ BankUiOk(Bank!AskSpecial(u, c))
         /\ Bank!AskDuplicate(u, c).ref = IF c.form = "single" THEN FALSE ELSE u.ref
         /\ Bank!AskSpecial(u, c).ref = IF c.form = "single" THEN FALSE ELSE u.ref
<1>1. PICK v : /\ v = Bank!Finally(u, c) /\ BankUiOk(v)
               /\ v.ref = IF c.form = "single" THEN FALSE ELSE u.ref
  BY FinallyFacts
<1>2. PICK w, x : w = [v EXCEPT !.duplicate = c] /\ x = [v EXCEPT !.special = c]
  OBVIOUS
<1>3. w = Bank!AskDuplicate(u, c) /\ x = Bank!AskSpecial(u, c)
  BY <1>1, <1>2 DEF Bank!AskDuplicate, Bank!AskSpecial
<1>4. BankUiOk(w) /\ w.ref = v.ref /\ BankUiOk(x) /\ x.ref = v.ref
  <2>1. c \in BankCall
    BY DEF Filled
  <2> QED BY <1>1, <1>2, <2>1 DEF BankUiOk, BankUi
<1> QED BY <1>1, <1>3, <1>4

LEMMA CallMade ==
  ASSUME NEW op \in {"validate", "create", "delete", "load", "preview"},
         NEW form \in BankForm, NEW k \in Key \cup {None}
  PROVE  /\ Bank!Call(op, form, k) \in BankCall
         /\ Bank!Call(op, form, k).op = op /\ Bank!Call(op, form, k).form = form
         /\ Bank!Call(op, form, k).key = k /\ Bank!Call(op, form, k).st = "sent"
         /\ Bank!Call(op, form, k).edit = None
  BY DEF Bank!Call, BankCall
-----------------------------------------------------------------------------
(* The API. *)

\* A call of the API is answered.
LEMMA BankAnswered ==
  ASSUME BankInv, NEW c \in net, c.op \in {"create", "update", "delete"},
         NEW st \in {"sent", "checked", "conflict", "ok", "err"},
         st \in {"checked", "conflict"} => c.op \in {"create", "update"},
         NEW d, d = [c EXCEPT !.st = st]
  PROVE  /\ BankCallOk(d) /\ d.op = c.op /\ d.form = c.form /\ d.key = c.key /\ d.st = st
         /\ d.agreed = c.agreed
<1>1. BankCallOk(c) /\ c \in BankCall
  BY DEF BankInv, BankTyped, BankCallOk
<1>2. /\ d \in BankCall /\ d.op = c.op /\ d.form = c.form /\ d.key = c.key /\ d.st = st
      /\ d.agreed = c.agreed /\ d.edit = c.edit
  BY <1>1 DEF BankCall
<1> QED BY <1>1, <1>2 DEF BankCallOk, Filled

LEMMA RowsCounted ==
  ASSUME BankInv, NEW k \in Key
  PROVE  /\ db[k]["unasked"] \in Nat /\ db[k]["other"] \in Nat
         /\ Bank!Rows(k) = db[k]["unasked"] + db[k]["other"]
         /\ DOMAIN db[k] = Classes
  BY DEF BankInv, BankTyped, Classes, Bank!Rows

LEMMA Checks == ASSUME BankInv, Bank!CheckCreate  PROVE BankInv'
<1>1. PICK c \in net :
        /\ c.op = "create" /\ c.st = "sent" /\ ui' = ui /\ db' = db
        /\ net' = (net \ {c}) \cup
             {[c EXCEPT !.st = IF ~Bank!Duplicate(c) THEN "checked"
                               ELSE IF c.form = "import" THEN "ok" ELSE "conflict"]}
  BY DEF Bank!CheckCreate, Bank!Unserved, Bank!Calls
<1>2. PICK st : st = IF ~Bank!Duplicate(c) THEN "checked"
                     ELSE IF c.form = "import" THEN "ok" ELSE "conflict"
  OBVIOUS
<1>3. PICK d : d = [c EXCEPT !.st = st] /\ net' = (net \ {c}) \cup {d}
  BY <1>1, <1>2
<1>4. /\ BankCallOk(d) /\ d.op = c.op /\ d.form = c.form /\ d.key = c.key /\ d.st = st
      /\ d.agreed = c.agreed
  <2>1. st \in {"sent", "checked", "conflict", "ok", "err"}
    BY <1>2
  <2> QED BY <1>1, <1>3, <2>1, BankAnswered
<1>5. OneWorks'
  <2>1. Works(d) => Works(c)
    BY <1>4 DEF Works
  <2> QED BY <1>1, <1>3, <2>1, StillOne
<1>6. BankTyped' /\ Bank!DuplicatesAsked'
  BY <1>1, <1>3, <1>4 DEF BankInv, BankTyped, Bank!DuplicatesAsked
<1>7. Checked(d) => db[d.key]["unasked"] = 0
  <2> SUFFICES ASSUME Checked(d)  PROVE db[c.key]["unasked"] = 0
    BY <1>4
  <2>1. ~Bank!Duplicate(c) /\ ~c.agreed
    BY <1>2, <1>4 DEF Checked
  <2>2. c.key \in Key /\ c.edit = None
    BY <1>1 DEF BankInv, BankTyped, BankCallOk, Filled
  <2> QED BY <2>1, <2>2, RowsCounted, KeysAssumption DEF Bank!Duplicate
<1>8. ChecksHold'
  BY <1>1, <1>3, <1>7 DEF BankInv, ChecksHold, Checked
<1> QED BY <1>5, <1>6, <1>8 DEF BankInv

LEMMA Commits == ASSUME BankInv, Bank!CommitCreate  PROVE BankInv'
<1>1. PICK c \in net :
        /\ c.op = "create" /\ c.st = "checked" /\ ui' = ui
        /\ net' \in {Bank!Resolve(c), Bank!Reject(c)}
        /\ db' = [db EXCEPT ![c.key][Bank!Class(c)] = @ + 1]
  BY DEF Bank!CommitCreate, Bank!Calls
<1>2. PICK d, st : /\ st \in {"ok", "err"} /\ d = [c EXCEPT !.st = st]
                   /\ net' = (net \ {c}) \cup {d}
  BY <1>1 DEF Bank!Resolve, Bank!Reject
<1>3. /\ BankCallOk(d) /\ d.op = c.op /\ d.form = c.form /\ d.key = c.key /\ d.st = st
      /\ d.agreed = c.agreed
  BY <1>1, <1>2, BankAnswered
<1>4. OneWorks'
  BY <1>1, <1>2, <1>3, StillOne DEF Works
<1>5. c.key \in Key /\ Bank!Class(c) \in Classes
  BY <1>1 DEF BankInv, BankTyped, BankCallOk, Filled, Bank!Class, Classes
<1>6. /\ db' \in [Key -> [Classes -> Nat]]
      /\ \A k \in Key : db'[k]["unasked"] = IF k = c.key /\ Bank!Class(c) = "unasked"
                                            THEN db[k]["unasked"] + 1 ELSE db[k]["unasked"]
  BY <1>1, <1>5 DEF BankInv, BankTyped, Classes
<1>7. BankTyped'
  BY <1>1, <1>2, <1>3, <1>6 DEF BankInv, BankTyped
<1>8. Bank!Class(c) = "unasked" => Checked(c) /\ db[c.key]["unasked"] = 0
  BY <1>1 DEF BankInv, ChecksHold, Checked, Bank!Class
<1>9. Bank!DuplicatesAsked'
  BY <1>6, <1>8, RowsCounted DEF BankInv, Bank!DuplicatesAsked
<1>10. ChecksHold'
  <2> SUFFICES ASSUME NEW e \in net', Checked(e)  PROVE db'[e.key]["unasked"] = 0
    BY DEF ChecksHold, Checked
  <2>1. e \in net /\ e # c
    BY <1>2, <1>3 DEF Checked
  <2>2. e.key \in Key /\ db[e.key]["unasked"] = 0
    BY <2>1 DEF BankInv, BankTyped, BankCallOk, Filled, Checked, ChecksHold
  <2>3. Bank!Class(c) # "unasked"
    BY <1>1, <1>8, <2>1 DEF BankInv, OneWorks, Works, Checked
  <2> QED BY <1>6, <2>2, <2>3
<1> QED BY <1>4, <1>7, <1>9, <1>10 DEF BankInv

LEMMA Updates == ASSUME BankInv, Bank!ServeUpdate  PROVE BankInv'
<1>1. PICK c \in net : /\ c.op = "update" /\ c.st = "sent" /\ ui' = ui
        /\ \/ net' = (net \ {c}) \cup {[c EXCEPT !.st = "conflict"]} /\ db' = db
           \/ net' = Bank!Reject(c) /\ db' = db
           \/ /\ net' \in {Bank!Resolve(c), Bank!Reject(c)} /\ ~Bank!Duplicate(c)
              /\ \E class \in Classes :
                   /\ db[c.edit][class] > 0
                   /\ LET without == [db EXCEPT ![c.edit][class] = @ - 1]
                      IN db' = [without EXCEPT
                           ![c.key][IF c.edit = c.key THEN class ELSE Bank!Class(c)] = @ + 1]
  BY DEF Bank!ServeUpdate, Bank!Unserved, Bank!Calls, Classes
<1>2. PICK d, st : /\ st \in {"conflict", "ok", "err"} /\ d = [c EXCEPT !.st = st]
                   /\ net' = (net \ {c}) \cup {d}
  BY <1>1 DEF Bank!Resolve, Bank!Reject
<1>3. /\ BankCallOk(d) /\ d.op = c.op /\ d.form = c.form /\ d.key = c.key /\ d.st = st
      /\ d.agreed = c.agreed
  BY <1>1, <1>2, BankAnswered
<1>4. OneWorks'
  BY <1>1, <1>2, <1>3, StillOne DEF Works
<1>5. c.key \in Key /\ c.edit \in Key /\ c.form = "single"
  BY <1>1 DEF BankInv, BankTyped, BankCallOk, Filled, BankCall
<1>6. \A e \in net : ~Checked(e)
  BY <1>1, <1>5 DEF BankInv, OneWorks, Works, Checked
<1>7. ChecksHold'
  BY <1>1, <1>2, <1>3, <1>6 DEF ChecksHold, Checked
<1>8. db' \in [Key -> [Classes -> Nat]] /\ Bank!DuplicatesAsked'
  <2>1. CASE db' = db
    BY <2>1 DEF BankInv, BankTyped, Bank!DuplicatesAsked
  <2>2. CASE db' # db
    <3>0. ~Bank!Duplicate(c)
      BY <1>1, <2>2
    <3>1. PICK class \in Classes :
            /\ db[c.edit][class] > 0
            /\ LET without == [db EXCEPT ![c.edit][class] = @ - 1]
               IN db' = [without EXCEPT
                    ![c.key][IF c.edit = c.key THEN class ELSE Bank!Class(c)] = @ + 1]
      BY <1>1, <2>2
    <3>2. PICK to, without : /\ to = IF c.edit = c.key THEN class ELSE Bank!Class(c)
                             /\ without = [db EXCEPT ![c.edit][class] = @ - 1]
      OBVIOUS
    <3>3. db' = [without EXCEPT ![c.key][to] = @ + 1]
      BY <3>1, <3>2
    <3>4. to \in Classes
      BY <3>2 DEF Bank!Class, Classes
    <3>5. /\ without \in [Key -> [Classes -> Nat]]
          /\ \A k \in Key, x \in Classes :
               without[k][x] = IF k = c.edit /\ x = class THEN db[k][x] - 1 ELSE db[k][x]
      BY <1>5, <3>1, <3>2 DEF BankInv, BankTyped
    <3>6. /\ db' \in [Key -> [Classes -> Nat]]
          /\ \A k \in Key, x \in Classes :
               db'[k][x] = IF k = c.key /\ x = to THEN without[k][x] + 1 ELSE without[k][x]
      BY <1>5, <3>3, <3>4, <3>5
    <3>7. ASSUME NEW k \in Key  PROVE db'[k]["unasked"] <= 1
      <4>1. db[k]["unasked"] <= 1 /\ db[k]["unasked"] \in Nat
        BY RowsCounted DEF BankInv, Bank!DuplicatesAsked
      <4>2. CASE ~(k = c.key /\ to = "unasked")
        BY <3>5, <3>6, <4>1, <4>2 DEF Classes
      <4>3. CASE k = c.key /\ to = "unasked" /\ c.edit = c.key
        BY <3>2, <3>5, <3>6, <4>1, <4>3 DEF Classes
      <4>4. CASE k = c.key /\ to = "unasked" /\ c.edit # c.key
        <5>1. ~c.agreed
          BY <3>2, <4>4 DEF Bank!Class
        <5>2. db[k]["unasked"] = 0
          BY <1>5, <3>0, <4>4, <5>1, RowsCounted DEF Bank!Duplicate
        <5> QED BY <3>5, <3>6, <4>4, <5>2 DEF Classes
      <4> QED BY <4>2, <4>3, <4>4
    <3> QED BY <3>6, <3>7 DEF Bank!DuplicatesAsked
  <2> QED BY <2>1, <2>2
<1>9. BankTyped'
  BY <1>1, <1>2, <1>3, <1>8 DEF BankInv, BankTyped
<1> QED BY <1>4, <1>7, <1>8, <1>9 DEF BankInv

LEMMA DeletesOrLost ==
  ASSUME BankInv, Bank!ServeDelete \/ Bank!Lose({"create", "update", "delete"})
  PROVE  BankInv'
<1>1. PICK c, st, d :
        /\ c \in net /\ st \in {"ok", "err"}
        /\ c.op \in {"create", "update", "delete"}
        /\ ui' = ui /\ d = [c EXCEPT !.st = st] /\ net' = (net \ {c}) \cup {d}
        /\ \/ db' = db
           \/ /\ c.op = "delete"
              /\ \E class \in Classes : /\ db[c.key][class] > 0
                                        /\ db' = [db EXCEPT ![c.key][class] = @ - 1]
  <2>1. CASE Bank!ServeDelete
    BY <2>1 DEF Bank!ServeDelete, Bank!Unserved, Bank!Calls, Bank!Resolve, Bank!Reject, Classes
  <2>2. CASE Bank!Lose({"create", "update", "delete"})
    BY <2>2 DEF Bank!Lose, Bank!Reject
  <2> QED BY <2>1, <2>2
<1>2. /\ BankCallOk(d) /\ d.op = c.op /\ d.form = c.form /\ d.key = c.key /\ d.st = st
      /\ d.agreed = c.agreed
  BY <1>1, BankAnswered
<1>3. OneWorks'
  BY <1>1, <1>2, StillOne DEF Works
<1>4. /\ db' \in [Key -> [Classes -> Nat]]
      /\ \A k \in Key : db'[k]["unasked"] <= db[k]["unasked"]
  <2>1. CASE db' = db
    BY <2>1 DEF BankInv, BankTyped, Classes
  <2>2. ASSUME NEW class \in Classes, c.op = "delete", db[c.key][class] > 0,
               db' = [db EXCEPT ![c.key][class] = @ - 1]
        PROVE  /\ db' \in [Key -> [Classes -> Nat]]
               /\ \A k \in Key : db'[k]["unasked"] <= db[k]["unasked"]
    <3>1. c.key \in Key
      BY <1>1, <2>2 DEF BankInv, BankTyped, BankCallOk
    <3> QED BY <2>2, <3>1 DEF BankInv, BankTyped, Classes
  <2> QED BY <1>1, <2>1, <2>2
<1>5. BankTyped'
  BY <1>1, <1>2, <1>4 DEF BankInv, BankTyped
<1>6. Bank!DuplicatesAsked'
  BY <1>4, RowsCounted DEF BankInv, BankTyped, Classes, Bank!DuplicatesAsked
<1>7. ChecksHold'
  <2> SUFFICES ASSUME NEW e \in net', Checked(e)  PROVE db'[e.key]["unasked"] = 0
    BY DEF ChecksHold, Checked
  <2>1. e \in net
    BY <1>1, <1>2 DEF Checked
  <2>2. e.key \in Key /\ db[e.key]["unasked"] = 0
    BY <2>1 DEF BankInv, BankTyped, BankCallOk, Filled, Checked, ChecksHold
  <2>3. db'[e.key]["unasked"] \in Nat
    BY <1>4, <2>2 DEF Classes
  <2> QED BY <1>4, <2>2, <2>3
<1> QED BY <1>3, <1>5, <1>6, <1>7 DEF BankInv
-----------------------------------------------------------------------------
(* The submission of a form. *)

\* A call that goes to the API from a form.
LEMMA CallSent ==
  ASSUME NEW c, Filled(c), c.st = "sent", NEW op, NEW d, d = [c EXCEPT !.op = op],
         \/ op \in {"check", "create"} /\ c.edit = None
         \/ op = "update" /\ c.edit # None
  PROVE  /\ BankCallOk(d) /\ d.op = op /\ d.form = c.form /\ d.st = "sent"
<1>1. c \in BankCall
  BY DEF Filled
<1>2. /\ d \in BankCall /\ d.op = op /\ d.form = c.form /\ d.key = c.key /\ d.st = "sent"
      /\ d.edit = c.edit
  BY <1>1 DEF BankCall
<1> QED BY <1>2 DEF BankCallOk, Filled

LEMMA Submitted ==
  ASSUME BankInv, NEW u, BankUiOk(u), u.ref = ui.ref, NEW c, Filled(c), c.st = "sent",
         NEW rest \in SUBSET net, Bank!Submit(u, c, rest), db' = db
  PROVE  BankInv'
<1>1. \A e \in rest : BankCallOk(e)
  BY DEF BankInv, BankTyped
<1>2. CASE Bank!Locked(c)
  <2>1. ui' = u /\ net' = rest
    BY <1>2 DEF Bank!Submit
  <2> QED BY <1>1, <2>1, NoCall, BankPageMoves
<1>3. CASE ~Bank!Locked(c)
  <2>1. PICK v, ref : /\ v = [u EXCEPT !.busy = TRUE, !.ref = ref]
                      /\ ref = IF c.form = "single" THEN TRUE ELSE u.ref
                      /\ Bank!Go(v, c, rest)
    BY <1>3 DEF Bank!Submit
  <2>2. BankUiOk(v) /\ v.ref = ref
    <3>1. ref \in BOOLEAN
      BY <2>1 DEF BankUiOk, BankUi
    <3> QED BY <2>1, <3>1 DEF BankUiOk, BankUi
  <2>3. c.form = "single" => \A e \in net : ~Works(e)
    BY <1>3 DEF Bank!Locked, BankInv, OneWorks
  <2>4. ASSUME NEW op, ui' = v, net' = rest \cup {[c EXCEPT !.op = op]},
               \/ op \in {"check", "create"} /\ c.edit = None
               \/ op = "update" /\ c.edit # None
        PROVE  BankInv'
    <3>1. PICK d : d = [c EXCEPT !.op = op]
      OBVIOUS
    <3>2. BankCallOk(d) /\ d.op = op /\ d.form = c.form /\ d.st = "sent"
      BY <2>4, <3>1, CallSent
    <3>3. \A e \in net' : e \in rest \/ e = d
      BY <2>4, <3>1
    <3>4. OneWorks'
      <4>1. CASE c.form = "single"
        BY <2>1, <2>2, <2>3, <2>4, <3>3, <4>1 DEF OneWorks, Works
      <4>2. CASE c.form # "single"
        BY <2>1, <2>2, <2>4, <3>2, <3>3, <4>2 DEF BankInv, OneWorks, Works
      <4> QED BY <4>1, <4>2
    <3> QED BY <1>1, <2>2, <2>4, <3>2, <3>3, <3>4, BankPageMoves DEF Checked
  <2>5. CASE ui' = Bank!AskSpecial(v, c) /\ net' = rest
    <3>1. /\ BankUiOk(ui')
          /\ ui'.ref = IF c.form = "single" THEN FALSE ELSE v.ref
      BY <2>2, <2>5, AskFacts
    <3>2. OneWorks'
      <4>1. CASE c.form = "single"
        BY <2>3, <2>5, <4>1 DEF OneWorks, Works
      <4>2. CASE c.form # "single"
        BY <2>1, <2>2, <2>5, <3>1, <4>2, NoCall
      <4> QED BY <4>1, <4>2
    <3> QED BY <1>1, <2>5, <3>1, <3>2, BankPageMoves
  <2>6. \/ ui' = v /\ net' = rest \cup {[c EXCEPT !.op = "check"]} /\ c.edit = None
        \/ ui' = Bank!AskSpecial(v, c) /\ net' = rest
        \/ ui' = v /\ net' = rest \cup {[c EXCEPT !.op = "create"]} /\ c.edit = None
        \/ ui' = v /\ net' = rest \cup {[c EXCEPT !.op = "update"]} /\ c.edit # None
    BY <2>1 DEF Bank!Go
  <2> QED BY <2>4, <2>5, <2>6
<1> QED BY <1>2, <1>3

\* The validation of a form ends, or a dialog is confirmed.
LEMMA Submissions ==
  ASSUME BankInv, Bank!DoneValidate \/ Bank!ConfirmDuplicate \/ Bank!ConfirmSpecial
  PROVE  BankInv'
<1>1. BankUiOk(ui)
  BY DEF BankInv, BankTyped
<1>2. CASE Bank!DoneValidate
  <2>1. PICK c \in net : c.op = "validate" /\ Bank!Submit(ui, c, net \ {c}) /\ db' = db
    BY <1>2 DEF Bank!DoneValidate, Bank!Calls
  <2>2. Filled(c) /\ c.st = "sent"
    BY <2>1 DEF BankInv, BankTyped, BankCallOk
  <2>3. PICK rest \in SUBSET net : Bank!Submit(ui, c, rest)
    BY <2>1
  <2> QED BY <1>1, <2>1, <2>2, <2>3, Submitted
<1>3. ASSUME NEW c, Filled(c), NEW d, d = [c EXCEPT !.agreed = TRUE, !.st = "sent"]
                                      \/ d = [c EXCEPT !.asked = TRUE, !.st = "sent"]
      PROVE  Filled(d) /\ d.st = "sent"
  <2>1. c \in BankCall
    BY <1>3 DEF Filled
  <2> QED BY <1>3, <2>1 DEF Filled, BankCall
<1>4. CASE Bank!ConfirmDuplicate
  <2>1. PICK u, c : /\ u = [ui EXCEPT !.duplicate = None, !.clicks = @ + 1]
                    /\ c = [ui.duplicate EXCEPT !.agreed = TRUE, !.st = "sent"]
                    /\ ui.duplicate # None /\ Bank!Submit(u, c, net) /\ db' = db
                    /\ ui.clicks + 1 \in Nat
    BY <1>1, <1>4 DEF Bank!ConfirmDuplicate, BankUiOk, BankUi
  <2>2. BankUiOk(u) /\ u.ref = ui.ref
    BY <1>1, <2>1 DEF BankUiOk, BankUi
  <2>3. Filled(c) /\ c.st = "sent"
    BY <1>1, <1>3, <2>1 DEF BankUiOk
  <2> QED BY <2>1, <2>2, <2>3, Submitted
<1>5. CASE Bank!ConfirmSpecial
  <2>1. PICK u, c : /\ u = [ui EXCEPT !.special = None, !.clicks = @ + 1]
                    /\ c = [ui.special EXCEPT !.asked = TRUE, !.st = "sent"]
                    /\ ui.special # None /\ Bank!Submit(u, c, net) /\ db' = db
                    /\ ui.clicks + 1 \in Nat
    BY <1>1, <1>5 DEF Bank!ConfirmSpecial, BankUiOk, BankUi
  <2>2. BankUiOk(u) /\ u.ref = ui.ref
    BY <1>1, <2>1 DEF BankUiOk, BankUi
  <2>3. Filled(c) /\ c.st = "sent"
    BY <1>1, <1>3, <2>1 DEF BankUiOk
  <2> QED BY <2>1, <2>2, <2>3, Submitted
<1> QED BY <1>2, <1>4, <1>5

\* A call ends, and its handler with it.
LEMMA CallEnds ==
  ASSUME BankInv, NEW c \in net, net' = net \ {c}, db' = db, BankUiOk(ui'),
         ui'.ref = ui.ref \/ Works(c)
  PROVE  BankInv'
<1>1. OneWorks'
  BY OneLess
<1>2. \A d \in net' : d \in net /\ BankCallOk(d)
  BY DEF BankInv, BankTyped
<1> QED BY <1>1, <1>2, BankPageMoves

\* A call is followed by the next one of its handler.
LEMMA CallGoesOn ==
  ASSUME BankInv, NEW c \in net, NEW d, net' = (net \ {c}) \cup {d}, db' = db,
         BankCallOk(d), ~Checked(d), Works(d) => Works(c), BankUiOk(ui'), ui'.ref = ui.ref
  PROVE  BankInv'
<1>1. OneWorks'
  BY StillOne
<1>2. \A e \in net' : e = d \/ (e \in net /\ BankCallOk(e))
  BY DEF BankInv, BankTyped
<1> QED BY <1>1, <1>2, BankPageMoves

\* The user does something, with a call that is no submission of the form for one row.
LEMMA UserActs ==
  ASSUME BankInv, NEW u, BankUiOk(u), Bank!Do(u), u.ref = ui.ref, db' = db,
         \/ net' = net
         \/ \E d : net' \subseteq net \cup {d} /\ BankCallOk(d) /\ ~Works(d) /\ ~Checked(d)
  PROVE  BankInv'
<1>1. BankUiOk(ui') /\ ui'.ref = ui.ref
  BY BankClick
<1>2. \A c \in net : BankCallOk(c)
  BY DEF BankInv, BankTyped
<1>3. CASE net' = net
  BY <1>1, <1>2, <1>3, NoCall, BankPageMoves
<1>4. ASSUME NEW d, net' \subseteq net \cup {d}, BankCallOk(d), ~Works(d), ~Checked(d)
      PROVE  BankInv'
  <2>1. OneWorks'
    BY <1>1, <1>4 DEF BankInv, OneWorks, Works
  <2>2. \A e \in net' : e = d \/ (e \in net /\ BankCallOk(e))
    BY <1>2, <1>4
  <2> QED BY <1>1, <1>4, <2>1, <2>2, BankPageMoves
<1> QED BY <1>3, <1>4

LEMMA ChecksEnd == ASSUME BankInv, Bank!DoneCheck  PROVE BankInv'
<1>0. BankUiOk(ui)
  BY DEF BankInv, BankTyped
<1>1. PICK c \in net :
        /\ c.op = "check" /\ db' = db
        /\ \/ /\ ui' \in {Bank!Finally(ui, c), Bank!AskDuplicate(ui, c), Bank!AskSpecial(ui, c)}
              /\ net' = net \ {c}
           \/ ui' = ui /\ net' = (net \ {c}) \cup {[c EXCEPT !.op = "create"]}
  BY DEF Bank!DoneCheck, Bank!Calls
<1>2. Filled(c) /\ c.edit = None /\ c.st = "sent"
  BY <1>1 DEF BankInv, BankTyped, BankCallOk
<1>3. c.form = "single" => Works(c)
  BY <1>1 DEF Works
<1>4. CASE /\ ui' \in {Bank!Finally(ui, c), Bank!AskDuplicate(ui, c),
                     Bank!AskSpecial(ui, c)}
           /\ net' = net \ {c}
  <2>1. BankUiOk(ui') /\ ui'.ref = IF c.form = "single" THEN FALSE ELSE ui.ref
    <3>1. CASE ui' = Bank!Finally(ui, c)
      BY <1>0, <3>1, FinallyFacts
    <3>2. /\ BankUiOk(Bank!AskDuplicate(ui, c)) /\ BankUiOk(Bank!AskSpecial(ui, c))
          /\ Bank!AskDuplicate(ui, c).ref = IF c.form = "single" THEN FALSE ELSE ui.ref
          /\ Bank!AskSpecial(ui, c).ref = IF c.form = "single" THEN FALSE ELSE ui.ref
      BY <1>0, <1>2, AskFacts
    <3>3. CASE ui' = Bank!AskDuplicate(ui, c)
      BY <3>2, <3>3
    <3>4. CASE ui' = Bank!AskSpecial(ui, c)
      BY <3>2, <3>4
    <3> QED BY <1>4, <3>1, <3>3, <3>4
  <2> QED BY <1>1, <1>3, <1>4, <2>1, CallEnds
<1>5. ASSUME NEW d, d = [c EXCEPT !.op = "create"], net' = (net \ {c}) \cup {d}, ui' = ui
      PROVE  BankInv'
  <2>1. BankCallOk(d) /\ d.op = "create" /\ d.form = c.form /\ d.st = "sent"
    BY <1>2, <1>5, CallSent
  <2>2. Works(d) => Works(c)
    BY <1>1, <2>1 DEF Works
  <2> QED BY <1>0, <1>1, <1>5, <2>1, <2>2, CallGoesOn DEF Checked
<1> QED BY <1>1, <1>4, <1>5

LEMMA BankSavesEnd == ASSUME BankInv, Bank!DoneSave  PROVE BankInv'
<1>0. BankUiOk(ui)
  BY DEF BankInv, BankTyped
<1>1. PICK c \in net :
        /\ c.op \in {"create", "update", "delete"} /\ db' = db
        /\ IF c.st = "ok"
           THEN /\ ui' = [ui EXCEPT !.form = IF c.form \in Bank!EntryForm THEN None ELSE @,
                                    !.edit = IF c.form = "single" THEN None ELSE @,
                                    !.preview = IF c.form = "import" THEN None ELSE @,
                                    !.req = @ + 1, !.busy = TRUE]
                /\ net' = (net \ {c}) \cup
                            {[Bank!Call("load", c.form, c.key) EXCEPT !.req = ui.req + 1]}
           ELSE /\ ui' = IF c.st = "conflict" THEN Bank!AskDuplicate(ui, c)
                         ELSE Bank!Finally(ui, c)
                /\ net' = net \ {c}
  BY DEF Bank!DoneSave, Bank!Settled
<1>2. /\ c \in BankCall /\ BankCallOk(c) /\ (c.form = "single" => Works(c))
      /\ c.st = "conflict" => Filled(c)
  BY <1>1 DEF BankInv, BankTyped, BankCallOk, Works
<1>3. CASE c.st # "ok"
  <2>1. BankUiOk(ui') /\ ui'.ref = IF c.form = "single" THEN FALSE ELSE ui.ref
    <3>1. CASE c.st = "conflict"
      <4>1. /\ BankUiOk(Bank!AskDuplicate(ui, c)) /\ BankUiOk(Bank!AskSpecial(ui, c))
            /\ Bank!AskDuplicate(ui, c).ref = IF c.form = "single" THEN FALSE ELSE ui.ref
            /\ Bank!AskSpecial(ui, c).ref = IF c.form = "single" THEN FALSE ELSE ui.ref
        BY <1>0, <1>2, <3>1, AskFacts
      <4>2. ui' = Bank!AskDuplicate(ui, c)
        BY <1>1, <1>3, <3>1
      <4> QED BY <4>1, <4>2
    <3>2. CASE c.st # "conflict"
      BY <1>0, <1>1, <1>3, <3>2, FinallyFacts
    <3> QED BY <3>1, <3>2
  <2> QED BY <1>1, <1>2, <1>3, <2>1, CallEnds
<1>4. CASE c.st = "ok"
  <2>1. PICK form, edit, preview, n :
          /\ ui' = [ui EXCEPT !.form = form, !.edit = edit, !.preview = preview, !.req = n,
                              !.busy = TRUE]
          /\ form \in {ui.form, None} /\ edit \in {ui.edit, None}
          /\ preview \in {ui.preview, None} /\ n = ui.req + 1
    BY <1>1, <1>4
  <2>2. n \in Nat
    BY <1>0, <2>1 DEF BankUiOk, BankUi
  <2>3. BankUiOk(ui') /\ ui'.ref = ui.ref
    <3>1. ui' \in BankUi
      BY <1>0, <2>1, <2>2 DEF BankUiOk, BankUi
    <3>2. /\ ui'.ref = ui.ref /\ ui'.form = form /\ ui'.edit = edit
          /\ ui'.duplicate = ui.duplicate /\ ui'.special = ui.special
      BY <1>0, <2>1 DEF BankUiOk, BankUi
    <3>3. ui'.form \in {"entry", "import"} => ui'.edit = None
      BY <1>0, <2>1, <3>2, FormsAssumption DEF BankUiOk, Bank!EntryForm
    <3> QED BY <1>0, <3>1, <3>2, <3>3 DEF BankUiOk
  <2>4. PICK d, e : /\ e = Bank!Call("load", c.form, c.key) /\ d = [e EXCEPT !.req = n]
                    /\ net' = (net \ {c}) \cup {d}
    BY <1>1, <1>4, <2>1
  <2>5. /\ e \in BankCall /\ e.op = "load" /\ e.form = c.form /\ e.st = "sent"
    <3>1. c.form \in BankForm /\ c.key \in Key \cup {None}
      BY <1>2 DEF BankCall
    <3> QED BY <2>4, <3>1, CallMade
  <2>6. d \in BankCall /\ d.op = "load" /\ d.form = c.form /\ d.st = "sent"
    BY <2>2, <2>4, <2>5 DEF BankCall
  <2>7. BankCallOk(d) /\ ~Checked(d) /\ (Works(d) => Works(c))
    BY <1>2, <2>6 DEF BankCallOk, Checked, Works
  <2> QED BY <1>1, <2>3, <2>4, <2>7, CallGoesOn
<1> QED BY <1>3, <1>4

LEMMA BankLoadsEnd ==
  ASSUME BankInv, Bank!DoneLoad \/ Bank!DoneSummary \/ Bank!DonePreview
  PROVE  BankInv'
<1>0. BankUiOk(ui)
  BY DEF BankInv, BankTyped
<1>1. CASE Bank!DoneLoad
  <2>1. PICK c, busy : /\ c \in net /\ c.op = "load" /\ db' = db /\ busy \in BOOLEAN
                       /\ ui' = [ui EXCEPT !.busy = busy]
                       /\ net' = (net \ {c}) \cup
                            (IF c.form = None THEN {} ELSE {[c EXCEPT !.op = "summary"]})
    <3>1. \A c : (ui.busy /\ c.req # ui.req) \in BOOLEAN
      OBVIOUS
    <3> QED BY <1>1, <3>1 DEF Bank!DoneLoad, Bank!Calls
  <2>2. BankUiOk(ui') /\ ui'.ref = ui.ref
    BY <1>0, <2>1 DEF BankUiOk, BankUi
  <2>3. CASE c.form = None
    <3>1. net' = net \ {c}
      BY <2>1, <2>3
    <3> QED BY <2>1, <2>2, <3>1, CallEnds
  <2>4. CASE c.form # None
    <3>1. PICK d : d = [c EXCEPT !.op = "summary"] /\ net' = (net \ {c}) \cup {d}
      BY <2>1, <2>4
    <3>2. c \in BankCall /\ c.st = "sent"
      BY <2>1 DEF BankInv, BankTyped, BankCallOk
    <3>3. d \in BankCall /\ d.op = "summary" /\ d.form = c.form /\ d.st = "sent"
      BY <3>1, <3>2 DEF BankCall
    <3>4. BankCallOk(d) /\ ~Checked(d) /\ (Works(d) => Works(c))
      BY <2>1, <3>3 DEF BankCallOk, Checked, Works
    <3> QED BY <2>1, <2>2, <3>1, <3>4, CallGoesOn
  <2> QED BY <2>3, <2>4
<1>2. CASE Bank!DoneSummary
  <2>1. PICK c \in net : /\ c.op = "summary" /\ ui' = Bank!Finally(ui, c)
                         /\ net' = net \ {c} /\ db' = db
    BY <1>2 DEF Bank!DoneSummary, Bank!Calls
  <2>2. BankUiOk(ui') /\ ui'.ref = IF c.form = "single" THEN FALSE ELSE ui.ref
    BY <1>0, <2>1, FinallyFacts
  <2>3. c.form = "single" => Works(c)
    BY <2>1 DEF Works
  <2> QED BY <2>1, <2>2, <2>3, CallEnds
<1>3. CASE Bank!DonePreview
  <2>1. PICK c, u, preview :
          /\ c \in net /\ c.op = "preview" /\ u = Bank!Finally(ui, c)
          /\ ui' = [u EXCEPT !.preview = preview]
          /\ preview = u.preview \/ \E found \in BOOLEAN : preview = [found |-> found]
          /\ net' = net \ {c} /\ db' = db
    <3>1. \A c : (Bank!Rows(c.key) > 0) \in BOOLEAN
      OBVIOUS
    <3> QED BY <1>3, <3>1 DEF Bank!DonePreview, Bank!Calls
  <2>2. c.form = "import"
    BY <2>1 DEF BankInv, BankTyped, BankCallOk
  <2>3. BankUiOk(u) /\ u.ref = ui.ref
    BY <1>0, <2>1, <2>2, FinallyFacts
  <2>4. BankUiOk(ui') /\ ui'.ref = ui.ref
    <3>1. preview \in [found : BOOLEAN] \cup {None}
      BY <2>1, <2>3 DEF BankUiOk, BankUi
    <3> QED BY <2>1, <2>3, <3>1 DEF BankUiOk, BankUi
  <2> QED BY <2>1, <2>4, CallEnds
<1> QED BY <1>1, <1>2, <1>3

\* A button that sends nothing, and does not touch the ref.
LEMMA BankButtons ==
  ASSUME BankInv, Bank!Decline \/ Bank!Close \/ (\E k \in Key : Bank!ChooseFile(k))
                  \/ (\E form \in Bank!EntryForm : Bank!Open(form))
  PROVE  BankInv'
<1>0. BankUiOk(ui)
  BY DEF BankInv, BankTyped
<1>1. CASE Bank!Decline
  <2>1. PICK u : /\ u = [ui EXCEPT !.duplicate = None, !.special = None]
                 /\ Bank!Do(u) /\ net' = net /\ db' = db
    BY <1>1 DEF Bank!Decline
  <2>2. BankUiOk(u) /\ u.ref = ui.ref
    BY <1>0, <2>1 DEF BankUiOk, BankUi
  <2> QED BY <2>1, <2>2, UserActs
<1>2. CASE Bank!Close
  <2>1. PICK u : /\ u = IF ui.form = "single"
                        THEN [ui EXCEPT !.form = None, !.edit = None, !.duplicate = None,
                                        !.special = None]
                        ELSE [ui EXCEPT !.form = None]
                 /\ Bank!Do(u) /\ net' = net /\ db' = db
    BY <1>2 DEF Bank!Close
  <2>2. BankUiOk(u) /\ u.ref = ui.ref
    <3>1. CASE ui.form = "single"
      BY <1>0, <2>1, <3>1 DEF BankUiOk, BankUi
    <3>2. CASE ui.form # "single"
      BY <1>0, <2>1, <3>2, FormsAssumption DEF BankUiOk, BankUi, Bank!EntryForm
    <3> QED BY <3>1, <3>2
  <2> QED BY <2>1, <2>2, UserActs
<1>3. ASSUME NEW k \in Key, Bank!ChooseFile(k)  PROVE BankInv'
  <2>1. PICK u : /\ u = [ui EXCEPT !.file = k, !.preview = None]
                 /\ Bank!Do(u) /\ net' = net /\ db' = db
    BY <1>3 DEF Bank!ChooseFile
  <2>2. BankUiOk(u) /\ u.ref = ui.ref
    BY <1>0, <2>1 DEF BankUiOk, BankUi
  <2> QED BY <2>1, <2>2, UserActs
<1>4. ASSUME NEW form \in Bank!EntryForm, Bank!Open(form)  PROVE BankInv'
  <2>1. PICK k, u :
          /\ k \in Key \cup {None} /\ (form # "single" => k = None)
          /\ u = [ui EXCEPT !.form = form, !.edit = k, !.file = None, !.preview = None]
          /\ Bank!Do(u) /\ net' = net /\ db' = db
    BY <1>4 DEF Bank!Open
  <2>2. BankUiOk(u) /\ u.ref = ui.ref
    BY <1>0, <2>1 DEF BankUiOk, BankUi
  <2> QED BY <2>1, <2>2, UserActs
<1> QED BY <1>1, <1>2, <1>3, <1>4

\* A button that sends a call, none of them a submission that works already.
LEMMA BankRequests ==
  ASSUME BankInv, Bank!Reload \/ Bank!Preview \/ (\E k \in Key : Bank!Delete(k))
  PROVE  BankInv'
<1>0. BankUiOk(ui)
  BY DEF BankInv, BankTyped
<1>1. CASE Bank!Reload
  <2>1. PICK u, n, e, d :
          /\ n = ui.req + 1 /\ u = [ui EXCEPT !.req = n, !.busy = TRUE]
          /\ e = Bank!Call("load", None, None) /\ d = [e EXCEPT !.req = n]
          /\ Bank!Do(u) /\ db' = db
          /\ net' = {c \in net : c.op = "load" => c.form # None} \cup {d}
    BY <1>1 DEF Bank!Reload
  <2>2. n \in Nat
    BY <1>0, <2>1 DEF BankUiOk, BankUi
  <2>3. BankUiOk(u) /\ u.ref = ui.ref
    BY <1>0, <2>1, <2>2 DEF BankUiOk, BankUi
  <2>4. e \in BankCall /\ e.op = "load" /\ e.form = None /\ e.st = "sent"
    BY <2>1, CallMade DEF BankForm
  <2>5. d \in BankCall /\ d.op = "load" /\ d.form = None /\ d.st = "sent"
    BY <2>1, <2>2, <2>4 DEF BankCall
  <2>6. BankCallOk(d) /\ ~Works(d) /\ ~Checked(d)
    BY <2>5, FormsAssumption DEF BankCallOk, Works, Checked, Bank!EntryForm
  <2>7. net' \subseteq net \cup {d}
    BY <2>1
  <2> QED BY <2>1, <2>3, <2>6, <2>7, UserActs
<1>2. CASE Bank!Preview
  <2>1. PICK u, d : /\ u = [ui EXCEPT !.busy = TRUE] /\ Bank!Do(u) /\ db' = db
                    /\ d = Bank!Call("preview", "import", ui.file) /\ net' = net \cup {d}
    BY <1>2 DEF Bank!Preview
  <2>2. BankUiOk(u) /\ u.ref = ui.ref /\ ui.file \in Key \cup {None}
    BY <1>0, <2>1 DEF BankUiOk, BankUi
  <2>3. d \in BankCall /\ d.op = "preview" /\ d.form = "import" /\ d.st = "sent"
    BY <2>1, <2>2, CallMade DEF BankForm, Bank!EntryForm
  <2>4. BankCallOk(d) /\ ~Works(d) /\ ~Checked(d)
    BY <2>3 DEF BankCallOk, Works, Checked
  <2> QED BY <2>1, <2>2, <2>4, UserActs
<1>3. ASSUME NEW k \in Key, Bank!Delete(k)  PROVE BankInv'
  <2>1. PICK u, d : /\ u = [ui EXCEPT !.busy = TRUE] /\ Bank!Do(u) /\ db' = db
                    /\ d = Bank!Call("delete", "delete", k) /\ net' = net \cup {d}
    BY <1>3 DEF Bank!Delete
  <2>2. BankUiOk(u) /\ u.ref = ui.ref
    BY <1>0, <2>1 DEF BankUiOk, BankUi
  <2>3. d \in BankCall /\ d.op = "delete" /\ d.form = "delete" /\ d.st = "sent" /\ d.key = k
    BY <2>1, CallMade DEF BankForm
  <2>4. BankCallOk(d) /\ ~Works(d) /\ ~Checked(d)
    BY <2>3 DEF BankCallOk, Works, Checked
  <2> QED BY <2>1, <2>2, <2>4, UserActs
<1> QED BY <1>1, <1>2, <1>3

\* A form is submitted, or a file imported; the dialog about its duplicates may come first.
LEMMA BankSubmits ==
  ASSUME BankInv,
         (\E k \in Key, special \in BOOLEAN : Bank!Press(k, special)) \/ Bank!Import
  PROVE  BankInv'
<1>0. BankUiOk(ui)
  BY DEF BankInv, BankTyped
<1>1. ASSUME NEW k \in Key, NEW special \in BOOLEAN, Bank!Press(k, special)  PROVE BankInv'
  <2>1. PICK e, d : /\ e = Bank!Call("validate", ui.form, k)
                    /\ d = [e EXCEPT !.special = special, !.edit = ui.edit]
                    /\ ui.form \in {"single", "entry"}
                    /\ net' = net \cup {d} /\ Bank!Do(ui) /\ db' = db
    BY <1>1 DEF Bank!Press, Bank!MaySave
  <2>2. /\ e \in BankCall /\ e.op = "validate" /\ e.form = ui.form /\ e.key = k
        /\ e.st = "sent"
    BY <2>1, CallMade DEF BankForm, Bank!EntryForm
  <2>3. ui.edit \in Key \cup {None} /\ (ui.edit # None => ui.form = "single")
    BY <1>0, <2>1 DEF BankUiOk, BankUi
  <2>4. /\ d \in BankCall /\ d.op = "validate" /\ d.form = ui.form /\ d.key = k
        /\ d.st = "sent" /\ d.edit = ui.edit
    BY <2>1, <2>2, <2>3 DEF BankCall
  <2>5. BankCallOk(d) /\ ~Works(d) /\ ~Checked(d)
    BY <2>1, <2>3, <2>4 DEF BankCallOk, Filled, Works, Checked, Bank!EntryForm
  <2> QED BY <1>0, <2>1, <2>5, UserActs
<1>2. CASE Bank!Import
  <2>1. PICK d : /\ d = Bank!Call("create", "import", ui.file) /\ db' = db
                 /\ ui.file # None
                 /\ \/ Bank!Do([ui EXCEPT !.duplicate = d]) /\ net' = net
                    \/ Bank!Do([ui EXCEPT !.busy = TRUE]) /\ net' = net \cup {d}
    BY <1>2 DEF Bank!Import
  <2>2. ui.file \in Key
    BY <1>0, <2>1 DEF BankUiOk, BankUi
  <2>3. /\ d \in BankCall /\ d.op = "create" /\ d.form = "import" /\ d.key \in Key
        /\ d.st = "sent" /\ d.edit = None
    BY <2>1, <2>2, CallMade DEF BankForm, Bank!EntryForm
  <2>4. Filled(d) /\ BankCallOk(d) /\ ~Works(d) /\ ~Checked(d)
    BY <2>3 DEF BankCallOk, Filled, Works, Checked, Bank!EntryForm
  <2>5. CASE Bank!Do([ui EXCEPT !.duplicate = d]) /\ net' = net
    <3>1. PICK u : u = [ui EXCEPT !.duplicate = d] /\ Bank!Do(u)
      BY <2>5
    <3>2. BankUiOk(u) /\ u.ref = ui.ref
      BY <1>0, <2>3, <2>4, <3>1 DEF BankUiOk, BankUi
    <3> QED BY <2>1, <2>5, <3>1, <3>2, UserActs
  <2>6. CASE Bank!Do([ui EXCEPT !.busy = TRUE]) /\ net' = net \cup {d}
    <3>1. PICK u : u = [ui EXCEPT !.busy = TRUE] /\ Bank!Do(u)
      BY <2>6
    <3>2. BankUiOk(u) /\ u.ref = ui.ref
      BY <1>0, <3>1 DEF BankUiOk, BankUi
    <3> QED BY <2>1, <2>4, <2>6, <3>1, <3>2, UserActs
  <2> QED BY <2>1, <2>5, <2>6
<1> QED BY <1>1, <1>2

LEMMA BankInit == ASSUME Bank!Init PROVE BankInv
<1>1. PICK e, d : /\ e = Bank!Call("load", None, None) /\ d = [e EXCEPT !.req = 1]
                  /\ net = {d}
  BY DEF Bank!Init
<1>2. e \in BankCall /\ e.op = "load" /\ e.form = None /\ e.st = "sent"
  BY <1>1, CallMade DEF BankForm
<1>3. d \in BankCall /\ d.op = "load" /\ d.form = None /\ d.st = "sent"
  BY <1>1, <1>2 DEF BankCall
<1>4. BankCallOk(d) /\ ~Works(d) /\ ~Checked(d)
  BY <1>3, FormsAssumption DEF BankCallOk, Works, Checked, Bank!EntryForm
<1>5. BankUiOk(ui)
  BY DEF Bank!Init, BankUiOk, BankUi
<1>6. db \in [Key -> [Classes -> Nat]] /\ Bank!DuplicatesAsked
  BY DEF Bank!Init, Classes, Bank!DuplicatesAsked
<1> QED BY <1>1, <1>4, <1>5, <1>6 DEF BankInv, BankTyped, OneWorks, ChecksHold

LEMMA BankStep == BankInv /\ Bank!Next => BankInv'
<1> SUFFICES ASSUME BankInv, Bank!Next PROVE BankInv'
  OBVIOUS
<1>1. CASE Bank!CheckCreate \/ Bank!CommitCreate \/ Bank!ServeUpdate \/ Bank!ServeDelete
           \/ Bank!Lose({"create", "update", "delete"})
  BY <1>1, Checks, Commits, Updates, DeletesOrLost
<1>2. CASE \/ Bank!DoneValidate \/ Bank!DoneCheck \/ Bank!ConfirmDuplicate
           \/ Bank!ConfirmSpecial \/ Bank!DoneSave \/ Bank!DoneLoad \/ Bank!DoneSummary
           \/ Bank!DonePreview
  BY <1>2, Submissions, ChecksEnd, BankSavesEnd, BankLoadsEnd
<1>3. CASE \/ Bank!Decline \/ Bank!Close \/ (\E k \in Key : Bank!ChooseFile(k))
           \/ (\E form \in Bank!EntryForm : Bank!Open(form))
  BY <1>3, BankButtons
<1>4. CASE \/ Bank!Focus \/ Bank!Query \/ Bank!Preview \/ (\E k \in Key : Bank!Delete(k))
  BY <1>4, BankRequests DEF Bank!Focus, Bank!Query
<1>5. CASE (\E k \in Key, special \in BOOLEAN : Bank!Press(k, special)) \/ Bank!Import
  BY <1>5, BankSubmits
<1> QED BY <1>1, <1>2, <1>3, <1>4, <1>5 DEF Bank!Next

LEMMA BankHolds == BankInv => Bank!TypeOK /\ Bank!DuplicatesAsked
<1> SUFFICES ASSUME BankInv PROVE Bank!TypeOK
  BY DEF BankInv
<1>1. ui \in BankUi /\ db \in [Key -> [Classes -> Nat]]
  BY DEF BankInv, BankTyped, BankUiOk
<1>2. /\ ui.form \in Bank!EntryForm \cup {None} /\ {ui.edit, ui.file} \subseteq Key \cup {None}
      /\ {ui.busy, ui.ref} \subseteq BOOLEAN
  BY <1>1 DEF BankUi
<1> QED BY <1>1, <1>2 DEF Bank!TypeOK
-----------------------------------------------------------------------------
(* The synchronization page.  What the page shows of the approvals was either given again
   by apiClient or told by the API after the end the page knows of: a list asked for before
   the page saw that end is dropped, one asked for since is answered with what is there by
   then, and no list is asked for while another tab is shown. *)

Told == [Job -> Jobs!JobStatus]
JobCall == [op : {"start", "poll", "tab", "list", "jobs"}, st : {"sent", "ok", "err"},
            jobs : Told, ver : Nat, hit : BOOLEAN]
JobsUi ==
  [page : {"jobs"}, clicks : Nat, tab : Jobs!Tabs, busy : BOOLEAN, jobs : Told,
   previous : SUBSET Job, loaded : BOOLEAN, list : {"loading", "shown", "failed"},
   shown : Nat, end : Nat, hit : BOOLEAN, cache : [{"jobs", "list"} -> JobCall \cup {None}]]

\* What a call or the page tells is not newer than what the API knows.
JobCallOk(c) == c \in JobCall /\ c.ver <= db.ver
JobsUiOk(u) ==
  /\ u \in JobsUi /\ u.end <= db.ver
  /\ \A path \in {"jobs", "list"} :
       u.cache[path] # None => JobCallOk(u.cache[path]) /\ u.cache[path].st = "ok"
EndedJobs(jobs) == {j \in Job : jobs[j] = "ended"}
JobsDb == /\ db \in [jobs : Told, ver : Nat]
          /\ db.ver = Cardinality(EndedJobs(db.jobs))

\* The calls for the list that are out when the page is in state u.
ListOk(c, u) == /\ u.tab = "instances"
                /\ c.st = "sent" \/ c.hit \/ c.ver >= u.end
ListShown(u) == u.tab = "instances" /\ u.list = "shown" => u.hit \/ u.shown >= u.end
JobsPageOk(u, calls) ==
  /\ JobsUiOk(u) /\ ListShown(u)
  /\ \A c \in calls : JobCallOk(c) /\ (c.op = "list" => ListOk(c, u))

JobsInv == JobsDb /\ JobsPageOk(ui, net)

\* A step of the page.
LEMMA JobsPageMoves ==
  ASSUME JobsInv, db' = db, NEW u, NEW calls, JobsPageOk(u, calls), ui' = u, net' = calls
  PROVE  JobsInv'
<1>1. JobsDb'
  BY DEF JobsInv, JobsDb
<1>2. JobsPageOk(ui', net')
  OBVIOUS
<1>3. JobsPageOk(ui, net)'
  BY <1>2 DEF JobsPageOk, JobsUiOk, JobCallOk
<1> QED BY <1>1, <1>3 DEF JobsInv

\* getCache: an answer at hand, or a call.
LEMMA CallGot ==
  ASSUME NEW u, JobsUiOk(u), JobsDb, NEW op \in {"poll", "tab", "list"}
  PROVE  /\ JobCallOk(Jobs!Get(u, op)) /\ Jobs!Get(u, op).op = op
         /\ op = "list" => Jobs!Get(u, op).st = "sent" \/ Jobs!Get(u, op).hit
<1>1. PICK path, d : path = Jobs!Path(op) /\ d = Jobs!Get(u, op)
  OBVIOUS
<1>2. path \in {"jobs", "list"}
  BY <1>1 DEF Jobs!Path
<1>3. CASE u.cache[path] = None
  <2>1. d = Jobs!Call(op)
    BY <1>1, <1>3 DEF Jobs!Get
  <2>2. [j \in Job |-> "none"] \in Told
    BY DEF Told, Jobs!JobStatus
  <2>3. d \in JobCall /\ d.op = op /\ d.st = "sent" /\ d.ver = 0
    BY <2>1, <2>2 DEF Jobs!Call, JobCall
  <2> QED BY <1>1, <2>3 DEF JobCallOk, JobsDb
<1>4. CASE u.cache[path] # None
  <2>1. PICK e, hit : /\ e = u.cache[path] /\ hit \in BOOLEAN /\ (op = "list" => hit = TRUE)
                      /\ d = [e EXCEPT !.op = op, !.hit = hit]
    BY <1>1, <1>4 DEF Jobs!Get
  <2>2. e \in JobCall /\ e.ver <= db.ver
    BY <1>2, <1>4, <2>1 DEF JobsUiOk, JobCallOk
  <2>3. d \in JobCall /\ d.op = op /\ d.ver = e.ver /\ d.hit = hit
    BY <2>1, <2>2 DEF JobCall
  <2> QED BY <1>1, <2>1, <2>2, <2>3 DEF JobCallOk
<1> QED BY <1>3, <1>4
-----------------------------------------------------------------------------
\* loadInstancesTab: the page is busy, with a call more.
LEMMA TabLoads ==
  ASSUME JobsDb, NEW u, NEW calls, JobsPageOk(u, calls)
  PROVE  JobsPageOk(Jobs!LoadTab(u, calls).ui, Jobs!LoadTab(u, calls).net)
<1>1. PICK v, d : /\ v = [u EXCEPT !.busy = TRUE] /\ d = Jobs!Get(u, "tab")
                  /\ v = Jobs!LoadTab(u, calls).ui
                  /\ calls \cup {d} = Jobs!LoadTab(u, calls).net
  BY DEF Jobs!LoadTab
<1>2. JobsUiOk(v) /\ v.tab = u.tab /\ v.list = u.list /\ v.hit = u.hit
      /\ v.shown = u.shown /\ v.end = u.end
  BY <1>1 DEF JobsPageOk, JobsUiOk, JobsUi
<1>3. JobCallOk(d) /\ d.op = "tab"
  BY <1>1, CallGot DEF JobsPageOk
<1>4. JobsPageOk(v, calls \cup {d})
  BY <1>2, <1>3 DEF JobsPageOk, ListShown, ListOk
<1> QED BY <1>1, <1>4

\* Loaded by force, the list is asked for anew, and what was asked before is dropped.
LEMMA TabForced ==
  ASSUME JobsDb, NEW u, JobsUiOk(u), u.tab = "instances",
         NEW calls, \A c \in calls : JobCallOk(c)
  PROVE  JobsPageOk(Jobs!ForceTab(u, calls).ui, Jobs!ForceTab(u, calls).net)
<1>1. PICK v, d, all : /\ v = [u EXCEPT !.list = "loading"] /\ d = Jobs!Get(u, "list")
                       /\ all = {c \in calls : c.op # "list"} \cup {d}
                       /\ Jobs!ForceTab(u, calls) = Jobs!LoadTab(v, all)
  BY DEF Jobs!ForceTab
<1>2. JobsUiOk(v) /\ v.tab = u.tab /\ v.list = "loading"
  BY <1>1 DEF JobsUiOk, JobsUi
<1>3. JobCallOk(d) /\ d.op = "list" /\ (d.st = "sent" \/ d.hit)
  BY <1>1, CallGot
<1>4. JobsPageOk(v, all)
  BY <1>1, <1>2, <1>3 DEF JobsPageOk, ListShown, ListOk
<1> QED BY <1>1, <1>4, TabLoads

\* The effect on the job list.
LEMMA JobsSet ==
  ASSUME JobsDb, NEW u, NEW calls, JobsPageOk(u, calls), NEW c, JobCallOk(c)
  PROVE  JobsPageOk(Jobs!SetJobs(u, c, calls).ui, Jobs!SetJobs(u, c, calls).net)
<1>1. PICK v, w, previous : /\ previous = Jobs!Running(c.jobs)
                            /\ v = [u EXCEPT !.jobs = c.jobs, !.previous = previous]
                            /\ w = [v EXCEPT !.end = c.ver]
  OBVIOUS
<1>2. c.jobs \in Told /\ c.ver \in Nat /\ c.ver <= db.ver /\ previous \in SUBSET Job
  BY <1>1 DEF JobCallOk, JobCall, Jobs!Running
<1>3. v \in JobsUi
  BY <1>1, <1>2 DEF JobsPageOk, JobsUiOk, JobsUi
<1>4. /\ v.tab = u.tab /\ v.list = u.list /\ v.hit = u.hit /\ v.shown = u.shown
      /\ v.end = u.end /\ v.cache = u.cache
  BY <1>1 DEF JobsPageOk, JobsUiOk, JobsUi
<1>5. JobsUiOk(v)
  BY <1>3, <1>4 DEF JobsPageOk, JobsUiOk
<1>6. w \in JobsUi
  BY <1>1, <1>2, <1>3 DEF JobsUi
<1>7. w.tab = u.tab /\ w.end = c.ver /\ w.cache = u.cache
  BY <1>1, <1>3, <1>4 DEF JobsUi
<1>8. JobsUiOk(w)
  BY <1>2, <1>5, <1>6, <1>7, <1>4 DEF JobsUiOk
<1>9. JobsPageOk(v, calls)
  BY <1>4, <1>5 DEF JobsPageOk, ListShown, ListOk
<1>10. CASE u.previous \subseteq previous
  <2>1. Jobs!SetJobs(u, c, calls) = [ui |-> v, net |-> calls]
    BY <1>1, <1>10 DEF Jobs!SetJobs
  <2> QED BY <1>9, <2>1
<1>11. CASE ~(u.previous \subseteq previous) /\ u.tab = "instances"
  <2>1. Jobs!SetJobs(u, c, calls) = Jobs!ForceTab(w, calls)
    BY <1>1, <1>11 DEF Jobs!SetJobs, Jobs!Reload
  <2>2. \A d \in calls : JobCallOk(d)
    BY DEF JobsPageOk
  <2> QED BY <1>7, <1>8, <1>11, <2>1, <2>2, TabForced
<1>12. CASE ~(u.previous \subseteq previous) /\ u.tab # "instances"
  <2>1. PICK x : x = [w EXCEPT !.loaded = FALSE]
    OBVIOUS
  <2>2. Jobs!SetJobs(u, c, calls) = [ui |-> x, net |-> calls]
    BY <1>1, <1>12, <2>1 DEF Jobs!SetJobs
  <2>3. JobsUiOk(x) /\ x.tab = w.tab
    BY <1>8, <2>1 DEF JobsUiOk, JobsUi
  <2>4. JobsPageOk(x, calls)
    BY <1>7, <1>12, <2>3 DEF JobsPageOk, ListShown, ListOk
  <2> QED BY <2>2, <2>4
<1> QED BY <1>10, <1>11, <1>12

\* A step that leaves the page as s tells.
LEMMA JobsBecomes ==
  ASSUME JobsInv, db' = db, NEW s, Jobs!Becomes(s), JobsPageOk(s.ui, s.net)
  PROVE  JobsInv'
<1>1. PICK u, calls : u = s.ui /\ calls = s.net
  OBVIOUS
<1> QED BY <1>1, JobsPageMoves DEF Jobs!Becomes

\* With fewer calls out, the page is as it was.
LEMMA FewerCalls ==
  ASSUME NEW u, NEW calls, JobsPageOk(u, calls), NEW fewer \in SUBSET calls
  PROVE  JobsPageOk(u, fewer)
  BY DEF JobsPageOk
-----------------------------------------------------------------------------
(* The API. *)

\* The API learns more, or a start is answered.
LEMMA ApiMoves ==
  ASSUME JobsInv, JobsDb', db.ver <= db'.ver, ui' = ui,
         \A c \in net' : c \in net \/ (c \in JobCall /\ c.ver <= db.ver /\ c.op # "list")
  PROVE  JobsInv'
<1>1. JobsDb /\ JobsPageOk(ui, net) /\ ui \in JobsUi
  BY DEF JobsInv, JobsPageOk, JobsUiOk
<1>2. db.ver \in Nat /\ db'.ver \in Nat /\ ui.end \in Nat
  BY <1>1 DEF JobsDb, JobsUi
<1>3. \A c : JobCallOk(c) => JobCallOk(c)'
  BY <1>2 DEF JobCallOk, JobCall
<1>4. JobsUiOk(ui)'
  BY <1>1, <1>2, <1>3 DEF JobsPageOk, JobsUiOk
<1>5. ListShown(ui)'
  BY <1>1 DEF JobsPageOk, ListShown
<1>6. ASSUME NEW c \in net'
      PROVE  JobCallOk(c)' /\ (c.op = "list" => ListOk(c, ui)')
  <2>1. CASE c \in net
    <3>1. JobCallOk(c) /\ (c.op = "list" => ListOk(c, ui))
      BY <1>1, <2>1 DEF JobsPageOk
    <3> QED BY <1>3, <3>1 DEF ListOk
  <2>2. CASE c \in JobCall /\ c.ver <= db.ver /\ c.op # "list"
    <3>1. JobCallOk(c)
      BY <2>2 DEF JobCallOk
    <3> QED BY <1>3, <2>2, <3>1
  <2> QED BY <2>1, <2>2
<1>7. JobsPageOk(ui, net)'
  BY <1>4, <1>5, <1>6 DEF JobsPageOk, ListOk
<1> QED BY <1>7 DEF JobsInv

LEMMA StartAnswered ==
  ASSUME JobsInv, NEW c \in net, c.op = "start", NEW st \in {"ok", "err"}
  PROVE  LET d == [c EXCEPT !.st = st] IN d \in JobCall /\ d.ver <= db.ver /\ d.op = "start"
<1>1. c \in JobCall /\ c.ver <= db.ver
  BY DEF JobsInv, JobsPageOk, JobCallOk
<1> QED BY <1>1 DEF JobCall

LEMMA StartsServed == ASSUME JobsInv, Jobs!ServeStart  PROVE JobsInv'
<1>1. PICK c, st, d : /\ c \in net /\ c.op = "start" /\ st \in {"ok", "err"}
                      /\ d = [c EXCEPT !.st = st] /\ net' = (net \ {c}) \cup {d}
                      /\ ui' = ui
                      /\ \/ db' = db
                         \/ /\ Jobs!Fresh # {}
                            /\ db' = [db EXCEPT !.jobs[Jobs!NewJob(Jobs!Fresh)] = "running"]
  BY DEF Jobs!ServeStart, Jobs!Calls, Jobs!Resolve, Jobs!Reject
<1>2. d \in JobCall /\ d.ver <= db.ver /\ d.op = "start"
  BY <1>1, StartAnswered
<1>3. JobsDb /\ db.ver \in Nat
  BY DEF JobsInv, JobsDb
<1>4. JobsDb' /\ db'.ver = db.ver
  <2>1. CASE db' = db
    BY <1>3, <2>1 DEF JobsDb
  <2>2. CASE /\ Jobs!Fresh # {}
             /\ db' = [db EXCEPT !.jobs[Jobs!NewJob(Jobs!Fresh)] = "running"]
    <3>1. PICK j \in Job : /\ db.jobs[j] = "none"
                           /\ db' = [db EXCEPT !.jobs[j] = "running"]
      BY <2>2 DEF Jobs!Fresh, Jobs!NewJob
    <3>2. PICK jobs : jobs = [db.jobs EXCEPT ![j] = "running"]
      OBVIOUS
    <3>3. jobs \in Told /\ EndedJobs(jobs) = EndedJobs(db.jobs)
      BY <1>3, <3>1, <3>2 DEF JobsDb, Told, Jobs!JobStatus, EndedJobs
    <3>4. db' \in [jobs : Told, ver : Nat] /\ db'.jobs = jobs /\ db'.ver = db.ver
      BY <1>3, <3>1, <3>2, <3>3 DEF JobsDb
    <3> QED BY <1>3, <3>3, <3>4 DEF JobsDb, EndedJobs
  <2> QED BY <1>1, <2>1, <2>2
<1>5. db.ver <= db'.ver
  BY <1>3, <1>4
<1>6. \A e \in net' : e \in net \/ (e \in JobCall /\ e.ver <= db.ver /\ e.op # "list")
  BY <1>1, <1>2
<1> QED BY <1>1, <1>4, <1>5, <1>6, ApiMoves

LEMMA JobsEnd == ASSUME JobsInv, Jobs!EndJob  PROVE JobsInv'
<1>1. PICK j \in Job : /\ db.jobs[j] = "running" /\ ui' = ui /\ net' = net
                       /\ db' = [jobs |-> [db.jobs EXCEPT ![j] = "ended"], ver |-> db.ver + 1]
  BY DEF Jobs!EndJob
<1>2. JobsDb /\ db.ver \in Nat
  BY DEF JobsInv, JobsDb
<1>3. PICK jobs : /\ jobs = [db.jobs EXCEPT ![j] = "ended"]
                  /\ db' = [jobs |-> jobs, ver |-> db.ver + 1]
  BY <1>1
<1>4. /\ jobs \in Told /\ EndedJobs(jobs) = EndedJobs(db.jobs) \cup {j}
      /\ j \notin EndedJobs(db.jobs)
  BY <1>1, <1>2, <1>3 DEF JobsDb, Told, Jobs!JobStatus, EndedJobs
<1>5. IsFiniteSet(EndedJobs(db.jobs))
  <2>1. EndedJobs(db.jobs) \in SUBSET Job
    BY DEF EndedJobs
  <2> QED BY <2>1, JobsAssumption, FS_Subset
<1>6. Cardinality(EndedJobs(jobs)) = db.ver + 1
  <2>1. PICK S : S = EndedJobs(db.jobs)
    OBVIOUS
  <2>2. IsFiniteSet(S) /\ j \notin S /\ EndedJobs(jobs) = S \cup {j} /\ db.ver = Cardinality(S)
    BY <1>2, <1>4, <1>5, <2>1 DEF JobsDb
  <2> QED BY <2>2, FS_AddElement
<1>7. db' \in [jobs : Told, ver : Nat] /\ db'.jobs = jobs /\ db'.ver = db.ver + 1
  BY <1>2, <1>3, <1>4
<1>8. JobsDb'
  BY <1>6, <1>7 DEF JobsDb, EndedJobs
<1>9. db.ver <= db'.ver
  BY <1>2, <1>7
<1> QED BY <1>1, <1>8, <1>9, ApiMoves

LEMMA ReadsServed ==
  ASSUME JobsInv, NEW op \in {"poll", "tab", "list"}, Jobs!ServeRead(op)
  PROVE  JobsInv'
<1>0. JobsDb /\ JobsPageOk(ui, net)
  BY DEF JobsInv
<1>1. PICK c, path, jobs, answer, kept :
        /\ c \in net /\ c.op = op /\ c.st = "sent" /\ path = Jobs!Path(op)
        /\ jobs = IF op = "list" THEN c.jobs ELSE db.jobs
        /\ answer = [c EXCEPT !.st = "ok", !.ver = db.ver, !.jobs = jobs]
        /\ kept = [answer EXCEPT !.op = path]
        /\ net' = (net \ {c}) \cup {answer}
        /\ ui' = [ui EXCEPT !.cache[path] = kept] /\ db' = db
  <2>1. PICK c \in net :
          /\ c.op = op /\ c.st = "sent" /\ db' = db
          /\ LET answer == [c EXCEPT !.st = "ok", !.ver = db.ver,
                                     !.jobs = IF op = "list" THEN @ ELSE db.jobs]
             IN /\ net' = (net \ {c}) \cup {answer}
                /\ ui' = [ui EXCEPT !.cache[Jobs!Path(op)] = [answer EXCEPT !.op = Jobs!Path(op)]]
    BY DEF Jobs!ServeRead, Jobs!Calls
  <2>2. PICK path, jobs : /\ path = Jobs!Path(op)
                          /\ jobs = IF op = "list" THEN c.jobs ELSE db.jobs
    OBVIOUS
  <2>3. PICK answer : answer = [c EXCEPT !.st = "ok", !.ver = db.ver, !.jobs = jobs]
    OBVIOUS
  <2>4. /\ net' = (net \ {c}) \cup {answer}
        /\ ui' = [ui EXCEPT !.cache[path] = [answer EXCEPT !.op = path]]
    BY <2>1, <2>2, <2>3
  <2>5. PICK kept : kept = [answer EXCEPT !.op = path]
    OBVIOUS
  <2>6. ui' = [ui EXCEPT !.cache[path] = kept]
    BY <2>4, <2>5
  <2>7. /\ c \in net /\ c.op = op /\ c.st = "sent" /\ path = Jobs!Path(op)
        /\ jobs = IF op = "list" THEN c.jobs ELSE db.jobs
        /\ answer = [c EXCEPT !.st = "ok", !.ver = db.ver, !.jobs = jobs]
        /\ kept = [answer EXCEPT !.op = path]
        /\ net' = (net \ {c}) \cup {answer}
        /\ ui' = [ui EXCEPT !.cache[path] = kept] /\ db' = db
    BY <2>1, <2>2, <2>3, <2>4, <2>5, <2>6
  <2> QED BY <2>7
<1>2. path \in {"jobs", "list"}
  BY <1>1 DEF Jobs!Path
<1>3. /\ c \in JobCall /\ (op = "list" => ListOk(c, ui))
      /\ jobs \in Told /\ db.ver \in Nat
  <2>1. c \in JobCall /\ (op = "list" => ListOk(c, ui))
    BY <1>0, <1>1 DEF JobsPageOk, JobCallOk
  <2>2. db.jobs \in Told /\ db.ver \in Nat
    BY <1>0 DEF JobsDb
  <2> QED BY <1>1, <2>1, <2>2 DEF JobCall
<1>4. /\ answer \in JobCall /\ answer.op = op /\ answer.st = "ok" /\ answer.ver = db.ver
      /\ kept \in JobCall /\ kept.st = "ok" /\ kept.ver = db.ver
  BY <1>1, <1>2, <1>3 DEF JobCall
<1>5. JobCallOk(answer) /\ JobCallOk(kept)
  BY <1>3, <1>4 DEF JobCallOk
<1>6. PICK u, cache : /\ cache = [ui.cache EXCEPT ![path] = kept]
                      /\ u = [ui EXCEPT !.cache = cache] /\ ui' = u
  BY <1>1
<1>7. ui \in JobsUi /\ ui.end <= db.ver
  BY <1>0 DEF JobsPageOk, JobsUiOk
<1>8. cache \in [{"jobs", "list"} -> JobCall \cup {None}]
  BY <1>2, <1>4, <1>6, <1>7 DEF JobsUi
<1>9. /\ u \in JobsUi /\ u.cache = cache /\ u.tab = ui.tab /\ u.list = ui.list
      /\ u.hit = ui.hit /\ u.shown = ui.shown /\ u.end = ui.end
  BY <1>6, <1>7, <1>8 DEF JobsUi
<1>10. JobsUiOk(u)
  <2> SUFFICES ASSUME NEW p \in {"jobs", "list"}, cache[p] # None
               PROVE  JobCallOk(cache[p]) /\ cache[p].st = "ok"
    BY <1>7, <1>9 DEF JobsUiOk
  <2>1. cache[p] = IF p = path THEN kept ELSE ui.cache[p]
    BY <1>6, <1>7 DEF JobsUi
  <2> QED BY <1>0, <1>4, <1>5, <2>1 DEF JobsPageOk, JobsUiOk
<1>11. JobsPageOk(u, net')
  <2>1. op = "list" => ListOk(answer, u)
    <3>1. db.ver >= ui.end
      BY <1>3, <1>7 DEF JobsUi
    <3> QED BY <1>3, <1>4, <1>9, <3>1 DEF ListOk
  <2>2. \A e \in net : JobCallOk(e) /\ (e.op = "list" => ListOk(e, u))
    BY <1>0, <1>9 DEF JobsPageOk, ListOk
  <2>3. ListShown(u)
    BY <1>0, <1>9 DEF JobsPageOk, ListShown
  <2>4. \A e \in net' : e \in net \/ e = answer
    BY <1>1
  <2> QED BY <1>4, <1>5, <1>10, <2>1, <2>2, <2>3, <2>4 DEF JobsPageOk
<1> QED BY <1>1, <1>6, <1>11, JobsPageMoves

LEMMA CacheExpires == ASSUME JobsInv, Jobs!Expire  PROVE JobsInv'
<1>0. JobsDb /\ JobsPageOk(ui, net)
  BY DEF JobsInv
<1>1. PICK path, u, cache :
        /\ path \in {"jobs", "list"} /\ cache = [ui.cache EXCEPT ![path] = None]
        /\ u = [ui EXCEPT !.cache = cache] /\ ui' = u /\ net' = net /\ db' = db
  BY DEF Jobs!Expire, Jobs!NoCache
<1>2. ui \in JobsUi /\ ui.end <= db.ver
  BY <1>0 DEF JobsPageOk, JobsUiOk
<1>3. cache \in [{"jobs", "list"} -> JobCall \cup {None}]
  BY <1>1, <1>2 DEF JobsUi
<1>4. /\ u \in JobsUi /\ u.cache = cache /\ u.tab = ui.tab /\ u.list = ui.list
      /\ u.hit = ui.hit /\ u.shown = ui.shown /\ u.end = ui.end
  BY <1>1, <1>2, <1>3 DEF JobsUi
<1>5. \A p \in {"jobs", "list"} : cache[p] = IF p = path THEN None ELSE ui.cache[p]
  BY <1>1, <1>2 DEF JobsUi
<1>6. JobsUiOk(u)
  BY <1>0, <1>2, <1>4, <1>5 DEF JobsPageOk, JobsUiOk
<1>7. JobsPageOk(u, net)
  BY <1>0, <1>4, <1>6 DEF JobsPageOk, ListShown, ListOk
<1> QED BY <1>1, <1>7, JobsPageMoves
-----------------------------------------------------------------------------
(* The page. *)

LEMMA PollsMove ==
  ASSUME JobsInv, Jobs!Timer \/ Jobs!PollAnswered \/ Jobs!PollFailed
  PROVE  JobsInv'
<1>0. JobsDb /\ JobsPageOk(ui, net)
  BY DEF JobsInv
<1>1. CASE Jobs!Timer
  <2>1. PICK d : /\ d = Jobs!Get(ui, "poll") /\ net' = net \cup {d}
                 /\ ui' = ui /\ db' = db
    BY <1>1 DEF Jobs!Timer
  <2>2. JobCallOk(d) /\ d.op = "poll"
    BY <1>0, <2>1, CallGot DEF JobsPageOk
  <2>3. JobsPageOk(ui, net')
    BY <1>0, <2>1, <2>2 DEF JobsPageOk
  <2> QED BY <2>1, <2>3, JobsPageMoves
<1>2. CASE Jobs!PollAnswered
  <2>1. PICK c \in net : Jobs!Becomes(Jobs!SetJobs(ui, c, net \ {c})) /\ db' = db
    BY <1>2 DEF Jobs!PollAnswered, Jobs!Settled
  <2>2. PICK fewer \in SUBSET net : fewer = net \ {c}
    OBVIOUS
  <2>3. JobCallOk(c) /\ JobsPageOk(ui, fewer)
    BY <1>0 DEF JobsPageOk
  <2>4. Jobs!Becomes(Jobs!SetJobs(ui, c, fewer))
    BY <2>1, <2>2
  <2>5. PICK s : s = Jobs!SetJobs(ui, c, fewer)
    OBVIOUS
  <2>6. JobsPageOk(s.ui, s.net)
    BY <1>0, <2>3, <2>5, JobsSet
  <2> QED BY <2>1, <2>4, <2>5, <2>6, JobsBecomes
<1>3. CASE Jobs!PollFailed
  <2>1. ui' = ui /\ db' = db /\ net' \in SUBSET net
    BY <1>3 DEF Jobs!PollFailed
  <2> QED BY <1>0, <2>1, FewerCalls, JobsPageMoves
<1> QED BY <1>1, <1>2, <1>3

LEMMA TabArrives == ASSUME JobsInv, Jobs!DoneTab  PROVE JobsInv'
<1>0. JobsDb /\ JobsPageOk(ui, net)
  BY DEF JobsInv
<1>1. PICK c, jobs, others :
        /\ c \in net /\ jobs \in BOOLEAN /\ others \in BOOLEAN /\ db' = db
        /\ LET u == [ui EXCEPT !.busy = FALSE, !.loaded = @ \/ (jobs /\ others)]
           IN Jobs!Becomes(IF jobs THEN Jobs!SetJobs(u, c, net \ {c})
                           ELSE [ui |-> u, net |-> net \ {c}])
  BY DEF Jobs!DoneTab, Jobs!Settled
<1> DEFINE loaded == ui.loaded \/ (jobs /\ others)
           u == [ui EXCEPT !.busy = FALSE, !.loaded = loaded]
           fewer == net \ {c}
           s == IF jobs THEN Jobs!SetJobs(u, c, fewer) ELSE [ui |-> u, net |-> fewer]
<1>2. /\ loaded \in BOOLEAN
      /\ u = [ui EXCEPT !.busy = FALSE, !.loaded = loaded] /\ fewer = net \ {c}
      /\ s = IF jobs THEN Jobs!SetJobs(u, c, fewer) ELSE [ui |-> u, net |-> fewer]
      /\ Jobs!Becomes(s)
  <2>1. Jobs!Becomes(s)
    BY <1>1
  <2> QED BY <2>1
<1> HIDE DEF loaded, u, fewer, s
<1>3. JobCallOk(c) /\ fewer \in SUBSET net
  BY <1>0, <1>1, <1>2 DEF JobsPageOk
<1>4. JobsUiOk(u) /\ u.tab = ui.tab /\ u.list = ui.list /\ u.hit = ui.hit
      /\ u.shown = ui.shown /\ u.end = ui.end
  BY <1>0, <1>2 DEF JobsPageOk, JobsUiOk, JobsUi
<1>5. JobsPageOk(u, fewer)
  BY <1>0, <1>3, <1>4 DEF JobsPageOk, ListShown, ListOk
<1>6. JobsPageOk(s.ui, s.net)
  <2>1. CASE jobs
    BY <1>0, <1>2, <1>3, <1>5, <2>1, JobsSet
  <2>2. CASE ~jobs
    BY <1>2, <1>5, <2>2
  <2> QED BY <2>1, <2>2
<1>7. ui' = s.ui /\ net' = s.net
  BY <1>2 DEF Jobs!Becomes
<1> QED BY <1>1, <1>6, <1>7, JobsPageMoves

LEMMA ListArrives == ASSUME JobsInv, Jobs!DoneList  PROVE JobsInv'
<1>0. JobsDb /\ JobsPageOk(ui, net)
  BY DEF JobsInv
<1>1. PICK c, u :
        /\ c \in net /\ c.op = "list" /\ c.st # "sent" /\ ui' = u /\ net' = net \ {c}
        /\ db' = db
        /\ \/ u = [ui EXCEPT !.list = "shown", !.shown = c.ver, !.hit = c.hit]
           \/ u = [ui EXCEPT !.list = "failed"]
  BY DEF Jobs!DoneList, Jobs!Settled
<1>2. c \in JobCall /\ ListOk(c, ui) /\ ui \in JobsUi
  BY <1>0, <1>1 DEF JobsPageOk, JobCallOk, JobsUiOk
<1>3. c.ver \in Nat /\ c.hit \in BOOLEAN
  BY <1>2 DEF JobCall
<1>4. CASE u = [ui EXCEPT !.list = "shown", !.shown = c.ver, !.hit = c.hit]
  <2>1. u \in JobsUi
    BY <1>2, <1>3, <1>4 DEF JobsUi
  <2>2. /\ u.tab = ui.tab /\ u.end = ui.end /\ u.cache = ui.cache
        /\ u.hit = c.hit /\ u.shown = c.ver
    BY <1>2, <1>4 DEF JobsUi
  <2>3. JobsUiOk(u)
    BY <1>0, <2>1, <2>2 DEF JobsPageOk, JobsUiOk
  <2>4. JobsPageOk(u, net \ {c})
    BY <1>0, <1>1, <1>2, <2>2, <2>3 DEF JobsPageOk, ListShown, ListOk
  <2> QED BY <1>1, <2>4, JobsPageMoves
<1>5. CASE u = [ui EXCEPT !.list = "failed"]
  <2>1. JobsUiOk(u) /\ u.tab = ui.tab /\ u.end = ui.end /\ u.list = "failed"
    BY <1>0, <1>5 DEF JobsPageOk, JobsUiOk, JobsUi
  <2>2. JobsPageOk(u, net \ {c})
    BY <1>0, <2>1 DEF JobsPageOk, ListShown, ListOk
  <2> QED BY <1>1, <2>2, JobsPageMoves
<1> QED BY <1>1, <1>4, <1>5

LEMMA TabsChange == ASSUME JobsInv, NEW t \in Jobs!Tabs, Jobs!ChangeTab(t)  PROVE JobsInv'
<1>0. JobsDb /\ JobsPageOk(ui, net)
  BY DEF JobsInv
<1>1. PICK u, v, n, d, all, s :
        /\ n = ui.clicks + 1 /\ u = [ui EXCEPT !.tab = t, !.clicks = n]
        /\ v = [u EXCEPT !.list = "loading"] /\ d = Jobs!Get(u, "list")
        /\ all = net \cup {d}
        /\ s = IF t # "instances" THEN [ui |-> u, net |-> {c \in net : c.op # "list"}]
               ELSE IF ui.loaded THEN [ui |-> v, net |-> all] ELSE Jobs!LoadTab(v, all)
        /\ t # ui.tab /\ Jobs!Becomes(s) /\ db' = db
  BY DEF Jobs!ChangeTab
<1>2. ui \in JobsUi /\ n \in Nat
  BY <1>0, <1>1 DEF JobsPageOk, JobsUiOk, JobsUi
<1>3. /\ JobsUiOk(u) /\ u.tab = t /\ JobsUiOk(v) /\ v.tab = t /\ v.list = "loading"
  BY <1>0, <1>1, <1>2 DEF JobsPageOk, JobsUiOk, JobsUi
<1>4. CASE t # "instances"
  <2>1. PICK fewer : fewer = {c \in net : c.op # "list"} /\ s = [ui |-> u, net |-> fewer]
    BY <1>1, <1>4
  <2>2. JobsPageOk(u, fewer)
    BY <1>0, <1>3, <1>4, <2>1 DEF JobsPageOk, ListShown
  <2> QED BY <1>1, <2>1, <2>2, JobsBecomes
<1>5. CASE t = "instances"
  <2>1. \A c \in net : JobCallOk(c) /\ c.op # "list"
    BY <1>0, <1>1, <1>5 DEF JobsPageOk, ListOk
  <2>2. JobCallOk(d) /\ (d.st = "sent" \/ d.hit)
    BY <1>0, <1>1, <1>3, CallGot
  <2>3. JobsPageOk(v, all)
    BY <1>1, <1>3, <1>5, <2>1, <2>2 DEF JobsPageOk, ListShown, ListOk
  <2>4. JobsPageOk(s.ui, s.net)
    <3>1. CASE ui.loaded
      BY <1>1, <1>5, <2>3, <3>1
    <3>2. CASE ~ui.loaded
      BY <1>0, <1>1, <1>5, <2>3, <3>2, TabLoads
    <3> QED BY <3>1, <3>2
  <2> QED BY <1>1, <2>4, JobsBecomes
<1> QED BY <1>4, <1>5

LEMMA JobsButtons == ASSUME JobsInv, Jobs!ReloadList \/ Jobs!StartJob  PROVE JobsInv'
<1>0. JobsDb /\ JobsPageOk(ui, net)
  BY DEF JobsInv
<1>1. CASE Jobs!ReloadList
  <2>1. PICK u, n, s : /\ n = ui.clicks + 1 /\ u = [ui EXCEPT !.clicks = n]
                       /\ s = Jobs!ForceTab(u, net) /\ ui.tab = "instances"
                       /\ Jobs!Becomes(s) /\ db' = db
    BY <1>1 DEF Jobs!ReloadList, Jobs!MayReload
  <2>2. n \in Nat
    BY <1>0, <2>1 DEF JobsPageOk, JobsUiOk, JobsUi
  <2>3. JobsUiOk(u) /\ u.tab = "instances"
    BY <1>0, <2>1, <2>2 DEF JobsPageOk, JobsUiOk, JobsUi
  <2>4. \A c \in net : JobCallOk(c)
    BY <1>0 DEF JobsPageOk
  <2>5. JobsPageOk(s.ui, s.net)
    BY <1>0, <2>1, <2>3, <2>4, TabForced
  <2> QED BY <2>1, <2>5, JobsBecomes
<1>2. CASE Jobs!StartJob
  <2>1. PICK u, n, d : /\ n = ui.clicks + 1 /\ u = [ui EXCEPT !.busy = TRUE, !.clicks = n]
                       /\ d = Jobs!Call("start") /\ ui' = u /\ net' = net \cup {d}
                       /\ db' = db
    BY <1>0, <1>2 DEF Jobs!StartJob, Jobs!Do, JobsPageOk, JobsUiOk, JobsUi
  <2>2. n \in Nat
    BY <1>0, <2>1 DEF JobsPageOk, JobsUiOk, JobsUi
  <2>3. JobsUiOk(u) /\ u.tab = ui.tab /\ u.list = ui.list /\ u.hit = ui.hit
        /\ u.shown = ui.shown /\ u.end = ui.end
    BY <1>0, <2>1, <2>2 DEF JobsPageOk, JobsUiOk, JobsUi
  <2>4. [j \in Job |-> "none"] \in Told
    BY DEF Told, Jobs!JobStatus
  <2>5. JobCallOk(d) /\ d.op = "start"
    BY <1>0, <2>1, <2>4 DEF Jobs!Call, JobCallOk, JobCall, JobsDb
  <2>6. JobsPageOk(u, net \cup {d})
    BY <1>0, <2>3, <2>5 DEF JobsPageOk, ListShown, ListOk
  <2> QED BY <2>1, <2>6, JobsPageMoves
<1> QED BY <1>1, <1>2

LEMMA StartsEnd == ASSUME JobsInv, Jobs!DoneStart  PROVE JobsInv'
<1>0. JobsDb /\ JobsPageOk(ui, net)
  BY DEF JobsInv
<1>1. PICK c, u, v, fewer, d, s :
        /\ c \in net /\ u = [ui EXCEPT !.cache = Jobs!NoCache] /\ fewer = net \ {c}
        /\ v = [u EXCEPT !.busy = FALSE] /\ d = Jobs!Call("poll")
        /\ s = IF c.st = "err" THEN [ui |-> v, net |-> fewer \cup {d}]
               ELSE IF u.tab = "instances" THEN Jobs!ForceTab(u, fewer)
               ELSE Jobs!LoadTab(u, fewer)
        /\ Jobs!Becomes(s) /\ db' = db
  BY DEF Jobs!DoneStart, Jobs!Settled
<1>2. ui \in JobsUi /\ Jobs!NoCache \in [{"jobs", "list"} -> JobCall \cup {None}]
  BY <1>0 DEF JobsPageOk, JobsUiOk, Jobs!NoCache
<1>3. /\ u \in JobsUi /\ u.tab = ui.tab /\ u.list = ui.list /\ u.hit = ui.hit
      /\ u.shown = ui.shown /\ u.end = ui.end /\ u.cache = Jobs!NoCache
  BY <1>1, <1>2 DEF JobsUi
<1>4. JobsUiOk(u)
  BY <1>0, <1>3 DEF JobsPageOk, JobsUiOk, Jobs!NoCache
<1>5. JobsPageOk(u, fewer)
  BY <1>0, <1>1, <1>3, <1>4 DEF JobsPageOk, ListShown, ListOk
<1>6. JobsPageOk(s.ui, s.net)
  <2>1. CASE c.st = "err"
    <3>1. JobsUiOk(v) /\ v.tab = u.tab /\ v.list = u.list /\ v.hit = u.hit
          /\ v.shown = u.shown /\ v.end = u.end
      BY <1>1, <1>4 DEF JobsUiOk, JobsUi
    <3>2. [j \in Job |-> "none"] \in Told
      BY DEF Told, Jobs!JobStatus
    <3>3. JobCallOk(d) /\ d.op = "poll"
      BY <1>0, <1>1, <3>2 DEF Jobs!Call, JobCallOk, JobCall, JobsDb
    <3>4. JobsPageOk(v, fewer \cup {d})
      BY <1>5, <3>1, <3>3 DEF JobsPageOk, ListShown, ListOk
    <3> QED BY <1>1, <2>1, <3>4
  <2>2. CASE c.st # "err" /\ u.tab = "instances"
    <3>1. \A e \in fewer : JobCallOk(e)
      BY <1>5 DEF JobsPageOk
    <3> QED BY <1>0, <1>1, <1>4, <2>2, <3>1, TabForced
  <2>3. CASE c.st # "err" /\ u.tab # "instances"
    BY <1>0, <1>1, <1>5, <2>3, TabLoads
  <2> QED BY <2>1, <2>2, <2>3
<1> QED BY <1>1, <1>6, JobsBecomes

LEMMA JobsInit == ASSUME Jobs!Init PROVE JobsInv
<1>1. PICK d, running : /\ d = Jobs!Call("tab") /\ net = {d}
        /\ db = [jobs |-> [j \in Job |-> IF j \in running THEN "running" ELSE "none"],
                 ver |-> 0]
  BY DEF Jobs!Init
<1>2. PICK jobs : /\ jobs = [j \in Job |-> IF j \in running THEN "running" ELSE "none"]
                  /\ db = [jobs |-> jobs, ver |-> 0]
  BY <1>1
<1>3. jobs \in Told /\ EndedJobs(jobs) = {}
  BY <1>2 DEF Told, Jobs!JobStatus, EndedJobs
<1>4. JobsDb
  BY <1>2, <1>3, FS_EmptySet DEF JobsDb
<1>5. PICK none, cache : none = [j \in Job |-> "none"] /\ cache = Jobs!NoCache
  OBVIOUS
<1>6. none \in Told /\ cache \in [{"jobs", "list"} -> JobCall \cup {None}]
  BY <1>5 DEF Told, Jobs!JobStatus, Jobs!NoCache
<1>7. JobCallOk(d) /\ d.op = "tab"
  BY <1>1, <1>4, <1>5, <1>6 DEF Jobs!Call, JobCallOk, JobCall, JobsDb
<1>8. ui = [page |-> "jobs", clicks |-> 0, tab |-> "overview", busy |-> TRUE,
            jobs |-> none, previous |-> {}, loaded |-> FALSE,
            list |-> "loading", shown |-> 0, end |-> 0, hit |-> FALSE, cache |-> cache]
  BY <1>5 DEF Jobs!Init
<1>9. ui \in JobsUi /\ ui.end <= db.ver /\ ui.cache = cache /\ ui.list = "loading"
  BY <1>2, <1>6, <1>8 DEF JobsUi, Jobs!Tabs
<1>10. JobsUiOk(ui)
  BY <1>5, <1>9 DEF JobsUiOk, Jobs!NoCache
<1> QED BY <1>1, <1>4, <1>7, <1>9, <1>10 DEF JobsInv, JobsPageOk, ListShown

LEMMA JobsStep == JobsInv /\ Jobs!Next => JobsInv'
  BY StartsServed, JobsEnd, ReadsServed, CacheExpires, PollsMove, TabArrives, ListArrives,
     TabsChange, JobsButtons, StartsEnd DEF Jobs!Next

LEMMA JobsHold == JobsInv => Jobs!TypeOK /\ Jobs!EndReloads
<1> SUFFICES ASSUME JobsInv PROVE Jobs!TypeOK /\ Jobs!EndReloads
  OBVIOUS
<1>1. JobsDb /\ ui \in JobsUi /\ ListShown(ui)
  BY DEF JobsInv, JobsPageOk, JobsUiOk
<1>2. db.ver \in 0..Cardinality(Job)
  <2>1. EndedJobs(db.jobs) \in SUBSET Job
    BY DEF EndedJobs
  <2>2. /\ Cardinality(EndedJobs(db.jobs)) <= Cardinality(Job)
        /\ Cardinality(Job) \in Nat
    BY <2>1, JobsAssumption, FS_Subset, FS_CardinalityType
  <2> QED BY <1>1, <2>2 DEF JobsDb
<1>3. /\ ui.jobs \in [Job -> Jobs!JobStatus] /\ ui.previous \subseteq Job
      /\ ui.tab \in Jobs!Tabs /\ ui.list \in {"loading", "shown", "failed"}
      /\ db.jobs \in [Job -> Jobs!JobStatus]
  BY <1>1 DEF JobsUi, JobsDb, Told
<1>4. Jobs!TypeOK
  <2>1. Jobs!Cardinality(Job) = Cardinality(Job)
    BY DEF Jobs!Cardinality, Cardinality
  <2> QED BY <1>2, <1>3, <2>1 DEF Jobs!TypeOK
<1>5. Jobs!EndReloads
  BY <1>1 DEF Jobs!EndReloads, ListShown
<1> QED BY <1>4, <1>5
-----------------------------------------------------------------------------
(* The row of open pages.  Whatever the effects do to it, the row stays a list as the code
   stores it, and the last effect leaves no tab the user may not see; a page that loses its
   tab is being left. *)

Pages == DOMAIN Route
Tab(s) == {s[i] : i \in DOMAIN s}
TabList(s) == /\ s \in Seq(Pages) /\ Len(s) <= MaxTabs
              /\ \A i, j \in 1..Len(s) : s[i] = s[j] => i = j

LEMMA ListsAre ==
  ASSUME NEW s
  PROVE  /\ s \in Tabs!Lists <=> TabList(s)
         /\ TabList(s) => Tabs!IsInjective(s) /\ Tabs!ToSet(s) = Tab(s)
<1>1. s \in Tabs!SeqOf(Pages, MaxTabs) <=> s \in Seq(Pages) /\ Len(s) <= MaxTabs
  <2>1. ASSUME NEW m \in 0..MaxTabs, s \in [1..m -> Pages]
        PROVE  s \in Seq(Pages) /\ Len(s) <= MaxTabs
    <3>1. m \in Nat
      OBVIOUS
    <3>2. s \in Seq(Pages) /\ Len(s) = m
      BY <2>1, <3>1
    <3> QED BY <3>2, TabsAssumption
  <2>2. ASSUME s \in Seq(Pages), Len(s) <= MaxTabs
        PROVE  s \in [1..Len(s) -> Pages] /\ Len(s) \in 0..MaxTabs
    BY <2>2, TabsAssumption
  <2> QED BY <2>1, <2>2 DEF Tabs!SeqOf
<1>2. s \in Seq(Pages) => DOMAIN s = 1..Len(s)
  OBVIOUS
<1>3. s \in Tabs!Lists <=> s \in Tabs!SeqOf(Pages, MaxTabs) /\ Tabs!IsInjective(s)
  BY DEF Tabs!Lists, Tabs!Page, Pages
<1>4. Tabs!ToSet(s) = Tab(s)
  BY DEF Tabs!ToSet, Tab
<1> QED BY <1>1, <1>2, <1>3, <1>4 DEF Tabs!IsInjective, TabList

\* The recursion of Allowed has a solution.
KeepsTo(kept, u, n) ==
  kept = [i \in 0..n |->
            IF i = 0 THEN <<>>
            ELSE IF u.tabs[i] \in u.user THEN Append(kept[i - 1], u.tabs[i]) ELSE kept[i - 1]]

LEMMA KeepsExists ==
  ASSUME NEW u, NEW n \in Nat
  PROVE  \E kept : KeepsTo(kept, u, n)
<1> DEFINE T == {m \in Nat : ~ \E kept : KeepsTo(kept, u, m)}
<1>1. T = {}
  <2> SUFFICES ASSUME T # {}  PROVE FALSE
    OBVIOUS
  <2>1. PICK m \in T : \A k \in T : m <= k
    <3>1. T \in SUBSET Nat
      OBVIOUS
    <3> HIDE DEF T
    <3> QED BY <3>1, LeastNat
  <2>2. m # 0
    <3>1. KeepsTo([i \in 0..0 |-> <<>>], u, 0)
      BY DEF KeepsTo
    <3> QED BY <3>1
  <2>3. m - 1 \in Nat /\ m - 1 \notin T
    BY <2>1, <2>2
  <2>4. PICK kept : KeepsTo(kept, u, m - 1)
    BY <2>3
  <2> DEFINE last == IF u.tabs[m] \in u.user THEN Append(kept[m - 1], u.tabs[m])
                     ELSE kept[m - 1]
             more == [i \in 0..m |-> IF i = m THEN last ELSE kept[i]]
  <2>5. \A i \in 0..m : i # m => i \in 0..(m - 1)
    BY <2>3
  <2>6. ASSUME NEW i \in 0..m
        PROVE  more[i] = IF i = 0 THEN <<>>
                         ELSE IF u.tabs[i] \in u.user THEN Append(more[i - 1], u.tabs[i])
                         ELSE more[i - 1]
    <3>1. i # 0 => i - 1 \in 0..m /\ i - 1 # m /\ more[i - 1] = kept[i - 1]
      OBVIOUS
    <3>2. CASE i = m
      BY <2>2, <3>1, <3>2
    <3>3. CASE i # m
      <4>1. kept[i] = IF i = 0 THEN <<>>
                      ELSE IF u.tabs[i] \in u.user THEN Append(kept[i - 1], u.tabs[i])
                      ELSE kept[i - 1]
        BY <2>4, <2>5, <3>3 DEF KeepsTo
      <4>2. more[i] = kept[i]
        BY <3>3
      <4> HIDE DEF more
      <4> QED BY <3>1, <4>1, <4>2
    <3> QED BY <3>2, <3>3
  <2>7. KeepsTo(more, u, m)
    <3>1. more = [i \in 0..m |-> more[i]]
      OBVIOUS
    <3> HIDE DEF more
    <3> QED BY <2>6, <3>1 DEF KeepsTo
  <2> QED BY <2>7
<1> QED BY <1>1

LEMMA AllowedIs ==
  ASSUME NEW u, Len(u.tabs) \in Nat
  PROVE  \E kept : KeepsTo(kept, u, Len(u.tabs)) /\ Tabs!Allowed(u) = kept[Len(u.tabs)]
<1> DEFINE K == CHOOSE kept : KeepsTo(kept, u, Len(u.tabs))
<1>1. Tabs!Allowed(u) = K[Len(u.tabs)]
  BY DEF Tabs!Allowed, KeepsTo
<1>2. KeepsTo(K, u, Len(u.tabs))
  BY KeepsExists
<1> QED BY <1>1, <1>2

\* What is kept of the first n tabs.
KeptOf(s, u, n) ==
  /\ s \in Seq(Pages) /\ Len(s) <= n
  /\ \A i \in 1..Len(s) : s[i] \in u.user /\ \E k \in 1..n : s[i] = u.tabs[k]
  /\ \A i, j \in 1..Len(s) : s[i] = s[j] => i = j

LEMMA KeptGrows ==
  ASSUME NEW u, TabList(u.tabs), NEW n \in 1..Len(u.tabs), NEW s, KeptOf(s, u, n - 1)
  PROVE  /\ KeptOf(s, u, n)
         /\ u.tabs[n] \in u.user => KeptOf(Append(s, u.tabs[n]), u, n)
<1>1. n \in Nat /\ n - 1 \in Nat /\ Len(u.tabs) \in Nat /\ u.tabs[n] \in Pages
  BY DEF TabList
<1>2. s \in Seq(Pages) /\ Len(s) \in Nat /\ Len(s) <= n - 1
  BY DEF KeptOf
<1>3. KeptOf(s, u, n)
  BY <1>1, <1>2 DEF KeptOf
<1>4. ASSUME u.tabs[n] \in u.user  PROVE KeptOf(Append(s, u.tabs[n]), u, n)
  <2>1. PICK e, t, m : e = u.tabs[n] /\ t = Append(s, e) /\ m = Len(s)
    OBVIOUS
  <2>2. /\ t \in Seq(Pages) /\ Len(t) = m + 1 /\ t[m + 1] = e
        /\ \A i \in 1..m : t[i] = s[i]
    BY <1>1, <1>2, <2>1
  <2>3. \A i \in 1..m : s[i] # e
    <3>1. \A i \in 1..m : \E k \in 1..(n - 1) : s[i] = u.tabs[k]
      BY <2>1 DEF KeptOf
    <3>2. \A k \in 1..(n - 1) : u.tabs[k] # e
      BY <1>1, <2>1 DEF TabList
    <3> QED BY <3>1, <3>2
  <2>4. \A i \in 1..(m + 1) : i = m + 1 \/ i \in 1..m
    BY <1>2, <2>1
  <2>5. \A i \in 1..(m + 1) : t[i] \in u.user /\ \E k \in 1..n : t[i] = u.tabs[k]
    BY <1>3, <1>4, <2>1, <2>2, <2>4 DEF KeptOf
  <2>6. \A i, j \in 1..(m + 1) : t[i] = t[j] => i = j
    BY <2>1, <2>2, <2>3, <2>4 DEF KeptOf
  <2>7. Len(t) <= n
    BY <1>1, <1>2, <2>1, <2>2
  <2> QED BY <2>1, <2>2, <2>5, <2>6, <2>7 DEF KeptOf
<1> QED BY <1>3, <1>4

\* The tabs the user may see are a list of them.
LEMMA AllowedFits ==
  ASSUME NEW u, TabList(u.tabs)
  PROVE  /\ TabList(Tabs!Allowed(u))
         /\ Tab(Tabs!Allowed(u)) \subseteq u.user \cap Tab(u.tabs)
<1>1. Len(u.tabs) \in Nat /\ u.tabs \in Seq(Pages)
  BY DEF TabList
<1>2. PICK kept : /\ KeepsTo(kept, u, Len(u.tabs))
                  /\ Tabs!Allowed(u) = kept[Len(u.tabs)]
  BY <1>1, AllowedIs
<1> DEFINE T == {n \in 0..Len(u.tabs) : ~KeptOf(kept[n], u, n)}
<1>3. T = {}
  <2> SUFFICES ASSUME T # {}  PROVE FALSE
    OBVIOUS
  <2>1. PICK n \in T : \A m \in T : n <= m
    <3>1. T \in SUBSET Nat
      OBVIOUS
    <3> HIDE DEF T
    <3> QED BY <3>1, LeastNat
  <2>2. n # 0
    <3>1. kept[0] = <<>>
      BY <1>1, <1>2 DEF KeepsTo
    <3>2. KeptOf(<<>>, u, 0)
      BY DEF KeptOf
    <3> QED BY <3>1, <3>2
  <2>3. n \in 1..Len(u.tabs) /\ n - 1 \in 0..Len(u.tabs) /\ n - 1 < n
    BY <1>1, <2>2
  <2>4. KeptOf(kept[n - 1], u, n - 1)
    BY <2>1, <2>3
  <2>5. kept[n] = IF u.tabs[n] \in u.user THEN Append(kept[n - 1], u.tabs[n])
                  ELSE kept[n - 1]
    BY <1>2, <2>2, <2>3 DEF KeepsTo
  <2>6. KeptOf(kept[n], u, n)
    <3>1. /\ KeptOf(kept[n - 1], u, n)
          /\ u.tabs[n] \in u.user => KeptOf(Append(kept[n - 1], u.tabs[n]), u, n)
      BY <2>3, <2>4, KeptGrows
    <3> QED BY <2>5, <3>1
  <2> QED BY <2>6
<1>4. PICK s : s = Tabs!Allowed(u)
  OBVIOUS
<1>5. KeptOf(s, u, Len(u.tabs))
  <2>1. Len(u.tabs) \in 0..Len(u.tabs)
    BY <1>1
  <2> QED BY <1>2, <1>3, <1>4, <2>1
<1>6. s \in Seq(Pages) /\ DOMAIN s = 1..Len(s) /\ DOMAIN u.tabs = 1..Len(u.tabs)
  BY <1>1, <1>5 DEF KeptOf
<1>7. TabList(s)
  <2>1. Len(s) <= MaxTabs
    <3>1. Len(s) <= Len(u.tabs) /\ Len(u.tabs) <= MaxTabs /\ Len(s) \in Nat
      BY <1>5, <1>6 DEF KeptOf, TabList
    <3> QED BY <1>1, <3>1, TabsAssumption
  <2> QED BY <1>5, <2>1 DEF KeptOf, TabList
<1>8. Tab(s) \subseteq u.user \cap Tab(u.tabs)
  BY <1>5, <1>6 DEF KeptOf, Tab
<1> QED BY <1>4, <1>7, <1>8
-----------------------------------------------------------------------------
(* Lists that lose, gain or move a tab. *)

LEMMA TabAdded ==
  ASSUME NEW s, TabList(s), NEW p \in Pages, p \notin Tab(s), Len(s) < MaxTabs
  PROVE  TabList(Append(s, p)) /\ Tab(Append(s, p)) = Tab(s) \cup {p}
<1>1. PICK t, m : t = Append(s, p) /\ m = Len(s)
  OBVIOUS
<1>2. s \in Seq(Pages) /\ m \in Nat /\ DOMAIN s = 1..m
  BY <1>1 DEF TabList
<1>3. /\ t \in Seq(Pages) /\ Len(t) = m + 1 /\ t[m + 1] = p /\ DOMAIN t = 1..(m + 1)
      /\ \A i \in 1..m : t[i] = s[i]
  BY <1>1, <1>2
<1>4. \A i \in 1..(m + 1) : i = m + 1 \/ i \in 1..m
  BY <1>2
<1>5. \A i \in 1..m : s[i] # p
  BY <1>2 DEF Tab
<1>6. \A i, j \in 1..(m + 1) : t[i] = t[j] => i = j
  BY <1>1, <1>3, <1>4, <1>5 DEF TabList
<1>7. Len(t) <= MaxTabs
  BY <1>1, <1>2, <1>3, TabsAssumption
<1>8. Tab(t) = Tab(s) \cup {p}
  <2>1. m + 1 \in 1..(m + 1) /\ \A i \in 1..m : i \in 1..(m + 1)
    BY <1>2
  <2> QED BY <1>2, <1>3, <1>4, <2>1 DEF Tab
<1> QED BY <1>1, <1>3, <1>6, <1>7, <1>8 DEF TabList

LEMMA OldestDropped ==
  ASSUME NEW s, TabList(s), Len(s) > 0
  PROVE  /\ TabList(Tail(s)) /\ Len(Tail(s)) = Len(s) - 1
         /\ Tab(Tail(s)) \subseteq Tab(s)
<1>1. PICK t, m : t = Tail(s) /\ m = Len(s)
  OBVIOUS
<1>2. s \in Seq(Pages) /\ m \in Nat /\ m - 1 \in Nat /\ DOMAIN s = 1..m /\ s # <<>>
  BY <1>1 DEF TabList
<1>3. t \in Seq(Pages) /\ Len(t) = m - 1 /\ \A i \in 1..(m - 1) : t[i] = s[i + 1]
  BY <1>1, <1>2, HeadTailProperties
<1>4. \A i \in 1..(m - 1) : i + 1 \in 1..m
  BY <1>2
<1>5. \A i, j \in 1..(m - 1) : t[i] = t[j] => i = j
  BY <1>1, <1>3, <1>4 DEF TabList
<1>6. Len(t) <= MaxTabs
  BY <1>1, <1>2, <1>3, TabsAssumption DEF TabList
<1>7. DOMAIN t = 1..(m - 1)
  BY <1>3
<1>8. Tab(t) \subseteq Tab(s)
  BY <1>2, <1>3, <1>4, <1>7 DEF Tab
<1> QED BY <1>1, <1>3, <1>5, <1>6, <1>8 DEF TabList

LEMMA Removed ==
  ASSUME NEW s \in Seq(Pages), NEW i \in 1..Len(s)
  PROVE  /\ Tabs!RemoveAt(s, i) \in Seq(Pages) /\ Len(Tabs!RemoveAt(s, i)) = Len(s) - 1
         /\ \A k \in 1..(Len(s) - 1) :
              Tabs!RemoveAt(s, i)[k] = IF k < i THEN s[k] ELSE s[k + 1]
<1>1. PICK m, a, b : m = Len(s) /\ a = SubSeq(s, 1, i - 1) /\ b = SubSeq(s, i + 1, m)
  OBVIOUS
<1>2. m \in Nat /\ i \in 1..m
  BY <1>1
<1>3. /\ a \in Seq(Pages) /\ Len(a) = i - 1
      /\ \A k \in 1..(i - 1) : a[k] = s[k]
  <2>1. \A k \in 1..(i - 1) : k \in 1..m
    BY <1>2
  <2> QED BY <1>1, <1>2, <2>1, SubSeqProperties
<1>4. /\ b \in Seq(Pages) /\ Len(b) = m - i
      /\ \A k \in 1..(m - i) : b[k] = s[k + i]
  <2>1. \A k \in (i + 1)..m : k \in 1..m
    BY <1>2
  <2> QED BY <1>1, <1>2, <2>1, SubSeqProperties
<1>5. PICK t : t = Tabs!RemoveAt(s, i) /\ t = a \o b
  BY <1>1 DEF Tabs!RemoveAt
<1>6. /\ t \in Seq(Pages) /\ Len(t) = (i - 1) + (m - i)
      /\ \A k \in 1..((i - 1) + (m - i)) :
           t[k] = IF k <= i - 1 THEN a[k] ELSE b[k - (i - 1)]
  BY <1>3, <1>4, <1>5, ConcatProperties
<1>7. Len(t) = m - 1
  BY <1>2, <1>6
<1>8. ASSUME NEW k \in 1..(m - 1)  PROVE t[k] = IF k < i THEN s[k] ELSE s[k + 1]
  <2>1. t[k] = IF k <= i - 1 THEN a[k] ELSE b[k - (i - 1)]
    BY <1>2, <1>6
  <2>2. CASE k < i
    BY <1>2, <1>3, <2>1, <2>2
  <2>3. CASE ~(k < i)
    <3>1. k - (i - 1) \in 1..(m - i) /\ (k - (i - 1)) + i = k + 1
      BY <1>2, <2>3
    <3> QED BY <1>2, <1>4, <2>1, <2>3, <3>1
  <2> QED BY <2>2, <2>3
<1> QED BY <1>1, <1>5, <1>6, <1>7, <1>8

LEMMA Inserted ==
  ASSUME NEW s \in Seq(Pages), NEW i \in 1..(Len(s) + 1), NEW p \in Pages
  PROVE  /\ Tabs!InsertAt(s, i, p) \in Seq(Pages)
         /\ Len(Tabs!InsertAt(s, i, p)) = Len(s) + 1
         /\ \A k \in 1..(Len(s) + 1) :
              Tabs!InsertAt(s, i, p)[k] =
                IF k < i THEN s[k] ELSE IF k = i THEN p ELSE s[k - 1]
<1>1. PICK m, a, b, e : /\ m = Len(s) /\ a = SubSeq(s, 1, i - 1) /\ b = SubSeq(s, i, m)
                        /\ e = <<p>>
  OBVIOUS
<1>2. m \in Nat /\ i \in 1..(m + 1)
  BY <1>1
<1>3. /\ a \in Seq(Pages) /\ Len(a) = i - 1
      /\ \A k \in 1..(i - 1) : a[k] = s[k]
  <2>1. \A k \in 1..(i - 1) : k \in 1..m
    BY <1>2
  <2> QED BY <1>1, <1>2, <2>1, SubSeqProperties
<1>4. /\ b \in Seq(Pages) /\ Len(b) = m - i + 1
      /\ \A k \in 1..(m - i + 1) : b[k] = s[i + k - 1]
  <2>1. \A k \in i..m : k \in 1..m
    BY <1>2
  <2> QED BY <1>1, <1>2, <2>1, SubSeqProperties
<1>5. e \in Seq(Pages) /\ Len(e) = 1 /\ e[1] = p
  BY <1>1
<1>6. PICK t, c : t = Tabs!InsertAt(s, i, p) /\ c = a \o e /\ t = c \o b
  BY <1>1 DEF Tabs!InsertAt
<1>7. /\ c \in Seq(Pages) /\ Len(c) = i
      /\ \A k \in 1..i : c[k] = IF k = i THEN p ELSE s[k]
  <2>1. /\ c \in Seq(Pages) /\ Len(c) = (i - 1) + 1
        /\ \A k \in 1..((i - 1) + 1) : c[k] = IF k <= i - 1 THEN a[k] ELSE e[k - (i - 1)]
    <3>1. /\ a \o e \in Seq(Pages) /\ Len(a \o e) = Len(a) + Len(e)
          /\ \A k \in 1..(Len(a) + Len(e)) :
               (a \o e)[k] = IF k <= Len(a) THEN a[k] ELSE e[k - Len(a)]
      BY <1>3, <1>5, ConcatProperties
    <3> QED BY <1>3, <1>5, <1>6, <3>1
  <2>2. (i - 1) + 1 = i /\ i - (i - 1) = 1
    BY <1>2
  <2>3. ASSUME NEW k \in 1..i  PROVE c[k] = IF k = i THEN p ELSE s[k]
    BY <1>2, <1>3, <1>5, <2>1, <2>2
  <2> QED BY <2>1, <2>2, <2>3
<1>8. /\ t \in Seq(Pages) /\ Len(t) = i + (m - i + 1)
      /\ \A k \in 1..(i + (m - i + 1)) : t[k] = IF k <= i THEN c[k] ELSE b[k - i]
  <2>1. /\ c \o b \in Seq(Pages) /\ Len(c \o b) = Len(c) + Len(b)
        /\ \A k \in 1..(Len(c) + Len(b)) :
             (c \o b)[k] = IF k <= Len(c) THEN c[k] ELSE b[k - Len(c)]
    BY <1>4, <1>7, ConcatProperties
  <2> QED BY <1>4, <1>6, <1>7, <2>1
<1>9. Len(t) = m + 1
  BY <1>2, <1>8
<1>10. ASSUME NEW k \in 1..(m + 1)
       PROVE  t[k] = IF k < i THEN s[k] ELSE IF k = i THEN p ELSE s[k - 1]
  <2>1. t[k] = IF k <= i THEN c[k] ELSE b[k - i]
    BY <1>2, <1>8
  <2>2. CASE k <= i
    BY <1>2, <1>7, <2>1, <2>2
  <2>3. CASE ~(k <= i)
    <3>1. k - i \in 1..(m - i + 1) /\ i + (k - i) - 1 = k - 1
      BY <1>2, <2>3
    <3> QED BY <1>2, <1>4, <2>1, <2>3, <3>1
  <2> QED BY <2>2, <2>3
<1> QED BY <1>1, <1>6, <1>8, <1>9, <1>10

LEMMA TabClosed ==
  ASSUME NEW s, TabList(s), NEW i \in 1..Len(s)
  PROVE  /\ TabList(Tabs!RemoveAt(s, i)) /\ Len(Tabs!RemoveAt(s, i)) = Len(s) - 1
         /\ Tab(Tabs!RemoveAt(s, i)) = Tab(s) \ {s[i]}
<1>1. PICK t, m : t = Tabs!RemoveAt(s, i) /\ m = Len(s)
  OBVIOUS
<1>2. s \in Seq(Pages) /\ m \in Nat /\ i \in 1..m /\ m - 1 \in Nat /\ DOMAIN s = 1..m
  BY <1>1 DEF TabList
<1>3. /\ t \in Seq(Pages) /\ Len(t) = m - 1
      /\ \A k \in 1..(m - 1) : t[k] = IF k < i THEN s[k] ELSE s[k + 1]
  BY <1>1, <1>2, Removed
<1>4. DOMAIN t = 1..(m - 1)
  BY <1>3
<1>5. PICK at : at = [k \in 1..(m - 1) |-> IF k < i THEN k ELSE k + 1]
  OBVIOUS
<1>6. /\ \A k \in 1..(m - 1) : at[k] \in 1..m /\ at[k] # i /\ t[k] = s[at[k]]
      /\ \A j, k \in 1..(m - 1) : at[j] = at[k] => j = k
      /\ \A j \in 1..m : j # i => \E k \in 1..(m - 1) : at[k] = j
  <2>1. \A k \in 1..(m - 1) : at[k] \in 1..m /\ at[k] # i /\ t[k] = s[at[k]]
    BY <1>2, <1>3, <1>5
  <2>2. \A j, k \in 1..(m - 1) : at[j] = at[k] => j = k
    BY <1>2, <1>5
  <2>3. ASSUME NEW j \in 1..m, j # i  PROVE \E k \in 1..(m - 1) : at[k] = j
    <3>1. CASE j < i
      <4>1. j \in 1..(m - 1) /\ at[j] = j
        BY <1>2, <1>5, <3>1
      <4> QED BY <4>1
    <3>2. CASE ~(j < i)
      <4>1. j - 1 \in 1..(m - 1) /\ at[j - 1] = j
        BY <1>2, <1>5, <2>3, <3>2
      <4> QED BY <4>1
    <3> QED BY <3>1, <3>2
  <2> QED BY <2>1, <2>2, <2>3
<1>7. \A j, k \in 1..m : s[j] = s[k] => j = k
  BY <1>1 DEF TabList
<1>8. \A j, k \in 1..(m - 1) : t[j] = t[k] => j = k
  BY <1>6, <1>7
<1>9. Len(t) <= MaxTabs
  BY <1>1, <1>2, <1>3, TabsAssumption DEF TabList
<1>10. Tab(t) = Tab(s) \ {s[i]}
  <2>1. /\ \A q : q \in Tab(t) <=> \E k \in 1..(m - 1) : q = t[k]
        /\ \A q : q \in Tab(s) <=> \E k \in 1..m : q = s[k]
    BY <1>2, <1>4 DEF Tab
  <2>2. \A k \in 1..(m - 1) : t[k] \in Tab(s) /\ t[k] # s[i]
    BY <1>2, <1>6, <1>7, <2>1
  <2>3. \A j \in 1..m : s[j] # s[i] => s[j] \in Tab(t)
    BY <1>6, <2>1
  <2> QED BY <2>1, <2>2, <2>3
<1> QED BY <1>1, <1>3, <1>8, <1>9, <1>10 DEF TabList

LEMMA TabReopened ==
  ASSUME NEW s, TabList(s), NEW i \in 1..(Len(s) + 1), NEW p \in Pages,
         p \notin Tab(s), Len(s) < MaxTabs
  PROVE  /\ TabList(Tabs!InsertAt(s, i, p))
         /\ Tab(Tabs!InsertAt(s, i, p)) = Tab(s) \cup {p}
<1>1. PICK t, m : t = Tabs!InsertAt(s, i, p) /\ m = Len(s)
  OBVIOUS
<1>2. s \in Seq(Pages) /\ m \in Nat /\ i \in 1..(m + 1) /\ DOMAIN s = 1..m
  BY <1>1 DEF TabList
<1>3. /\ t \in Seq(Pages) /\ Len(t) = m + 1
      /\ \A k \in 1..(m + 1) : t[k] = IF k < i THEN s[k] ELSE IF k = i THEN p ELSE s[k - 1]
  BY <1>1, <1>2, Inserted
<1>4. DOMAIN t = 1..(m + 1)
  BY <1>3
<1>5. /\ \A j, k \in 1..m : s[j] = s[k] => j = k
      /\ \A k \in 1..m : s[k] # p
  BY <1>1, <1>2 DEF TabList, Tab
<1>6. PICK at : at = [k \in 1..m |-> IF k < i THEN k ELSE k + 1]
  OBVIOUS
<1>7. /\ \A k \in 1..m : at[k] \in 1..(m + 1) /\ t[at[k]] = s[k]
      /\ \A j \in 1..(m + 1) : j = i \/ \E k \in 1..m : at[k] = j
      /\ t[i] = p
  <2>1. \A k \in 1..m : at[k] \in 1..(m + 1) /\ t[at[k]] = s[k]
    BY <1>2, <1>3, <1>6
  <2>2. ASSUME NEW j \in 1..(m + 1), j # i  PROVE \E k \in 1..m : at[k] = j
    <3>1. CASE j < i
      <4>1. j \in 1..m /\ at[j] = j
        BY <1>2, <1>6, <3>1
      <4> QED BY <4>1
    <3>2. CASE ~(j < i)
      <4>1. j - 1 \in 1..m /\ at[j - 1] = j
        BY <1>2, <1>6, <2>2, <3>2
      <4> QED BY <4>1
    <3> QED BY <3>1, <3>2
  <2> QED BY <1>2, <1>3, <2>1, <2>2
<1>8. \A j, k \in 1..(m + 1) : t[j] = t[k] => j = k
  BY <1>5, <1>7
<1>9. Len(t) <= MaxTabs
  BY <1>1, <1>2, <1>3, TabsAssumption
<1>10. Tab(t) = Tab(s) \cup {p}
  <2>1. /\ \A q : q \in Tab(t) <=> \E k \in 1..(m + 1) : q = t[k]
        /\ \A q : q \in Tab(s) <=> \E k \in 1..m : q = s[k]
    BY <1>2, <1>4 DEF Tab
  <2>2. \A j \in 1..(m + 1) : t[j] \in Tab(s) \cup {p}
    BY <1>7, <2>1
  <2>3. \A k \in 1..m : s[k] \in Tab(t)
    BY <1>7, <2>1
  <2>4. p \in Tab(t)
    BY <1>2, <1>7, <2>1
  <2> QED BY <2>1, <2>2, <2>3, <2>4
<1> QED BY <1>1, <1>3, <1>8, <1>9, <1>10 DEF TabList
-----------------------------------------------------------------------------
(* The layout between two actions. *)

Layouts == [page : {"tabs"}, clicks : Nat, at : Pages \cup {"login"},
            go : Pages \cup {"login", None}, tabs : Seq(Pages),
            user : Tabs!Users, cached : Tabs!Users]
LayoutTyped(u) == u \in Layouts /\ TabList(u.tabs)
OnlySeen(u) == u.user # None => Tab(u.tabs) \subseteq u.user
Leaves(u) == u.at \in Tab(u.tabs) \/ u.go # None \/ u.at \in {StartPage, "login"}
LayoutOk(u) == LayoutTyped(u) /\ OnlySeen(u) /\ Leaves(u)
SameUser(u, v) == v.at = u.at /\ v.user = u.user /\ v.cached = u.cached /\ v.clicks = u.clicks

TabsInv == LayoutOk(ui) /\ db \in [stored : Tabs!Lists, rights : Rights]

LEMMA PushFits ==
  ASSUME NEW u, LayoutTyped(u), NEW page \in Pages
  PROVE  /\ LayoutTyped(Tabs!Push(u, page)) /\ SameUser(u, Tabs!Push(u, page))
         /\ Tabs!Push(u, page).tabs = u.tabs
         /\ page # u.at => Tabs!Push(u, page).go # None
  BY PagesAssumption DEF LayoutTyped, Layouts, SameUser, Tabs!Push, Pages

LEMMA ListReplaced ==
  ASSUME NEW u, LayoutTyped(u), NEW s, TabList(s)
  PROVE  LET v == [u EXCEPT !.tabs = s]
         IN LayoutTyped(v) /\ SameUser(u, v) /\ v.tabs = s /\ v.go = u.go
  BY DEF LayoutTyped, Layouts, SameUser, TabList

\* validateTabsAgainstPermissions leaves what the user may see.
LEMMA ValidatedFits ==
  ASSUME NEW u, LayoutTyped(u)
  PROVE  /\ LayoutTyped(Tabs!Validated(u)) /\ SameUser(u, Tabs!Validated(u))
         /\ OnlySeen(Tabs!Validated(u))
         /\ Leaves(u) => Leaves(Tabs!Validated(u))
<1>1. PICK valid : valid = Tabs!Allowed(u)
  OBVIOUS
<1>2. TabList(valid) /\ Tab(valid) \subseteq u.user /\ Tab(valid) \subseteq Tab(u.tabs)
  BY <1>1, AllowedFits DEF LayoutTyped
<1>3. PICK v : v = [u EXCEPT !.tabs = valid]
  OBVIOUS
<1>4. LayoutTyped(v) /\ SameUser(u, v) /\ v.tabs = valid /\ v.go = u.go
  BY <1>2, <1>3, ListReplaced
<1>5. Tabs!ToSet(valid) = Tab(valid)
  BY <1>2, ListsAre
<1>6. CASE u.user = None \/ valid = u.tabs
  <2>1. Tabs!Validated(u) = u
    BY <1>1, <1>6 DEF Tabs!Validated
  <2> QED BY <1>2, <1>6, <2>1 DEF OnlySeen, SameUser
<1>7. CASE ~(u.user = None \/ valid = u.tabs) /\ u.at \in Tab(valid)
  <2>1. Tabs!Validated(u) = v
    BY <1>1, <1>3, <1>5, <1>7 DEF Tabs!Validated
  <2> QED BY <1>2, <1>4, <1>7, <2>1 DEF OnlySeen, Leaves, SameUser
<1>8. CASE ~(u.user = None \/ valid = u.tabs) /\ u.at \notin Tab(valid)
  <2>1. PICK page : page = IF valid = <<>> THEN StartPage ELSE valid[1]
    OBVIOUS
  <2>2. Tabs!Validated(u) = Tabs!Push(v, page)
    BY <1>1, <1>3, <1>5, <1>8, <2>1 DEF Tabs!Validated
  <2>3. page \in Pages /\ (page # StartPage => page \in Tab(valid))
    <3>1. valid \in Seq(Pages)
      BY <1>2 DEF TabList
    <3>2. valid # <<>> => 1 \in DOMAIN valid /\ valid[1] \in Pages
      BY <3>1
    <3> QED BY <2>1, <3>2, PagesAssumption DEF Pages, Tab
  <2>4. /\ LayoutTyped(Tabs!Push(v, page)) /\ SameUser(v, Tabs!Push(v, page))
        /\ Tabs!Push(v, page).tabs = v.tabs
        /\ page # v.at => Tabs!Push(v, page).go # None
    BY <1>4, <2>3, PushFits
  <2>5. SameUser(u, Tabs!Push(v, page)) /\ v.at = u.at
    BY <1>4, <2>4 DEF SameUser
  <2>6. OnlySeen(Tabs!Push(v, page)) /\ Leaves(Tabs!Push(v, page))
    BY <1>2, <1>4, <1>8, <2>3, <2>4, <2>5 DEF OnlySeen, Leaves, SameUser
  <2> QED BY <2>2, <2>4, <2>5, <2>6
<1> QED BY <1>6, <1>7, <1>8

\* The page on the screen gets its tab.
LEMMA AddTabFits ==
  ASSUME NEW u, LayoutTyped(u), u.at \in Pages
  PROVE  /\ LayoutTyped(Tabs!AddTab(u)) /\ SameUser(u, Tabs!AddTab(u))
         /\ Leaves(Tabs!AddTab(u))
<1>1. TabList(u.tabs) /\ Tabs!ToSet(u.tabs) = Tab(u.tabs) /\ Len(u.tabs) \in Nat
  BY ListsAre DEF LayoutTyped, TabList
<1>2. CASE u.at \in Tab(u.tabs)
  BY <1>1, <1>2 DEF Tabs!AddTab, Leaves, SameUser
<1>3. CASE u.at \notin Tab(u.tabs)
  <2>1. PICK kept : kept = IF Len(u.tabs) >= MaxTabs THEN Tail(u.tabs) ELSE u.tabs
    OBVIOUS
  <2>2. TabList(kept) /\ Tab(kept) \subseteq Tab(u.tabs) /\ Len(kept) < MaxTabs
    <3>1. CASE Len(u.tabs) >= MaxTabs
      <4>1. Len(u.tabs) > 0 /\ Len(u.tabs) <= MaxTabs
        BY <1>1, <3>1, TabsAssumption DEF TabList
      <4>2. /\ TabList(Tail(u.tabs)) /\ Len(Tail(u.tabs)) = Len(u.tabs) - 1
            /\ Tab(Tail(u.tabs)) \subseteq Tab(u.tabs)
        BY <1>1, <4>1, OldestDropped
      <4>3. Len(u.tabs) - 1 < MaxTabs
        BY <1>1, <4>1, TabsAssumption
      <4> QED BY <2>1, <3>1, <4>2, <4>3
    <3>2. CASE ~(Len(u.tabs) >= MaxTabs)
      BY <1>1, <2>1, <3>2, TabsAssumption
    <3> QED BY <3>1, <3>2
  <2>3. PICK s : s = Append(kept, u.at)
    OBVIOUS
  <2>4. TabList(s) /\ Tab(s) = Tab(kept) \cup {u.at}
    BY <1>3, <2>2, <2>3, TabAdded
  <2>5. Tabs!AddTab(u) = [u EXCEPT !.tabs = s]
    BY <1>1, <1>3, <2>1, <2>3 DEF Tabs!AddTab
  <2>6. LET v == [u EXCEPT !.tabs = s]
        IN LayoutTyped(v) /\ SameUser(u, v) /\ v.tabs = s /\ v.go = u.go
    BY <2>4, ListReplaced
  <2> QED BY <2>4, <2>5, <2>6 DEF Leaves, SameUser
<1> QED BY <1>2, <1>3

LEMMA EffectsFit ==
  ASSUME NEW u, LayoutTyped(u), u.at \in Pages
  PROVE  LayoutOk(Tabs!Effects(u)) /\ SameUser(u, Tabs!Effects(u))
<1>1. PICK v, w, x : v = Tabs!Validated(u) /\ w = Tabs!AddTab(v) /\ x = Tabs!Validated(w)
  OBVIOUS
<1>2. LayoutTyped(v) /\ SameUser(u, v)
  BY <1>1, ValidatedFits
<1>3. LayoutTyped(w) /\ SameUser(v, w) /\ Leaves(w)
  BY <1>1, <1>2, AddTabFits DEF SameUser
<1>4. LayoutTyped(x) /\ SameUser(w, x) /\ OnlySeen(x) /\ Leaves(x)
  BY <1>1, <1>3, ValidatedFits
<1>5. Tabs!Effects(u) = x
  BY <1>1 DEF Tabs!Effects
<1> QED BY <1>2, <1>3, <1>4, <1>5 DEF LayoutOk, SameUser

LEMMA StoredTabs ==
  ASSUME db.stored \in Tabs!Lists
  PROVE  Tabs!ReadStored = db.stored /\ TabList(db.stored)
  BY ListsAre DEF Tabs!ReadStored, TabList

LEMMA BecomesOk ==
  ASSUME TabsInv, NEW u, LayoutOk(u), Tabs!Becomes(u)
  PROVE  TabsInv'
<1>1. ui' = u /\ db' \in {db, [db EXCEPT !.stored = u.tabs]}
  BY DEF Tabs!Becomes, Tabs!Stores
<1>2. u.tabs \in Tabs!Lists
  BY ListsAre DEF LayoutOk, LayoutTyped
<1>3. db' \in [stored : Tabs!Lists, rights : Rights]
  BY <1>1, <1>2 DEF TabsInv
<1> QED BY <1>1, <1>3 DEF TabsInv
-----------------------------------------------------------------------------
(* The row offers to close and to move its tabs. *)

LEMMA CloseTabOk ==
  ASSUME NEW u, LayoutOk(u), NEW i \in 1..Len(u.tabs)
  PROVE  LayoutOk(Tabs!CloseTab(u, i))
<1>1. PICK rest : rest = Tabs!RemoveAt(u.tabs, i)
  OBVIOUS
<1>2. /\ TabList(rest) /\ Len(rest) = Len(u.tabs) - 1
      /\ Tab(rest) = Tab(u.tabs) \ {u.tabs[i]}
  BY <1>1, TabClosed DEF LayoutOk, LayoutTyped
<1>3. PICK v : v = [u EXCEPT !.tabs = rest]
  OBVIOUS
<1>4. LayoutTyped(v) /\ SameUser(u, v) /\ v.tabs = rest /\ v.go = u.go
  BY <1>2, <1>3, ListReplaced DEF LayoutOk
<1>5. CASE u.tabs[i] # u.at
  <2>1. Tabs!CloseTab(u, i) = v
    BY <1>1, <1>3, <1>5 DEF Tabs!CloseTab
  <2> QED BY <1>2, <1>4, <1>5, <2>1 DEF LayoutOk, OnlySeen, Leaves, SameUser
<1>6. CASE u.tabs[i] = u.at
  <2>1. PICK page : page = IF rest = <<>> THEN StartPage ELSE rest[IF i > 1 THEN i - 1 ELSE 1]
    OBVIOUS
  <2>2. Tabs!CloseTab(u, i) = Tabs!Push(v, page)
    BY <1>1, <1>3, <1>6, <2>1 DEF Tabs!CloseTab
  <2>3. page \in Pages /\ (page # StartPage => page \in Tab(rest))
    <3>1. CASE rest = <<>>
      BY <2>1, <3>1, PagesAssumption DEF Pages
    <3>2. CASE rest # <<>>
      <4>1. rest \in Seq(Pages) /\ Len(rest) \in Nat /\ Len(u.tabs) \in Nat
        BY <1>2 DEF TabList, LayoutOk, LayoutTyped
      <4>2. Len(rest) # 0
        BY <3>2, <4>1
      <4>3. (IF i > 1 THEN i - 1 ELSE 1) \in 1..Len(rest)
        <5>1. PICK m, n : m = Len(rest) /\ n = Len(u.tabs)
          OBVIOUS
        <5>2. m \in Nat /\ n \in Nat /\ m = n - 1 /\ m # 0 /\ i \in 1..n
          BY <1>2, <4>1, <4>2, <5>1
        <5>3. (IF i > 1 THEN i - 1 ELSE 1) \in 1..m
          BY <5>2
        <5> QED BY <5>1, <5>3
      <4>4. page = rest[IF i > 1 THEN i - 1 ELSE 1] /\ DOMAIN rest = 1..Len(rest)
        BY <2>1, <3>2, <4>1
      <4>5. PICK k \in 1..Len(rest) : page = rest[k]
        BY <4>3, <4>4
      <4> QED BY <4>1, <4>4, <4>5 DEF Tab
    <3> QED BY <3>1, <3>2
  <2>4. /\ LayoutTyped(Tabs!Push(v, page)) /\ SameUser(v, Tabs!Push(v, page))
        /\ Tabs!Push(v, page).tabs = v.tabs
        /\ page # v.at => Tabs!Push(v, page).go # None
    BY <1>4, <2>3, PushFits
  <2>5. page # StartPage => page # v.at
    BY <1>2, <1>4, <1>6, <2>3 DEF SameUser
  <2> QED BY <1>2, <1>4, <2>2, <2>4, <2>5 DEF LayoutOk, OnlySeen, Leaves, SameUser
<1> QED BY <1>5, <1>6

LEMMA CloseOtherTabsOk ==
  ASSUME NEW u, LayoutOk(u), NEW i \in 1..Len(u.tabs)
  PROVE  LayoutOk(Tabs!CloseOtherTabs(u, i))
<1>1. PICK tab, s : tab = u.tabs[i] /\ s = <<tab>>
  OBVIOUS
<1>2. tab \in Pages /\ tab \in Tab(u.tabs)
  BY <1>1 DEF LayoutOk, LayoutTyped, TabList, Tab
<1>3. TabList(s) /\ Tab(s) = {tab}
  <2>1. s \in Seq(Pages) /\ Len(s) = 1 /\ DOMAIN s = 1..1 /\ s[1] = tab
    BY <1>1, <1>2
  <2>2. \A j \in 1..1 : j = 1
    OBVIOUS
  <2> QED BY <2>1, <2>2, TabsAssumption DEF TabList, Tab
<1>4. PICK v : v = [u EXCEPT !.tabs = s]
  OBVIOUS
<1>5. LayoutTyped(v) /\ SameUser(u, v) /\ v.tabs = s /\ v.go = u.go
  BY <1>3, <1>4, ListReplaced DEF LayoutOk
<1>6. Tabs!CloseOtherTabs(u, i) = IF tab = u.at THEN v ELSE Tabs!Push(v, tab)
  BY <1>1, <1>4 DEF Tabs!CloseOtherTabs
<1>7. /\ LayoutTyped(Tabs!Push(v, tab)) /\ SameUser(v, Tabs!Push(v, tab))
      /\ Tabs!Push(v, tab).tabs = v.tabs
      /\ tab # v.at => Tabs!Push(v, tab).go # None
  BY <1>2, <1>5, PushFits
<1>8. OnlySeen(v)
  BY <1>2, <1>3, <1>5 DEF LayoutOk, OnlySeen, SameUser
<1>9. CASE tab = u.at
  BY <1>3, <1>5, <1>6, <1>8, <1>9 DEF LayoutOk, Leaves, SameUser
<1>10. CASE tab # u.at
  BY <1>5, <1>6, <1>7, <1>8, <1>10 DEF LayoutOk, OnlySeen, Leaves, SameUser
<1> QED BY <1>9, <1>10

LEMMA CloseAllTabsOk ==
  ASSUME NEW u, LayoutOk(u)
  PROVE  LayoutOk(Tabs!Push([u EXCEPT !.tabs = <<>>], StartPage))
<1>1. PICK v : v = [u EXCEPT !.tabs = <<>>]
  OBVIOUS
<1>2. TabList(<<>>) /\ Tab(<<>>) = {}
  BY TabsAssumption DEF TabList, Tab
<1>3. LayoutTyped(v) /\ SameUser(u, v) /\ v.tabs = <<>>
  BY <1>1, <1>2, ListReplaced DEF LayoutOk
<1>4. /\ LayoutTyped(Tabs!Push(v, StartPage)) /\ SameUser(v, Tabs!Push(v, StartPage))
      /\ Tabs!Push(v, StartPage).tabs = v.tabs
      /\ StartPage # v.at => Tabs!Push(v, StartPage).go # None
  BY <1>3, PagesAssumption, PushFits DEF Pages
<1> QED BY <1>1, <1>2, <1>3, <1>4 DEF LayoutOk, OnlySeen, Leaves, SameUser

LEMMA MoveTabOk ==
  ASSUME NEW u, LayoutOk(u), NEW i \in 1..Len(u.tabs), NEW j \in 1..Len(u.tabs), i # j
  PROVE  LayoutOk(Tabs!MoveTab(u, i, j))
<1>1. PICK tab, rest, to : /\ tab = u.tabs[i] /\ rest = Tabs!RemoveAt(u.tabs, i)
                           /\ to = IF i < j THEN j - 1 ELSE j
  OBVIOUS
<1>2. Len(u.tabs) \in Nat /\ tab \in Pages /\ tab \in Tab(u.tabs) /\ TabList(u.tabs)
  BY <1>1 DEF LayoutOk, LayoutTyped, TabList, Tab
<1>3. TabList(rest) /\ Len(rest) = Len(u.tabs) - 1 /\ Tab(rest) = Tab(u.tabs) \ {tab}
  BY <1>1, <1>2, TabClosed
<1>4. to \in 1..(Len(rest) + 1) /\ Len(rest) < MaxTabs
  <2>1. to \in 1..Len(u.tabs) /\ Len(u.tabs) <= MaxTabs
    BY <1>1, <1>2 DEF TabList
  <2> QED BY <1>2, <1>3, <2>1, TabsAssumption
<1>5. PICK s : s = Tabs!InsertAt(rest, to, tab)
  OBVIOUS
<1>6. TabList(s) /\ Tab(s) = Tab(u.tabs)
  <2>1. tab \notin Tab(rest) /\ (Tab(u.tabs) \ {tab}) \cup {tab} = Tab(u.tabs)
    BY <1>2, <1>3
  <2>2. /\ TabList(Tabs!InsertAt(rest, to, tab))
        /\ Tab(Tabs!InsertAt(rest, to, tab)) = Tab(rest) \cup {tab}
    BY <1>2, <1>3, <1>4, <2>1, TabReopened
  <2> QED BY <1>3, <1>5, <2>1, <2>2
<1>7. Tabs!MoveTab(u, i, j) = [u EXCEPT !.tabs = s]
  BY <1>1, <1>5 DEF Tabs!MoveTab
<1>8. LET v == [u EXCEPT !.tabs = s]
      IN LayoutTyped(v) /\ SameUser(u, v) /\ v.tabs = s /\ v.go = u.go
  BY <1>6, ListReplaced DEF LayoutOk
<1> QED BY <1>6, <1>7, <1>8 DEF LayoutOk, OnlySeen, Leaves, SameUser

LEMMA ClickedOk ==
  ASSUME TabsInv, NEW u, LayoutOk(u), Tabs!Clicked(u)
  PROVE  TabsInv'
<1>1. PICK v : v = [u EXCEPT !.clicks = @ + 1]
  OBVIOUS
<1>2. u.clicks + 1 \in Nat
  BY DEF LayoutOk, LayoutTyped, Layouts
<1>3. v \in Layouts
  BY <1>1, <1>2 DEF LayoutOk, LayoutTyped, Layouts
<1>4. v.at = u.at /\ v.go = u.go /\ v.tabs = u.tabs /\ v.user = u.user
  BY <1>1 DEF LayoutOk, LayoutTyped, Layouts
<1>5. LayoutOk(v)
  BY <1>3, <1>4 DEF LayoutOk, LayoutTyped, OnlySeen, Leaves
<1>6. Tabs!Becomes(v)
  BY <1>1 DEF Tabs!Clicked
<1> QED BY <1>5, <1>6, BecomesOk
-----------------------------------------------------------------------------
(* The other actions. *)

LEMMA ArriveOk == TabsInv /\ Tabs!Arrive => TabsInv'
<1> SUFFICES ASSUME TabsInv, Tabs!Arrive  PROVE TabsInv'
  OBVIOUS
<1>1. PICK u : u = [ui EXCEPT !.at = ui.go, !.go = None]
  OBVIOUS
<1>2. ui.go # None /\ ui.go \in Pages \cup {"login"}
  BY DEF Tabs!Arrive, TabsInv, LayoutOk, LayoutTyped, Layouts
<1>3. LayoutTyped(u) /\ u.at = ui.go /\ u.tabs = ui.tabs
  BY <1>1, <1>2 DEF TabsInv, LayoutOk, LayoutTyped, Layouts
<1>4. CASE ui.go = "login"
  <2>1. ui' = [u EXCEPT !.tabs = <<>>, !.user = None] /\ db' = db
    BY <1>1, <1>4 DEF Tabs!Arrive, Tabs!Login
  <2>2. TabList(<<>>) /\ Tab(<<>>) = {}
    BY TabsAssumption DEF TabList, Tab
  <2>3. ui' \in Layouts /\ ui'.tabs = <<>> /\ ui'.user = None /\ ui'.at = "login"
    <3>1. u \in Layouts /\ u.at = "login" /\ None \in Tabs!Users /\ <<>> \in Seq(Pages)
      BY <1>3, <1>4 DEF LayoutTyped, Tabs!Users
    <3> QED BY <2>1, <3>1 DEF Layouts
  <2> QED BY <2>1, <2>2, <2>3 DEF TabsInv, LayoutOk, LayoutTyped, OnlySeen, Leaves
<1>5. CASE ui.go # "login"
  <2>1. u.at \in Pages
    BY <1>2, <1>3, <1>5
  <2>2. CASE Tabs!Becomes(Tabs!Effects(u))
    BY <1>3, <2>1, <2>2, EffectsFit, BecomesOk
  <2>3. CASE Tabs!Mounted([u EXCEPT !.user = u.cached])
    <3>1. PICK v, w : /\ v = [u EXCEPT !.user = u.cached]
                      /\ w = [v EXCEPT !.tabs = Tabs!ReadStored]
      OBVIOUS
    <3>2. LayoutTyped(v) /\ v.at = u.at
      BY <1>3, <3>1 DEF LayoutTyped, Layouts
    <3>3. TabList(Tabs!ReadStored)
      BY StoredTabs DEF TabsInv
    <3>4. LayoutTyped(w) /\ w.at = v.at
      <4>1. PICK s : s = Tabs!ReadStored /\ TabList(s)
        BY <3>3
      <4>2. LET x == [v EXCEPT !.tabs = s]
            IN LayoutTyped(x) /\ SameUser(v, x) /\ x.tabs = s /\ x.go = v.go
        BY <3>2, <4>1, ListReplaced
      <4>3. w = [v EXCEPT !.tabs = s]
        BY <3>1, <4>1
      <4> QED BY <4>2, <4>3 DEF SameUser
    <3>5. Tabs!Becomes(Tabs!Effects(w))
      BY <2>3, <3>1 DEF Tabs!Mounted, Tabs!Becomes
    <3> QED BY <2>1, <3>2, <3>4, <3>5, EffectsFit, BecomesOk
  <2> QED BY <1>1, <1>5, <2>2, <2>3 DEF Tabs!Arrive, Tabs!Login
<1> QED BY <1>4, <1>5

LEMMA DoneMeOk == TabsInv /\ Tabs!DoneMe => TabsInv'
<1> SUFFICES ASSUME TabsInv, Tabs!DoneMe  PROVE TabsInv'
  OBVIOUS
<1>1. db.rights \in Tabs!Users /\ None \in Tabs!Users
  BY DEF TabsInv, Tabs!Users
<1>2. CASE /\ ui.at = "login"
           /\ \E user \in {None, db.rights} : ui' = [ui EXCEPT !.cached = user]
           /\ UNCHANGED db
  BY <1>1, <1>2 DEF TabsInv, LayoutOk, LayoutTyped, Layouts, OnlySeen, Leaves
<1>3. CASE Tabs!Becomes(Tabs!Validated([ui EXCEPT !.user = db.rights, !.cached = db.rights]))
  <2>1. PICK u : u = [ui EXCEPT !.user = db.rights, !.cached = db.rights]
    OBVIOUS
  <2>2. LayoutTyped(u) /\ Leaves(u)
    BY <1>1, <2>1 DEF TabsInv, LayoutOk, LayoutTyped, Layouts, Leaves
  <2>3. LayoutOk(Tabs!Validated(u))
    BY <2>2, ValidatedFits DEF LayoutOk
  <2> QED BY <1>3, <2>1, <2>3, BecomesOk
<1>4. CASE ui' = [ui EXCEPT !.cached = None, !.go = "login"] /\ UNCHANGED db
  BY <1>1, <1>4, PagesAssumption
  DEF TabsInv, LayoutOk, LayoutTyped, Layouts, OnlySeen, Leaves
<1> QED BY <1>2, <1>3, <1>4 DEF Tabs!DoneMe, Tabs!Login

LEMMA TitledOk == TabsInv /\ Tabs!Titled => TabsInv'
<1> SUFFICES ASSUME TabsInv, Tabs!Titled  PROVE TabsInv'
  OBVIOUS
<1>1. LayoutTyped(ui) /\ ui.at \in Pages
  BY DEF Tabs!Titled, Tabs!Login, TabsInv, LayoutOk, LayoutTyped, Layouts
<1>2. LayoutTyped(Tabs!AddTab(ui)) /\ Leaves(Tabs!AddTab(ui))
  BY <1>1, AddTabFits
<1>3. LayoutOk(Tabs!Validated(Tabs!AddTab(ui)))
  BY <1>2, ValidatedFits DEF LayoutOk
<1> QED BY <1>3, BecomesOk DEF Tabs!Titled

LEMMA DoOk ==
  ASSUME TabsInv, NEW u, LayoutOk(u), Tabs!Do(u), UNCHANGED db
  PROVE  TabsInv'
<1>1. u.clicks + 1 \in Nat
  BY DEF LayoutOk, LayoutTyped, Layouts
<1>2. ui' = [u EXCEPT !.clicks = @ + 1]
  BY DEF Tabs!Do
<1>3. ui' \in Layouts
  BY <1>1, <1>2 DEF LayoutOk, LayoutTyped, Layouts
<1>4. ui'.at = u.at /\ ui'.go = u.go /\ ui'.tabs = u.tabs /\ ui'.user = u.user
  BY <1>2 DEF LayoutOk, LayoutTyped, Layouts
<1> QED BY <1>3, <1>4 DEF TabsInv, LayoutOk, LayoutTyped, OnlySeen, Leaves

LEMMA ClickOk ==
  ASSUME TabsInv, NEW page \in Tabs!Page, Tabs!Click(page)
  PROVE  TabsInv'
<1>1. page \in Pages /\ page # ui.at /\ LayoutOk(ui)
  BY DEF Tabs!Click, Tabs!Page, Pages, TabsInv
<1>2. LayoutOk(Tabs!Push(ui, page))
  BY <1>1, PushFits DEF LayoutOk, OnlySeen, Leaves, SameUser
<1> QED BY <1>2, DoOk DEF Tabs!Click

LEMMA LoginOk ==
  TabsInv /\ (Tabs!Logout \/ Tabs!DoneLogout \/ Tabs!LogIn \/ Tabs!Elsewhere) => TabsInv'
<1> SUFFICES ASSUME TabsInv, Tabs!Logout \/ Tabs!DoneLogout \/ Tabs!LogIn \/ Tabs!Elsewhere
             PROVE  TabsInv'
  OBVIOUS
<1>1. /\ ui \in Layouts /\ LayoutOk(ui) /\ ui.clicks + 1 \in Nat /\ None \in Tabs!Users
      /\ db \in [stored : Tabs!Lists, rights : Rights]
      /\ \A list \in Tabs!Lists :
           [db EXCEPT !.stored = list] \in [stored : Tabs!Lists, rights : Rights]
      /\ \A rights \in Rights :
           [db EXCEPT !.rights = rights] \in [stored : Tabs!Lists, rights : Rights]
  BY DEF TabsInv, LayoutOk, LayoutTyped, Layouts, Tabs!Users
<1>2. CASE Tabs!Logout
  BY <1>1, <1>2, DoOk DEF Tabs!Logout
<1>3. CASE Tabs!DoneLogout
  <2>1. CASE ui' = [ui EXCEPT !.cached = None, !.go = "login"] /\ db' = [db EXCEPT !.stored = <<>>]
    <3>1. <<>> \in Tabs!Lists
      <4>1. PICK s : s = <<>>
        OBVIOUS
      <4>2. TabList(s)
        BY <4>1, TabsAssumption DEF TabList
      <4>3. s \in Tabs!Lists
        BY <4>2, ListsAre
      <4> QED BY <4>1, <4>3
    <3>2. ui' \in Layouts /\ ui'.go = "login" /\ ui'.tabs = ui.tabs /\ ui'.user = ui.user
      BY <1>1, <2>1 DEF Layouts
    <3> QED BY <1>1, <2>1, <3>1, <3>2, PagesAssumption
            DEF TabsInv, LayoutOk, LayoutTyped, OnlySeen, Leaves
  <2>2. CASE UNCHANGED <<ui, db>>
    BY <2>2 DEF TabsInv
  <2> QED BY <1>3, <2>1, <2>2 DEF Tabs!DoneLogout, Tabs!Login
<1>4. CASE Tabs!LogIn
  <2>1. PICK rights \in Rights : db' = [db EXCEPT !.rights = rights]
    BY <1>4 DEF Tabs!LogIn
  <2>2. ui' = [ui EXCEPT !.clicks = @ + 1, !.go = StartPage, !.cached = None]
    BY <1>4 DEF Tabs!LogIn
  <2>3. ui' \in Layouts /\ ui'.go = StartPage /\ ui'.tabs = ui.tabs /\ ui'.user = ui.user
    BY <1>1, <2>2, PagesAssumption DEF Layouts, Pages
  <2> QED BY <1>1, <2>1, <2>3, PagesAssumption
          DEF TabsInv, LayoutOk, LayoutTyped, OnlySeen, Leaves
<1>5. CASE Tabs!Elsewhere
  <2>1. ui' = [ui EXCEPT !.clicks = @ + 1]
    BY <1>5 DEF Tabs!Elsewhere
  <2>2. /\ ui' \in Layouts /\ ui'.at = ui.at /\ ui'.go = ui.go
        /\ ui'.tabs = ui.tabs /\ ui'.user = ui.user
    BY <1>1, <2>1 DEF Layouts
  <2>3. LayoutOk(ui')
    BY <1>1, <2>2 DEF LayoutOk, LayoutTyped, OnlySeen, Leaves
  <2>4. db' \in [stored : Tabs!Lists, rights : Rights]
    BY <1>1, <1>5 DEF Tabs!Elsewhere
  <2> QED BY <2>3, <2>4 DEF TabsInv
<1> QED BY <1>2, <1>3, <1>4, <1>5
-----------------------------------------------------------------------------
LEMMA TabsInit == Tabs!Init => TabsInv
<1> SUFFICES ASSUME Tabs!Init  PROVE TabsInv
  OBVIOUS
<1>1. db \in [stored : Tabs!Lists, rights : Rights] /\ TabList(Tabs!ReadStored)
  BY StoredTabs DEF Tabs!Init
<1>2. PICK page \in Pages :
        ui = Tabs!Effects([page |-> "tabs", clicks |-> 0, at |-> page, go |-> None,
                           tabs |-> Tabs!ReadStored, user |-> None, cached |-> None])
  BY DEF Tabs!Init, Tabs!Page, Pages
<1>3. PICK u : u = [page |-> "tabs", clicks |-> 0, at |-> page, go |-> None,
                    tabs |-> Tabs!ReadStored, user |-> None, cached |-> None]
  OBVIOUS
<1>4. LayoutTyped(u) /\ u.at = page
  BY <1>1, <1>3 DEF LayoutTyped, Layouts, TabList, Tabs!Users
<1> QED BY <1>1, <1>2, <1>3, <1>4, EffectsFit DEF TabsInv

\* Every step of the layout keeps its invariant.
LEMMA TabsStep == TabsInv /\ [Tabs!Next]_vars => TabsInv'
<1> SUFFICES ASSUME TabsInv, [Tabs!Next]_vars  PROVE TabsInv'
  OBVIOUS
<1>0. LayoutOk(ui)
  BY DEF TabsInv
<1>1. CASE Tabs!Arrive \/ Tabs!DoneMe \/ Tabs!Titled
  BY <1>1, ArriveOk, DoneMeOk, TitledOk
<1>2. CASE \E page \in Tabs!Page : Tabs!Click(page)
  BY <1>2, ClickOk
<1>3. ASSUME NEW i \in 1..Len(ui.tabs), Tabs!Clicked(Tabs!CloseTab(ui, i))  PROVE TabsInv'
  BY <1>0, <1>3, CloseTabOk, ClickedOk
<1>4. ASSUME NEW i \in 1..Len(ui.tabs), Tabs!Clicked(Tabs!CloseOtherTabs(ui, i))
      PROVE  TabsInv'
  BY <1>0, <1>4, CloseOtherTabsOk, ClickedOk
<1>5. ASSUME NEW i \in 1..Len(ui.tabs), NEW j \in 1..Len(ui.tabs), i # j,
             Tabs!Clicked(Tabs!MoveTab(ui, i, j))
      PROVE  TabsInv'
  BY <1>0, <1>5, MoveTabOk, ClickedOk
<1>6. CASE Tabs!CloseAllTabs
  BY <1>0, <1>6, CloseAllTabsOk, ClickedOk DEF Tabs!CloseAllTabs
<1>7. CASE Tabs!Logout \/ Tabs!DoneLogout \/ Tabs!LogIn \/ Tabs!Elsewhere
  BY <1>7, LoginOk
<1>8. CASE UNCHANGED vars
  BY <1>8 DEF vars, TabsInv
<1> QED BY <1>1, <1>2, <1>3, <1>4, <1>5, <1>6, <1>7, <1>8 DEF Tabs!Next

LEMMA TabsHold == TabsInv => Tabs!TypeOK /\ Tabs!TabsFit
<1> SUFFICES ASSUME TabsInv  PROVE Tabs!TypeOK /\ Tabs!TabsFit
  OBVIOUS
<1>1. TabList(ui.tabs) /\ ui \in Layouts
  BY DEF TabsInv, LayoutOk, LayoutTyped
<1>2. /\ Tabs!IsInjective(ui.tabs) /\ Tabs!ToSet(ui.tabs) = Tab(ui.tabs)
      /\ Len(ui.tabs) <= MaxTabs
  BY <1>1, ListsAre DEF TabList
<1>3. Tabs!TypeOK
  BY <1>1 DEF TabsInv, Tabs!TypeOK, Layouts, Pages, Tabs!Page, Tabs!Login
<1>4. Tabs!TabsFit
  BY <1>2 DEF TabsInv, LayoutOk, OnlySeen, Leaves, Tabs!TabsFit, Tabs!Login
<1> QED BY <1>3, <1>4
-----------------------------------------------------------------------------
(* The client.  The page on the screen keeps its invariant, and no other page takes a
   step. *)

WebInv ==
  \/ FormsInv \/ (MatchingInv /\ MatchingTypes) \/ OpeningInv \/ BankInv \/ JobsInv
  \/ RevenueInv \/ TabsInv

LEMMA PageOfInv ==
  /\ FormsInv => On("form")
  /\ MatchingTypes => On("reconciliation")
  /\ OpeningInv => On("preopening")
  /\ BankInv => On("bank")
  /\ JobsInv => On("jobs")
  /\ RevenueInv => On("revenue")
  /\ TabsInv => On("tabs")
<1>1. FormsInv => On("form")
  BY DEF FormsInv, Typed, FormUi, On
<1>2. MatchingTypes => On("reconciliation")
  BY DEF MatchingTypes, MatchingUi, On
<1>3. OpeningInv => On("preopening")
  BY DEF OpeningInv, OpeningPage, OpeningUi, On
<1>4. BankInv => On("bank")
  BY DEF BankInv, BankTyped, BankUiOk, BankUi, On
<1>5. JobsInv => On("jobs")
  BY DEF JobsInv, JobsPageOk, JobsUiOk, JobsUi, On
<1>6. RevenueInv => On("revenue")
  BY DEF RevenueInv, RevenueTyped, RevenueUi, On
<1>7. TabsInv => On("tabs")
  BY DEF TabsInv, LayoutOk, LayoutTyped, Layouts, On
<1> QED BY <1>1, <1>2, <1>3, <1>4, <1>5, <1>6, <1>7

LEMMA WebInit == Init => WebInv
  BY FormsInit, MatchingInit, MatchingTypesInit, OpeningInit, BankInit, JobsInit, RevenueInit,
     TabsInit
  DEF Init, WebInv

LEMMA WebStays ==
  ASSUME WebInv, UNCHANGED vars
  PROVE  WebInv'
<1>1. [Submits!Next]_vars /\ [Matching!Next]_vars /\ [Tabs!Next]_vars
  OBVIOUS
<1>2. CASE OpeningInv
  BY <1>2 DEF vars, WebInv, OpeningInv, OpeningRows, OpeningPage, Opening!UsedOnce,
              Opening!Confirmed
<1>3. CASE BankInv
  BY <1>3 DEF vars, WebInv, BankInv, BankTyped, OneWorks, ChecksHold, Bank!DuplicatesAsked
<1>4. CASE JobsInv
  BY <1>4, JobsPageMoves DEF vars, WebInv, JobsInv
<1>5. CASE RevenueInv
  BY <1>5 DEF vars, WebInv, RevenueInv, RevenueTyped, LoadsOwn, GridKept, Loads
<1> QED BY <1>1, <1>2, <1>3, <1>4, <1>5, FormsStep, MatchingStep, MatchingTypesStep, TabsStep
        DEF WebInv

LEMMA WebStep == WebInv /\ [Next]_vars => WebInv'
<1> SUFFICES ASSUME WebInv, [Next]_vars  PROVE WebInv'
  OBVIOUS
<1>1. CASE UNCHANGED vars
  BY <1>1, WebStays
<1>2. CASE Next
  <2>1. /\ On("form") \/ On("reconciliation") \/ On("preopening") \/ On("bank")
           \/ On("jobs") \/ On("revenue") \/ On("tabs")
        /\ On("form") => FormsInv /\ Submits!Next
        /\ On("reconciliation") => MatchingInv /\ MatchingTypes /\ Matching!Next
        /\ On("preopening") => OpeningInv /\ Opening!Next
        /\ On("bank") => BankInv /\ Bank!Next
        /\ On("jobs") => JobsInv /\ Jobs!Next
        /\ On("revenue") => RevenueInv /\ Revenue!Next
        /\ On("tabs") => TabsInv /\ Tabs!Next
    BY <1>2, PageOfInv DEF Next, WebInv, On
  <2> QED
    BY <2>1, FormsStep, MatchingStep, MatchingTypesStep, OpeningStep, BankStep, JobsStep,
       RevenueStep, TabsStep
    DEF WebInv
<1> QED BY <1>1, <1>2

LEMMA WebAlways == Spec => []WebInv
  BY WebInit, WebStep, PTL DEF Spec

\* What is true on a page: its invariant holds there.
LEMMA WebPages ==
  ASSUME WebInv
  PROVE  /\ On("form") => FormsInv
         /\ On("reconciliation") => MatchingInv /\ MatchingTypes
         /\ On("preopening") => OpeningInv
         /\ On("bank") => BankInv
         /\ On("jobs") => JobsInv
         /\ On("revenue") => RevenueInv
         /\ On("tabs") => TabsInv
  BY PageOfInv DEF WebInv, On

\* Every page keeps the types of its state, whichever page is opened.
THEOREM Types == Spec => []TypeOK
<1>1. WebInv => TypeOK
  BY WebPages, FormsHold, MatchingHolds, OpeningHolds, BankHolds, JobsHold, RevenueHolds,
     TabsHold
  DEF TypeOK
<1> QED BY <1>1, WebAlways, PTL

\* useSubmit and the checks of the API: whatever the profile, a form that only its own
\* handler makes ready again, or whose filling the API takes once, saves a filling a second
\* time only after it has failed before the user's eyes.
THEOREM SavesOnce == Spec => []SavedOnce
<1>1. WebInv => SavedOnce
  BY WebPages, FormsHold DEF SavedOnce
<1> QED BY <1>1, WebAlways, PTL

\* A form that cannot be closed while it saves loses nothing that was entered.
THEOREM KeepsInput == Spec => []InputKept
<1>1. WebInv => InputKept
  BY WebPages, FormsHold DEF InputKept
<1> QED BY <1>1, WebAlways, PTL

\* The reconciliation page: however late the plan of a dialog closed before it arrives, the
\* plan shown, sent and stored with a match is the plan of its approval.
THEOREM PlansAreOwn == Spec => []PlanIsOwn
<1>1. WebInv => PlanIsOwn
  BY WebPages, MatchingHolds DEF PlanIsOwn
<1> QED BY <1>1, WebAlways, PTL

\* The version a plan is saved with makes the API refuse to replace one that the user was
\* not shown, with any number of users changing plans.
THEOREM NoPlanOverwritten == Spec => []NoBlindOverwrite
<1>1. WebInv => NoBlindOverwrite
  BY WebPages, MatchingHolds DEF NoBlindOverwrite
<1> QED BY <1>1, WebAlways, PTL

\* The pre-opening page: no bank row is used twice and no approval beyond its total,
\* however old the candidates are that the page confirms.
THEOREM OpeningUsedOnce == Spec => []UsedOnce
<1>1. WebInv => UsedOnce
  BY WebPages, OpeningHolds DEF UsedOnce
<1> QED BY <1>1, WebAlways, PTL

\* The bank page: between the check for duplicates and the commit nothing is added through
\* the form for one row that the user was not asked about.
THEOREM DuplicatesAreAsked == Spec => []DuplicatesAsked
<1>1. WebInv => DuplicatesAsked
  BY WebPages, BankHolds DEF DuplicatesAsked
<1> QED BY <1>1, WebAlways, PTL

\* The synchronization page: once it has seen a job end it does not go on showing the
\* approvals from before, unless apiClient gave it the answer of the last five seconds.
THEOREM EndsReload == Spec => []EndReloads
<1>1. WebInv => EndReloads
  BY WebPages, JobsHold DEF EndReloads
<1> QED BY <1>1, WebAlways, PTL

\* The revenue page: answers to overtaken loads never fill the grid of another channel.
THEOREM GridsAreOwn == Spec => []GridIsOwn
<1>1. WebInv => GridIsOwn
  BY WebPages, RevenueHolds DEF GridIsOwn
<1> QED BY <1>1, WebAlways, PTL

\* ProLayout: whatever is opened, closed and moved in this window and stored by others, the
\* row holds each page once, at most MaxTabs, none the user may not see, and the page on the
\* screen unless it is being left or is "/" or the login.
THEOREM TabsAlwaysFit == Spec => []TabsFit
<1>1. WebInv => TabsFit
  BY WebPages, TabsHold DEF TabsFit
<1> QED BY <1>1, WebAlways, PTL
=============================================================================
