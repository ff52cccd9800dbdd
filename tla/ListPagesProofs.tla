-------------------------- MODULE ListPagesProofs --------------------------
(***************************************************************************)
(* ListPages implements LatestAnswer, whatever the views and the profiles. *)
(* The invariant says what an answer under way knows: never more than the  *)
(* present question asks, and all of it when the answer will be accepted   *)
(* by a view that keeps its answers in order.  Such a view either numbers  *)
(* its requests, and only the newest can be accepted, or is locked, and    *)
(* there is at most one call.                                              *)
(***************************************************************************)
EXTENDS ListPages, TLAPS

\* What is shown or on its way never knows more than has been asked.
Bounded ==
  /\ ui.shown <= Asked
  /\ \A c \in net : c.sel <= ui.sel /\ c.req <= ui.req
  /\ \A c \in Calls("load") : c.n <= Asked

\* Where the question cannot change under a save, the save belongs to it.
Keeps == f \cap {"fixed", "modal"} # {}
SavesPresent == Keeps => \A c \in Calls("save") : c.sel = ui.sel

\* The newest request asks the present question.
Numbers == InOrder(ui.view) /\ Has("guarded")
NewestPresent == Numbers => \A c \in Calls("load") : c.req = ui.req => c.n = Asked

\* A locked view has one call, and is busy as long as that is out.
Locks == InOrder(ui.view) /\ Has("locked") /\ f \cap {"quiet", "dismissed"} = {}
OneCall ==
  Locks => /\ net # {} => ui.busy
           /\ \A c, d \in net : c = d
           /\ \A c \in net : c.sel = ui.sel
           /\ \A c \in Calls("load") : c.n = Asked

IInv == Typed /\ Bounded /\ SavesPresent /\ NewestPresent /\ OneCall
-----------------------------------------------------------------------------
\* A state of the page, field by field.
Row(u, clicks, sel, wrote, req, shown, failed, busy, open) ==
  [page |-> "list", view |-> u.view, clicks |-> clicks, sel |-> sel, wrote |-> wrote,
   req |-> req, shown |-> shown, failed |-> failed, busy |-> busy, open |-> open]

\* What a load does to the page before its first await.
LEMMA BeginFields ==
  ASSUME NEW u \in UiType
  PROVE  /\ Begin(u) \in UiType
         /\ Begin(u).view = u.view /\ Begin(u).sel = u.sel /\ Begin(u).wrote = u.wrote
         /\ Begin(u).req = u.req + 1
         /\ Begin(u).shown \in {u.shown, 0}
         /\ ~Has("quiet") => Begin(u).busy
<1>1. PICK busy \in BOOLEAN, shown \in {u.shown, 0} :
        /\ Begin(u) = [u EXCEPT !.busy = busy, !.req = @ + 1, !.shown = shown, !.open = TRUE]
        /\ ~Has("quiet") => busy
  BY DEF Begin, UiType
<1>2. Begin(u) = Row(u, u.clicks, u.sel, u.wrote, u.req + 1, shown, u.failed, busy, TRUE)
  BY <1>1 DEF Row, UiType
<1>3. /\ u.clicks \in Nat /\ u.sel \in Nat /\ u.wrote \in Nat /\ u.req + 1 \in Nat
      /\ shown \in Nat /\ u.failed \in Nat
  BY DEF UiType
<1>4. Begin(u) \in UiType
  <2>1. Row(u, u.clicks, u.sel, u.wrote, u.req + 1, shown, u.failed, busy, TRUE) \in UiType
    BY <1>3 DEF Row, UiType
  <2> QED BY <1>2, <2>1
<1>5. ~Has("quiet") => busy
  BY <1>1
<1>6. \A b : b = Row(u, u.clicks, u.sel, u.wrote, u.req + 1, shown, u.failed, busy, TRUE) =>
        /\ b.view = u.view /\ b.sel = u.sel /\ b.wrote = u.wrote
        /\ b.req = u.req + 1 /\ b.shown = shown /\ b.busy = busy
  BY DEF Row
<1> QED BY <1>2, <1>4, <1>5, <1>6

\* A click is counted.
LEMMA DoFields ==
  ASSUME NEW u \in UiType, Do(u)
  PROVE  /\ ui' \in UiType
         /\ ui'.view = u.view /\ ui'.sel = u.sel /\ ui'.wrote = u.wrote
         /\ ui'.req = u.req /\ ui'.shown = u.shown /\ ui'.busy = u.busy
         /\ ui'.open = u.open
  BY DEF Do, UiType

LEMMA LoadFields ==
  ASSUME NEW u \in UiType, NEW s \in Nat
  PROVE  /\ Load(u, s) \in CallType /\ Load(u, s).op = "load"
         /\ Load(u, s).sel = s /\ Load(u, s).n = s + u.wrote /\ Load(u, s).req = u.req + 1
  BY DEF Load, Call, UiType, CallType

\* A load that is started with its question present keeps the invariant.
LEMMA StartsLoad ==
  ASSUME IInv, NEW u \in UiType, NEW rest \in SUBSET net, NEW s \in Nat,
         u.view = ui.view, u.req = ui.req, u.shown = ui.shown,
         u.sel \in {ui.sel, ui.sel + 1}, u.wrote \in {ui.wrote, ui.wrote + 1},
         s <= u.sel, InOrder(ui.view) => s = u.sel,
         Keeps => \A c \in rest : c.op = "save" => c.sel = u.sel,
         Locks => rest = {},
         ui' = Begin(u) \/ Do(Begin(u)),
         net' = rest \cup {Load(u, s)}
  PROVE  IInv'
<1> DEFINE c0 == Load(u, s)
<1>1. /\ ui' \in UiType /\ ui'.view = ui.view
      /\ ui'.sel = u.sel /\ ui'.wrote = u.wrote /\ ui'.req = ui.req + 1
      /\ ui'.shown \in {ui.shown, 0}
      /\ ~Has("quiet") => ui'.busy
  <2> DEFINE b == Begin(u)
  <2>1. /\ b \in UiType /\ b.view = ui.view
        /\ b.sel = u.sel /\ b.wrote = u.wrote /\ b.req = ui.req + 1
        /\ b.shown \in {ui.shown, 0}
        /\ ~Has("quiet") => b.busy
    BY BeginFields
  <2>2. CASE ui' = b
    BY <2>1, <2>2
  <2>3. CASE Do(b)
    <3> HIDE DEF b
    <3> QED BY <2>1, <2>3, DoFields
  <2> QED BY <2>2, <2>3
<1>2. /\ c0 \in CallType /\ c0.op = "load"
      /\ c0.sel = s /\ c0.n = s + u.wrote /\ c0.req = ui.req + 1
  BY LoadFields
<1>3. /\ ui \in UiType /\ net \subseteq CallType
  BY DEF IInv, Typed
<1>4. Asked' = u.sel + u.wrote /\ Asked <= Asked' /\ Asked \in Nat /\ Asked' \in Nat
  BY <1>1, <1>3 DEF Asked, UiType
<1>5. f' = f /\ InOrder(ui.view)' = InOrder(ui.view)
  BY <1>1 DEF f, InOrder
<1>6. Typed'
  BY <1>1, <1>2, <1>3 DEF Typed
<1>7. Bounded'
  <2>1. \A c \in net : c.sel <= ui.sel /\ c.req <= ui.req /\ c.sel \in Nat /\ c.req \in Nat /\ c.n \in Nat
    BY <1>3 DEF IInv, Bounded, CallType
  <2>2. \A c \in net' : c.sel <= ui'.sel /\ c.req <= ui'.req
    BY <2>1, <1>1, <1>2, <1>3 DEF UiType
  <2>3. \A c \in Calls("load") : c.n <= Asked /\ c.n \in Nat
    BY <2>1 DEF IInv, Bounded, Calls
  <2>4. \A c \in Calls("load")' : c.n <= Asked'
    BY <2>3, <1>1, <1>2, <1>3, <1>4 DEF Calls, UiType
  <2>5. ui'.shown <= Asked'
    BY <1>1, <1>3, <1>4 DEF IInv, Bounded, UiType
  <2> QED BY <2>2, <2>4, <2>5 DEF Bounded
<1>8. SavesPresent'
  BY <1>1, <1>2, <1>5 DEF SavesPresent, Keeps, Calls
<1>9. NewestPresent'
  <2> SUFFICES ASSUME Numbers', NEW c \in Calls("load")', c.req = ui'.req
               PROVE  c.n = Asked'
    BY DEF NewestPresent
  <2>1. InOrder(ui.view)
    BY <1>5 DEF Numbers
  <2>2. CASE c = c0
    BY <2>1, <2>2, <1>2, <1>4
  <2>3. CASE c \in net
    BY <2>3, <1>1, <1>3 DEF IInv, Bounded, UiType, CallType
  <2> QED BY <2>2, <2>3 DEF Calls
<1>10. OneCall'
  <2> SUFFICES ASSUME Locks'
               PROVE  /\ ui'.busy
                      /\ \A c, d \in net' : c = d
                      /\ \A c \in net' : c.sel = ui'.sel
                      /\ \A c \in Calls("load")' : c.n = Asked'
    BY DEF OneCall
  <2>1. Locks /\ InOrder(ui.view)
    BY <1>5 DEF Locks, Has
  <2>2. rest = {} /\ ~Has("quiet")
    BY <2>1 DEF Locks, Has
  <2>3. c0.n = Asked' /\ c0.sel = ui'.sel
    BY <2>1, <1>1, <1>2, <1>4
  <2> QED BY <2>1, <2>2, <2>3, <1>1 DEF Calls
<1> QED BY <1>6, <1>7, <1>8, <1>9, <1>10 DEF IInv
-----------------------------------------------------------------------------
(* The invariant. *)

LEMMA InitInv == Init => IInv
<1> SUFFICES ASSUME Init PROVE IInv
  OBVIOUS
<1>1. PICK v \in View : ui = Open(v)
  BY DEF Init
<1>2. /\ ui \in UiType /\ ui.view = v /\ ui.sel = 1 /\ ui.wrote = 0 /\ ui.req = 1
      /\ ui.shown = 0 /\ ui.busy = ("quiet" \notin Features[v])
  BY <1>1 DEF Open, UiType
<1>3. net = {Call("load", 1, 1, 1)}
  BY DEF Init
<1>4. Asked = 1
  BY <1>2 DEF Asked
<1>5. \A c \in net : /\ c \in CallType /\ c.op = "load" /\ c.sel = 1 /\ c.n = 1 /\ c.req = 1
                     /\ c = Call("load", 1, 1, 1)
  BY <1>3 DEF Call, CallType
<1>6. Typed /\ Bounded
  BY <1>2, <1>4, <1>5 DEF Typed, Bounded, Calls
<1>7. SavesPresent /\ NewestPresent
  BY <1>4, <1>5 DEF SavesPresent, NewestPresent, Calls
<1>8. OneCall
  BY <1>2, <1>4, <1>5 DEF OneCall, Locks, Has, f, Calls
<1> QED BY <1>6, <1>7, <1>8 DEF IInv

\* A step that asks nothing, and leaves at most calls that were out, keeps the invariant.
LEMMA Quiet ==
  ASSUME IInv, ui' \in UiType, ui'.view = ui.view, ui'.sel = ui.sel,
         ui'.wrote = ui.wrote, ui'.shown <= Asked,
         net' \in SUBSET net,
         ui'.req \in {ui.req, ui.req + 1},
         Locks => net' = {} \/ ui'.busy
  PROVE  IInv'
<1>1. f' = f /\ InOrder(ui.view)' = InOrder(ui.view) /\ Asked' = Asked
  BY DEF f, InOrder, Asked
<1>2. Typed'
  BY DEF IInv, Typed
<1>3. \A c \in net' : c \in net /\ c \in CallType
  BY DEF IInv, Typed
<1>4. Bounded'
  BY <1>1, <1>3 DEF IInv, Typed, Bounded, Calls, UiType, CallType
<1>5. SavesPresent'
  BY <1>1, <1>3 DEF IInv, SavesPresent, Keeps, Calls
<1>6. NewestPresent'
  <2>1. \A c \in net : c.req <= ui.req /\ c.req \in Nat /\ ui.req \in Nat
    BY DEF IInv, Typed, Bounded, UiType, CallType
  <2>2. \A c \in net : c.req = ui'.req => ui'.req = ui.req
    BY <2>1
  <2> QED BY <1>1, <1>3, <2>2 DEF IInv, NewestPresent, Numbers, Has, Calls
<1>7. OneCall'
  BY <1>1, <1>3 DEF IInv, OneCall, Locks, Has, Calls
<1> QED BY <1>2, <1>4, <1>5, <1>6, <1>7 DEF IInv
-----------------------------------------------------------------------------
(* Every action keeps the invariant. *)

\* Another question is asked only where it may change, and nothing is saved meanwhile.
LEMMA AskStep == IInv /\ Ask => IInv'
<1> SUFFICES ASSUME IInv, Ask PROVE IInv'
  OBVIOUS
<1> DEFINE u == [ui EXCEPT !.sel = @ + 1]
<1>1. ui \in UiType
  BY DEF IInv, Typed
<1>2. /\ u \in UiType /\ u.view = ui.view /\ u.req = ui.req /\ u.shown = ui.shown
      /\ u.sel = ui.sel + 1 /\ u.wrote = ui.wrote /\ u.sel \in Nat
  BY <1>1 DEF UiType
<1>3. Do(Begin(u)) /\ net' = net \cup {Load(u, u.sel)}
  BY DEF Ask
<1>4. Keeps => \A c \in net : c.op = "save" => c.sel = u.sel
  BY DEF Ask, Keeps, Has, Saving, Calls
<1>5. Locks => net = {}
  BY DEF Ask, Free, Locks, IInv, OneCall
<1> HIDE DEF u
<1> QED BY <1>2, <1>3, <1>4, <1>5, StartsLoad

LEMMA RefreshStep == IInv /\ Refresh => IInv'
<1> SUFFICES ASSUME IInv, Refresh PROVE IInv'
  OBVIOUS
<1>1. ui \in UiType /\ ui.sel \in Nat
  BY DEF IInv, Typed, UiType
<1>2. Do(Begin(ui)) /\ net' = net \cup {Load(ui, ui.sel)}
  BY DEF Refresh
<1>3. Keeps => \A c \in net : c.op = "save" => c.sel = ui.sel
  BY DEF IInv, SavesPresent, Calls
<1>4. Locks => net = {}
  BY DEF Refresh, Free, Locks, IInv, OneCall
<1> QED BY <1>1, <1>2, <1>3, <1>4, StartsLoad

\* Closing as it changes the page.
LEMMA DismissFields ==
  ASSUME ui \in UiType, Dismiss
  PROVE  /\ net' = net
         /\ ui' \in UiType /\ ui'.view = ui.view /\ ui'.sel = ui.sel
         /\ ui'.wrote = ui.wrote /\ ui'.req = ui.req + 1 /\ ui'.shown = ui.shown
         /\ ui'.open = FALSE
<1> DEFINE v == [ui EXCEPT !.req = @ + 1]
           u == [v EXCEPT !.open = FALSE]
<1>1. /\ v \in UiType /\ v.view = ui.view /\ v.sel = ui.sel
      /\ v.wrote = ui.wrote /\ v.req = ui.req + 1 /\ v.shown = ui.shown
  BY DEF UiType
<1>2. Do(u) /\ net' = net
  BY DEF Dismiss
<1> HIDE DEF v
<1>3. u \in UiType
  BY <1>1 DEF UiType
<1>4. /\ u.view = v.view /\ u.sel = v.sel /\ u.wrote = v.wrote
      /\ u.req = v.req /\ u.shown = v.shown
  BY <1>1 DEF UiType
<1>5. u.open = FALSE
  BY <1>1 DEF UiType
<1> HIDE DEF u
<1> QED BY <1>1, <1>2, <1>3, <1>4, <1>5, DoFields

\* Closing only makes the requests out of date: none is the newest any more.
LEMMA DismissStep == IInv /\ Dismiss => IInv'
<1> SUFFICES ASSUME IInv, Dismiss PROVE IInv'
  OBVIOUS
<1>1. ui \in UiType
  BY DEF IInv, Typed
<1>2. /\ net' = net
      /\ ui' \in UiType /\ ui'.view = ui.view /\ ui'.sel = ui.sel
      /\ ui'.wrote = ui.wrote /\ ui'.req = ui.req + 1 /\ ui'.shown = ui.shown
  BY <1>1, DismissFields
<1>3. ui'.shown <= Asked
  BY <1>2 DEF IInv, Bounded
<1>4. ~Locks
  BY DEF Dismiss, Locks, Has
<1> QED BY <1>2, <1>3, <1>4, Quiet

\* The call of a save belongs to the present question; a locked view is busy with it.
LEMMA SaveStep == IInv /\ Save => IInv'
<1> SUFFICES ASSUME IInv, Save PROVE IInv'
  OBVIOUS
<1>1. ui \in UiType /\ net \subseteq CallType
  BY DEF IInv, Typed
<1> DEFINE c0 == Call("save", ui.sel, 0, 0)
<1>2. c0 \in CallType /\ c0.op = "save" /\ c0.sel = ui.sel /\ c0.req = 0
  BY <1>1 DEF Call, CallType, UiType
<1>3. net' = net \cup {c0}
  BY DEF Save
<1>4. /\ ui' \in UiType /\ ui'.view = ui.view /\ ui'.sel = ui.sel
      /\ ui'.wrote = ui.wrote /\ ui'.req = ui.req /\ ui'.shown = ui.shown
      /\ Has("locked") => ui'.busy = TRUE
  <2> DEFINE u == IF Has("locked") THEN [ui EXCEPT !.busy = TRUE] ELSE ui
  <2>1. /\ u \in UiType /\ u.view = ui.view /\ u.sel = ui.sel /\ u.wrote = ui.wrote
        /\ u.req = ui.req /\ u.shown = ui.shown
        /\ Has("locked") => u.busy = TRUE
    BY <1>1 DEF UiType
  <2>2. Do(u)
    BY DEF Save
  <2> HIDE DEF u
  <2>3. /\ ui' \in UiType /\ ui'.view = u.view /\ ui'.sel = u.sel
        /\ ui'.wrote = u.wrote /\ ui'.req = u.req /\ ui'.shown = u.shown
    BY <2>1, <2>2, DoFields
  <2>4. ui'.busy = u.busy
    BY <2>1, <2>2, DoFields
  <2>5. Has("locked") => ui'.busy = TRUE
    BY <2>1, <2>4
  <2> QED BY <2>1, <2>3, <2>5
<1> HIDE DEF c0
<1>5. f' = f /\ InOrder(ui.view)' = InOrder(ui.view) /\ Asked' = Asked
  BY <1>4 DEF f, InOrder, Asked
<1>6. Typed'
  BY <1>1, <1>2, <1>3, <1>4 DEF Typed
<1>7. Bounded'
  BY <1>1, <1>2, <1>3, <1>4, <1>5 DEF IInv, Bounded, Calls, UiType, CallType
<1>8. SavesPresent'
  BY <1>2, <1>3, <1>4, <1>5 DEF IInv, SavesPresent, Keeps, Calls
<1>9. NewestPresent'
  BY <1>2, <1>3, <1>4, <1>5 DEF IInv, NewestPresent, Numbers, Has, Calls
<1>10. OneCall'
  <2>1. Locks => net = {}
    BY DEF Save, Free, Locks, IInv, OneCall
  <2> QED BY <1>2, <1>3, <1>4, <1>5, <2>1 DEF OneCall, Locks, Has, Calls
<1> QED BY <1>6, <1>7, <1>8, <1>9, <1>10 DEF IInv

\* An answer to a load, as it changes the page: what is shown is as before, nothing, or
\* the answer, if that is looked at.
LEMMA DoneLoadFields ==
  ASSUME IInv, DoneLoad
  PROVE  \E c \in Calls("load") :
           /\ net' = net \ {c}
           /\ ui' \in UiType /\ ui'.view = ui.view /\ ui'.sel = ui.sel
           /\ ui'.wrote = ui.wrote /\ ui'.req = ui.req
           /\ \/ ui'.shown \in {ui.shown, 0}
              \/ ui'.shown = c.n /\ Accept(c)
<1>1. PICK c \in Calls("load"), answer \in Answer :
        /\ ui' = [ui EXCEPT
             !.busy = @ /\ ~Stops(c, answer),
             !.shown = IF ~Accept(c) THEN @ ELSE IF answer = "ok" THEN c.n
                       ELSE IF Has("drops") THEN 0 ELSE @,
             !.failed = IF Accept(c) /\ answer = "err" THEN c.n ELSE @]
        /\ net' = net \ {c}
  BY DEF DoneLoad
<1>2. ui \in UiType /\ c.n \in Nat
  BY DEF IInv, Typed, Calls, CallType
<1>3. PICK busy \in BOOLEAN, shown \in Nat, failed \in Nat :
        /\ ui' = [ui EXCEPT !.busy = busy, !.shown = shown, !.failed = failed]
        /\ shown \in {ui.shown, 0} \/ (shown = c.n /\ Accept(c))
  <2> DEFINE busy == ui.busy /\ ~Stops(c, answer)
             shown == IF ~Accept(c) THEN ui.shown ELSE IF answer = "ok" THEN c.n
                      ELSE IF Has("drops") THEN 0 ELSE ui.shown
             failed == IF Accept(c) /\ answer = "err" THEN c.n ELSE ui.failed
  <2>1. busy \in BOOLEAN
    OBVIOUS
  <2>2. shown \in Nat /\ (shown \in {ui.shown, 0} \/ (shown = c.n /\ Accept(c)))
    BY <1>2 DEF UiType
  <2>3. failed \in Nat
    BY <1>2 DEF UiType
  <2>4. ui' = [ui EXCEPT !.busy = busy, !.shown = shown, !.failed = failed]
    BY <1>1
  <2> HIDE DEF busy, shown, failed
  <2> QED BY <2>1, <2>2, <2>3, <2>4
<1>4. ui' = Row(ui, ui.clicks, ui.sel, ui.wrote, ui.req, shown, failed, busy, ui.open)
  BY <1>2, <1>3 DEF Row, UiType
<1>5. /\ ui.clicks \in Nat /\ ui.sel \in Nat /\ ui.wrote \in Nat /\ ui.req \in Nat
  BY <1>2 DEF UiType
<1>6. Row(ui, ui.clicks, ui.sel, ui.wrote, ui.req, shown, failed, busy, ui.open) \in UiType
  BY <1>2, <1>5 DEF Row, UiType
<1>7. ui' \in UiType
  BY <1>4, <1>6
<1>8. /\ ui'.view = ui.view /\ ui'.sel = ui.sel /\ ui'.wrote = ui.wrote
      /\ ui'.req = ui.req /\ ui'.shown = shown
  BY <1>4 DEF Row
<1>9. shown \in {ui.shown, 0} \/ (shown = c.n /\ Accept(c))
  BY <1>3
<1> QED BY <1>1, <1>7, <1>8, <1>9

LEMMA DoneLoadStep == IInv /\ DoneLoad => IInv'
<1> SUFFICES ASSUME IInv, DoneLoad PROVE IInv'
  OBVIOUS
<1>1. PICK c \in Calls("load") :
        /\ net' = net \ {c}
        /\ ui' \in UiType /\ ui'.view = ui.view /\ ui'.sel = ui.sel
        /\ ui'.wrote = ui.wrote /\ ui'.req = ui.req
        /\ \/ ui'.shown \in {ui.shown, 0}
           \/ ui'.shown = c.n /\ Accept(c)
  BY DoneLoadFields
<1>2. ui \in UiType
  BY DEF IInv, Typed
<1>3. ui'.req >= ui.req /\ ui'.shown <= Asked
  BY <1>1, <1>2 DEF IInv, Bounded, UiType, Asked
<1>4. net' \in SUBSET net
  BY <1>1
<1>5. Locks => net' = {}
  BY <1>1 DEF IInv, OneCall, Calls
<1> QED BY <1>1, <1>3, <1>4, <1>5, Quiet

\* What follows a save asks again, shows the save's own answer, or does nothing.
LEMMA DoneSaveStep == IInv /\ DoneSave => IInv'
<1> SUFFICES ASSUME IInv, DoneSave PROVE IInv'
  OBVIOUS
<1> DEFINE u == [ui EXCEPT !.wrote = @ + 1]
<1>1. PICK c \in Calls("save"), answer \in Answer :
        IF answer = "err"
        THEN /\ ui' = IF Has("locked") THEN [ui EXCEPT !.busy = FALSE] ELSE ui
             /\ net' = net \ {c}
        ELSE IF Has("bare")
        THEN /\ ui' = [u EXCEPT !.shown = c.sel + u.wrote]
             /\ net' = net \ {c}
        ELSE /\ ui' = Begin(u)
             /\ net' = (net \ {c})
                  \cup {Load(u, IF Has("captures") THEN c.sel ELSE ui.sel)}
  BY DEF DoneSave
<1>2. /\ ui \in UiType /\ net \subseteq CallType
      /\ c \in net /\ c \in CallType /\ c.op = "save" /\ c.sel \in Nat
      /\ c.sel <= ui.sel
  BY DEF IInv, Typed, Bounded, Calls, CallType
<1>3. Locks => net \ {c} = {} /\ c.sel = ui.sel
  BY <1>2 DEF IInv, OneCall
<1>4. CASE answer = "err"
  <2>1. net' = net \ {c} /\ (ui' = ui \/ ui' = [ui EXCEPT !.busy = FALSE])
    BY <1>1, <1>4
  <2>2. /\ ui' \in UiType /\ ui'.view = ui.view /\ ui'.sel = ui.sel
        /\ ui'.wrote = ui.wrote /\ ui'.req = ui.req /\ ui'.shown = ui.shown
    BY <1>2, <2>1 DEF UiType
  <2>3. ui'.req >= ui.req /\ ui'.shown <= Asked
    BY <1>2, <2>2 DEF IInv, Bounded, UiType
  <2> QED BY <1>3, <2>1, <2>2, <2>3, Quiet
<1>5. CASE answer # "err" /\ Has("bare")
  <2>1. net' = net \ {c} /\ ui' = [u EXCEPT !.shown = c.sel + u.wrote]
    BY <1>1, <1>5
  <2>2. /\ ui' \in UiType /\ ui'.view = ui.view /\ ui'.sel = ui.sel
        /\ ui'.wrote = ui.wrote + 1 /\ ui'.req = ui.req
        /\ ui'.shown = c.sel + (ui.wrote + 1)
    <3>1. /\ u \in UiType /\ u.view = ui.view /\ u.sel = ui.sel
          /\ u.wrote = ui.wrote + 1 /\ u.req = ui.req
      BY <1>2 DEF UiType
    <3>2. c.sel + u.wrote \in Nat
      BY <1>2, <3>1 DEF UiType
    <3> HIDE DEF u
    <3> QED BY <2>1, <3>1, <3>2 DEF UiType
  <2>3. f' = f /\ ~InOrder(ui.view) /\ ~InOrder(ui.view)'
    BY <1>5, <2>2 DEF f, InOrder, Has
  <2>4. Typed'
    BY <1>2, <2>1, <2>2 DEF Typed
  <2>5. Asked' = Asked + 1 /\ Asked \in Nat /\ ui'.shown <= Asked'
    BY <1>2, <2>2 DEF Asked, UiType
  <2>6. Bounded'
    <3>1. \A d \in net : d.n \in Nat
      BY <1>2 DEF CallType
    <3> QED BY <2>1, <2>2, <2>5, <3>1 DEF IInv, Bounded, Calls
  <2>7. SavesPresent' /\ NewestPresent' /\ OneCall'
    BY <2>1, <2>2, <2>3 DEF IInv, SavesPresent, NewestPresent, OneCall, Keeps, Numbers, Locks, Calls
  <2> QED BY <2>4, <2>6, <2>7 DEF IInv
<1>6. CASE answer # "err" /\ ~Has("bare")
  <2> DEFINE s == IF Has("captures") THEN c.sel ELSE ui.sel
  <2>1. ui' = Begin(u) /\ net' = (net \ {c}) \cup {Load(u, s)}
    BY <1>1, <1>6
  <2>2. /\ u \in UiType /\ u.view = ui.view /\ u.req = ui.req /\ u.shown = ui.shown
        /\ u.sel = ui.sel /\ u.wrote = ui.wrote + 1 /\ u.sel \in Nat
    BY <1>2 DEF UiType
  <2>3. s \in Nat /\ s <= u.sel
    BY <1>2, <2>2
  <2>4. InOrder(ui.view) => s = u.sel
    <3>1. InOrder(ui.view) /\ Has("captures") => Locks \/ Keeps
      BY DEF InOrder, Has, f, Locks, Keeps
    <3>2. Keeps => c.sel = ui.sel
      BY DEF IInv, SavesPresent
    <3> QED BY <1>3, <2>2, <3>1, <3>2
  <2>5. Keeps => \A d \in net \ {c} : d.op = "save" => d.sel = u.sel
    BY <2>2 DEF IInv, SavesPresent, Calls
  <2> HIDE DEF u, s
  <2> QED BY <1>3, <2>1, <2>2, <2>3, <2>4, <2>5, StartsLoad
<1> QED BY <1>4, <1>5, <1>6

\* An answer on its way never knows more than the page has asked, and the one that a
\* view in order will show knows all of it: whatever the views, their profiles, and the
\* number of calls and clicks.
THEOREM Invariance == Spec => []IInv
<1>1. IInv /\ [Next]_vars => IInv'
  <2> SUFFICES ASSUME IInv, [Next]_vars PROVE IInv'
    OBVIOUS
  <2>1. CASE UNCHANGED vars
    BY <2>1 DEF vars, IInv, Typed, Bounded, SavesPresent, NewestPresent, OneCall, Keeps,
                Numbers, Locks, Has, f, Calls, Asked, InOrder
  <2> QED BY <2>1, AskStep, RefreshStep, DismissStep, SaveStep, DoneLoadStep, DoneSaveStep
             DEF Next
<1> QED BY <1>1, InitInv, PTL DEF Spec
\* The types of the state, and no call about a question or a request yet to come.
THEOREM Types == Spec => []TypeOK
<1>1. IInv => TypeOK
  BY DEF IInv, Bounded, TypeOK
<1> QED BY <1>1, Invariance, PTL
-----------------------------------------------------------------------------
(* The spinner. *)

\* As long as a view waits, something that will end the wait is under way.
Waits ==
  ui.busy /\ ui.open =>
    \E c \in net :
      \/ c.op = "load" /\ c.req = ui.req
      \/ c.op = "save" /\ Has("locked")

\* A load that starts is such a call.
LEMMA StartWaits ==
  ASSUME NEW u \in UiType, NEW s \in Nat, u.req = ui.req,
         ui' = Begin(u) \/ Do(Begin(u)), Load(u, s) \in net'
  PROVE  Waits'
<1> DEFINE b == Begin(u)
<1>1. b \in UiType /\ b.req = u.req + 1
  BY BeginFields
<1>2. ui' = b \/ Do(b)
  OBVIOUS
<1> HIDE DEF b
<1>3. ui'.req = u.req + 1
  BY <1>1, <1>2, DoFields
<1>4. Load(u, s).op = "load" /\ Load(u, s).req = u.req + 1
  BY LoadFields
<1> QED BY <1>3, <1>4 DEF Waits

\* No view both shows the answer of a save itself and locks its controls meanwhile.
Compatible == \A v \in View : ~({"locked", "bare"} \subseteq Features[v])

LEMMA WaitsStep ==
  ASSUME Compatible, IInv, Waits, [Next]_vars
  PROVE  Waits'
<1>1. ui \in UiType /\ net \subseteq CallType
  BY DEF IInv, Typed
<1>2. CASE Ask
  <2> DEFINE u == [ui EXCEPT !.sel = @ + 1]
  <2>1. u \in UiType /\ u.req = ui.req /\ u.sel \in Nat
    BY <1>1 DEF UiType
  <2>2. Do(Begin(u)) /\ Load(u, u.sel) \in net'
    BY <1>2 DEF Ask
  <2> HIDE DEF u
  <2> QED BY <2>1, <2>2, StartWaits
<1>3. CASE Refresh
  <2>1. Do(Begin(ui)) /\ Load(ui, ui.sel) \in net' /\ ui.sel \in Nat
    BY <1>1, <1>3 DEF Refresh, UiType
  <2> QED BY <1>1, <2>1, StartWaits
<1>4. CASE Dismiss
  <2>1. ui'.open = FALSE
    BY <1>1, <1>4, DismissFields
  <2> QED BY <2>1 DEF Waits
<1>5. CASE Save
  <2> DEFINE u == IF Has("locked") THEN [ui EXCEPT !.busy = TRUE] ELSE ui
  <2>1. /\ u \in UiType /\ u.view = ui.view /\ u.req = ui.req
        /\ u.open = ui.open
        /\ ~Has("locked") => u.busy = ui.busy
    BY <1>1 DEF UiType
  <2>2. Do(u) /\ net' = net \cup {Call("save", ui.sel, 0, 0)}
    BY <1>5 DEF Save
  <2> HIDE DEF u
  <2>3. ui'.view = ui.view /\ ui'.req = ui.req /\ ui'.open = ui.open
    BY <2>1, <2>2, DoFields
  <2>4. ~Has("locked") => ui'.busy = ui.busy
    BY <2>1, <2>2, DoFields
  <2>5. CASE Has("locked")
    <3>1. Call("save", ui.sel, 0, 0) \in net' /\ Call("save", ui.sel, 0, 0).op = "save"
      BY <2>2 DEF Call
    <3>2. Has("locked")'
      BY <2>3, <2>5 DEF Has, f
    <3> QED BY <3>1, <3>2 DEF Waits
  <2>6. CASE ~Has("locked")
    BY <2>2, <2>3, <2>4, <2>6 DEF Waits, Has, f
  <2> QED BY <2>5, <2>6
<1>6. CASE DoneLoad
  <2>1. PICK c \in Calls("load") :
          /\ net' = net \ {c}
          /\ ui'.view = ui.view /\ ui'.req = ui.req
    BY <1>6, DoneLoadFields
  <2>2. \E d \in Calls("load") :
          /\ net' = net \ {d} /\ ui'.open = ui.open
          /\ ui'.busy => ui.busy /\ Has("gated") /\ d.req # ui.req
    <3>1. PICK d \in Calls("load"), answer \in Answer :
            /\ net' = net \ {d}
            /\ ui' = [ui EXCEPT
                 !.busy = @ /\ ~Stops(d, answer),
                 !.shown = IF ~Accept(d) THEN @ ELSE IF answer = "ok" THEN d.n
                           ELSE IF Has("drops") THEN 0 ELSE @,
                 !.failed = IF Accept(d) /\ answer = "err" THEN d.n ELSE @]
      BY <1>6 DEF DoneLoad
    <3>2. ui'.busy = (ui.busy /\ ~Stops(d, answer)) /\ ui'.open = ui.open
      BY <1>1, <3>1 DEF UiType
    <3>3. ui'.busy => ui.busy /\ ~Stops(d, answer)
      BY <3>2
    <3>4. ~Stops(d, answer) => Has("gated") /\ d.req # ui.req
      BY DEF Stops
    <3> QED BY <3>1, <3>2, <3>3, <3>4
  <2>3. PICK d \in Calls("load") :
          /\ net' = net \ {d} /\ ui'.open = ui.open
          /\ ui'.busy => ui.busy /\ Has("gated") /\ d.req # ui.req
    BY <2>2
  <2>4. ASSUME ui'.busy, ui'.open
        PROVE  \E e \in net' : \/ e.op = "load" /\ e.req = ui'.req
                               \/ e.op = "save" /\ Has("locked")'
    <3>1. ui.busy /\ d.req # ui.req /\ ui.open
      BY <2>3, <2>4
    <3>2. PICK e \in net : \/ e.op = "load" /\ e.req = ui.req
                           \/ e.op = "save" /\ Has("locked")
      BY <3>1 DEF Waits
    <3>3. e # d
      BY <3>1, <3>2 DEF Calls
    <3> QED BY <2>1, <2>3, <3>2, <3>3 DEF Has, f
  <2> QED BY <2>4 DEF Waits
<1>7. CASE DoneSave
  <2> DEFINE u == [ui EXCEPT !.wrote = @ + 1]
  <2>1. PICK c \in Calls("save"), answer \in Answer :
          IF answer = "err"
          THEN /\ ui' = IF Has("locked") THEN [ui EXCEPT !.busy = FALSE] ELSE ui
               /\ net' = net \ {c}
          ELSE IF Has("bare")
          THEN /\ ui' = [u EXCEPT !.shown = c.sel + u.wrote]
               /\ net' = net \ {c}
          ELSE /\ ui' = Begin(u)
               /\ net' = (net \ {c})
                    \cup {Load(u, IF Has("captures") THEN c.sel ELSE ui.sel)}
    BY <1>7 DEF DoneSave
  <2>2. /\ u \in UiType /\ u.view = ui.view /\ u.req = ui.req /\ u.busy = ui.busy
        /\ u.open = ui.open
    BY <1>1 DEF UiType
  <2>3. c.op = "save" /\ c.sel \in Nat /\ ui.sel \in Nat
    BY <1>1 DEF Calls, CallType, UiType
  <2>4. CASE answer = "err" /\ Has("locked")
    <3>1. ui' = [ui EXCEPT !.busy = FALSE]
      BY <2>1, <2>4
    <3>2. ui'.busy = FALSE
      BY <1>1, <3>1 DEF UiType
    <3> QED BY <3>2 DEF Waits
  <2>5. CASE answer = "err" /\ ~Has("locked")
    <3>1. ui' = ui /\ net' = net \ {c}
      BY <2>1, <2>5
    <3> QED BY <2>3, <2>5, <3>1 DEF Waits, Has, f
  <2>6. CASE answer # "err" /\ Has("bare")
    <3>1. ui' = [u EXCEPT !.shown = c.sel + u.wrote] /\ net' = net \ {c}
      BY <2>1, <2>6
    <3> HIDE DEF u
    <3>2. ui'.view = ui.view /\ ui'.req = ui.req
      BY <2>2, <3>1 DEF UiType
    <3>3. ui'.busy = ui.busy /\ ui'.open = ui.open
      BY <2>2, <3>1 DEF UiType
    <3>4. ~Has("locked")
      BY <1>1, <2>6 DEF Compatible, Has, f, UiType
    <3> QED BY <2>3, <3>1, <3>2, <3>3, <3>4 DEF Waits, Has, f
  <2>7. CASE answer # "err" /\ ~Has("bare")
    <3> DEFINE s == IF Has("captures") THEN c.sel ELSE ui.sel
    <3>1. ui' = Begin(u) /\ Load(u, s) \in net'
      BY <2>1, <2>7
    <3>2. s \in Nat
      BY <2>3
    <3> HIDE DEF u, s
    <3> QED BY <2>2, <3>1, <3>2, StartWaits
  <2> QED BY <2>4, <2>5, <2>6, <2>7
<1>8. CASE UNCHANGED vars
  BY <1>8 DEF vars, Waits, Has, f
<1> QED BY <1>2, <1>3, <1>4, <1>5, <1>6, <1>7, <1>8 DEF Next

\* No spinner outlives the calls of a view, whatever overtook what: where a spinner is
\* stopped by the newest answer only, the newest load is still under way.
THEOREM Spinner ==
  ASSUME Compatible
  PROVE  Spec => []SpinnerStops
<1>1. Init => Waits
  <2> SUFFICES ASSUME Init PROVE Waits
    OBVIOUS
  <2>1. PICK v \in View : ui = Open(v)
    BY DEF Init
  <2>2. ui.req = 1
    BY <2>1 DEF Open
  <2>3. Call("load", 1, 1, 1) \in net
    BY DEF Init
  <2> QED BY <2>2, <2>3 DEF Waits, Call
<1>2. IInv /\ Waits /\ [Next]_vars => Waits'
  BY WaitsStep
<1>3. Waits => SpinnerStops
  BY DEF Waits, SpinnerStops
<1> QED BY <1>1, <1>2, <1>3, Invariance, PTL DEF Spec
-----------------------------------------------------------------------------
(* The refinement. *)

LEMMA InitRefines == Init => Latest!Init
<1> SUFFICES ASSUME Init PROVE Latest!Init
  OBVIOUS
<1>1. PICK v \in View : ui = Open(v)
  BY DEF Init
<1>2. ui.sel = 1 /\ ui.wrote = 0 /\ ui.shown = 0
  BY <1>1 DEF Open
<1>3. InOrder(ui.view) \in BOOLEAN
  BY DEF InOrder
<1> QED BY <1>2, <1>3 DEF Latest!Init, Asked

\* A load that starts asks, or clears the screen, or changes nothing the reader sees.
LEMMA StartRefines ==
  ASSUME IInv, NEW u \in UiType, u.view = ui.view, u.shown = ui.shown,
         u.sel \in {ui.sel, ui.sel + 1}, u.wrote \in {ui.wrote, ui.wrote + 1},
         u.sel + u.wrote \in {Asked, Asked + 1},
         ui' = Begin(u) \/ Do(Begin(u))
  PROVE  [Latest!Next]_(Latest!vars)
<1> DEFINE b == Begin(u)
<1>1. b \in UiType /\ b.view = u.view /\ b.sel = u.sel /\ b.wrote = u.wrote
      /\ b.shown \in {u.shown, 0}
  BY BeginFields
<1> HIDE DEF b
<1>2. /\ ui'.view = u.view /\ ui'.sel = u.sel /\ ui'.wrote = u.wrote
      /\ ui'.shown \in {u.shown, 0}
  <2>1. ui' = b \/ Do(b)
    BY DEF b
  <2> QED BY <1>1, <2>1, DoFields
<1>3. Asked' \in {Asked, Asked + 1} /\ ui'.shown \in {ui.shown, 0}
  BY <1>2 DEF Asked
<1>4. InOrder(ui.view)' = InOrder(ui.view)
  BY <1>2 DEF InOrder
<1> QED BY <1>3, <1>4 DEF Latest!Next, Latest!vars, Latest!Ask, Latest!Forget

\* A page whose question, saves and screen stay as they were stutters.
LEMMA SameScreen ==
  ASSUME ui'.view = ui.view, ui'.sel = ui.sel, ui'.wrote = ui.wrote,
         ui'.shown \in {ui.shown, 0}
  PROVE  [Latest!Next]_(Latest!vars)
  BY DEF Asked, InOrder, Latest!Next, Latest!vars, Latest!Forget

LEMMA AskRefines == IInv /\ Ask => [Latest!Next]_(Latest!vars)
<1> SUFFICES ASSUME IInv, Ask PROVE [Latest!Next]_(Latest!vars)
  OBVIOUS
<1> DEFINE u == [ui EXCEPT !.sel = @ + 1]
<1>1. ui \in UiType
  BY DEF IInv, Typed
<1>2. /\ u \in UiType /\ u.view = ui.view /\ u.shown = ui.shown
      /\ u.sel = ui.sel + 1 /\ u.wrote = ui.wrote
  BY <1>1 DEF UiType
<1>3. u.sel + u.wrote = Asked + 1
  BY <1>1, <1>2 DEF UiType, Asked
<1>4. Do(Begin(u))
  BY DEF Ask
<1> HIDE DEF u
<1> QED BY <1>2, <1>3, <1>4, StartRefines

LEMMA DoneLoadRefines == IInv /\ DoneLoad => [Latest!Next]_(Latest!vars)
<1> SUFFICES ASSUME IInv, DoneLoad PROVE [Latest!Next]_(Latest!vars)
  OBVIOUS
<1>1. PICK c \in Calls("load") :
        /\ net' = net \ {c}
        /\ ui' \in UiType /\ ui'.view = ui.view /\ ui'.sel = ui.sel
        /\ ui'.wrote = ui.wrote /\ ui'.req = ui.req
        /\ \/ ui'.shown \in {ui.shown, 0}
           \/ ui'.shown = c.n /\ Accept(c)
  BY DoneLoadFields
<1>2. CASE ui'.shown \in {ui.shown, 0}
  BY <1>1, <1>2, SameScreen
<1>3. CASE ui'.shown = c.n /\ Accept(c)
  <2>1. Asked' = Asked /\ InOrder(ui.view)' = InOrder(ui.view)
    BY <1>1 DEF Asked, InOrder
  <2>2. CASE InOrder(ui.view)
    <3>1. Locks \/ Numbers
      BY <2>2 DEF Locks, Numbers, InOrder, Has, f
    <3>2. c.n = Asked
      BY <1>3, <3>1 DEF IInv, OneCall, NewestPresent, Accept, Numbers, Calls
    <3> QED BY <1>3, <2>1, <3>2 DEF Latest!Next, Latest!Answer
  <2>3. CASE ~InOrder(ui.view)
    <3>1. c.n \in Nat /\ c.n <= Asked
      BY DEF IInv, Typed, Bounded, Calls, CallType
    <3>2. Asked \in Nat
      BY DEF IInv, Typed, UiType, Asked
    <3>3. ui'.shown \in 0..Asked'
      BY <1>3, <2>1, <3>1, <3>2
    <3> QED BY <2>1, <2>3, <3>3 DEF Latest!Next, Latest!Late
  <2> QED BY <2>2, <2>3
<1> QED BY <1>1, <1>2, <1>3

LEMMA DoneSaveRefines == IInv /\ DoneSave => [Latest!Next]_(Latest!vars)
<1> SUFFICES ASSUME IInv, DoneSave PROVE [Latest!Next]_(Latest!vars)
  OBVIOUS
<1> DEFINE u == [ui EXCEPT !.wrote = @ + 1]
<1>1. PICK c \in Calls("save"), answer \in Answer :
        IF answer = "err"
        THEN ui' = IF Has("locked") THEN [ui EXCEPT !.busy = FALSE] ELSE ui
        ELSE IF Has("bare") THEN ui' = [u EXCEPT !.shown = c.sel + u.wrote]
        ELSE ui' = Begin(u)
  BY DEF DoneSave
<1>2. /\ ui \in UiType /\ c.sel \in Nat /\ c.sel <= ui.sel
  BY DEF IInv, Typed, Bounded, Calls, CallType
<1>3. /\ u \in UiType /\ u.view = ui.view /\ u.shown = ui.shown
      /\ u.sel = ui.sel /\ u.wrote = ui.wrote + 1
  BY <1>2 DEF UiType
<1>4. u.sel + u.wrote = Asked + 1
  BY <1>2, <1>3 DEF UiType, Asked
<1>5. CASE answer = "err"
  <2>1. ui' = ui \/ ui' = [ui EXCEPT !.busy = FALSE]
    BY <1>1, <1>5
  <2>2. /\ ui'.view = ui.view /\ ui'.sel = ui.sel /\ ui'.wrote = ui.wrote
        /\ ui'.shown = ui.shown
    BY <1>2, <2>1 DEF UiType
  <2> QED BY <2>2, SameScreen
<1>6. CASE answer # "err" /\ Has("bare")
  <2> HIDE DEF u
  <2>1. ui' = [u EXCEPT !.shown = c.sel + u.wrote]
    BY <1>1, <1>6
  <2>2. ui'.view = u.view /\ ui'.sel = u.sel /\ ui'.wrote = u.wrote
        /\ ui'.shown = c.sel + u.wrote
    BY <1>3, <2>1 DEF UiType
  <2>3. InOrder(ui.view)' = InOrder(ui.view) /\ ~InOrder(ui.view)
    BY <1>3, <1>6, <2>2 DEF InOrder, Has, f
  <2>4. Asked' = Asked + 1
    BY <1>4, <2>2 DEF Asked
  <2>5. ui'.shown \in 0..Asked'
    BY <1>2, <1>3, <2>2 DEF UiType, Asked
  <2> QED BY <2>3, <2>4, <2>5 DEF Latest!Next, Latest!Late
<1>7. CASE answer # "err" /\ ~Has("bare")
  <2>1. ui' = Begin(u)
    BY <1>1, <1>7
  <2> HIDE DEF u
  <2> QED BY <1>3, <1>4, <2>1, StartRefines
<1> QED BY <1>5, <1>6, <1>7

LEMMA StepRefines == IInv /\ [Next]_vars => [Latest!Next]_(Latest!vars)
<1> SUFFICES ASSUME IInv, [Next]_vars PROVE [Latest!Next]_(Latest!vars)
  OBVIOUS
<1>1. ui \in UiType
  BY DEF IInv, Typed
<1>2. CASE Ask
  BY <1>2, AskRefines
<1>3. CASE Refresh
  <2>1. ui.sel + ui.wrote = Asked /\ Do(Begin(ui))
    BY <1>3 DEF Asked, Refresh
  <2> QED BY <1>1, <2>1, StartRefines
<1>4. CASE Dismiss
  BY <1>1, <1>4, DismissFields, SameScreen
<1>5. CASE Save
  <2> DEFINE u == IF Has("locked") THEN [ui EXCEPT !.busy = TRUE] ELSE ui
  <2>1. /\ u \in UiType /\ u.view = ui.view /\ u.sel = ui.sel /\ u.wrote = ui.wrote
        /\ u.shown = ui.shown
    BY <1>1 DEF UiType
  <2>2. Do(u)
    BY <1>5 DEF Save
  <2> HIDE DEF u
  <2> QED BY <2>1, <2>2, DoFields, SameScreen
<1>6. CASE DoneLoad
  BY <1>6, DoneLoadRefines
<1>7. CASE DoneSave
  BY <1>7, DoneSaveRefines
<1>8. CASE UNCHANGED vars
  BY <1>8, SameScreen DEF vars
<1> QED BY <1>2, <1>3, <1>4, <1>5, <1>6, <1>7, <1>8 DEF Next

\* Every list, report and drawer implements LatestAnswer, whatever its profile: what it
\* shows is never ahead of what was asked, and a view that keeps its answers in order
\* replaces its screen only by the answer to the present question.
THEOREM Refines == Spec => ShowsLatestAnswer
<1>1. IInv /\ [Next]_vars => [Latest!Next]_(Latest!vars)
  BY StepRefines
<1>2. Init => Latest!Init
  BY InitRefines
<1> QED BY <1>1, <1>2, Invariance, PTL DEF Spec, ShowsLatestAnswer, Latest!Spec
=============================================================================
