----------------------------- MODULE ListPages -----------------------------
(***************************************************************************)
(* The parts of the admin client and the mini program that show one answer *)
(* of the API: lists, reports, detail drawers.  They are the same machine  *)
(* and differ in what they do about answers that overtake each other; the  *)
(* profile of a view says what its load function, effects and saves do:    *)
(*   guarded    an answer is used only if its request is the newest (a     *)
(*              counter in a ref, or a flag cleared by the effect)         *)
(*   gated      the spinner is stopped under the same condition            *)
(*   clears     what is shown is dropped when a load starts                *)
(*   drops      what is shown is dropped when a load fails                 *)
(*   fixed      the question never changes                                 *)
(*   refreshes  a button, a timer or the window focus loads once more      *)
(*   quiet      no spinner                                                 *)
(*   locked     no control that loads or saves works while isLoading       *)
(*   saves      a save ends in a load of the present question              *)
(*   captures   a save ends in a load of the question it began under       *)
(*   modal      the question cannot change while a save is out             *)
(*   bare       a save ends in showing its own answer, unguarded           *)
(*   dismissed  closing makes the requests out of date and leaves the      *)
(*              spinner alone; the next load opens the view again          *)
(***************************************************************************)
EXTENDS Browser

CONSTANTS View,      \* the views
          Features   \* view -> its profile

f == Features[ui.view]
Has(feature) == feature \in f

\* What an answer to the present question must know.
Asked == ui.sel + ui.wrote
Call(op, sel, n, req) == [op |-> op, sel |-> sel, n |-> n, req |-> req]

\* What a load does before its first await; sel is the question it asks.
Begin(u) == [u EXCEPT !.busy = IF Has("quiet") THEN @ ELSE TRUE, !.req = @ + 1,
                      !.shown = IF Has("clears") THEN 0 ELSE @, !.open = TRUE]
Load(u, sel) == Call("load", sel, sel + u.wrote, u.req + 1)

Free == Has("locked") => ~ui.busy
Saving == Calls("save") # {}
Saves == f \cap {"saves", "captures", "bare"} # {}
-----------------------------------------------------------------------------
\* Another store, period, filter, page or row is chosen.
Ask ==
  /\ ~Has("fixed") /\ Free /\ Room
  /\ Has("modal") => ~Saving
  /\ LET u == [ui EXCEPT !.sel = @ + 1]
     IN Do(Begin(u)) /\ net' = net \cup {Load(u, u.sel)}
  /\ UNCHANGED db

Refresh ==
  /\ Has("refreshes") /\ Free /\ Room
  /\ Do(Begin(ui)) /\ net' = net \cup {Load(ui, ui.sel)}
  /\ UNCHANGED db

\* The dialog, the tab or the grant is left: no answer under way is looked at any more.
Dismiss ==
  /\ Has("dismissed") /\ ui.open
  /\ Has("modal") => ~Saving
  /\ Do([ui EXCEPT !.req = @ + 1, !.open = FALSE])
  /\ UNCHANGED <<net, db>>

Save ==
  /\ Saves /\ Free /\ Room /\ ~Saving /\ ui.open
  /\ Do(IF Has("locked") THEN [ui EXCEPT !.busy = TRUE] ELSE ui)
  /\ net' = net \cup {Call("save", ui.sel, 0, 0)}
  /\ UNCHANGED db

\* An answer is looked at only if it is the newest, where the page asks for that.
Accept_Any(c) == TRUE
Accept(c) == Has("guarded") => c.req = ui.req

Stops_OnSuccess(c, answer) == answer = "ok"
Stops(c, answer) == Has("gated") => c.req = ui.req

DoneLoad == \E c \in Calls("load"), answer \in Answer :
  /\ ui' = [ui EXCEPT
       !.busy = @ /\ ~Stops(c, answer),
       !.shown = IF ~Accept(c) THEN @ ELSE IF answer = "ok" THEN c.n
                 ELSE IF Has("drops") THEN 0 ELSE @,
       !.failed = IF Accept(c) /\ answer = "err" THEN c.n ELSE @]
  /\ net' = net \ {c}
  /\ UNCHANGED db

\* A save that failed leaves everything as it was.
DoneSave == \E c \in Calls("save"), answer \in Answer :
  /\ LET u == [ui EXCEPT !.wrote = @ + 1]
         sel == IF Has("captures") THEN c.sel ELSE ui.sel
     IN IF answer = "err"
        THEN /\ ui' = IF Has("locked") THEN [ui EXCEPT !.busy = FALSE] ELSE ui
             /\ net' = net \ {c}
        ELSE IF Has("bare")
        THEN /\ ui' = [u EXCEPT !.shown = c.sel + u.wrote]
             /\ net' = net \ {c}
        ELSE /\ ui' = Begin(u)
             /\ net' = (net \ {c}) \cup {Load(u, sel)}
  /\ UNCHANGED db
-----------------------------------------------------------------------------
Open(v) == [page |-> "list", view |-> v, clicks |-> 0, sel |-> 1, wrote |-> 0,
            req |-> 1, shown |-> 0, failed |-> 0, busy |-> "quiet" \notin Features[v],
            open |-> TRUE]
Init ==
  /\ \E v \in View : ui = Open(v)
  /\ net = {Call("load", 1, 1, 1)}
  /\ db = None

Next == Ask \/ Refresh \/ Dismiss \/ Save \/ DoneLoad \/ DoneSave
Spec == Init /\ [][Next]_vars

\* A request settles: the browser gives up on one that is never answered.
Fairness == WF_vars(DoneLoad) /\ WF_vars(DoneSave)
FairSpec == Spec /\ Fairness
-----------------------------------------------------------------------------
UiType == [page : {"list"}, view : View, clicks : Nat, sel : Nat, wrote : Nat,
           req : Nat, shown : Nat, failed : Nat, busy : BOOLEAN, open : BOOLEAN]
CallType == [op : {"load", "save"}, sel : Nat, n : Nat, req : Nat]

Typed == ui \in UiType /\ net \subseteq CallType

\* The types, and that no call is about a question or a request yet to come.
TypeOK == Typed /\ \A c \in net : c.sel <= ui.sel /\ c.req <= ui.req

\* The views that keep their answers in order: the newest request asks the present
\* question, or there is never a second one.
InOrder(v) ==
  /\ "bare" \notin Features[v]
  /\ \/ "locked" \in Features[v] /\ Features[v] \cap {"quiet", "dismissed"} = {}
     \/ /\ "guarded" \in Features[v]
        /\ "captures" \in Features[v] => Features[v] \cap {"fixed", "modal"} # {}

\* Every view implements LatestAnswer, and those of InOrder in order.
Latest == INSTANCE LatestAnswer WITH asked <- Asked, shown <- ui.shown,
                                     ordered <- InOrder(ui.view)
ShowsLatestAnswer == Latest!Spec

\* No spinner of an open view is left when nothing is under way, whatever overtook what.
SpinnerStops == net = {} /\ ui.open => ~ui.busy

\* When the user stops, an open view in order ends with the answer to its last question, or
\* with the failure of that.
AnswersInTheEnd ==
  <>[](InOrder(ui.view) /\ ui.open => Asked \in {ui.shown, ui.failed})
=============================================================================
