------------------------------ MODULE PageTabs ------------------------------
(***************************************************************************)
(* The row of open pages that every page of the admin client draws above   *)
(* its content (components/ProLayout.tsx).  Each route mounts a layout of  *)
(* its own; the list of tabs goes from one to the next, and to the other   *)
(* windows of the browser, through localStorage.  A page is the address    *)
(* that normalizePageHref leaves of it.                                    *)
(***************************************************************************)
EXTENDS Browser, SequencesExt

CONSTANTS Route,    \* the component that shows a page: pages of one route share a layout
          Home,     \* the page "/"
          Rights,   \* the sets of pages, each with Home, that may be let pass
          MaxTabs   \* MAX_OPEN_PAGE_TABS

Page == DOMAIN Route
Login == "login"
\* What a layout knows of the user: the pages open to them, or nothing yet.
Users == Rights \cup {None}

\* A list of tabs as the code leaves it in localStorage.
Lists == {s \in SeqOf(Page, MaxTabs) : IsInjective(s)}
ReadStored == IF Len(db.stored) <= MaxTabs THEN db.stored
              ELSE SubSeq(db.stored, Len(db.stored) - MaxTabs + 1, Len(db.stored))
-----------------------------------------------------------------------------
(* The effects of the layout, on the state u it is in. *)

Push(u, page) == [u EXCEPT !.go = IF page = u.at THEN None ELSE page]

\* validateTabsAgainstPermissions.
Allowed(u) ==
  LET kept[i \in 0..Len(u.tabs)] ==
        IF i = 0 THEN <<>>
        ELSE IF u.tabs[i] \in u.user THEN Append(kept[i - 1], u.tabs[i]) ELSE kept[i - 1]
  IN kept[Len(u.tabs)]

\* A tab the user may not see is dropped; whoever is on a page without a tab then is sent
\* to the first tab left.
Validated(u) ==
  LET valid == Allowed(u)
      v == [u EXCEPT !.tabs = valid]
  IN IF u.user = None \/ valid = u.tabs THEN u
     ELSE IF u.at \in ToSet(valid) THEN v
     ELSE Push(v, IF valid = <<>> THEN Home ELSE valid[1])

\* The page gets a tab, the oldest one making room.
AddTab(u) ==
  IF u.at \in ToSet(u.tabs) THEN u
  ELSE LET kept == IF Len(u.tabs) >= MaxTabs THEN Tail(u.tabs) ELSE u.tabs
       IN [u EXCEPT !.tabs = Append(kept, u.at)]

\* The list is validated as it was read, then with the page in it.
Effects(u) == Validated(AddTab(Validated(u)))

\* Each change of the list is stored; the same pages are stored again when a title changed.
Stores(u) == ui' = u /\ db' = [db EXCEPT !.stored = u.tabs]
Becomes(u) == Stores(u) \/ (u.tabs = ui.tabs /\ ui' = u /\ UNCHANGED db)

\* me is asked once for all layouts.
AskMe(calls) == IF Calls("me") # {} THEN calls ELSE calls \cup {[op |-> "me", st |-> "sent"]}
Mounted(u) ==
  /\ Stores(Effects([u EXCEPT !.tabs = ReadStored]))
  /\ net' = IF u.user = None THEN AskMe(net) ELSE net
-----------------------------------------------------------------------------
\* The navigation under way ends.  A page of the same route keeps the layout; any other
\* route mounts one, which knows the user if apiClient's answer is still at hand.
Arrive ==
  /\ ui.go # None
  /\ LET u == [ui EXCEPT !.at = ui.go, !.go = None]
     IN IF ui.go = Login THEN /\ ui' = [u EXCEPT !.tabs = <<>>, !.user = None]
                              /\ UNCHANGED <<net, db>>
        ELSE IF ui.at # Login /\ Route[ui.at] = Route[ui.go]
        THEN Becomes(Effects(u)) /\ UNCHANGED net
        ELSE Mounted([u EXCEPT !.user = u.cached])

\* The effect on the user: validation waits for the answer, and a failure leads to the login.
DoneMe == \E c \in Calls("me") :
  /\ net' = net \ {c}
  /\ IF ui.at = Login THEN \E user \in {None, db.rights} : ui' = [ui EXCEPT !.cached = user]
                                                           /\ UNCHANGED db
     ELSE \/ Becomes(Validated([ui EXCEPT !.user = db.rights, !.cached = db.rights]))
          \/ ui' = [ui EXCEPT !.cached = None, !.go = Login] /\ UNCHANGED db

\* The title of the page changes when its data are there.
Titled ==
  /\ ui.at # Login /\ ui.at \notin ToSet(ui.tabs)
  /\ Becomes(Validated(AddTab(ui))) /\ UNCHANGED net

\* A tab, an item of the menu, a link or the history of the browser: a later push replaces
\* an earlier one.
Click(page) == ui.at # Login /\ page # ui.at /\ Do(Push(ui, page)) /\ UNCHANGED <<net, db>>

\* What the row of tabs offers; leaving unsaved changes is part of the click.
Row == ui.at # Login /\ ui.clicks < MaxClicks
Clicked(u) == Becomes([u EXCEPT !.clicks = @ + 1]) /\ UNCHANGED net

CloseTab_NoPush(u, i) == [u EXCEPT !.tabs = RemoveAt(@, i)]
CloseTab(u, i) ==
  LET rest == RemoveAt(u.tabs, i)
      v == [u EXCEPT !.tabs = rest]
  IN IF u.tabs[i] # u.at THEN v
     ELSE Push(v, IF rest = <<>> THEN Home ELSE rest[IF i > 1 THEN i - 1 ELSE 1])
CloseOtherTabs(u, i) ==
  LET v == [u EXCEPT !.tabs = <<u.tabs[i]>>]
  IN IF u.tabs[i] = u.at THEN v ELSE Push(v, u.tabs[i])
CloseAllTabs == Row /\ Clicked(Push([ui EXCEPT !.tabs = <<>>], Home))
MoveTab(u, i, j) ==
  [u EXCEPT !.tabs = InsertAt(RemoveAt(@, i), IF i < j THEN j - 1 ELSE j, @[i])]

\* logout waits for the API; the layout lives on until the login page is there.
Logout ==
  /\ ui.at # Login /\ Calls("logout") = {}
  /\ Do(ui) /\ net' = net \cup {[op |-> "logout", st |-> "sent"]} /\ UNCHANGED db
DoneLogout == \E c \in Calls("logout") :
  /\ net' = net \ {c}
  /\ \/ /\ ui' = [ui EXCEPT !.cached = None, !.go = Login]
        /\ db' = [db EXCEPT !.stored = <<>>]
     \/ UNCHANGED <<ui, db>>

\* The login loads the whole client anew.
LogIn ==
  /\ ui.at = Login /\ ui.clicks < MaxClicks
  /\ \E rights \in Rights : db' = [db EXCEPT !.rights = rights]
  /\ ui' = [ui EXCEPT !.clicks = @ + 1, !.go = Home, !.cached = None]
  /\ net' = {}

\* Another window stores its list, or an administrator changes what the user may see.
Elsewhere ==
  /\ ui.clicks < MaxClicks /\ ui' = [ui EXCEPT !.clicks = @ + 1]
  /\ \/ \E list \in Lists : db' = [db EXCEPT !.stored = list]
     \/ \E rights \in Rights : db' = [db EXCEPT !.rights = rights]
  /\ UNCHANGED net
-----------------------------------------------------------------------------
\* The client is loaded at some page, with the tabs of an earlier visit.
Init ==
  /\ db \in [stored : Lists, rights : Rights]
  /\ \E page \in Page :
       ui = Effects([page |-> "tabs", clicks |-> 0, at |-> page, go |-> None,
                     tabs |-> ReadStored, user |-> None, cached |-> None])
  /\ net = {[op |-> "me", st |-> "sent"]}

Next ==
  \/ Arrive \/ DoneMe \/ Titled
  \/ \E page \in Page : Click(page)
  \/ \E i \in 1..Len(ui.tabs) :
       Row /\ \/ Clicked(CloseTab(ui, i))
              \/ Len(ui.tabs) > 1 /\ Clicked(CloseOtherTabs(ui, i))
  \/ \E i, j \in 1..Len(ui.tabs) : i # j /\ Row /\ Clicked(MoveTab(ui, i, j))
  \/ CloseAllTabs \/ Logout \/ DoneLogout \/ LogIn \/ Elsewhere

TypeOK ==
  /\ ui.at \in Page \cup {Login} /\ ui.go \in Page \cup {Login, None}
  /\ ui.tabs \in Seq(Page) /\ ui.user \in Users /\ ui.cached \in Users
  /\ db.stored \in Lists /\ db.rights \in Rights

\* The row never shows a page twice, more pages than it has room for, or, once the user is
\* known, one the user may not see; and the page on the screen is in it unless it is on its
\* way out or is "/", whose only tab may be closed.
TabsFit ==
  /\ IsInjective(ui.tabs) /\ Len(ui.tabs) <= MaxTabs
  /\ ui.user # None => ToSet(ui.tabs) \subseteq ui.user
  /\ ui.at \notin ToSet(ui.tabs) => ui.go # None \/ ui.at \in {Home, Login}
=============================================================================
