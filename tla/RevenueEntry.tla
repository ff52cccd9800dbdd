---------------------------- MODULE RevenueEntry ----------------------------
(***************************************************************************)
(* The revenue page of the admin client (revenue/page.tsx): the cards of   *)
(* the channels of a store and the grid in which the days of the selected  *)
(* channel are edited and saved row by row.  An amount is known by the     *)
(* channel it was entered for.  The user may leave the grid with unsaved   *)
(* amounts when the page asks; agreeing is part of the click.  Store and   *)
(* period stay what they were when the page was opened.                    *)
(***************************************************************************)
EXTENDS Browser, FiniteSetsExt

CONSTANTS Channel,  \* the channels
          Known,    \* those that exist when the page is opened
          Day       \* the days of the period

Empty == [d \in Day |-> None]
Load(x, n, last) == [op |-> "load", channel |-> x, req |-> n, last |-> last]

\* loadRecords, up to its await.
Begin(u) == [u EXCEPT !.req = @ + 1, !.busy = TRUE, !.error = FALSE]
\* setSelectedChannel and the effects of its change: editing stops unless the user has
\* asked for the grid of that channel, and the records are loaded.
Choose(u, x) == [u EXCEPT !.channel = x, !.editing = @ /\ u.entry = x]
-----------------------------------------------------------------------------
\* A card is clicked.
Select(x) ==
  /\ x \in ui.known \ {ui.channel} /\ Room
  /\ Do(Begin(Choose(ui, x)))
  /\ net' = net \cup {Load(x, ui.req + 1, FALSE)}
  /\ UNCHANGED db

\* startChannelEntry: the button on a card.
StartEntry(x) ==
  /\ x \in ui.known
  /\ \/ /\ x # ui.channel /\ Room
        /\ Do(Begin(Choose([ui EXCEPT !.entry = x], x)))
        /\ net' = net \cup {Load(x, ui.req + 1, FALSE)}
     \/ /\ x = ui.channel
        /\ Do([ui EXCEPT !.entry = None, !.editing = TRUE])
        /\ UNCHANGED net
  /\ UNCHANGED db

\* Editing starts on the rows the grid shows, and is cancelled with the rows of the
\* records last loaded.
Edit ==
  /\ ~ui.editing
  /\ Do([ui EXCEPT !.editing = TRUE, !.dirty = FALSE])
  /\ UNCHANGED <<net, db>>
CancelEdit ==
  /\ ui.editing
  /\ Do([ui EXCEPT !.editing = FALSE, !.dirty = FALSE, !.rows = ui.recs[ui.channel],
                   !.of = ui.channel])
  /\ UNCHANGED <<net, db>>
ClearRows ==
  /\ ui.editing
  /\ Do([ui EXCEPT !.rows = Empty, !.of = ui.channel, !.dirty = TRUE])
  /\ UNCHANGED <<net, db>>

\* A cell is typed into or emptied; the table is overlaid while isLoading.
Type(d) ==
  /\ ui.editing /\ ~ui.busy
  /\ \E v \in {ui.channel, None} : Do([ui EXCEPT !.rows[d] = v, !.dirty = TRUE])
  /\ UNCHANGED <<net, db>>

\* submitBatchEdit: what it saves is captured now.
Save ==
  /\ ui.editing /\ ~ui.busy /\ Room
  /\ Do([ui EXCEPT !.busy = TRUE])
  /\ net' = net \cup {[op |-> "save", channel |-> ui.channel, rows |-> ui.rows,
                       write |-> {d \in Day : ui.rows[d] # None},
                       delete |-> {d \in Day : ui.rows[d] = None /\ ui.recs[ui.channel][d] # None}]}
  /\ UNCHANGED db

\* One row after the other, those to delete last; a failure does not stop the loop, and a
\* row whose answer is lost has been saved.
SaveRow == \E c \in Calls("save") :
  /\ c.write \cup c.delete # {}
  /\ LET d == Min(IF c.write # {} THEN c.write ELSE c.delete)
     IN /\ net' = (net \ {c}) \cup {[c EXCEPT !.write = @ \ {d},
                                     !.delete = IF c.write = {} THEN @ \ {d} ELSE @]}
        /\ db' \in {db, [db EXCEPT ![c.channel][d] = c.rows[d]]}
  /\ UNCHANGED ui

\* The records are loaded for the channel that was saved, whatever is selected by now.
DoneSave == \E c \in Calls("save") :
  /\ c.write \cup c.delete = {}
  /\ ui' = [Begin(ui) EXCEPT !.saved = c.channel]
  /\ net' = (net \ {c}) \cup {Load(c.channel, ui.req + 1, TRUE)}
  /\ UNCHANGED db

Newest_Any(c) == TRUE
Newest(c) == c.req = ui.req

\* A load that failed leaves the rows as they are.
Shown(u, c) == [u EXCEPT !.recs = db, !.rows = db[c.channel], !.of = c.channel,
                         !.dirty = FALSE, !.editing = u.entry = c.channel,
                         !.entry = IF @ = c.channel THEN None ELSE @]
DoneLoad == \E c \in Calls("load"), answer \in Answer :
  /\ LET u == IF ~Newest(c) THEN ui
              ELSE IF answer = "ok" THEN Shown(ui, c) ELSE [ui EXCEPT !.error = TRUE]
     IN ui' = [u EXCEPT !.busy = @ /\ c.req # ui.req /\ ~c.last,
                        !.dirty = @ /\ ~c.last]
  /\ net' = net \ {c}
  /\ UNCHANGED db

\* The filter form.
Filter ==
  /\ ~ui.busy /\ Room
  /\ Do(Begin(ui))
  /\ net' = net \cup {Load(ui.channel, ui.req + 1, FALSE)}
  /\ UNCHANGED db

Listed_Not(u, x) == u
Listed(u, x) == [u EXCEPT !.known = @ \cup {x}]

\* submitChannel: the channel just added is selected, and nothing is asked.
AddChannel(x) ==
  /\ x \notin ui.known /\ Room /\ Calls("add") = {} /\ ~ui.busy
  /\ Do([ui EXCEPT !.busy = TRUE])
  /\ net' = net \cup {[op |-> "add", channel |-> x]}
  /\ UNCHANGED db
DoneAdd == \E c \in Calls("add") :
  /\ \/ /\ ui' = Begin(Choose(Listed(ui, c.channel), c.channel))
        /\ net' = (net \ {c}) \cup {Load(c.channel, ui.req + 1, FALSE)}
     \/ ui' = [ui EXCEPT !.busy = FALSE] /\ net' = net \ {c}
  /\ UNCHANGED db
-----------------------------------------------------------------------------
Init ==
  /\ \E x \in Known :
       /\ ui = [page |-> "revenue", clicks |-> 0, channel |-> x, known |-> Known,
                recs |-> [y \in Channel |-> Empty], rows |-> Empty, of |-> None,
                dirty |-> FALSE, editing |-> FALSE, entry |-> None, busy |-> TRUE,
                error |-> FALSE, req |-> 1, saved |-> None]
       /\ net = {Load(x, 1, FALSE)}
  /\ db = [y \in Channel |-> IF y \in Known THEN [d \in Day |-> y] ELSE Empty]

Next ==
  \/ \E x \in Channel : Select(x) \/ StartEntry(x) \/ AddChannel(x)
  \/ \E d \in Day : Type(d)
  \/ Edit \/ CancelEdit \/ ClearRows \/ Save \/ Filter
  \/ SaveRow \/ DoneSave \/ DoneLoad \/ DoneAdd
Spec == Init /\ [][Next]_vars

TypeOK ==
  /\ ui.channel \in ui.known /\ ui.known \subseteq Channel
  /\ {ui.of, ui.entry, ui.saved} \subseteq Channel \cup {None}
  /\ \A x \in Channel, d \in Day : db[x][d] \in Channel \cup {None}

\* However quickly the user goes from channel to channel, once every load has been
\* answered the grid shows the selected channel, unless an error is on the screen or a
\* save that ended after the switch has brought its own channel back.
GridIsOwn ==
  Calls("load") = {} => ui.error \/ ui.of \in {None, ui.channel, ui.saved}
=============================================================================
