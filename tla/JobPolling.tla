----------------------------- MODULE JobPolling -----------------------------
(***************************************************************************)
(* The synchronization page of the admin client (dingtalk/page.tsx): jobs  *)
(* run in the API while the page asks for them every three seconds, and    *)
(* the approval list is loaded again when the page sees that a job has     *)
(* ended.  An answer tells what the API knew when it served the call, and  *)
(* apiClient gives it again for the same question until five seconds have  *)
(* passed or something was saved.  The job handlers of the page that no    *)
(* control calls are left out; what the jobs do is the subject of SyncJobs.*)
(***************************************************************************)
EXTENDS Browser

CONSTANT Job   \* the jobs that may run

JobStatus == {"none", "running", "ended"}
Tabs == {"overview", "instances"}   \* the other tabs load what no job changes

\* jobs: the statuses the answer tells; ver: the state of the approvals it tells; hit: the
\* answer was given before.
Call(op) == [op |-> op, st |-> "sent", jobs |-> [j \in Job |-> "none"], ver |-> 0,
             hit |-> FALSE]

\* getCache: the answers at hand.  Polls and the tab ask for the same list of jobs.
Path(op) == IF op = "list" THEN "list" ELSE "jobs"
NoCache == [path \in {"jobs", "list"} |-> None]
Get(u, op) == IF u.cache[Path(op)] = None THEN Call(op)
              ELSE [u.cache[Path(op)] EXCEPT !.op = op, !.hit = op = "list"]
-----------------------------------------------------------------------------
(* The API. *)

\* One job runs at a time (SyncJobs.SlotFree): another start is refused.
Idle == \A j \in Job : db.jobs[j] # "running"
Fresh == {j \in Job : db.jobs[j] = "none"}
NewJob(jobs) == CHOOSE j \in jobs : TRUE   \* which one makes no difference
ServeStart == \E c \in Calls("start") :
  /\ c.st = "sent"
  /\ \/ /\ Idle /\ Fresh # {}
        /\ db' = [db EXCEPT !.jobs[NewJob(Fresh)] = "running"]
        /\ net' \in {Resolve(c), Reject(c)}
     \/ net' = Reject(c) /\ UNCHANGED db
  /\ UNCHANGED ui

\* A job is done, has failed or was cancelled; the approvals it stored are there.
EndJob == \E j \in Job :
  /\ db.jobs[j] = "running"
  /\ db' = [jobs |-> [db.jobs EXCEPT ![j] = "ended"], ver |-> db.ver + 1]
  /\ UNCHANGED <<ui, net>>

ServeRead(op) == \E c \in Calls(op) :
  /\ c.st = "sent"
  /\ LET answer == [c EXCEPT !.st = "ok", !.ver = db.ver,
                             !.jobs = IF op = "list" THEN @ ELSE db.jobs]
     IN /\ net' = (net \ {c}) \cup {answer}
        /\ ui' = [ui EXCEPT !.cache[Path(op)] = [answer EXCEPT !.op = Path(op)]]
  /\ UNCHANGED db

\* GET_CACHE_TTL has passed.
Expire == \E path \in DOMAIN NoCache :
  /\ ui.cache[path] # None
  /\ ui' = [ui EXCEPT !.cache[path] = None]
  /\ UNCHANGED <<net, db>>
-----------------------------------------------------------------------------
(* The page. *)

Running(jobs) == {j \in Job : jobs[j] = "running"}

\* loadInstancesTab: the list is asked for anew only when it is forced.
LoadTab(u, calls) == [ui |-> [u EXCEPT !.busy = TRUE], net |-> calls \cup {Get(u, "tab")}]
ForceTab(u, calls) ==
  LoadTab([u EXCEPT !.list = "loading"], {c \in calls : c.op # "list"} \cup {Get(u, "list")})

\* The effect on the job list: a job that was running and is not has ended.
Reload_Unforced(u, calls) == IF u.loaded THEN [ui |-> u, net |-> calls] ELSE LoadTab(u, calls)
Reload(u, calls) == ForceTab(u, calls)
SetJobs(u, c, calls) ==
  LET v == [u EXCEPT !.jobs = c.jobs, !.previous = Running(c.jobs)]
      w == [v EXCEPT !.end = c.ver]
  IN IF u.previous \subseteq Running(c.jobs) THEN [ui |-> v, net |-> calls]
     ELSE IF u.tab = "instances" THEN Reload(w, calls)
     ELSE [ui |-> [w EXCEPT !.loaded = FALSE], net |-> calls]
Becomes(s) == ui' = s.ui /\ net' = s.net

\* The timer runs while a job is shown as running; an answer may be overtaken by the next.
Polls_OnOverview == Running(ui.jobs) # {} /\ ui.tab = "overview"
Polls == Running(ui.jobs) # {}
Timer ==
  /\ Polls /\ Room
  /\ net' = net \cup {Get(ui, "poll")}
  /\ UNCHANGED <<ui, db>>

\* A failed refresh leaves what is shown.
PollAnswered == \E c \in Settled("poll") : Becomes(SetJobs(ui, c, net \ {c})) /\ UNCHANGED db
PollFailed == \E c \in Calls("poll") : net' = net \ {c} /\ UNCHANGED <<ui, db>>

\* The jobs, the templates and the configuration are asked for together and may fail one
\* by one.  The first load of the page is the same without the tab.
DoneTab == \E c \in Settled("tab"), jobs, others \in BOOLEAN :
  /\ LET u == [ui EXCEPT !.busy = FALSE, !.loaded = @ \/ (jobs /\ others)]
     IN Becomes(IF jobs THEN SetJobs(u, c, net \ {c}) ELSE [ui |-> u, net |-> net \ {c}])
  /\ UNCHANGED db

DoneList == \E c \in Settled("list"), answer \in Answer :
  /\ ui' = IF answer = "ok" THEN [ui EXCEPT !.list = "shown", !.shown = c.ver, !.hit = c.hit]
           ELSE [ui EXCEPT !.list = "failed"]
  /\ net' = net \ {c}
  /\ UNCHANGED db

\* handleTabChange, and the effect on the tab: the list is asked for whenever its tab
\* opens, and nothing of it is used after the tab was left.
ChangeTab(t) ==
  /\ t # ui.tab /\ ui.clicks < MaxClicks
  /\ LET u == [ui EXCEPT !.tab = t, !.clicks = @ + 1]
         s == [ui |-> [u EXCEPT !.list = "loading"], net |-> net \cup {Get(u, "list")}]
     IN Becomes(IF t # "instances" THEN [ui |-> u, net |-> {c \in net : c.op # "list"}]
                ELSE IF ui.loaded THEN s ELSE LoadTab(s.ui, s.net))
  /\ UNCHANGED db

\* The buttons above the list, and the one of the dialog that starts a job.
MayReload == ui.tab = "instances" /\ ~ui.busy /\ Room /\ ui.clicks < MaxClicks
MayStart == ~ui.busy /\ Room /\ Calls("start") = {}

ReloadList ==
  /\ MayReload
  /\ Becomes(ForceTab([ui EXCEPT !.clicks = @ + 1], net))
  /\ UNCHANGED db

StartJob ==
  /\ MayStart
  /\ Do([ui EXCEPT !.busy = TRUE])
  /\ net' = net \cup {Call("start")}
  /\ UNCHANGED db

\* Whatever came of the start, apiClient forgets its answers.  After a start the tab is
\* loaded by force, whichever is shown: the list only if it is.  After a failure the jobs
\* are refreshed.
DoneStart == \E c \in Settled("start") :
  /\ LET u == [ui EXCEPT !.cache = NoCache]
         calls == net \ {c}
     IN Becomes(IF c.st = "err" THEN [ui |-> [u EXCEPT !.busy = FALSE],
                                      net |-> calls \cup {Call("poll")}]
                ELSE IF u.tab = "instances" THEN ForceTab(u, calls) ELSE LoadTab(u, calls))
  /\ UNCHANGED db
-----------------------------------------------------------------------------
\* The page is opened, perhaps while a job of the scheduler or of another user runs.
Init ==
  /\ ui = [page |-> "jobs", clicks |-> 0, tab |-> "overview", busy |-> TRUE,
           jobs |-> [j \in Job |-> "none"], previous |-> {}, loaded |-> FALSE,
           list |-> "loading", shown |-> 0, end |-> 0, hit |-> FALSE, cache |-> NoCache]
  /\ net = {Call("tab")}
  /\ \E running \in {{}, {NewJob(Job)}} :
       db = [jobs |-> [j \in Job |-> IF j \in running THEN "running" ELSE "none"], ver |-> 0]

Next ==
  \/ ServeStart \/ EndJob \/ Expire
  \/ \E op \in {"poll", "tab", "list"} : ServeRead(op)
  \/ Timer \/ PollAnswered \/ PollFailed
  \/ DoneTab \/ DoneList \/ ReloadList \/ StartJob \/ DoneStart
  \/ \E t \in Tabs : ChangeTab(t)

TypeOK ==
  /\ ui.jobs \in [Job -> JobStatus] /\ ui.previous \subseteq Job
  /\ ui.tab \in Tabs /\ ui.list \in {"loading", "shown", "failed"}
  /\ db.jobs \in [Job -> JobStatus] /\ db.ver \in 0..Cardinality(Job)

\* A job whose end the page has noticed leaves the approval list as it was before only if
\* apiClient gave an answer of the last five seconds again; any other list shown with
\* nothing under way for it knows that end.
EndReloads == ui.tab = "instances" /\ ui.list = "shown" => ui.hit \/ ui.shown >= ui.end

\* A job shown as running is not shown so for ever, whatever polls are lost or overtaken.
ProgressEnds == <>[](ui.page = "jobs" => Running(ui.jobs) = {})
=============================================================================
