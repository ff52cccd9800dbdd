------------------------------ MODULE AutoSync ------------------------------
(***************************************************************************)
(* What the automatic synchronization owes: the window of submission times *)
(* it pulls, the pages of each template, the watermark, the state it       *)
(* resumes from, and its schedule (apps/api/app/modules/dingtalk/router.py: *)
(* execute_auto_sync, run_approval_sync).                                  *)
(*                                                                         *)
(* One run is under way at a time (SyncJobs).  A cursor stands for the     *)
(* approvals the listing has gone past; that an approval has been stored   *)
(* is all that is kept of it.  Manual jobs, which move neither watermark   *)
(* nor resume state, are left out: they only store more.                   *)
(***************************************************************************)
EXTENDS Integers, FiniteSets

CONSTANTS
  Approval,    \* approvals submitted in DingTalk
  Template,    \* approval templates
  TemplateOf,  \* approval -> its template
  Delay,       \* how long an approval may be missing in lists after its submission
  Overlap,     \* approval_overlap_days
  Window,      \* window_days
  PageLimit,   \* page_size times max_pages
  Retries,     \* how often a throttled run is retried: three times in the code
  MaxTime      \* bound on the time that passes

ASSUME TemplatesAssumption == TemplateOf \in [Approval -> Template]
\* The overlap is there for approvals that are listed late (docs/integrations/dingtalk/
\* sync-logic-review-2026-09-26.md:25).
ASSUME TimesAssumption ==
  /\ {Delay, Overlap, Window, PageLimit, Retries, MaxTime} \subseteq Nat
  /\ Delay <= Overlap /\ Delay <= Window

VARIABLES
  now, created,  \* the time, and when each approval was submitted
  enabled,       \* templates with is_enabled
  owed,          \* approvals whose template has been enabled, and its flow known in
                 \* DingTalk, ever since they were listed
  pulled,        \* approvals stored in approval_instances
  watermark,     \* approval_watermark_at
  resume,        \* approval_resume_state
  run,           \* the run under way
  next,          \* next_run_at: a "retry", or the daily "slot" (or at once)
  retries        \* retry_count in the summary of the last job

outside == <<now, created, enabled, owed>>
schedule == <<next, retries>>
vars == <<outside, pulled, watermark, resume, run, schedule>>

Never == -1
Nothing == [p \in {} |-> {}]
Window0 == [start |-> 0, end |-> 0, cursors |-> Nothing]
Off == [stage |-> "off", start |-> 0, end |-> 0, cursors |-> Nothing, left |-> Nothing]
At(stage) == [Off EXCEPT !.stage = stage]

\* A state without cursors is none (parse_auto_sync_resume_state).
ResumeState(start, end, cursors) ==
  IF cursors = Nothing THEN Window0 ELSE [start |-> start, end |-> end, cursors |-> cursors]

\* Cursors without the one of p, with c for p, and those of the templates in ps only.
Without(f, p) == [q \in DOMAIN f \ {p} |-> f[q]]
With(f, p, c) == [q \in DOMAIN f \cup {p} |-> IF q = p THEN c ELSE f[q]]
Of(f, ps) == [q \in DOMAIN f \cap ps |-> f[q]]

Init ==
  /\ now = 0
  /\ created = [a \in Approval |-> Never]
  /\ enabled \in SUBSET Template
  /\ owed = {} /\ pulled = {}
  /\ watermark = Never
  /\ resume = Window0
  /\ run = Off
  /\ next = "slot" /\ retries = 0
-----------------------------------------------------------------------------
(* DingTalk, the administrator and the time. *)

\* Before the first window has been completed, windows reach back window_days only.
Tick ==
  /\ now < MaxTime
  /\ now' = now + 1
  /\ owed' = {a \in owed : watermark = Never => created[a] >= now' - Window}
  /\ UNCHANGED <<created, enabled, pulled, watermark, resume, run, schedule>>

\* An approval is listed, some time after its submission.
Appear(a) ==
  /\ created[a] = Never
  /\ \E at \in {t \in now - Delay .. now : t >= 0} : created' = [created EXCEPT ![a] = at]
  /\ owed' = IF TemplateOf[a] \in enabled THEN owed \cup {a} ELSE owed
  /\ UNCHANGED <<now, enabled, pulled, watermark, resume, run, schedule>>

\* A template is enabled or disabled.
Toggle(p) ==
  /\ enabled' = IF p \in enabled THEN enabled \ {p} ELSE enabled \cup {p}
  /\ owed' = {a \in owed : TemplateOf[a] # p}
  /\ UNCHANGED <<now, created, pulled, watermark, resume, run, schedule>>

\* processinstance/listids: the approvals of the window, and those behind the cursor.  One
\* that is listed while the pages are read, and missed, may as well be listed after them.
InWindow(p) == {a \in Approval : /\ TemplateOf[a] = p /\ created[a] # Never
                                 /\ created[a] \in run.start .. run.end}
Behind(p) == InWindow(p) \ run.cursors[p]
-----------------------------------------------------------------------------
(* The end of every run. *)

\* A message about the rate limit, of any stage, brings a retry after 15, 30 or 60 minutes.
\* What the last job counted is forgotten after six hours, at the next daily time; no retry
\* is kept waiting that long.
MayRetry_Always(count) == TRUE
MayRetry(count) == count < Retries
Reschedule ==
  \E throttled \in BOOLEAN, count \in {retries} \cup (IF next = "slot" THEN {0} ELSE {}) :
    /\ next' = IF throttled /\ MayRetry(count) THEN "retry" ELSE "slot"
    /\ retries' = IF ~throttled THEN 0 ELSE IF count < Retries THEN count + 1 ELSE count

\* The failure, the resume state and the schedule are committed together.
EndFailed == run' = Off /\ Reschedule /\ UNCHANGED <<outside, watermark>>
-----------------------------------------------------------------------------
(* execute_auto_sync up to the window, started by the scheduler or the button. *)

\* Departments without a copy here, or the templates, could not be read.
EarlyFailure ==
  /\ run.stage = "off"
  /\ EndFailed
  /\ UNCHANGED <<pulled, resume>>

StartAt == IF watermark = Never THEN now - Window ELSE watermark - Overlap
Fresh == [start |-> StartAt, end |-> now, cursors |-> [p \in enabled |-> {}]]
Resumes == DOMAIN resume.cursors # {}
Taken == IF Resumes THEN [resume EXCEPT !.cursors = Of(@, enabled)] ELSE Fresh

OpenWindow ==
  /\ run.stage = "off"
  /\ Taken.start < Taken.end /\ Taken.cursors # Nothing
  /\ run' = [Off EXCEPT !.stage = "pulling", !.start = Taken.start,
                         !.end = Taken.end, !.cursors = Taken.cursors]
  /\ UNCHANGED <<outside, pulled, watermark, resume, schedule>>

\* Without templates the run fails, and drops the resume state; when no time has passed
\* since the last window, it fails before it knows its window.
WindowRefused ==
  /\ run.stage = "off"
  /\ Taken.start >= Taken.end \/ Taken.cursors = Nothing
  /\ resume' = IF Taken.start < Taken.end THEN Window0 ELSE resume
  /\ EndFailed
  /\ UNCHANGED pulled
-----------------------------------------------------------------------------
(* run_approval_sync.  Templates follow one another; the pages of one template are one step,
   the approvals of a page that fails half-way are stored by Fail or Stop. *)

LeftBy_SameCursor(p, ids, more) ==
  IF more THEN With(run.left, p, run.cursors[p]) ELSE run.left
LeftBy(p, ids, more) ==
  IF more THEN With(run.left, p, run.cursors[p] \cup ids) ELSE run.left

\* All pages, or as many as the limit allows: then the cursor is left.
PullTemplate(p) ==
  /\ run.stage = "pulling" /\ p \in DOMAIN run.cursors
  /\ \E ids \in SUBSET Behind(p), more \in BOOLEAN :
       /\ Cardinality(ids) <= PageLimit
       /\ IF more THEN ids # {} ELSE ids = Behind(p)
       /\ pulled' = pulled \cup ids
       /\ run' = [run EXCEPT !.cursors = Without(@, p), !.left = LeftBy(p, ids, more)]
  /\ UNCHANGED <<outside, watermark, resume, schedule>>

\* DingTalk does not know the flow (any more): nothing is left of it.
FlowMissing(p) ==
  /\ run.stage = "pulling" /\ p \in DOMAIN run.cursors
  /\ run' = [run EXCEPT !.cursors = Without(@, p)]
  /\ owed' = {a \in owed : TemplateOf[a] # p}
  /\ UNCHANGED <<now, created, enabled, pulled, watermark, resume, schedule>>

\* What a template that is not finished has stored: each approval is committed by itself.
Partly == UNION ({{}} \cup {Behind(p) : p \in DOMAIN run.cursors})

\* The outcome of the job is committed with the cursors that are left.
AllListed ==
  /\ run.stage = "pulling" /\ run.cursors = Nothing
  /\ run' = [run EXCEPT !.stage = "pulled"]
  /\ UNCHANGED <<outside, pulled, watermark, resume, schedule>>
-----------------------------------------------------------------------------
(* The rest of execute_auto_sync. *)

Complete_WhateverIsLeft == TRUE
Complete == run.left = Nothing
Advance ==
  /\ run.stage = "pulled"
  /\ watermark' = IF Complete THEN run.end ELSE watermark
  /\ resume' = ResumeState(run.start, run.end, IF Complete THEN Nothing ELSE run.left)
  /\ run' = At("reporting")
  /\ UNCHANGED <<outside, pulled, schedule>>

\* DingTalk reports an error, somebody cancels the job, or the database refuses.  The job
\* carries cursors only when run_approval_sync has come to its end.
CursorsOfFailure == IF run.stage = "pulled" THEN run.left ELSE Nothing
Fail ==
  /\ run.stage \in {"pulling", "pulled"}
  /\ \E some \in SUBSET Partly : pulled' = pulled \cup some
  /\ resume' = ResumeState(run.start, run.end, CursorsOfFailure)
  /\ EndFailed

Finish ==
  /\ run.stage = "reporting"
  /\ run' = Off
  /\ Reschedule
  /\ UNCHANGED <<outside, pulled, watermark, resume>>

\* The process stops; recover_interrupted_sync_jobs finds the job later.
Stop ==
  /\ run.stage # "dead"
  /\ \E some \in SUBSET Partly : pulled' = pulled \cup some
  /\ run' = At("dead")
  /\ UNCHANGED <<outside, watermark, resume, schedule>>

\* The job that becomes the last one carries no count.
Recover ==
  /\ run.stage = "dead"
  /\ run' = Off
  /\ next' = "slot" /\ retries' = 0
  /\ UNCHANGED <<outside, pulled, watermark, resume>>
-----------------------------------------------------------------------------
Goes ==
  \/ OpenWindow \/ WindowRefused
  \/ \E p \in Template : PullTemplate(p)
  \/ AllListed \/ Advance \/ Finish \/ Recover

Trouble == EarlyFailure \/ Fail \/ Stop

Next ==
  \/ Goes \/ Trouble
  \/ Tick
  \/ \E a \in Approval : Appear(a)
  \/ \E p \in Template : Toggle(p) \/ FlowMissing(p)

\* The loop of the application looks every minute, and a thread goes on.
Fairness == WF_vars(Goes)

Spec == Init /\ [][Next]_vars /\ Fairness
-----------------------------------------------------------------------------
(* Properties. *)

Cursors == UNION {[ps -> SUBSET Approval] : ps \in SUBSET Template}
TypeOK ==
  /\ now \in Nat /\ created \in [Approval -> Nat \cup {Never}]
  /\ enabled \subseteq Template
  /\ owed \subseteq Approval /\ pulled \subseteq Approval
  /\ watermark \in Nat \cup {Never}
  /\ resume \in [start : Int, end : Nat, cursors : Cursors]
  /\ run \in [stage : {"off", "pulling", "pulled", "reporting", "dead"},
               start : Int, end : Nat, cursors : Cursors, left : Cursors]
  /\ next \in {"slot", "retry"} /\ retries \in 0..Retries

\* No approval submitted before the watermark, less the overlap, is missing, whatever was
\* interrupted, resumed, limited or listed late before the watermark got there
\* (docs/integrations/dingtalk/approval-sync-strategy.md:39).
WatermarkCovers ==
  watermark # Never => \A a \in owed : created[a] < watermark - Overlap => a \in pulled

\* Once nothing goes wrong any more, every approval is stored in the end, also the one that
\* is listed after the watermark has passed it.
PulledInTheEnd ==
  <>[][~Trouble]_vars
    => \A a \in Approval : a \in owed ~> a \in pulled \/ a \notin owed

\* Throttling does not make the synchronization run off schedule for ever: "bounded
\* compensation" (router.py:4564).
RetriesEnd == []<>(next # "retry")
=============================================================================
