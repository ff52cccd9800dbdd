--------------------------- MODULE AutoSyncProofs ---------------------------
(***************************************************************************)
(* The watermark of AutoSync covers what it claims, for any templates,     *)
(* approvals, windows, overlaps, page limits and times.                    *)
(***************************************************************************)
EXTENDS AutoSync, TLAPS

LEMMA NothingIsNone ==
  /\ Nothing \in Cursors
  /\ \A c \in Cursors : DOMAIN c = {} <=> c = Nothing
<1>1. Nothing \in [{} -> SUBSET Approval]
  BY DEF Nothing
<1>2. Nothing \in Cursors
  BY <1>1 DEF Cursors
<1>3. ASSUME NEW c \in Cursors, DOMAIN c = {}
      PROVE  c = Nothing
  <2>1. PICK ps \in SUBSET Template : c \in [ps -> SUBSET Approval]
    BY DEF Cursors
  <2>2. c = [p \in {} |-> c[p]]
    BY <2>1, <1>3
  <2> QED
    BY <2>2 DEF Nothing
<1> QED
  BY <1>2, <1>3 DEF Nothing

LEMMA CursorsStay ==
  ASSUME NEW f \in Cursors
  PROVE  /\ \A p : Without(f, p) \in Cursors
         /\ \A p \in Template : \A c \in SUBSET Approval : With(f, p, c) \in Cursors
         /\ \A ps : Of(f, ps) \in Cursors
<1>1. PICK ds \in SUBSET Template : f \in [ds -> SUBSET Approval]
  BY DEF Cursors
<1>2. ASSUME NEW p
      PROVE  Without(f, p) \in Cursors
  <2>1. Without(f, p) \in [ds \ {p} -> SUBSET Approval]
    BY <1>1 DEF Without
  <2> QED
    BY <2>1 DEF Cursors
<1>3. ASSUME NEW p \in Template, NEW c \in SUBSET Approval
      PROVE  With(f, p, c) \in Cursors
  <2>1. With(f, p, c) \in [ds \cup {p} -> SUBSET Approval]
    BY <1>1 DEF With
  <2>2. ds \cup {p} \in SUBSET Template
    OBVIOUS
  <2> QED
    BY <2>1, <2>2 DEF Cursors
<1>4. ASSUME NEW ps
      PROVE  Of(f, ps) \in Cursors
  <2>1. Of(f, ps) \in [ds \cap ps -> SUBSET Approval]
    BY <1>1 DEF Of
  <2> QED
    BY <2>1 DEF Cursors
<1> QED
  BY <1>2, <1>3, <1>4

LEMMA CursorsAreSets ==
  \A f \in Cursors : DOMAIN f \subseteq Template /\ \A p \in DOMAIN f : f[p] \subseteq Approval
BY DEF Cursors

LEMMA FreshCursors == ASSUME enabled \subseteq Template
                      PROVE  [p \in enabled |-> {}] \in Cursors
<1>1. [p \in enabled |-> {}] \in [enabled -> SUBSET Approval]
  OBVIOUS
<1> QED
  BY <1>1 DEF Cursors
-----------------------------------------------------------------------------
(* What a run takes and leaves is well-typed. *)

LEMMA Times == /\ Delay \in Nat /\ Overlap \in Nat /\ Window \in Nat /\ Retries \in Nat
               /\ Delay <= Overlap /\ Delay <= Window
BY TimesAssumption

LEMMA RestingTypes ==
  ASSUME NEW stage \in {"off", "pulling", "pulled", "reporting", "dead"}
  PROVE  /\ At(stage) \in [stage : {"off", "pulling", "pulled", "reporting", "dead"},
                           start : Int, end : Nat, cursors : Cursors, left : Cursors]
         /\ At(stage).stage = stage
         /\ Window0 \in [start : Int, end : Nat, cursors : Cursors]
         /\ DOMAIN Window0.cursors = {}
BY NothingIsNone DEF At, Off, Window0, Nothing

LEMMA ResumeTypes ==
  ASSUME NEW start \in Int, NEW end \in Nat, NEW cursors \in Cursors
  PROVE  /\ ResumeState(start, end, cursors) \in [start : Int, end : Nat, cursors : Cursors]
         /\ DOMAIN ResumeState(start, end, cursors).cursors # {} =>
              ResumeState(start, end, cursors)
                = [start |-> start, end |-> end, cursors |-> cursors]
BY RestingTypes DEF ResumeState

LEMMA TakenTypes ==
  ASSUME TypeOK
  PROVE  Taken \in [start : Int, end : Nat, cursors : Cursors]
<1>1. CASE Resumes
  <2>1. Of(resume.cursors, enabled) \in Cursors
    BY CursorsStay DEF TypeOK
  <2> QED
    BY <1>1, <2>1 DEF Taken, TypeOK
<1>2. CASE ~Resumes
  <2>1. StartAt \in Int
    BY Times DEF TypeOK, StartAt, Never
  <2>2. [p \in enabled |-> {}] \in Cursors
    BY FreshCursors DEF TypeOK
  <2> QED
    BY <1>2, <2>1, <2>2 DEF Taken, Fresh, TypeOK
<1> QED
  BY <1>1, <1>2

LEMMA RescheduleTypes ==
  ASSUME TypeOK, Reschedule
  PROVE  next' \in {"slot", "retry"} /\ retries' \in 0..Retries
BY Times DEF TypeOK, Reschedule, MayRetry
-----------------------------------------------------------------------------
LEMMA TypesAtFirst == Init => TypeOK
BY RestingTypes, Times, NothingIsNone DEF Init, TypeOK, Never, Off, Window0

LEMMA TypesStay == ASSUME TypeOK, [Next]_vars PROVE TypeOK'
<1>1. CASE Tick
  BY <1>1 DEF TypeOK, Tick, schedule
<1>2. ASSUME NEW a \in Approval, Appear(a)
      PROVE  TypeOK'
  <2>1. PICK at \in {t \in now - Delay .. now : t >= 0} :
          created' = [created EXCEPT ![a] = at]
    BY <1>2 DEF Appear
  <2>2. at \in Nat
    BY Times DEF TypeOK
  <2>3. created' \in [Approval -> Nat \cup {Never}]
    BY <2>1, <2>2 DEF TypeOK
  <2> QED
    BY <1>2, <2>3 DEF TypeOK, Appear, schedule
<1>3. ASSUME NEW p \in Template, Toggle(p)
      PROVE  TypeOK'
  BY <1>3 DEF TypeOK, Toggle, schedule
<1>4. CASE EarlyFailure
  BY <1>4, RescheduleTypes, RestingTypes DEF TypeOK, EarlyFailure, EndFailed, outside, At, Off
<1>5. CASE OpenWindow
  BY <1>5, TakenTypes, NothingIsNone DEF TypeOK, OpenWindow, outside, schedule, Off
<1>6. CASE WindowRefused
  BY <1>6, RescheduleTypes, RestingTypes
  DEF TypeOK, WindowRefused, EndFailed, outside, At, Off
<1>7. ASSUME NEW p \in Template, PullTemplate(p)
      PROVE  TypeOK'
  <2>1. PICK ids \in SUBSET Behind(p), more \in BOOLEAN :
          /\ pulled' = pulled \cup ids
          /\ run' = [run EXCEPT !.cursors = Without(@, p), !.left = LeftBy(p, ids, more)]
    BY <1>7 DEF PullTemplate
  <2>2. ids \subseteq Approval
    BY DEF Behind, InWindow
  <2>3. Without(run.cursors, p) \in Cursors
    BY CursorsStay DEF TypeOK
  <2>4. run.cursors[p] \cup ids \in SUBSET Approval
    BY <1>7, <2>2, CursorsAreSets DEF TypeOK, PullTemplate
  <2>5. LeftBy(p, ids, more) \in Cursors
    BY <2>4, CursorsStay DEF TypeOK, LeftBy
  <2> QED
    BY <1>7, <2>1, <2>2, <2>3, <2>5 DEF TypeOK, PullTemplate, outside, schedule
<1>8. ASSUME NEW p \in Template, FlowMissing(p)
      PROVE  TypeOK'
  <2>1. Without(run.cursors, p) \in Cursors
    BY CursorsStay DEF TypeOK
  <2> QED
    BY <1>8, <2>1 DEF TypeOK, FlowMissing, schedule
<1>9. CASE AllListed
  BY <1>9 DEF TypeOK, AllListed, outside, schedule
<1>10. CASE Advance
  <2>1. (IF Complete THEN Nothing ELSE run.left) \in Cursors
    BY NothingIsNone DEF TypeOK
  <2>2. resume' \in [start : Int, end : Nat, cursors : Cursors]
    BY <1>10, <2>1, ResumeTypes DEF TypeOK, Advance
  <2> QED
    BY <1>10, <2>2, RestingTypes DEF TypeOK, Advance, outside, schedule
<1>11. CASE Fail
  <2>1. CursorsOfFailure \in Cursors
    BY NothingIsNone DEF TypeOK, CursorsOfFailure
  <2>2. resume' \in [start : Int, end : Nat, cursors : Cursors]
    BY <1>11, <2>1, ResumeTypes DEF TypeOK, Fail
  <2>3. pulled' \subseteq Approval
    BY <1>11 DEF TypeOK, Fail, Partly, Behind, InWindow
  <2> QED
    BY <1>11, <2>2, <2>3, RescheduleTypes, RestingTypes
    DEF TypeOK, Fail, EndFailed, outside, At, Off
<1>12. CASE Finish
  BY <1>12, RescheduleTypes, RestingTypes DEF TypeOK, Finish, outside, At, Off
<1>13. CASE Stop
  <2>1. pulled' \subseteq Approval
    BY <1>13 DEF TypeOK, Stop, Partly, Behind, InWindow
  <2> QED
    BY <1>13, <2>1, RestingTypes DEF TypeOK, Stop, outside, schedule
<1>14. CASE Recover
  BY <1>14, RestingTypes, Times DEF TypeOK, Recover, outside, At, Off
<1>15. CASE UNCHANGED vars
  BY <1>15 DEF TypeOK, vars, outside, schedule
<1> QED
  BY <1>1, <1>2, <1>3, <1>4, <1>5, <1>6, <1>7, <1>8, <1>9, <1>10, <1>11, <1>12, <1>13,
     <1>14, <1>15 DEF Next, Goes, Trouble

\* Every field keeps its type (AutoSync.TypeOK).
THEOREM Types == Spec => []TypeOK
BY TypesAtFirst, TypesStay, PTL DEF Spec
-----------------------------------------------------------------------------
(* What is still missing is within reach: of the next window that starts afresh, of the
   state to resume from, and of the run under way. *)

Awaits(f, a) == TemplateOf[a] \in DOMAIN f /\ a \notin f[TemplateOf[a]]

OwedIsListed == \A a \in owed : created[a] \in 0..now /\ TemplateOf[a] \in enabled
FreshReaches == watermark <= now /\ \A a \in owed \ pulled : created[a] >= StartAt
ResumeReaches ==
  Resumes =>
    /\ resume.end <= now
    /\ \A a \in owed \ pulled : created[a] < resume.end - Overlap =>
         created[a] >= resume.start /\ Awaits(resume.cursors, a)
RunReaches ==
  run.stage \in {"pulling", "pulled"} =>
    /\ run.end <= now
    /\ DOMAIN run.cursors \cap DOMAIN run.left = {}
    /\ run.stage = "pulled" => DOMAIN run.cursors = {}
    /\ \A a \in owed \ pulled : created[a] < run.end - Overlap =>
         created[a] >= run.start /\ (Awaits(run.cursors, a) \/ Awaits(run.left, a))
Reaches == OwedIsListed /\ FreshReaches /\ ResumeReaches /\ RunReaches

LEMMA ReachesAtFirst == Init => Reaches
BY Times DEF Init, Reaches, OwedIsListed, FreshReaches, ResumeReaches, RunReaches, Resumes,
             Window0, Nothing, Off, StartAt, Never

\* Nothing but the approvals owed and pulled changes, and less is missing.
LEMMA LessIsMissing ==
  ASSUME TypeOK, Reaches, owed' \subseteq owed, pulled \subseteq pulled',
         UNCHANGED <<now, created, enabled, watermark>>
  PROVE  /\ OwedIsListed' /\ FreshReaches'
         /\ UNCHANGED resume => ResumeReaches'
         /\ UNCHANGED run => RunReaches'
BY DEF Reaches, OwedIsListed, FreshReaches, ResumeReaches, RunReaches, Resumes, StartAt, Awaits

LEMMA ReachesStays == ASSUME TypeOK, Reaches, [Next]_vars PROVE Reaches'
<1> USE Times
<1>1. CASE Tick
  <2>1. now' = now + 1 /\ owed' \subseteq owed /\ UNCHANGED <<created, enabled, pulled, watermark, resume, run>>
    BY <1>1 DEF Tick
  <2>2. OwedIsListed'
    BY <2>1 DEF TypeOK, Reaches, OwedIsListed
  <2>3. ASSUME NEW a \in owed' \ pulled'
        PROVE  created'[a] >= StartAt'
    BY <1>1, <2>1, <2>3 DEF TypeOK, Reaches, FreshReaches, Tick, StartAt, Never
  <2>4. FreshReaches'
    BY <2>1, <2>3 DEF TypeOK, Reaches, FreshReaches, Never
  <2>5. ResumeReaches'
    BY <2>1 DEF TypeOK, Reaches, ResumeReaches, Resumes, Awaits
  <2>6. RunReaches'
    BY <2>1 DEF TypeOK, Reaches, RunReaches, Awaits
  <2> QED
    BY <2>2, <2>4, <2>5, <2>6 DEF Reaches
<1>2. ASSUME NEW x \in Approval, Appear(x)
      PROVE  Reaches'
  <2>1. PICK at \in {t \in now - Delay .. now : t >= 0} :
          created' = [created EXCEPT ![x] = at]
    BY <1>2 DEF Appear
  <2>2. /\ x \notin owed /\ owed' \subseteq owed \cup {x}
        /\ x \in owed' => TemplateOf[x] \in enabled
        /\ UNCHANGED <<now, enabled, pulled, watermark, resume, run>>
    BY <1>2 DEF Appear, Reaches, OwedIsListed, Never
  <2>3. /\ at \in 0..now /\ at >= now - Delay /\ created'[x] = at
        /\ \A a \in owed : created'[a] = created[a]
    BY <2>1, <2>2 DEF TypeOK
  <2>4. OwedIsListed'
    BY <2>2, <2>3 DEF Reaches, OwedIsListed
  <2>5. ASSUME NEW a \in owed' \ pulled'
        PROVE  created'[a] >= StartAt'
    <3>1. CASE a = x
      BY <2>2, <2>3, <3>1 DEF TypeOK, Reaches, FreshReaches, StartAt, Never
    <3>2. CASE a # x
      BY <2>2, <2>3, <2>5, <3>2 DEF Reaches, FreshReaches, StartAt
    <3> QED
      BY <3>1, <3>2
  <2>6. FreshReaches'
    BY <2>2, <2>5 DEF Reaches, FreshReaches
  <2>7. ASSUME NEW a \in owed' \ pulled', NEW end \in Nat, end <= now,
               created'[a] < end - Overlap
        PROVE  a \in owed \ pulled /\ created'[a] = created[a]
    BY <2>2, <2>3, <2>7 DEF TypeOK
  <2>8. ResumeReaches'
    BY <2>2, <2>7 DEF TypeOK, Reaches, ResumeReaches, Resumes, Awaits
  <2>9. RunReaches'
    BY <2>2, <2>7 DEF TypeOK, Reaches, RunReaches, Awaits
  <2> QED
    BY <2>4, <2>6, <2>8, <2>9 DEF Reaches
<1>3. ASSUME NEW p \in Template, Toggle(p)
      PROVE  Reaches'
  BY <1>3 DEF TypeOK, Toggle, Reaches, OwedIsListed, FreshReaches, ResumeReaches, RunReaches,
              Resumes, StartAt, Awaits
<1>4. CASE EarlyFailure
  BY <1>4, LessIsMissing, RestingTypes
  DEF EarlyFailure, EndFailed, outside, Reaches, RunReaches, At, Off
<1>5. CASE OpenWindow
  <2>1. /\ UNCHANGED <<now, created, enabled, owed, pulled, watermark, resume>>
        /\ run' = [Off EXCEPT !.stage = "pulling", !.start = Taken.start,
                              !.end = Taken.end, !.cursors = Taken.cursors]
    BY <1>5 DEF OpenWindow, outside
  <2>2. /\ run'.stage = "pulling" /\ run'.start = Taken.start /\ run'.end = Taken.end
        /\ run'.cursors = Taken.cursors /\ DOMAIN run'.left = {}
    BY <2>1 DEF Off, Nothing
  <2>3. ASSUME NEW a \in owed \ pulled, created[a] < Taken.end - Overlap
        PROVE  created[a] >= Taken.start /\ Awaits(Taken.cursors, a)
    <3>1. TemplateOf[a] \in enabled
      BY DEF Reaches, OwedIsListed
    <3>2. CASE Resumes
      <4>1. Taken = [resume EXCEPT !.cursors = Of(resume.cursors, enabled)]
        BY <3>2 DEF Taken
      <4>2. /\ Taken.end = resume.end /\ Taken.start = resume.start
            /\ Taken.cursors = Of(resume.cursors, enabled)
        BY <4>1 DEF TypeOK
      <4>3. created[a] >= resume.start /\ Awaits(resume.cursors, a)
        BY <2>3, <3>2, <4>2 DEF Reaches, ResumeReaches
      <4> QED
        BY <3>1, <4>2, <4>3 DEF Awaits, Of
    <3>3. CASE ~Resumes
      BY <3>1, <3>3 DEF Taken, Fresh, Reaches, FreshReaches, Awaits
    <3> QED
      BY <3>2, <3>3
  <2>4. Taken.end <= now
    BY DEF TypeOK, Taken, Fresh, Reaches, ResumeReaches
  <2>5. RunReaches'
    BY <2>1, <2>2, <2>3, <2>4 DEF RunReaches, Awaits
  <2> QED
    BY <2>1, <2>5, LessIsMissing DEF Reaches
<1>6. CASE WindowRefused
  <2>1. ResumeReaches'
    BY <1>6, LessIsMissing, RestingTypes
    DEF WindowRefused, EndFailed, outside, ResumeReaches, Resumes
  <2> QED
    BY <1>6, <2>1, LessIsMissing, RestingTypes
    DEF WindowRefused, EndFailed, outside, Reaches, RunReaches, At, Off
<1>7. ASSUME NEW p \in Template, PullTemplate(p)
      PROVE  Reaches'
  <2>1. PICK ids \in SUBSET Behind(p), more \in BOOLEAN :
          /\ IF more THEN ids # {} ELSE ids = Behind(p)
          /\ pulled' = pulled \cup ids
          /\ run' = [run EXCEPT !.cursors = Without(run.cursors, p),
                                !.left = LeftBy(p, ids, more)]
    BY <1>7 DEF PullTemplate
  <2>2. /\ run.stage = "pulling" /\ p \in DOMAIN run.cursors
        /\ UNCHANGED <<now, created, enabled, owed, watermark, resume>>
    BY <1>7 DEF PullTemplate, outside
  <2>3. /\ run'.stage = "pulling" /\ run'.start = run.start /\ run'.end = run.end
        /\ run'.cursors = Without(run.cursors, p) /\ run'.left = LeftBy(p, ids, more)
    BY <2>1, <2>2 DEF TypeOK
  <2>4. ASSUME NEW a \in owed \ pulled', created[a] < run.end - Overlap
        PROVE  created[a] >= run.start /\ (Awaits(run'.cursors, a) \/ Awaits(run'.left, a))
    <3>1. /\ a \in owed \ pulled /\ a \notin ids
          /\ created[a] >= run.start /\ (Awaits(run.cursors, a) \/ Awaits(run.left, a))
      BY <2>1, <2>2, <2>4 DEF Reaches, RunReaches
    <3>2. CASE Awaits(run.left, a)
      <4>1. TemplateOf[a] # p
        BY <2>2, <3>2 DEF Reaches, RunReaches, Awaits
      <4> QED
        BY <2>3, <3>1, <3>2, <4>1 DEF Awaits, LeftBy, With
    <3>3. CASE Awaits(run.cursors, a) /\ TemplateOf[a] # p
      BY <2>3, <3>1, <3>3 DEF Awaits, Without
    <3>4. CASE Awaits(run.cursors, a) /\ TemplateOf[a] = p
      <4>1. created[a] \in run.start .. run.end /\ created[a] # Never /\ a \in Approval
        BY <2>4, <3>1 DEF TypeOK, Reaches, OwedIsListed, Never
      <4>2. a \in Behind(p)
        BY <3>4, <4>1 DEF Behind, InWindow, Awaits
      <4>3. more
        BY <2>1, <3>1, <4>2
      <4>4. run'.left = With(run.left, p, run.cursors[p] \cup ids)
        BY <2>3, <4>3 DEF LeftBy
      <4>5. Awaits(run'.left, a)
        BY <3>1, <3>4, <4>4 DEF Awaits, With
      <4> QED
        BY <3>1, <4>5
    <3> QED
      BY <3>1, <3>2, <3>3, <3>4
  <2>5. DOMAIN run'.cursors \cap DOMAIN run'.left = {}
    BY <2>2, <2>3 DEF Reaches, RunReaches, Without, LeftBy, With
  <2>6. RunReaches'
    BY <2>2, <2>3, <2>4, <2>5 DEF Reaches, RunReaches, Awaits
  <2> QED
    BY <2>1, <2>2, <2>6, LessIsMissing DEF Reaches
<1>8. ASSUME NEW p \in Template, FlowMissing(p)
      PROVE  Reaches'
  <2>1. /\ run.stage = "pulling"
        /\ run' = [run EXCEPT !.cursors = Without(run.cursors, p)]
        /\ owed' = {a \in owed : TemplateOf[a] # p}
        /\ UNCHANGED <<now, created, enabled, pulled, watermark, resume>>
    BY <1>8 DEF FlowMissing
  <2>2. /\ run'.stage = "pulling" /\ run'.start = run.start /\ run'.end = run.end
        /\ run'.cursors = Without(run.cursors, p) /\ run'.left = run.left
    BY <2>1 DEF TypeOK
  <2>3. RunReaches'
    BY <2>1, <2>2 DEF Reaches, RunReaches, Without, Awaits
  <2> QED
    BY <2>1, <2>3, LessIsMissing DEF Reaches
<1>9. CASE AllListed
  <2>1. /\ run.stage = "pulling" /\ run.cursors = Nothing
        /\ run' = [run EXCEPT !.stage = "pulled"]
        /\ UNCHANGED <<now, created, enabled, owed, pulled, watermark, resume>>
    BY <1>9 DEF AllListed, outside
  <2>2. /\ run'.stage = "pulled" /\ run'.start = run.start /\ run'.end = run.end
        /\ run'.cursors = run.cursors /\ run'.left = run.left /\ DOMAIN run.cursors = {}
    BY <2>1 DEF TypeOK, Nothing
  <2>3. RunReaches'
    BY <2>1, <2>2 DEF Reaches, RunReaches, Awaits
  <2> QED
    BY <2>1, <2>3, LessIsMissing DEF Reaches
<1>10. ASSUME run.stage = "pulled", NEW a \in owed \ pulled, created[a] < run.end - Overlap
       PROVE  created[a] >= run.start /\ Awaits(run.left, a)
  BY <1>10 DEF Reaches, RunReaches, Awaits
<1>11. CASE Advance
  <2>1. /\ run.stage = "pulled" /\ run.end <= now
        /\ UNCHANGED <<now, created, enabled, owed, pulled>>
        /\ run'.stage = "reporting"
        /\ watermark' = IF Complete THEN run.end ELSE watermark
        /\ resume' = ResumeState(run.start, run.end, IF Complete THEN Nothing ELSE run.left)
    BY <1>11, RestingTypes DEF Advance, outside, Reaches, RunReaches
  <2>2. OwedIsListed' /\ RunReaches'
    BY <2>1 DEF Reaches, OwedIsListed, RunReaches
  <2>3. CASE Complete
    <3>1. ASSUME NEW a \in owed \ pulled
          PROVE  created[a] >= run.end - Overlap
      <4>1. ~Awaits(run.left, a)
        BY <2>3 DEF Complete, Nothing, Awaits
      <4> QED
        BY <2>1, <1>10, <3>1, <4>1 DEF TypeOK, Reaches, OwedIsListed
    <3>2. FreshReaches'
      BY <2>1, <2>3, <3>1 DEF TypeOK, FreshReaches, StartAt, Never
    <3>3. ResumeReaches'
      BY <2>1, <2>3, RestingTypes DEF ResumeState, ResumeReaches, Resumes
    <3> QED
      BY <2>2, <3>2, <3>3 DEF Reaches
  <2>4. CASE ~Complete
    <3>1. FreshReaches'
      BY <2>1, <2>4 DEF Reaches, FreshReaches, StartAt
    <3>2. Resumes' => resume' = [start |-> run.start, end |-> run.end, cursors |-> run.left]
      BY <2>1, <2>4, ResumeTypes DEF TypeOK, Resumes
    <3>3. ResumeReaches'
      BY <2>1, <3>2, <1>10 DEF ResumeReaches, Awaits
    <3> QED
      BY <2>2, <3>1, <3>3 DEF Reaches
  <2> QED
    BY <2>3, <2>4
<1>12. CASE Fail
  <2>1. /\ run.stage \in {"pulling", "pulled"} /\ pulled \subseteq pulled'
        /\ UNCHANGED <<now, created, enabled, owed, watermark>>
        /\ run'.stage = "off"
        /\ resume' = ResumeState(run.start, run.end, CursorsOfFailure)
    BY <1>12 DEF Fail, EndFailed, outside, Off
  <2>2. CursorsOfFailure \in Cursors
    BY NothingIsNone DEF TypeOK, CursorsOfFailure
  <2>3. ASSUME Resumes'
        PROVE  /\ resume' = [start |-> run.start, end |-> run.end, cursors |-> run.left]
               /\ run.stage = "pulled" /\ run.end <= now
    <3>1. /\ resume' = [start |-> run.start, end |-> run.end, cursors |-> CursorsOfFailure]
          /\ DOMAIN CursorsOfFailure # {}
      BY <2>1, <2>2, <2>3, ResumeTypes DEF TypeOK, Resumes
    <3> QED
      BY <2>1, <3>1 DEF CursorsOfFailure, Nothing, Reaches, RunReaches
  <2>4. ResumeReaches'
    BY <2>1, <2>3, <1>10 DEF ResumeReaches, Awaits
  <2>5. RunReaches'
    BY <2>1 DEF RunReaches
  <2> QED
    BY <2>1, <2>4, <2>5, LessIsMissing DEF Reaches
<1>13. CASE Finish
  BY <1>13, LessIsMissing DEF Finish, outside, Reaches, RunReaches, Off
<1>14. CASE Stop
  <2>1. /\ pulled \subseteq pulled' /\ run'.stage = "dead"
        /\ UNCHANGED <<now, created, enabled, owed, watermark, resume>>
    BY <1>14, RestingTypes DEF Stop, outside
  <2> QED
    BY <2>1, LessIsMissing DEF Reaches, RunReaches
<1>15. CASE Recover
  BY <1>15, LessIsMissing DEF Recover, outside, Reaches, RunReaches, Off
<1>16. CASE UNCHANGED vars
  BY <1>16, LessIsMissing DEF vars, outside, Reaches
<1> QED
  BY <1>1, <1>2, <1>3, <1>4, <1>5, <1>6, <1>7, <1>8, <1>9, <1>11, <1>12, <1>13, <1>14,
     <1>15, <1>16 DEF Next, Goes, Trouble

\* No approval submitted before the watermark, less the overlap, is missing, whatever was
\* interrupted, resumed, limited or listed late before (AutoSync.WatermarkCovers).
THEOREM NothingIsSkipped == Spec => []WatermarkCovers
<1>1. TypeOK /\ Reaches => WatermarkCovers
  BY Times DEF TypeOK, Reaches, FreshReaches, StartAt, WatermarkCovers, Never
<1> QED
  BY <1>1, TypesAtFirst, TypesStay, ReachesAtFirst, ReachesStays, PTL DEF Spec
=============================================================================
