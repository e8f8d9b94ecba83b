------------------------- MODULE Automations_proofs -------------------------
(***************************************************************************)
(* The safety properties of Automations, proved for every set of           *)
(* intervals, instants and prompts and for every bound.                    *)
(*                                                                         *)
(* One inductive invariant carries them.  Its parts say what the           *)
(* reconciler may still rely on after an await: which jobs its list shows  *)
(* (JobsListed), what a removal reported means (RemovedClean), what the    *)
(* reports that are made or under way claim (ReportsTrue), what the        *)
(* dirty flag stands for (NudgesHeard), and how often a click was run      *)
(* (RunsCounted).  ReadsBehind says what a handler of the server may still *)
(* rely on of the row it read before others wrote it.                      *)
(***************************************************************************)
EXTENDS Automations, TLAPS

-----------------------------------------------------------------------------
(* The inductive invariant *)

ListedOwn == {j \in JobIds : pass.listed[j] # Gone /\ pass.listed[j].sentinel}

\* The jobs that carry the sentinel are among those the pass listed, for the
\* gateway's own users take it off and never put it on.
JobsListed ==
  /\ OneJob
  /\ pass.at \in {"asked", "item"} =>
       Own \subseteq ListedOwn /\ \A i, j \in ListedOwn : i = j

\* Reports the server is at or may still get, the one a run precedes among them.
LateReports == {posted.report : posted \in late}
Pending == LateReports \cup (IF pass.at \in {"run", "report"} THEN {pass.report} ELSE {})

\* What a handler read of the row is behind it: no generation is taken back, and what
\* is being removed never lives again.
Behind(known) ==
  \/ known = NotRead
  \/ /\ known \in Rows /\ known.gen <= row.gen /\ known.state # "gone"
     /\ known.state = "removing" => row.state # "live"

ReadsBehind ==
  /\ \A posted \in late : Behind(posted.known)
  /\ \A edit \in edits : Behind(edit.known)
  /\ pass.at = "report" => Behind(pass.known)

\* A reported removal was asked for, and left nothing but what is stranded; no
\* pass that would make a job again is under way.
RemovedClean ==
  /\ pass.at = "item" /\ pass.item.state = "removing" => row.state # "live"
  /\ row.state = "gone" \/ (\E r \in Pending : r.status = "removed") =>
       /\ row.state # "live" /\ Own \subseteq stranded
       /\ pass.at = "item" => pass.item.state = "removing"

\* No report is ahead of the row, and one that says applied was true once.
ReportsTrue ==
  /\ pass.at = "item" => pass.item.gen <= row.gen
  /\ \A r \in Pending : r.gen <= row.gen /\ (r.status = "applied" => r.gen \in brought)
  /\ AppliedBrought

\* Past the read of what is desired, what was heard is read or marks the flag.
NudgesHeard ==
  /\ nudge <= version /\ heard <= version
  /\ pass.at \in {"item", "run", "report"} => dirty \/ heard <= read \/ read = Unread
  /\ NeverSleepsOnNudge

\* The server knows of the click's run, and no pass is about to run it.
Observed(c) ==
  /\ row.state = "gone" \/ c <= row.runObserved
  /\ pass.at = "item" => c <= pass.item.runObserved
  /\ pass.at = "run" => pass.click # c

\* Its run is what the report of this pass tells; a handler that read of it already
\* writes nothing of it.
Telling(c) ==
  /\ pass.at = "report" /\ pass.ran /\ pass.report.runObserved = c
  /\ c <= AsRead(pass.known).runObserved => row.state = "gone" \/ c <= row.runObserved

RunsCounted ==
  \A c \in Clicks :
    \/ runs[c] <= unreported
    \/ runs[c] <= 1 + unreported /\ (Observed(c) \/ Telling(c))

IInv ==
  /\ TypeOK /\ JobsListed /\ ReadsBehind /\ RemovedClean /\ ReportsTrue
  /\ NudgesHeard /\ RunsCounted

-----------------------------------------------------------------------------
(* Types *)

\* What goes to the gateway is a schedule it keeps, or an instant as a number,
\* which specToCronAdd never leaves.
LEMMA ParamsType ==
  ASSUME NEW spec \in Specs
  PROVE  /\ SpecToCronAdd(spec).prompt \in Prompts
         /\ SpecToCronAdd(spec).schedule \in
              Schedule("every", Intervals, {"none"}) \cup Schedule("at", Instants, {"iso"})
  BY DEF Specs, SpecToCronAdd, NormalizeSchedule, Schedule

LEMMA AnchoredType ==
  ASSUME NEW spec \in Specs, NEW job \in Jobs
  PROVE  LET params == PreserveEveryAnchor(SpecToCronAdd(spec), job)
         IN  /\ params.prompt \in Prompts
             /\ params.schedule \in
                  Schedule("every", Intervals, {"none"} \cup Anchors) \cup Schedule("at", Instants, {"iso"})
  <1> DEFINE P == SpecToCronAdd(spec)
  <1>1. P = [schedule |-> NormalizeSchedule(spec.schedule), prompt |-> spec.prompt]
    BY DEF SpecToCronAdd
  <1>2. job.schedule \in Schedules
    BY DEF Jobs
  <1>3. CASE PreserveEveryAnchor(P, job) = P
    BY <1>3, ParamsType DEF Schedule, Anchors
  <1>4. CASE PreserveEveryAnchor(P, job) # P
    <2>1. /\ PreserveEveryAnchor(P, job) = [P EXCEPT !.schedule.tag = job.schedule.tag]
          /\ P.schedule.kind = "every" /\ job.schedule.kind = "every"
      BY <1>4 DEF PreserveEveryAnchor
    <2>2. job.schedule.tag \in Anchors
      BY <1>2, <2>1 DEF Schedules, Schedule
    <2>3. P.schedule \in Schedule("every", Intervals, {"none"})
      BY <2>1, ParamsType DEF Schedule
    <2> QED BY <1>1, <2>1, <2>2, <2>3, ParamsType DEF Schedule
  <1> QED BY <1>3, <1>4

LEMMA StoredType ==
  ASSUME NEW params, NEW now \in Anchors,
         params.prompt \in Prompts,
         params.schedule \in
           Schedule("every", Intervals, {"none"} \cup Anchors) \cup Schedule("at", Instants, {"iso"})
  PROVE  Stored(params, now) \in Jobs
  BY DEF Stored, Jobs, Schedules, Schedule, Anchors

\* What the await of a pass says of its local variables.
LEMMA PassType ==
  ASSUME TypeOK
  PROVE  /\ pass.at \in {"begin", "sleep", "asked", "item", "run", "report"}
         /\ pass.at \in {"asked", "item"} => pass.listed \in [JobIds -> Jobs \cup {Gone}]
         /\ pass.at = "item" => pass.item \in Rows
         /\ pass.at \in {"run", "report"} => pass.report \in Reports
         /\ pass.at = "run" => pass.click \in Clicks
         /\ pass.at = "report" => pass.ran \in BOOLEAN /\ ThisPost \in Posted
  BY DEF TypeOK, Passes, ThisPost, Posted

\* What a slow handler of its report means to a pass: nothing it knows of.
LEMMA SlowPass ==
  ASSUME TypeOK, SlowReport
  PROVE  \/ pass' = pass
         \/ /\ pass.at = "report" /\ pass'.at = "report" /\ pass'.ran = pass.ran
            /\ pass'.report = pass.report /\ pass.known = NotRead /\ pass'.known = row
  <1>1. pass.at = "report" => pass \in [at : {"report"}, report : Reports, known : Knowns, ran : BOOLEAN]
    BY DEF TypeOK, Passes
  <1> QED BY <1>1 DEF SlowReport

\* The job a pass is to bring to what is desired.
LEMMA ParamsOfExisting ==
  ASSUME TypeOK, Present, NEW j \in Existing
  PROVE  /\ j \in JobIds /\ pass.listed[j] \in Jobs
         /\ Params(j).prompt \in Prompts
         /\ Params(j).schedule \in
              Schedule("every", Intervals, {"none"} \cup Anchors) \cup Schedule("at", Instants, {"iso"})
  <1>1. j \in JobIds /\ pass.listed[j] # Gone
    BY DEF Existing, Found
  <1>2. pass.listed[j] \in Jobs /\ pass.item.spec \in Specs
    BY <1>1, PassType DEF Present, Rows
  <1> QED BY <1>1, <1>2, AnchoredType DEF Params

LEMMA ReportType ==
  ASSUME TypeOK, pass.at = "item", NEW job \in JobIds \cup {NoJob},
         NEW status \in {"applied", "failed", "removed"}
  PROVE  Report(job, status) \in Reports
  BY PassType DEF Report, Reports, Rows

LEMMA ReportedType ==
  ASSUME NEW known \in Rows, NEW report \in Reports
  PROVE  Reported(known, report) \in Rows
  BY DEF Reported, Reports, Rows, RunObserved, Current

LEMMA AsReadType ==
  ASSUME TypeOK, NEW posted \in Posted
  PROVE  AsRead(posted.known) \in Rows /\ posted.report \in Reports
  BY DEF TypeOK, Posted, Knowns, AsRead

LEMMA RowsAreRead ==
  ASSUME NEW known \in Rows
  PROVE  known # NotRead
  <1>1. "gen" \in DOMAIN known
    BY DEF Rows
  <1>2. "gen" \notin DOMAIN NotRead
    BY DEF NotRead
  <1> QED BY <1>1, <1>2

LEMMA EditedType ==
  ASSUME TypeOK, NEW known \in Rows, NEW spec \in Specs, row.gen < MaxGen
  PROVE  Edited(known, spec) \in Rows
  <1>1. row.gen + 1 \in Gens
    BY AutomationsAssumption DEF TypeOK, Rows, Gens
  <1> QED BY <1>1 DEF Edited, Rows

\* What a handler leaves of the row: what it changed, and else what is there by now.
LEMMA WritesIs ==
  ASSUME TypeOK, NEW known \in Rows, NEW want \in Rows, Writes(known, want)
  PROVE  /\ row' \in Rows /\ crossed' \subseteq Gens /\ crossed \subseteq crossed'
         /\ unreported' \in {unreported, unreported + 1}
         /\ row.state = "gone" => row' = row
         /\ row.state # "gone" =>
              /\ row'.state = IF want.state # known.state THEN want.state ELSE row.state
              /\ row'.gen = IF want.gen # known.gen THEN want.gen ELSE row.gen
              /\ row'.sync = IF want.sync # known.sync THEN want.sync ELSE row.sync
              /\ row'.runObserved =
                   IF want.runObserved # known.runObserved THEN want.runObserved ELSE row.runObserved
  <1> DEFINE new(c) == IF want[c] # known[c] THEN want[c] ELSE row[c]
             Columns == {"state", "gen", "spec", "sync", "job", "runRequested", "runObserved"}
  <1>1. row \in Rows /\ unreported \in Nat /\ crossed \subseteq Gens
    BY DEF TypeOK
  <1>2. CASE row.state = "gone"
    <2>1. row' = row
      BY <1>2 DEF Writes
    <2>2. row'.gen \in Gens
      BY <1>1, <2>1 DEF Rows
    <2> QED BY <1>1, <1>2, <2>1, <2>2 DEF Writes
  <1>3. CASE row.state # "gone"
    <2>1. DOMAIN row = Columns
      BY <1>1 DEF Rows
    <2>2. row' = [c \in Columns |-> new(c)]
      BY <1>3, <2>1 DEF Writes
    <2>3. row' = [state |-> new("state"), gen |-> new("gen"), spec |-> new("spec"), sync |-> new("sync"),
                  job |-> new("job"), runRequested |-> new("runRequested"), runObserved |-> new("runObserved")]
      BY <2>2
    <2>4. row' \in Rows
      BY <1>1, <2>3 DEF Rows
    <2>5. row'.gen \in Gens
      BY <2>4 DEF Rows
    <2>6. crossed' \subseteq Gens /\ crossed \subseteq crossed' /\ unreported' \in {unreported, unreported + 1}
      BY <1>1, <2>5 DEF Writes
    <2> QED BY <1>3, <2>3, <2>4, <2>6
  <1> QED BY <1>2, <1>3

LEMMA BroughtType ==
  ASSUME TypeOK, pass.at = "item", NEW job \in JobIds \cup {NoJob}, Brought(job)
  PROVE  pass' \in Passes /\ brought' \in SUBSET Gens
  <1>1. Report(job, "applied") \in Reports
    BY ReportType
  <1>2. pass.item \in Rows /\ pass.item.gen \in Gens /\ pass.item.runRequested \in Clicks \cup {0}
    BY PassType DEF Rows
  <1>3. pass.item.runRequested > pass.item.runObserved => pass.item.runRequested \in Clicks
    BY <1>2, AutomationsAssumption DEF Rows, Clicks
  <1>4. brought' \in SUBSET Gens
    BY <1>2 DEF Brought, TypeOK
  <1>5. CASE job # NoJob /\ pass.item.runRequested > pass.item.runObserved
    <2>1. pass' = [at |-> "run", report |-> Report(job, "applied"), click |-> pass.item.runRequested]
      BY <1>5 DEF Brought
    <2>2. pass' \in [at : {"run"}, report : Reports, click : Clicks]
      BY <1>1, <1>3, <1>5, <2>1
    <2> QED BY <1>4, <2>2 DEF Passes
  <1>6. CASE ~(job # NoJob /\ pass.item.runRequested > pass.item.runObserved)
    <2>1. pass' = [at |-> "report", report |-> Report(job, "applied"), known |-> NotRead, ran |-> FALSE]
      BY <1>6 DEF Brought, ToReport
    <2>2. pass' \in [at : {"report"}, report : Reports, known : Knowns, ran : BOOLEAN]
      BY <1>1, <2>1 DEF Knowns
    <2> QED BY <1>4, <2>2 DEF Passes
  <1> QED BY <1>5, <1>6

LEMMA EndsType ==
  ASSUME TypeOK, Ends
  PROVE  pass' \in Passes /\ dirty' = dirty
  BY DEF Ends, Passes, TypeOK

LEMMA InitTypes == Init => TypeOK
  <1> SUFFICES ASSUME Init PROVE TypeOK
    OBVIOUS
  <1>1. row \in Rows
    <2>1. 1 \in Gens /\ NoJob \in JobIds \cup {NoJob} /\ 0 \in Clicks \cup {0}
      BY AutomationsAssumption DEF Gens
    <2> QED BY <2>1 DEF Init, Rows
  <1>2. pass \in Passes
    BY DEF Init, Passes
  <1>3. jobs \in [JobIds -> Jobs \cup {Gone}] /\ runs \in [Clicks -> Nat]
    BY DEF Init
  <1>4. made \in 0 .. MaxJobs
    BY AutomationsAssumption DEF Init
  <1> QED BY <1>1, <1>2, <1>3, <1>4 DEF Init, TypeOK, NoNudge, Unread

LEMMA NextTypes ==
  ASSUME TypeOK, [Next]_vars
  PROVE  TypeOK'
  <1> USE AutomationsAssumption
  <1>1. CASE Operator
    <2>1. row \in Rows /\ row.gen \in Nat /\ row.runRequested \in Nat
      BY DEF TypeOK, Rows, Gens, Clicks
    <2>2. ASSUME Nudged, row' \in Rows, crossed' \subseteq Gens, unreported' \in Nat,
                 edits' \subseteq [spec : Specs, known : Rows]
          PROVE  TypeOK'
      BY <2>2 DEF Nudged, TypeOK, gateway, plugin
    <2>3. ASSUME NEW spec \in Specs, Edit(spec) PROVE TypeOK'
      <3>1. row.gen < MaxGen /\ Writes(row, Edited(row, spec)) /\ Nudged /\ edits' = edits
        BY <2>3 DEF Edit, Editable
      <3>2. row' \in Rows /\ crossed' \subseteq Gens /\ unreported' \in {unreported, unreported + 1}
        BY <2>1, <3>1, EditedType, WritesIs
      <3> QED BY <2>2, <3>1, <3>2 DEF TypeOK
    <2>4. ASSUME NEW spec \in Specs, SlowEdit(spec) PROVE TypeOK'
      <3>1. edits' \subseteq [spec : Specs, known : Rows] /\ upsets' \in Nat
        BY <2>1, <2>4 DEF SlowEdit, Fault, TypeOK
      <3> QED BY <2>4, <3>1 DEF SlowEdit, TypeOK, gateway, plugin, hist, writes
    <2>5. ASSUME SlowEditEnds PROVE TypeOK'
      <3>1. PICK edit \in edits : Writes(edit.known, Edited(edit.known, edit.spec)) /\ edits' = edits \ {edit}
        BY <2>5 DEF SlowEditEnds
      <3>2. edit.known \in Rows /\ edit.spec \in Specs /\ row.gen < MaxGen /\ Nudged
        BY <2>5, <3>1 DEF SlowEditEnds, TypeOK
      <3>3. row' \in Rows /\ crossed' \subseteq Gens /\ unreported' \in {unreported, unreported + 1}
        BY <3>1, <3>2, EditedType, WritesIs
      <3> QED BY <2>2, <3>1, <3>2, <3>3 DEF TypeOK
    <2>6. ASSUME Delete PROVE TypeOK'
      <3>1. row.gen + 1 \in Gens
        BY <2>1, <2>6 DEF Delete, Gens
      <3>2. row' \in Rows
        BY <2>1, <2>6, <3>1 DEF Delete, Rows
      <3> QED BY <2>2, <2>6, <3>2 DEF Delete, writes, TypeOK
    <2>7. ASSUME RunNow PROVE TypeOK'
      <3>1. row.runRequested + 1 \in Clicks
        BY <2>1, <2>7 DEF RunNow, Clicks
      <3>2. row' \in Rows
        BY <2>1, <2>7, <3>1 DEF RunNow, Rows
      <3> QED BY <2>2, <2>7, <3>2 DEF RunNow, writes, TypeOK
    <2> QED BY <1>1, <2>3, <2>4, <2>5, <2>6, <2>7 DEF Operator
  <1>2. CASE LocalChange
    <2>1. jobs' \in [JobIds -> Jobs \cup {Gone}]
      <3>1. PICK j \in JobIds :
              /\ jobs[j] # Gone
              /\ \/ \E prompt \in Prompts : jobs' = [jobs EXCEPT ![j].prompt = prompt]
                 \/ \E schedule \in Schedules : jobs' = [jobs EXCEPT ![j].schedule = schedule]
                 \/ jobs' = [jobs EXCEPT ![j].sentinel = FALSE]
                 \/ jobs' = [jobs EXCEPT ![j] = Gone]
        BY <1>2 DEF LocalChange
      <3>2. jobs \in [JobIds -> Jobs \cup {Gone}] /\ jobs[j] \in Jobs
        BY <3>1 DEF TypeOK
      <3>3. ASSUME NEW prompt \in Prompts PROVE [jobs[j] EXCEPT !.prompt = prompt] \in Jobs
        BY <3>2 DEF Jobs
      <3>4. ASSUME NEW schedule \in Schedules PROVE [jobs[j] EXCEPT !.schedule = schedule] \in Jobs
        BY <3>2 DEF Jobs
      <3>5. [jobs[j] EXCEPT !.sentinel = FALSE] \in Jobs
        BY <3>2 DEF Jobs
      <3>6. ASSUME NEW job \in Jobs \cup {Gone}
            PROVE  [jobs EXCEPT ![j] = job] \in [JobIds -> Jobs \cup {Gone}]
        BY <3>2
      <3> QED BY <3>1, <3>3, <3>4, <3>5, <3>6
    <2>2. upsets' \in Nat
      BY <1>2 DEF LocalChange, Fault, TypeOK
    <2> QED BY <1>2, <2>1, <2>2 DEF LocalChange, TypeOK, server, plugin, hist, writes
  <1>3. CASE Due \/ Fire
    <2>1. jobs' \in [JobIds -> Jobs \cup {Gone}]
      BY <1>3 DEF Due, Fire, TypeOK, Jobs
    <2> QED BY <1>3, <2>1 DEF Due, Fire, TypeOK, server, plugin, hist, writes
  <1>4. CASE NudgeArrives \/ NudgeLost
    <2>1. pass' \in Passes
      <3>1. pass' = pass \/ pass' = [at |-> "begin"]
        BY <1>4 DEF NudgeArrives, NudgeLost, plugin
      <3> QED BY <3>1 DEF TypeOK, Passes
    <2>2. nudge' \in Nat /\ heard' \in Nat /\ upsets' \in Nat
      BY <1>4 DEF NudgeArrives, NudgeLost, Fault, TypeOK, NoNudge, hist
    <2>3. dirty' \in BOOLEAN
      BY <1>4 DEF NudgeArrives, NudgeLost, TypeOK, plugin
    <2> QED BY <1>4, <2>1, <2>2, <2>3 DEF NudgeArrives, NudgeLost, TypeOK, gateway, plugin, hist, writes
  <1>5. CASE PassBegins
    BY <1>5 DEF PassBegins, TypeOK, Passes, server, gateway, hist, writes
  <1>6. CASE Asks
    <2>1. pass' \in Passes /\ dirty' = dirty
      <3>1. CASE Ends
        BY <3>1, EndsType
      <3>2. CASE ~Ends
        BY <1>6, <3>2, PassType DEF Asks, DesiredServed, DesiredFails, TypeOK, Passes
      <3> QED BY <3>1, <3>2
    <2> QED BY <1>6, <2>1 DEF Asks, DesiredServed, DesiredFails, Fault, TypeOK, Unread, server, gateway, writes
  <1>7. CASE Remove
    <2>1. Existing \subseteq JobIds /\ pass.at = "item" /\ pass.item.job \in JobIds \cup {NoJob}
      BY <1>7, PassType DEF Existing, Found, Remove, Absent, Rows
    <2>2. pass' \in Passes
      <3>1. PICK j \in JobIds \cup {NoJob} : ToReport(Report(j, "removed"))
        BY <1>7, <2>1 DEF Remove
      <3> QED BY <2>1, <3>1, ReportType DEF ToReport, Passes, Knowns
    <2>3. jobs' \in [JobIds -> Jobs \cup {Gone}] /\ dirty' \in BOOLEAN /\ stranded' \subseteq JobIds
      BY <1>7, <2>1 DEF Remove, TypeOK
    <2>4. upsets' \in Nat
      BY <1>7 DEF Remove, Fault, TypeOK
    <2> QED BY <1>7, <2>2, <2>3, <2>4 DEF Remove, TypeOK, server, writes
  <1>8. CASE Keep
    <2>1. PICK j \in Existing : Brought(j)
      BY <1>8 DEF Keep
    <2>2. j \in JobIds /\ pass.at = "item"
      BY <1>8, <2>1 DEF Keep, Present, Existing, Found
    <2> QED BY <1>8, <2>1, <2>2, BroughtType DEF Keep, TypeOK, server, gateway, writes
  <1>9. CASE Update
    <2>1. PICK j \in Existing, now \in Anchors :
            jobs' = [jobs EXCEPT ![j] = Stored(Params(j), now)] /\ Brought(j)
      BY <1>9 DEF Update
    <2>2. j \in JobIds /\ pass.at = "item" /\ Stored(Params(j), now) \in Jobs
      BY <1>9, <2>1, ParamsOfExisting, StoredType DEF Update, Present
    <2> QED BY <1>9, <2>1, <2>2, BroughtType DEF Update, TypeOK, server, writes
  <1>10. CASE UpdateFails \/ AddFails
    <2>1. pass.at = "item" /\ Existing \subseteq JobIds
      BY <1>10 DEF UpdateFails, AddFails, Present, Existing, Found
    <2>2. PICK j \in JobIds \cup {NoJob} : ToReport(Report(j, "failed"))
      BY <1>10, <2>1 DEF UpdateFails, AddFails
    <2>3. pass' \in Passes
      BY <2>1, <2>2, ReportType DEF ToReport, Passes, Knowns
    <2>4. upsets' \in Nat
      BY <1>10 DEF UpdateFails, AddFails, Fault, TypeOK
    <2> QED BY <1>10, <2>3, <2>4 DEF UpdateFails, AddFails, TypeOK, server, gateway, hist, writes
  <1>11. CASE Add
    <2>1. pass.at = "item" /\ made + 1 \in JobIds
      BY <1>11 DEF Add, Present, TypeOK, JobIds
    <2>2. PICK now \in Anchors :
            jobs' = [jobs EXCEPT ![made + 1] = Stored(SpecToCronAdd(pass.item.spec), now)]
      BY <1>11 DEF Add
    <2>3. pass.item.spec \in Specs
      BY <2>1, PassType DEF Rows
    <2>4. Stored(SpecToCronAdd(pass.item.spec), now) \in Jobs
      BY <2>3, ParamsType, StoredType DEF Schedule
    <2>5. PICK j \in JobIds \cup {NoJob} : Brought(j)
      BY <1>11, <2>1 DEF Add
    <2>6. upsets' \in Nat
      BY <1>11 DEF Add, Fault, TypeOK
    <2>7. made' \in 0 .. MaxJobs
      BY <1>11 DEF Add, TypeOK
    <2> QED BY <1>11, <2>1, <2>2, <2>4, <2>5, <2>6, <2>7, BroughtType DEF Add, TypeOK, server, writes
  <1>12. CASE Run
    <2>1. pass.report \in Reports /\ pass.click \in Clicks
      BY <1>12, PassType DEF Run
    <2>2. pass' \in Passes
      BY <1>12, <2>1 DEF Run, Reports, Passes, Knowns
    <2>3. runs' \in [Clicks -> Nat]
      BY <1>12, <2>1 DEF Run, TypeOK
    <2> QED BY <1>12, <2>2, <2>3 DEF Run, TypeOK, server, gateway, writes
  <1>13. CASE Posts
    <2>1. pass.report \in Reports /\ pass.ran \in BOOLEAN /\ ThisPost \in Posted
      BY <1>13, PassType DEF Posts, PostServed, PostFails
    <2>2. pass' \in Passes /\ dirty' = dirty
      BY <1>13, EndsType DEF Posts, PostServed, PostFails
    <2>3. CASE PostServed
      <3>1. row' \in Rows /\ crossed' \subseteq Gens /\ unreported' \in {unreported, unreported + 1}
        BY <2>1, <2>3, AsReadType, ReportedType, WritesIs DEF PostServed, Takes
      <3> QED BY <2>2, <2>3, <3>1 DEF PostServed, TypeOK, gateway
    <2>4. CASE PostFails
      <3>1. late' \subseteq Posted /\ unreported' \in Nat /\ upsets' \in Nat
        BY <2>1, <2>4 DEF PostFails, GivenUp, Fault, TypeOK
      <3> QED BY <2>2, <2>4, <3>1 DEF PostFails, TypeOK, server, gateway
    <2> QED BY <1>13, <2>3, <2>4 DEF Posts
  <1>14. CASE LateArrives
    <2>1. PICK posted \in late : Takes(posted) /\ late' = late \ {posted}
      BY <1>14 DEF LateArrives
    <2>2. posted \in Posted /\ late' \subseteq Posted
      BY <2>1 DEF TypeOK
    <2>3. row' \in Rows /\ crossed' \subseteq Gens /\ unreported' \in {unreported, unreported + 1}
      BY <2>1, <2>2, AsReadType, ReportedType, WritesIs DEF Takes
    <2> QED BY <1>14, <2>2, <2>3 DEF LateArrives, TypeOK, gateway, plugin
  <1>15. CASE Restart
    <2>1. pass' \in Passes
      BY <1>15 DEF Restart, Passes
    <2>2. late' \subseteq Posted /\ unreported' \in Nat /\ upsets' \in Nat
      BY <1>15, PassType DEF Restart, GivenUp, Fault, TypeOK
    <2> QED BY <1>15, <2>1, <2>2 DEF Restart, Unread, TypeOK, server, gateway
  <1>16. CASE SlowReport
    <2>1. late' \subseteq Posted /\ upsets' \in Nat
      BY <1>16 DEF SlowReport, Fault, TypeOK, Posted, Knowns
    <2>2. pass' \in Passes
      <3>1. CASE pass' = pass
        BY <3>1 DEF TypeOK
      <3>2. CASE pass.at = "report" /\ pass' = [pass EXCEPT !.known = row]
        <4>1. pass \in [at : {"report"}, report : Reports, known : Knowns, ran : BOOLEAN]
          BY <3>2 DEF TypeOK, Passes
        <4>2. pass' \in [at : {"report"}, report : Reports, known : Knowns, ran : BOOLEAN]
          BY <3>2, <4>1 DEF TypeOK, Knowns
        <4> QED BY <4>2 DEF Passes
      <3> QED BY <1>16, <3>1, <3>2 DEF SlowReport
    <2> QED BY <1>16, <2>1, <2>2 DEF SlowReport, TypeOK, server, gateway, hist, writes
  <1>17. CASE UNCHANGED vars
    BY <1>17 DEF vars, server, gateway, plugin, hist, writes, TypeOK
  <1> QED
    BY <1>1, <1>2, <1>3, <1>4, <1>5, <1>6, <1>7, <1>8, <1>9, <1>10, <1>11, <1>12, <1>13, <1>14, <1>15, <1>16, <1>17
    DEF Next, Converge

-----------------------------------------------------------------------------
(* The jobs a pass listed *)

\* The job a pass works on is the only one that carries the sentinel, if any does.
LEMMA OwnIsExisting ==
  ASSUME JobsListed, pass.at = "item"
  PROVE  /\ \A j \in Existing : Own \subseteq {j}
         /\ Existing = {} => Own = {}
  <1>1. Own \subseteq ListedOwn /\ \A i, j \in ListedOwn : i = j
    BY DEF JobsListed
  <1>2. CASE ListedOwn = {}
    BY <1>1, <1>2
  <1>3. CASE ListedOwn # {}
    <2>1. Existing = ListedOwn
      BY <1>3 DEF Existing, Found, ListedOwn
    <2> QED BY <1>1, <1>3, <2>1
  <1> QED BY <1>2, <1>3

\* Nothing a step does to jobs gives one the sentinel, unless the pass converges.
LEMMA OwnShrinks ==
  ASSUME TypeOK, [Next]_vars
  PROVE  Own' \subseteq Own \/ Update \/ Add
  <1>1. CASE Due \/ Fire
    <2>1. ASSUME NEW j \in JobIds, jobs[j] # Gone, NEW b \in BOOLEAN, jobs' = [jobs EXCEPT ![j].due = b]
          PROVE  Own' \subseteq Own
      <3>1. jobs \in [JobIds -> Jobs \cup {Gone}] /\ jobs[j] \in Jobs
        BY <2>1 DEF TypeOK
      <3>2. jobs'[j].sentinel = jobs[j].sentinel
        BY <2>1, <3>1 DEF Jobs
      <3>3. \A i \in JobIds : i # j => jobs'[i] = jobs[i]
        BY <2>1, <3>1
      <3> QED BY <2>1, <3>2, <3>3 DEF Own
    <2> QED BY <1>1, <2>1 DEF Due, Fire
  <1>2. CASE LocalChange
    <2>1. PICK j \in JobIds :
            /\ jobs[j] # Gone
            /\ \/ \E prompt \in Prompts : jobs' = [jobs EXCEPT ![j].prompt = prompt]
               \/ \E schedule \in Schedules : jobs' = [jobs EXCEPT ![j].schedule = schedule]
               \/ jobs' = [jobs EXCEPT ![j].sentinel = FALSE]
               \/ jobs' = [jobs EXCEPT ![j] = Gone]
      BY <1>2 DEF LocalChange
    <2>2. jobs \in [JobIds -> Jobs \cup {Gone}] /\ jobs[j] \in Jobs
      BY <2>1 DEF TypeOK
    <2>3. jobs'[j] = Gone \/ ~jobs'[j].sentinel \/ jobs'[j].sentinel = jobs[j].sentinel
      BY <2>1, <2>2 DEF Jobs
    <2>4. \A i \in JobIds : i # j => jobs'[i] = jobs[i]
      BY <2>1, <2>2
    <2> QED BY <2>1, <2>3, <2>4 DEF Own
  <1>3. CASE Remove
    <2>1. jobs' = jobs \/ \E j \in Existing : jobs' = [jobs EXCEPT ![j] = Gone]
      BY <1>3 DEF Remove
    <2>2. jobs \in [JobIds -> Jobs \cup {Gone}]
      BY DEF TypeOK
    <2> QED BY <2>1, <2>2 DEF Own
  <1>4. CASE ~(Due \/ Fire \/ LocalChange \/ Remove \/ Update \/ Add)
    <2>1. jobs' = jobs
      BY <1>4 DEF Next, Operator, Edit, SlowEdit, SlowEditEnds, Delete, RunNow, Nudged, NudgeArrives, NudgeLost, PassBegins,
                  Asks, DesiredServed, DesiredFails, Converge, Keep, UpdateFails, AddFails, Run, SlowReport,
                  Posts, PostServed, PostFails, LateArrives, Restart, gateway, vars
    <2> QED BY <2>1 DEF Own
  <1> QED BY <1>1, <1>2, <1>3, <1>4

\* Where a step leaves the pass in an await that relies on its list, the pass was
\* there before, or it has just listed the jobs.
LEMMA ListKept ==
  ASSUME TypeOK, [Next]_vars, pass'.at \in {"asked", "item"}
  PROVE  \/ pass.at \in {"asked", "item"} /\ pass'.listed = pass.listed
         \/ PassBegins
  <1>1. CASE Asks
    <2>1. ~Ends
      BY DEF Ends
    <2> QED BY <1>1, <2>1 DEF Asks, DesiredServed, DesiredFails
  <1>2. CASE Converge
    BY <1>2 DEF Converge, Remove, Keep, Update, UpdateFails, Add, AddFails, Run, Brought, ToReport
  <1>3. CASE Posts
    BY <1>3 DEF Posts, PostServed, PostFails, Ends
  <1>4. CASE Restart
    BY <1>4 DEF Restart
  <1>5. CASE NudgeArrives
    BY <1>5 DEF NudgeArrives
  <1>6. CASE SlowReport
    BY <1>6, SlowPass
  <1>7. CASE ~(Asks \/ Converge \/ Posts \/ Restart \/ NudgeArrives \/ PassBegins \/ SlowReport)
    <2>1. pass' = pass
      BY <1>7 DEF Next, Operator, Edit, SlowEdit, SlowEditEnds, Delete, RunNow, Nudged, LocalChange, Due, Fire, NudgeLost,
                  LateArrives, plugin, vars
    <2> QED BY <2>1
  <1> QED BY <1>1, <1>2, <1>3, <1>4, <1>5, <1>6, <1>7

LEMMA NextJobsListed ==
  ASSUME TypeOK, JobsListed, [Next]_vars
  PROVE  JobsListed'
  <1>1. CASE PassBegins
    <2>1. jobs' = jobs /\ pass'.listed = jobs
      BY <1>1 DEF PassBegins, gateway
    <2>2. Own' = Own /\ ListedOwn' = Own
      BY <2>1 DEF Own, ListedOwn
    <2> QED BY <2>2 DEF JobsListed, OneJob
  <1>2. CASE Update \/ Add
    <2>1. pass'.at \notin {"asked", "item"} /\ pass.at = "item"
      BY <1>2 DEF Update, Add, Present, Brought, ToReport
    <2>2. \E j \in JobIds : Own' \subseteq {j}
      <3>1. CASE Update
        <4>1. PICK j \in Existing : \E now \in Anchors : jobs' = [jobs EXCEPT ![j] = Stored(Params(j), now)]
          BY <3>1 DEF Update
        <4>2. Own \subseteq {j} /\ j \in JobIds
          BY <2>1, <4>1, OwnIsExisting DEF Existing, Found
        <4>3. \A i \in JobIds : i # j => jobs'[i] = jobs[i]
          BY <4>1 DEF TypeOK
        <4> QED BY <4>2, <4>3 DEF Own
      <3>2. CASE Add
        <4>1. Own = {}
          BY <2>1, <3>2, OwnIsExisting DEF Add
        <4>2. \E job : jobs' = [jobs EXCEPT ![made + 1] = job]
          BY <3>2 DEF Add
        <4>3. \A i \in JobIds : i # made + 1 => jobs'[i] = jobs[i]
          BY <4>2 DEF TypeOK
        <4>4. made + 1 \in JobIds
          BY <3>2, AutomationsAssumption DEF Add, TypeOK, JobIds
        <4> QED BY <4>1, <4>3, <4>4 DEF Own
      <3> QED BY <1>2, <3>1, <3>2
    <2> QED BY <2>1, <2>2 DEF JobsListed, OneJob
  <1>3. CASE ~(PassBegins \/ Update \/ Add)
    <2>1. Own' \subseteq Own
      BY <1>3, OwnShrinks
    <2>2. OneJob'
      BY <2>1 DEF JobsListed, OneJob
    <2>3. ASSUME pass'.at \in {"asked", "item"}
          PROVE  Own' \subseteq ListedOwn' /\ \A i, j \in ListedOwn' : i = j
      <3>1. pass.at \in {"asked", "item"} /\ pass'.listed = pass.listed
        BY <1>3, <2>3, ListKept
      <3>2. ListedOwn' = ListedOwn
        BY <3>1 DEF ListedOwn
      <3> QED BY <2>1, <3>1, <3>2 DEF JobsListed
    <2> QED BY <2>2, <2>3 DEF JobsListed
  <1> QED BY <1>1, <1>2, <1>3

-----------------------------------------------------------------------------
(* Removals and reports *)

\* What the server makes of a report, by the row it read.
LEMMA ReportedMoves ==
  ASSUME NEW known \in Rows, NEW report \in Reports
  PROVE  LET want == Reported(known, report)
         IN  /\ want \in Rows /\ want.gen = known.gen
             /\ \/ want.state = known.state
                \/ want.state = "gone" /\ known.state = "removing" /\ report.status = "removed"
             /\ \/ want.sync = known.sync
                \/ /\ known.state = "live" /\ Current(known, report)
                   /\ report.status = "failed" => want.sync = "failed"
             /\ want.runObserved \in Nat /\ want.runObserved >= known.runObserved
             /\ known.state = "gone" \/ want.runObserved >= report.runObserved
             /\ want.runObserved \in {known.runObserved, report.runObserved}
  <1> DEFINE want == Reported(known, report)
             told == [known EXCEPT !.job = IF report.job = NoJob THEN @ ELSE report.job,
                                   !.runObserved = RunObserved(@, report.runObserved)]
  <1>1. known.runObserved \in Nat /\ report.runObserved \in Nat /\ want \in Rows
    BY ReportedType DEF Rows, Reports, Clicks
  <1>2. /\ told.gen = known.gen /\ told.state = known.state /\ told.sync = known.sync
        /\ told.runObserved = RunObserved(known.runObserved, report.runObserved)
    BY DEF Rows
  <1>3. /\ told.runObserved >= known.runObserved /\ told.runObserved >= report.runObserved
        /\ told.runObserved \in {known.runObserved, report.runObserved}
    BY <1>1, <1>2 DEF RunObserved
  <1>4. told \in Rows
    BY DEF Rows, Reports, RunObserved
  <1>5. CASE known.state = "gone"
    <2>1. want = known
      BY <1>5 DEF Reported
    <2> HIDE DEF told, want
    <2> QED BY <1>1, <1>5, <2>1 DEF want
  <1>6. CASE known.state = "removing"
    <2>1. \/ report.status = "removed" /\ want = [told EXCEPT !.state = "gone"]
          \/ want = told
      BY <1>6 DEF Reported
    <2> HIDE DEF told, want
    <2>2. want.gen = told.gen /\ want.sync = told.sync /\ want.runObserved = told.runObserved
      BY <1>4, <2>1 DEF Rows
    <2>3. want.state = told.state \/ (want.state = "gone" /\ report.status = "removed")
      BY <1>4, <2>1 DEF Rows
    <2> QED BY <1>1, <1>2, <1>3, <1>6, <2>2, <2>3 DEF want
  <1>7. CASE known.state = "live"
    <2>1. \/ want = told
          \/ Current(known, report) /\ want =
               [told EXCEPT !.sync = IF report.status = "failed" THEN "failed" ELSE "applied"]
      BY <1>7 DEF Reported
    <2> HIDE DEF told, want
    <2>2. want.gen = told.gen /\ want.state = told.state /\ want.runObserved = told.runObserved
      BY <1>4, <2>1 DEF Rows
    <2>3. \/ want.sync = told.sync
          \/ Current(known, report) /\ (report.status = "failed" => want.sync = "failed")
      BY <1>4, <2>1 DEF Rows
    <2> QED BY <1>1, <1>2, <1>3, <1>7, <2>2, <2>3 DEF want
  <1> QED BY <1>5, <1>6, <1>7 DEF Rows

\* What is written of a report, by a handler whose row may be behind.
LEMMA TakesMoves ==
  ASSUME TypeOK, NEW posted \in Posted, Behind(posted.known), Takes(posted)
  PROVE  /\ row'.gen = row.gen /\ crossed \subseteq crossed'
         /\ \/ row'.state = row.state
            \/ row'.state = "gone" /\ row.state # "live" /\ posted.report.status = "removed"
         /\ \/ row'.sync = row.sync
            \/ row'.gen \in crossed'
            \/ /\ posted.report.gen >= row.gen
               /\ posted.report.status = "failed" => row'.sync = "failed"
         /\ \/ unreported' = unreported /\ row'.runObserved >= row.runObserved
            \/ unreported' = unreported + 1
         /\ row.state = "gone" => row'.state = "gone"
         /\ \/ row'.state = "gone" \/ unreported' = unreported + 1
            \/ row'.runObserved >= posted.report.runObserved
            \/ /\ AsRead(posted.known).runObserved >= posted.report.runObserved
               /\ row'.runObserved = row.runObserved
  <1> DEFINE known == AsRead(posted.known)
             report == posted.report
             want == Reported(known, report)
  <1>1. /\ known \in Rows /\ report \in Reports /\ want \in Rows /\ row \in Rows
        /\ Writes(known, want)
    BY AsReadType, ReportedType DEF TypeOK, Takes
  <1>2. \/ known = row
        \/ /\ known.gen <= row.gen /\ known.state # "gone"
           /\ known.state = "removing" => row.state # "live"
    BY DEF Behind, AsRead
  <1>3. /\ known.runObserved \in Nat /\ report.runObserved \in Nat /\ row.runObserved \in Nat
        /\ known.gen \in Nat /\ row.gen \in Nat /\ report.gen \in Nat /\ unreported \in Nat
    <2> HIDE DEF known, report, want
    <2> QED BY <1>1 DEF Rows, Reports, Clicks, Gens, TypeOK
  <1>4. /\ want.gen = known.gen
        /\ \/ want.state = known.state
           \/ want.state = "gone" /\ known.state = "removing" /\ report.status = "removed"
        /\ \/ want.sync = known.sync
           \/ /\ known.state = "live" /\ Current(known, report)
              /\ report.status = "failed" => want.sync = "failed"
        /\ want.runObserved \in Nat /\ want.runObserved >= known.runObserved
        /\ known.state = "gone" \/ want.runObserved >= report.runObserved
        /\ want.runObserved \in {known.runObserved, report.runObserved}
    BY <1>1, ReportedMoves
  <1>5. /\ crossed \subseteq crossed'
        /\ (known.gen = row.gen /\ known.sync = row.sync) \/ row'.gen \in crossed'
        /\ unreported' = unreported +
             (IF known.runObserved # row.runObserved /\ row'.runObserved < row.runObserved THEN 1 ELSE 0)
    BY <1>1 DEF Writes
  <1> HIDE DEF known, report, want
  <1>6. CASE row.state = "gone"
    <2>1. row' = row
      BY <1>1, <1>6, WritesIs
    <2> QED BY <1>3, <1>5, <1>6, <2>1
  <1>7. CASE row.state # "gone"
    <2>1. /\ row'.state = IF want.state # known.state THEN want.state ELSE row.state
          /\ row'.gen = IF want.gen # known.gen THEN want.gen ELSE row.gen
          /\ row'.sync = IF want.sync # known.sync THEN want.sync ELSE row.sync
          /\ row'.runObserved =
               IF want.runObserved # known.runObserved THEN want.runObserved ELSE row.runObserved
      BY <1>1, <1>7, WritesIs
    <2>2. row'.gen = row.gen
      BY <1>4, <2>1
    <2>3. \/ row'.state = row.state
          \/ row'.state = "gone" /\ row.state # "live" /\ report.status = "removed"
      BY <1>2, <1>4, <2>1
    <2>4. \/ row'.sync = row.sync
          \/ row'.gen \in crossed'
          \/ report.gen >= row.gen /\ (report.status = "failed" => row'.sync = "failed")
      BY <1>3, <1>4, <1>5, <2>1 DEF Current
    <2>5. \/ unreported' = unreported /\ row'.runObserved >= row.runObserved
          \/ unreported' = unreported + 1
      BY <1>3, <1>4, <1>5, <2>1
    <2>6. \/ row'.state = "gone" \/ unreported' = unreported + 1
          \/ row'.runObserved >= report.runObserved
          \/ known.runObserved >= report.runObserved /\ row'.runObserved = row.runObserved
      BY <1>2, <1>3, <1>4, <1>7, <2>1, <2>5
    <2> QED BY <1>5, <1>7, <2>2, <2>3, <2>4, <2>5, <2>6 DEF known, report
  <1> QED BY <1>6, <1>7

\* What an edit writes, by a handler whose row may be behind.
LEMMA EditMoves ==
  ASSUME TypeOK, NEW known \in Rows, known.gen <= row.gen, NEW spec \in Specs,
         row.state # "gone", row.gen < MaxGen, Writes(known, Edited(known, spec))
  PROVE  /\ row'.gen = row.gen + 1 /\ row'.state = row.state /\ row'.runObserved = row.runObserved
         /\ unreported' = unreported /\ crossed \subseteq crossed'
         /\ row'.sync # "applied" \/ row'.gen \in crossed'
  <1> DEFINE want == Edited(known, spec)
  <1>1. /\ row \in Rows /\ want \in Rows /\ row.gen \in Nat /\ known.gen \in Nat /\ row.runObserved \in Nat
        /\ unreported \in Nat
    BY EditedType DEF TypeOK, Rows, Gens, Clicks
  <1>2. /\ want.gen = row.gen + 1 /\ want.sync = "requested"
        /\ want.state = known.state /\ want.runObserved = known.runObserved
    BY DEF Edited, Rows
  <1> HIDE DEF want
  <1>3. /\ row'.state = IF want.state # known.state THEN want.state ELSE row.state
        /\ row'.gen = IF want.gen # known.gen THEN want.gen ELSE row.gen
        /\ row'.sync = IF want.sync # known.sync THEN want.sync ELSE row.sync
        /\ row'.runObserved =
             IF want.runObserved # known.runObserved THEN want.runObserved ELSE row.runObserved
        /\ crossed \subseteq crossed'
    BY <1>1, WritesIs DEF want
  <1>4. /\ row'.gen = row.gen + 1 /\ row'.state = row.state /\ row'.runObserved = row.runObserved
        /\ row'.sync = IF known.sync # "requested" THEN "requested" ELSE row.sync
    BY <1>1, <1>2, <1>3
  <1>5. /\ known.sync = row.sync \/ row'.gen \in crossed'
        /\ unreported' = unreported
    BY <1>1, <1>4 DEF Writes
  <1> QED BY <1>3, <1>4, <1>5

\* What the operator does to the row.
LEMMA OperatorMoves ==
  ASSUME TypeOK, ReadsBehind, Operator
  PROVE  /\ pass' = pass /\ dirty' = dirty /\ late' = late /\ jobs' = jobs
         /\ brought' = brought /\ runs' = runs /\ stranded' = stranded /\ heard' = heard /\ read' = read
         /\ unreported' = unreported /\ crossed \subseteq crossed'
         /\ row'.gen \in {row.gen, row.gen + 1} /\ row'.runObserved = row.runObserved
         /\ row'.state = row.state \/ (row.state = "live" /\ row'.state = "removing")
         /\ \/ row'.sync # "applied" \/ row'.state # "live" \/ row'.gen \in crossed'
            \/ row'.sync = row.sync /\ row'.gen = row.gen /\ row'.state = row.state
  <1>1. row \in Rows /\ row.gen \in Nat
    BY DEF TypeOK, Rows, Gens
  <1>2. CASE \E spec \in Specs : Edit(spec)
    <2>1. PICK spec \in Specs : Edit(spec)
      BY <1>2
    <2>2. row.state # "gone" /\ row.gen < MaxGen /\ Writes(row, Edited(row, spec)) /\ row.gen <= row.gen
      BY <1>1, <2>1 DEF Edit, Editable
    <2>3. /\ row'.gen = row.gen + 1 /\ row'.state = row.state /\ row'.runObserved = row.runObserved
          /\ unreported' = unreported /\ crossed \subseteq crossed'
          /\ row'.sync # "applied" \/ row'.gen \in crossed'
      BY <1>1, <2>2, EditMoves
    <2> QED BY <2>1, <2>3 DEF Edit, Nudged, gateway, plugin
  <1>3. CASE \E spec \in Specs : SlowEdit(spec)
    BY <1>3 DEF SlowEdit, gateway, plugin, hist, writes
  <1>4. CASE SlowEditEnds
    <2>1. PICK edit \in edits : Writes(edit.known, Edited(edit.known, edit.spec))
      BY <1>4 DEF SlowEditEnds
    <2>2. edit.known \in Rows /\ edit.spec \in Specs
      BY <2>1 DEF TypeOK
    <2>3. edit.known.gen <= row.gen
      BY <2>1, <2>2, RowsAreRead DEF ReadsBehind, Behind
    <2>4. /\ row'.gen = row.gen + 1 /\ row'.state = row.state /\ row'.runObserved = row.runObserved
          /\ unreported' = unreported /\ crossed \subseteq crossed'
          /\ row'.sync # "applied" \/ row'.gen \in crossed'
      BY <1>4, <2>1, <2>2, <2>3, EditMoves DEF SlowEditEnds
    <2> QED BY <1>4, <2>4 DEF SlowEditEnds, Nudged, gateway, plugin
  <1>5. CASE Delete
    BY <1>1, <1>5 DEF Delete, Nudged, gateway, plugin, writes, Rows
  <1>6. CASE RunNow
    BY <1>1, <1>6 DEF RunNow, Nudged, gateway, plugin, writes, Rows
  <1> QED BY <1>2, <1>3, <1>4, <1>5, <1>6 DEF Operator

\* Who changes the row: the operator, and the server on a report under way.
LEMMA RowMoves ==
  ASSUME TypeOK, ReadsBehind, [Next]_vars
  PROVE  \/ row' = row /\ crossed' = crossed
         \/ Operator
         \/ \E posted \in Posted :
              Takes(posted) /\ Behind(posted.known) /\ posted.report \in Pending
  <1>1. CASE PostServed
    BY <1>1, PassType DEF PostServed, Pending, ThisPost, ReadsBehind
  <1>2. CASE LateArrives
    BY <1>2 DEF LateArrives, Pending, LateReports, TypeOK, ReadsBehind
  <1>3. CASE ~(PostServed \/ LateArrives \/ Operator)
    BY <1>3 DEF Next, LocalChange, Due, Fire, NudgeArrives, NudgeLost, PassBegins, SlowReport,
                Asks, DesiredServed, DesiredFails, Converge, Remove, Keep, Update, UpdateFails, Add,
                AddFails, Run, Posts, PostFails, Restart, server, hist, writes, vars
  <1> QED BY <1>1, <1>2, <1>3

\* The row goes forward: nobody takes a generation back or lets it live again.
LEMMA RowForward ==
  ASSUME TypeOK, ReadsBehind, [Next]_vars
  PROVE  row'.gen >= row.gen /\ (row'.state = "live" => row.state = "live")
  <1>1. row.gen \in Nat
    BY DEF TypeOK, Rows, Gens
  <1>2. CASE Operator
    BY <1>1, <1>2, OperatorMoves
  <1>3. ASSUME NEW posted \in Posted, Takes(posted), Behind(posted.known)
        PROVE  row'.gen >= row.gen /\ (row'.state = "live" => row.state = "live")
    BY <1>1, <1>3, TakesMoves
  <1> QED BY <1>1, <1>2, <1>3, RowMoves

LEMMA NextReadsBehind ==
  ASSUME TypeOK, ReadsBehind, [Next]_vars
  PROVE  ReadsBehind'
  <1>1. row \in Rows /\ row'.gen >= row.gen /\ (row'.state = "live" => row.state = "live")
    BY RowForward DEF TypeOK
  <1>2. row.gen \in Nat /\ row'.gen \in Nat
    <2>1. TypeOK'
      BY NextTypes
    <2>2. row \in Rows /\ row' \in Rows
      BY <2>1 DEF TypeOK
    <2> QED BY <2>2 DEF Rows, Gens
  <1>3. ASSUME NEW known, Behind(known) PROVE Behind(known)'
    <2>1. known \in Rows => known.gen \in Nat
      BY DEF Rows, Gens
    <2> QED BY <1>1, <1>2, <1>3, <2>1 DEF Behind
  <1>4. row' = row /\ row.state # "gone" => Behind(row)'
    BY <1>1, <1>2 DEF Behind
  <1>5. CASE SlowReport
    <2>1. row' = row /\ edits' = edits /\ row.state # "gone"
      BY <1>5 DEF SlowReport, server
    <2>2. \A posted \in late' : posted \in late \/ posted.known = row
      BY <1>5 DEF SlowReport, TypeOK, Posted
    <2>3. pass'.at = "report" => pass.at = "report" /\ (pass'.known = pass.known \/ pass'.known = row)
      BY <1>5, SlowPass
    <2>4. \A posted \in late' : Behind(posted.known)'
      BY <1>3, <1>4, <2>1, <2>2 DEF ReadsBehind
    <2>5. \A edit \in edits' : Behind(edit.known)'
      BY <1>3, <2>1 DEF ReadsBehind
    <2>6. pass'.at = "report" => Behind(pass.known)'
      <3> SUFFICES ASSUME pass'.at = "report" PROVE Behind(pass.known)'
        OBVIOUS
      <3>1. PICK known : known = pass'.known
        OBVIOUS
      <3>2. CASE known = pass.known
        <4>1. Behind(known)
          BY <2>3, <3>2 DEF ReadsBehind
        <4>2. Behind(known)'
          BY <1>3, <4>1
        <4> QED BY <3>1, <4>2 DEF Behind
      <3>3. CASE known = row
        BY <1>4, <2>1, <3>1, <3>3 DEF Behind
      <3> QED BY <2>3, <3>1, <3>2, <3>3
    <2> QED BY <2>4, <2>5, <2>6 DEF ReadsBehind
  <1>6. CASE ~SlowReport
    <2>1. \A posted \in late' : posted \in late \/ (pass.at = "report" /\ posted.known = pass.known)
      BY <1>6, PassType DEF Next, Operator, Edit, SlowEdit, SlowEditEnds, Delete, RunNow, Nudged, LocalChange, Due, Fire,
         NudgeArrives, NudgeLost, PassBegins, Asks, DesiredServed, DesiredFails, Converge, Remove, Keep, Update,
         UpdateFails, Add, AddFails, Run, Posts, PostServed, PostFails, GivenUp, ThisPost, LateArrives, Restart, vars
    <2>2. \A edit \in edits' : edit \in edits \/ (row' = row /\ row.state # "gone" /\ edit.known = row)
      BY <1>6 DEF Editable, Next, Operator, Edit, SlowEdit, SlowEditEnds, Delete, RunNow, Nudged, LocalChange, Due, Fire,
         NudgeArrives, NudgeLost, PassBegins, Asks, DesiredServed, DesiredFails, Converge, Remove, Keep, Update,
         UpdateFails, Add, AddFails, Run, Posts, PostServed, PostFails, LateArrives, Restart, server, vars
    <2>3. pass'.at = "report" => pass' = pass \/ pass'.known = NotRead
      <3>1. CASE Converge
        BY <3>1 DEF Converge, Remove, Keep, Update, UpdateFails, Add, AddFails, Run, Brought, ToReport
      <3>2. CASE ~Converge
        BY <1>6, <3>2 DEF Next, Operator, Edit, SlowEdit, SlowEditEnds, Delete, RunNow, Nudged, LocalChange, Due, Fire,
           NudgeArrives, NudgeLost, PassBegins, Asks, DesiredServed, DesiredFails, Ends, Posts, PostServed,
           PostFails, LateArrives, Restart, plugin, vars
      <3> QED BY <3>1, <3>2
    <2>4. \A posted \in late' : Behind(posted.known)'
      BY <1>3, <2>1 DEF ReadsBehind
    <2>5. \A edit \in edits' : Behind(edit.known)'
      BY <1>3, <1>4, <2>2 DEF ReadsBehind
    <2>6. Behind(NotRead)'
      BY DEF Behind
    <2>7. pass'.at = "report" => Behind(pass.known)'
      <3> SUFFICES ASSUME pass'.at = "report" PROVE Behind(pass.known)'
        OBVIOUS
      <3>1. PICK known : known = pass'.known
        OBVIOUS
      <3>2. CASE pass' = pass
        <4>1. Behind(known)
          BY <3>1, <3>2 DEF ReadsBehind
        <4>2. Behind(known)'
          BY <1>3, <4>1
        <4> QED BY <3>1, <4>2 DEF Behind
      <3>3. CASE pass'.known = NotRead
        BY <3>3 DEF Behind
      <3> QED BY <2>3, <3>2, <3>3
    <2> QED BY <2>4, <2>5, <2>7 DEF ReadsBehind
  <1> QED BY <1>5, <1>6

\* Only a pass that converges makes a report.
LEMMA PendingKept ==
  ASSUME TypeOK, [Next]_vars
  PROVE  Pending' \subseteq Pending \/ Converge
  <1>1. CASE Posts \/ Restart
    <2>1. /\ pass'.at \notin {"run", "report"}
          /\ late' \subseteq late \/ (pass.at = "report" /\ late' \subseteq late \cup {ThisPost})
      BY <1>1 DEF Posts, PostServed, PostFails, GivenUp, Restart, Ends, server
    <2>2. ThisPost.report = pass.report
      BY DEF ThisPost
    <2>3. LateReports' \subseteq Pending
      BY <2>1, <2>2 DEF LateReports, Pending
    <2> QED BY <2>1, <2>3 DEF Pending
  <1>2. CASE LateArrives
    BY <1>2 DEF LateArrives, plugin, Pending, LateReports
  <1>3. CASE NudgeArrives
    BY <1>3 DEF NudgeArrives, Pending, LateReports
  <1>4. CASE PassBegins \/ Asks
    BY <1>4 DEF PassBegins, Asks, DesiredServed, DesiredFails, Ends, Pending, LateReports
  <1>5. CASE SlowReport
    <2>1. /\ pass'.at = pass.at
          /\ pass.at \in {"run", "report"} => pass'.report = pass.report
      BY <1>5, SlowPass
    <2>2. \A posted \in late' : \E p \in late : posted.report = p.report
      BY <1>5 DEF SlowReport, TypeOK, Posted
    <2>3. LateReports' \subseteq LateReports
      BY <2>2 DEF LateReports
    <2> QED BY <2>1, <2>3 DEF Pending
  <1>6. CASE ~(Posts \/ Restart \/ LateArrives \/ NudgeArrives \/ PassBegins \/ Asks \/ Converge \/ SlowReport)
    <2>1. pass' = pass /\ late' = late
      BY <1>6 DEF Next, Operator, Edit, SlowEdit, SlowEditEnds, Delete, RunNow, Nudged, LocalChange, Due, Fire,
                  NudgeLost, plugin, vars
    <2> QED BY <2>1 DEF Pending, LateReports
  <1> QED BY <1>1, <1>2, <1>3, <1>4, <1>5, <1>6

\* A pass that converges is at its item, or is about to run it; it makes one report.
LEMMA PendingMade ==
  ASSUME TypeOK, Converge
  PROVE  /\ row' = row /\ late' = late /\ pass'.at \in {"run", "report"}
         /\ Pending' = LateReports \cup {pass'.report}
         /\ \/ /\ Run
               /\ pass.at = "run" /\ pass.report \in Pending
               /\ pass'.report.status = pass.report.status /\ pass'.report.gen = pass.report.gen
            \/ /\ pass.at = "item" /\ pass'.report.gen = pass.item.gen
               /\ \/ Remove /\ pass'.report.status = "removed"
                  \/ Present /\ pass'.report.status = "failed"
                  \/ Present /\ pass'.report.status = "applied" /\ pass.item.gen \in brought'
  <1>1. row' = row /\ late' = late /\ pass'.at \in {"run", "report"}
    BY DEF Converge, Remove, Keep, Update, UpdateFails, Add, AddFails, Run, Brought, ToReport, server
  <1>2. Pending' = LateReports \cup {pass'.report}
    BY <1>1 DEF Pending, LateReports
  <1>3. CASE Run
    <2>1. pass.report \in Reports
      BY <1>3, PassType DEF Run
    <2> QED BY <1>1, <1>2, <1>3, <2>1 DEF Run, Pending, Reports
  <1>4. CASE Remove
    <2>1. pass.at = "item" /\ \E j : pass'.report = Report(j, "removed")
      BY <1>4 DEF Remove, Absent, ToReport
    <2> QED BY <1>1, <1>2, <1>4, <2>1 DEF Report
  <1>5. CASE UpdateFails \/ AddFails
    <2>1. Present /\ \E j : pass'.report = Report(j, "failed")
      BY <1>5 DEF UpdateFails, AddFails, ToReport
    <2> QED BY <1>1, <1>2, <2>1 DEF Report, Present
  <1>6. CASE Keep \/ Update \/ Add
    <2>1. Present /\ \E j : Brought(j)
      BY <1>6 DEF Keep, Update, Add
    <2>2. \E j : pass'.report = Report(j, "applied")
      BY <2>1 DEF Brought, ToReport
    <2>3. pass.item.gen \in brought'
      BY <2>1 DEF Brought
    <2> QED BY <1>1, <1>2, <2>1, <2>2, <2>3 DEF Report, Present
  <1> QED BY <1>3, <1>4, <1>5, <1>6 DEF Converge

\* Where a step leaves the pass at an item, it was there, or has just read the row.
LEMMA ItemKept ==
  ASSUME TypeOK, [Next]_vars, pass'.at = "item"
  PROVE  \/ pass.at = "item" /\ pass'.item = pass.item
         \/ DesiredServed /\ row.state # "gone" /\ row' = row /\ pass'.item = row
  <1>1. CASE DesiredServed
    BY <1>1 DEF DesiredServed, Ends, server
  <1>2. CASE Converge
    BY <1>2 DEF Converge, Remove, Keep, Update, UpdateFails, Add, AddFails, Run, Brought, ToReport
  <1>3. CASE DesiredFails \/ PassBegins \/ Posts \/ Restart
    BY <1>3 DEF DesiredFails, PassBegins, Posts, PostServed, PostFails, Ends, Restart
  <1>4. CASE NudgeArrives
    BY <1>4 DEF NudgeArrives
  <1>5. CASE SlowReport
    BY <1>5, SlowPass
  <1>6. CASE ~(Asks \/ Converge \/ PassBegins \/ Posts \/ Restart \/ NudgeArrives \/ SlowReport)
    <2>1. pass' = pass
      BY <1>6 DEF Next, Operator, Edit, SlowEdit, SlowEditEnds, Delete, RunNow, Nudged, LocalChange, Due, Fire, NudgeLost,
                  LateArrives, plugin, vars
    <2> QED BY <2>1
  <1> QED BY <1>1, <1>2, <1>3, <1>4, <1>5, <1>6 DEF Asks

\* The removal was reported, or is about to be.
Removal == row.state = "gone" \/ \E r \in Pending : r.status = "removed"

LEMMA NextRemovedClean ==
  ASSUME TypeOK, JobsListed, ReadsBehind, RemovedClean, [Next]_vars
  PROVE  RemovedClean'
  <1>1. row.state \in {"live", "removing", "gone"}
    BY DEF TypeOK, Rows
  <1>2. Removal => /\ row.state # "live" /\ Own \subseteq stranded
                   /\ pass.at = "item" => pass.item.state = "removing"
    BY DEF RemovedClean, Removal
  <1>3. CASE Operator
    <2>1. /\ row'.state = row.state \/ (row.state = "live" /\ row'.state = "removing")
          /\ pass' = pass /\ late' = late /\ jobs' = jobs /\ stranded' = stranded
      BY <1>3, OperatorMoves
    <2>2. Pending' = Pending /\ Own' = Own
      BY <2>1 DEF Pending, LateReports, Own
    <2>3. Removal' => Removal
      BY <2>1, <2>2 DEF Removal
    <2> QED BY <1>2, <2>1, <2>2, <2>3 DEF RemovedClean, Removal
  <1>4. CASE Remove
    <2>1. pass.at = "item" /\ pass.item.state = "removing" /\ row' = row /\ row.state # "live"
      BY <1>4 DEF Remove, Absent, server, RemovedClean
    <2>2. pass'.at # "item"
      BY <1>4, PendingMade DEF Converge
    <2>3. Own' \subseteq stranded'
      <3>1. CASE Existing = {}
        <4>1. jobs' = jobs \/ \E j \in Existing : TRUE
          BY <1>4 DEF Remove
        <4> QED BY <2>1, <3>1, <4>1, OwnIsExisting DEF Own
      <3>2. CASE Existing # {}
        <4>1. PICK j \in Existing : \/ jobs' = [jobs EXCEPT ![j] = Gone]
                                    \/ jobs' = jobs /\ stranded' = stranded \cup {j}
          BY <1>4, <3>2 DEF Remove
        <4>2. Own \subseteq {j} /\ j \in JobIds
          BY <2>1, OwnIsExisting DEF Existing, Found
        <4> QED BY <4>1, <4>2 DEF Own, TypeOK
      <3> QED BY <3>1, <3>2
    <2> QED BY <2>1, <2>2, <2>3 DEF RemovedClean
  <1>5. CASE Converge /\ ~Remove /\ ~Run
    <2>1. Present /\ pass'.report.status # "removed" /\ row' = row
          /\ Pending' = LateReports \cup {pass'.report} /\ pass'.at # "item"
      BY <1>5, PendingMade
    <2>2. ~Removal
      BY <1>2, <2>1 DEF Present
    <2>3. ~Removal'
      BY <2>1, <2>2 DEF Removal, Pending
    <2> QED BY <2>1, <2>3 DEF RemovedClean, Removal
  <1>6. CASE Run
    <2>1. /\ row' = row /\ jobs' = jobs /\ stranded' = stranded /\ pass'.at # "item"
          /\ Pending' = LateReports \cup {pass'.report}
          /\ pass.report \in Pending /\ pass'.report.status = pass.report.status
      BY <1>6, PendingMade DEF Converge, Run, gateway
    <2>2. Removal' => Removal
      BY <2>1 DEF Removal, Pending
    <2>3. Own' = Own
      BY <2>1 DEF Own
    <2> QED BY <1>2, <2>1, <2>2, <2>3 DEF RemovedClean, Removal
  <1>7. CASE ~Operator /\ ~Converge
    <2>1. Pending' \subseteq Pending
      BY <1>7, PendingKept
    <2>2. Own' \subseteq Own
      BY <1>7, OwnShrinks DEF Converge
    <2>3. stranded' = stranded
      BY <1>7 DEF Next, LocalChange, Due, Fire, NudgeArrives, NudgeLost, PassBegins, Asks, DesiredServed,
                  DesiredFails, SlowReport, Posts, PostServed, PostFails, LateArrives, Restart, hist, vars
    <2>4. /\ row'.state = "live" => row.state = "live"
          /\ row'.state = "gone" => Removal
      BY <1>7, RowMoves, TakesMoves DEF Removal
    <2>5. Removal' => Removal
      BY <2>1, <2>4 DEF Removal
    <2>6. CASE pass'.at = "item" /\ ~(pass.at = "item" /\ pass'.item = pass.item)
      <3>1. row.state # "gone" /\ row' = row /\ pass'.item = row
        BY <2>6, ItemKept
      <3> QED BY <1>1, <1>2, <2>2, <2>3, <2>5, <3>1 DEF RemovedClean, Removal
    <2>7. CASE pass'.at = "item" => pass.at = "item" /\ pass'.item = pass.item
      BY <1>2, <2>2, <2>3, <2>4, <2>5, <2>7 DEF RemovedClean, Removal
    <2> QED BY <2>6, <2>7
  <1> QED BY <1>3, <1>4, <1>5, <1>6, <1>7

LEMMA NextReportsTrue ==
  ASSUME TypeOK, ReadsBehind, RemovedClean, ReportsTrue, [Next]_vars
  PROVE  ReportsTrue'
  <1>1. row.gen \in Nat /\ Pending \subseteq Reports
    BY PassType DEF TypeOK, Rows, Gens, Pending, LateReports, Posted
  <1>2. CASE Operator
    <2>1. pass' = pass /\ late' = late /\ brought' = brought
      BY <1>2, OperatorMoves
    <2>2. /\ row'.gen \in {row.gen, row.gen + 1} /\ crossed \subseteq crossed'
          /\ \/ row'.sync # "applied" \/ row'.state # "live" \/ row'.gen \in crossed'
             \/ row'.sync = row.sync /\ row'.gen = row.gen /\ row'.state = row.state
      BY <1>2, OperatorMoves
    <2>3. pass.at = "item" => pass.item.gen \in Nat
      BY PassType DEF Rows, Gens
    <2>4. Pending' = Pending /\ \A r \in Pending : r.gen \in Nat
      BY <1>1, <2>1 DEF Pending, LateReports, Reports, Gens
    <2> QED BY <1>1, <2>1, <2>2, <2>3, <2>4 DEF ReportsTrue, AppliedBrought
  <1>3. CASE Converge
    <2>1. brought \subseteq brought' /\ crossed' = crossed
      BY <1>3 DEF Converge, Remove, Keep, Update, UpdateFails, Add, AddFails, Run, Brought, hist, writes
    <2>2. /\ row' = row /\ pass'.at # "item" /\ late' = late
          /\ Pending' = LateReports \cup {pass'.report} /\ LateReports \subseteq Pending
      BY <1>3, PendingMade DEF Pending
    <2>3. /\ pass'.report.gen <= row.gen
          /\ pass'.report.status = "applied" => pass'.report.gen \in brought'
      BY <1>3, <2>1, PendingMade DEF ReportsTrue
    <2> QED BY <2>1, <2>2, <2>3 DEF ReportsTrue, AppliedBrought
  <1>4. CASE ~Operator /\ ~Converge
    <2>1. Pending' \subseteq Pending
      BY <1>4, PendingKept
    <2>2. brought' = brought
      BY <1>4 DEF Next, LocalChange, Due, Fire, NudgeArrives, NudgeLost, PassBegins, Asks, DesiredServed,
                  DesiredFails, SlowReport, Posts, PostServed, PostFails, LateArrives, Restart, hist, vars
    <2>3. row'.gen = row.gen /\ AppliedBrought'
      <3>1. CASE row' = row /\ crossed' = crossed
        BY <2>2, <3>1 DEF ReportsTrue, AppliedBrought
      <3>2. ASSUME NEW posted \in Posted, Takes(posted), Behind(posted.known), posted.report \in Pending
            PROVE  row'.gen = row.gen /\ AppliedBrought'
        <4>1. /\ row'.gen = row.gen /\ crossed \subseteq crossed'
              /\ row'.state = row.state \/ row'.state = "gone"
              /\ \/ row'.sync = row.sync
                 \/ row'.gen \in crossed'
                 \/ /\ posted.report.gen >= row.gen
                    /\ posted.report.status = "failed" => row'.sync = "failed"
          BY <3>2, TakesMoves
        <4>2. CASE row'.state = "gone" \/ row'.gen \in crossed'
          BY <4>1, <4>2 DEF AppliedBrought
        <4>3. CASE row'.sync = row.sync /\ row'.state = row.state
          BY <2>2, <4>1, <4>3 DEF ReportsTrue, AppliedBrought
        <4>4. CASE /\ row'.state = row.state /\ posted.report.gen >= row.gen
                   /\ posted.report.status = "failed" => row'.sync = "failed"
          <5> SUFFICES ASSUME row'.state = "live", row'.sync = "applied" PROVE row'.gen \in brought'
            BY <4>1 DEF AppliedBrought
          <5>1. posted.report.gen = row.gen
            BY <1>1, <3>2, <4>4 DEF ReportsTrue, Reports, Gens
          <5>2. posted.report.status = "applied"
            BY <1>1, <3>2, <4>4 DEF RemovedClean, Reports
          <5> QED BY <2>2, <3>2, <4>1, <5>1, <5>2 DEF ReportsTrue
        <4> QED BY <4>1, <4>2, <4>3, <4>4
      <3> QED BY <1>4, <3>1, <3>2, RowMoves
    <2>4. pass'.at = "item" => pass'.item.gen <= row'.gen
      BY <1>1, <2>3, ItemKept DEF ReportsTrue
    <2> QED BY <2>1, <2>2, <2>3, <2>4 DEF ReportsTrue
  <1> QED BY <1>2, <1>3, <1>4

-----------------------------------------------------------------------------
(* Nudges and runs *)

\* A pass that ends is followed by another one, or what it read was enough.
LEMMA NextNudgesHeard ==
  ASSUME TypeOK, NudgesHeard, [Next]_vars
  PROVE  NudgesHeard'
  <1>1. version \in Nat /\ nudge \in Nat /\ heard \in Nat /\ read \in Nat
    BY DEF TypeOK
  <1>2. CASE Operator
    <2>1. /\ \/ nudge' = version + 1 /\ version' = version + 1
             \/ nudge' = nudge /\ version' = version
          /\ UNCHANGED <<heard, read, pass, dirty>>
      BY <1>2 DEF Operator, Edit, SlowEdit, SlowEditEnds, Delete, RunNow, Nudged, plugin, hist
    <2> QED BY <1>1, <2>1 DEF NudgesHeard, NeverSleepsOnNudge
  <1>3. CASE NudgeArrives
    BY <1>1, <1>3 DEF NudgeArrives, NudgesHeard, NeverSleepsOnNudge, NoNudge
  <1>4. CASE NudgeLost
    BY <1>1, <1>4 DEF NudgeLost, NoNudge, plugin, hist, NudgesHeard, NeverSleepsOnNudge
  <1>5. CASE PassBegins
    BY <1>5 DEF PassBegins, server, hist, NudgesHeard, NeverSleepsOnNudge
  <1>6. CASE Asks
    <2>1. nudge' = nudge /\ version' = version /\ heard' = heard /\ read' \in {version, Unread}
      BY <1>6 DEF Asks, DesiredServed, DesiredFails, server
    <2> QED BY <1>1, <2>1 DEF NudgesHeard, NeverSleepsOnNudge
  <1>7. CASE Converge
    <2>1. pass'.at \in {"run", "report"} /\ pass.at \in {"item", "run"}
      BY <1>7, PendingMade
    <2>2. nudge' = nudge /\ version' = version /\ heard' = heard /\ read' = read /\ (dirty => dirty')
      BY <1>7 DEF Converge, Remove, Keep, Update, UpdateFails, Add, AddFails, Run, server, hist
    <2> QED BY <2>1, <2>2 DEF NudgesHeard, NeverSleepsOnNudge
  <1>8. CASE Posts
    <2>1. /\ nudge' = nudge /\ version' = version /\ heard' = heard /\ read' = read
          /\ pass.at = "report" /\ pass'.at \in {"begin", "sleep"} /\ (dirty => pass'.at = "begin")
      BY <1>8 DEF Posts, PostServed, PostFails, Ends, server, hist
    <2> QED BY <2>1 DEF NudgesHeard, NeverSleepsOnNudge
  <1>9. CASE Restart
    BY <1>1, <1>9 DEF Restart, server, NudgesHeard, NeverSleepsOnNudge
  <1>10. CASE SlowReport
    <2>1. /\ nudge' = nudge /\ version' = version /\ heard' = heard /\ read' = read /\ dirty' = dirty
          /\ pass'.at = pass.at
      BY <1>10, SlowPass DEF SlowReport, server, hist
    <2> QED BY <2>1 DEF NudgesHeard, NeverSleepsOnNudge
  <1>11. CASE ~(Operator \/ NudgeArrives \/ NudgeLost \/ PassBegins \/ Asks \/ Converge \/ Posts \/ Restart \/ SlowReport)
    <2>1. UNCHANGED <<nudge, version, heard, read, pass, dirty>>
      BY <1>11 DEF Next, LocalChange, Due, Fire, LateArrives, server, plugin, hist, vars
    <2> QED BY <2>1 DEF NudgesHeard, NeverSleepsOnNudge
  <1> QED BY <1>2, <1>3, <1>4, <1>5, <1>6, <1>7, <1>8, <1>9, <1>10, <1>11

\* What the server knows of a click it forgets only where that is counted.
LEMMA ServerRemembers ==
  ASSUME TypeOK, ReadsBehind, [Next]_vars,
         NEW c \in Clicks, row.state = "gone" \/ c <= row.runObserved, unreported' = unreported
  PROVE  row'.state = "gone" \/ c <= row'.runObserved
  <1>1. row.runObserved \in Nat /\ row'.runObserved \in Nat /\ c \in Nat /\ unreported \in Nat
    <2>1. TypeOK'
      BY NextTypes
    <2>2. row \in Rows /\ row' \in Rows /\ unreported \in Nat
      BY <2>1 DEF TypeOK
    <2>3. row.runObserved \in Clicks \cup {0} /\ row'.runObserved \in Clicks \cup {0}
      BY <2>2 DEF Rows
    <2> QED BY <2>2, <2>3 DEF Clicks
  <1>2. CASE Operator
    BY <1>2, OperatorMoves
  <1>3. ASSUME NEW posted \in Posted, Takes(posted), Behind(posted.known)
        PROVE  row'.state = "gone" \/ c <= row'.runObserved
    <2>1. /\ row.state = "gone" => row'.state = "gone"
          /\ unreported' = unreported + 1 \/ row'.runObserved >= row.runObserved
      BY <1>3, TakesMoves
    <2> QED BY <1>1, <2>1
  <1> QED BY <1>2, <1>3, RowMoves

LEMMA NextRunsCounted ==
  ASSUME TypeOK, ReadsBehind, RunsCounted, [Next]_vars
  PROVE  RunsCounted'
  <1> SUFFICES ASSUME NEW c \in Clicks
               PROVE  \/ runs'[c] <= unreported'
                      \/ runs'[c] <= 1 + unreported' /\ (Observed(c)' \/ Telling(c)')
    BY DEF RunsCounted
  <1>1. /\ runs \in [Clicks -> Nat] /\ runs[c] \in Nat /\ unreported \in Nat /\ c \in Nat
        /\ \/ runs[c] <= unreported
           \/ runs[c] <= 1 + unreported /\ (Observed(c) \/ Telling(c))
    BY DEF TypeOK, RunsCounted, Clicks
  <1>2. CASE Run
    <2>1. pass.at = "run" /\ pass.click \in Clicks /\ pass.report \in Reports
      BY <1>2, PassType DEF Run
    <2>2. /\ runs' = [runs EXCEPT ![pass.click] = @ + 1] /\ unreported' = unreported /\ row' = row
          /\ pass' = [at |-> "report", report |-> [pass.report EXCEPT !.runObserved = pass.click],
                      known |-> NotRead, ran |-> TRUE]
      BY <1>2 DEF Run, server, hist, writes
    <2>3. ~Telling(c)
      BY <2>1 DEF Telling
    <2>4. CASE c = pass.click
      <3>1. ~Observed(c)
        BY <2>1, <2>4 DEF Observed
      <3>2. runs'[c] = runs[c] + 1
        BY <1>1, <2>2, <2>4
      <3>3. Telling(c)'
        <4>1. pass'.report.runObserved = c /\ pass'.at = "report" /\ pass'.ran
          BY <2>1, <2>2, <2>4 DEF Reports
        <4>2. AsRead(pass.known)' = row'
          BY <2>2 DEF AsRead
        <4> QED BY <4>1, <4>2 DEF Telling
      <3> QED BY <1>1, <2>2, <2>3, <3>1, <3>2, <3>3
    <2>5. CASE c # pass.click
      <3>1. runs'[c] = runs[c]
        BY <1>1, <2>1, <2>2, <2>5
      <3>2. Observed(c) => Observed(c)'
        BY <2>2 DEF Observed
      <3> QED BY <1>1, <2>2, <2>3, <3>1, <3>2
    <2> QED BY <2>4, <2>5
  <1>3. CASE PostFails \/ Restart
    <2>1. runs' = runs /\ row' = row /\ pass'.at \in {"begin", "sleep"}
      BY <1>3 DEF PostFails, Restart, Ends, server
    <2>2. CASE Telling(c)
      <3>1. unreported' = unreported + 1
        BY <1>3, <2>2 DEF Telling, PostFails, Restart, GivenUp
      <3> QED BY <1>1, <2>1, <3>1
    <2>3. CASE ~Telling(c)
      <3>1. unreported' \in {unreported, unreported + 1}
        BY <1>1, <1>3, PassType DEF PostFails, Restart, GivenUp
      <3>2. Observed(c) => Observed(c)'
        BY <2>1 DEF Observed
      <3> QED BY <1>1, <2>1, <2>3, <3>1, <3>2
    <2> QED BY <2>2, <2>3
  <1>4. CASE ~(Run \/ PostFails \/ Restart)
    <2>1. runs' = runs /\ unreported' \in {unreported, unreported + 1}
      <3>1. CASE Operator
        BY <3>1, OperatorMoves
      <3>2. CASE PostServed \/ LateArrives
        <4>1. PICK posted \in Posted : Takes(posted)
          BY <3>2, PassType DEF PostServed, LateArrives, TypeOK
        <4>2. unreported' \in {unreported, unreported + 1}
          BY <4>1, AsReadType, ReportedType, WritesIs DEF Takes
        <4> QED BY <3>2, <4>2 DEF PostServed, LateArrives
      <3>3. CASE ~(Operator \/ PostServed \/ LateArrives)
        BY <1>4, <3>3 DEF Next, LocalChange, Due, Fire, NudgeArrives, NudgeLost, SlowReport,
                  PassBegins, Asks, DesiredServed, DesiredFails, Converge, Remove, Keep, Update, UpdateFails,
                  Add, AddFails, Brought, Posts, hist, writes, vars
      <3> QED BY <3>1, <3>2, <3>3
    <2>2. CASE unreported' = unreported + 1
      BY <1>1, <2>1, <2>2
    <2>3. CASE unreported' = unreported
      <3>1. Observed(c) => Observed(c)'
        <4> SUFFICES ASSUME Observed(c) PROVE Observed(c)'
          OBVIOUS
        <4>1. row'.state = "gone" \/ c <= row'.runObserved
          BY <2>3, ServerRemembers DEF Observed
        <4>2. pass'.at = "item" => c <= pass'.item.runObserved
          BY ItemKept DEF Observed
        <4>3. pass'.at = "run" => pass'.click # c
          <5>1. CASE Converge
            <6>1. ASSUME pass'.at = "run" PROVE \E j : Brought(j) /\ pass.at = "item"
              BY <1>4, <5>1, <6>1 DEF Converge, Remove, Keep, Update, UpdateFails, Add, AddFails, Present, ToReport
            <6>2. ASSUME NEW j, Brought(j), pass'.at = "run"
                  PROVE  pass'.click = pass.item.runRequested /\ pass.item.runRequested > pass.item.runObserved
              BY <6>2 DEF Brought, ToReport
            <6>3. pass.at = "item" => /\ pass.item.runObserved \in Nat /\ pass.item.runRequested \in Nat
                                      /\ c <= pass.item.runObserved
              BY PassType DEF Observed, Rows, Clicks
            <6> QED BY <1>1, <6>1, <6>2, <6>3
          <5>2. CASE Asks \/ PassBegins \/ PostServed
            BY <5>2 DEF Asks, DesiredServed, DesiredFails, PassBegins, PostServed, Ends
          <5>3. CASE NudgeArrives
            BY <5>3 DEF NudgeArrives, Observed
          <5>4. CASE SlowReport
            BY <5>4, SlowPass DEF Observed
          <5>5. CASE ~(Converge \/ Asks \/ PassBegins \/ PostServed \/ NudgeArrives \/ SlowReport)
            <6>1. pass' = pass
              BY <1>4, <5>5 DEF Next, Operator, Edit, SlowEdit, SlowEditEnds, Delete, RunNow, Nudged, LocalChange, Due, Fire, NudgeLost,
                                Posts, LateArrives, plugin, vars
            <6> QED BY <6>1 DEF Observed
          <5> QED BY <5>1, <5>2, <5>3, <5>4, <5>5
        <4> QED BY <4>1, <4>2, <4>3 DEF Observed
      <3>2. Telling(c) => Observed(c)' \/ Telling(c)'
        <4> SUFFICES ASSUME Telling(c) PROVE Observed(c)' \/ Telling(c)'
          OBVIOUS
        <4>1. /\ pass.at = "report" /\ pass.report.runObserved = c /\ ThisPost \in Posted
              /\ ThisPost.known = pass.known /\ ThisPost.report = pass.report
          BY PassType DEF Telling, ThisPost
        <4>2. /\ row.runObserved \in Nat /\ row'.runObserved \in Nat
              /\ AsRead(pass.known) \in Rows /\ AsRead(pass.known).runObserved \in Nat
          <5>1. AsRead(pass.known) \in Rows /\ row \in Rows /\ row' \in Rows
            BY <4>1, NextTypes, AsReadType DEF TypeOK
          <5> QED BY <5>1 DEF Rows, Clicks
        <4>3. CASE PostServed
          <5>1. Takes(ThisPost) /\ Behind(ThisPost.known) /\ pass'.at \in {"begin", "sleep"}
            BY <4>1, <4>3 DEF PostServed, Ends, ReadsBehind
          <5>2. /\ row.state = "gone" => row'.state = "gone"
                /\ \/ row'.state = "gone" \/ row'.runObserved >= c
                   \/ AsRead(pass.known).runObserved >= c /\ row'.runObserved = row.runObserved
            BY <1>1, <2>3, <4>1, <5>1, TakesMoves
          <5>3. row'.state = "gone" \/ c <= row'.runObserved
            BY <1>1, <4>2, <5>2 DEF Telling
          <5> QED BY <5>1, <5>3 DEF Observed
        <4>4. CASE SlowReport /\ pass' # pass
          <5>1. /\ pass'.at = "report" /\ pass'.ran = pass.ran /\ pass'.report = pass.report
                /\ pass.known = NotRead /\ pass'.known = row /\ row' = row
            BY <4>4, SlowPass DEF SlowReport, server
          <5>2. AsRead(pass.known)' = row /\ AsRead(pass.known) = row
            BY <5>1 DEF AsRead
          <5> QED BY <5>1, <5>2 DEF Telling
        <4>5. CASE ~(PostServed \/ (SlowReport /\ pass' # pass))
          <5>1. pass' = pass
            BY <1>4, <4>1, <4>5 DEF Next, Operator, Edit, SlowEdit, SlowEditEnds, Delete, RunNow, Nudged, LocalChange, Due, Fire,
               NudgeArrives, NudgeLost, PassBegins, Asks, DesiredServed, DesiredFails, Converge, Remove, Absent,
               Keep, Update, UpdateFails, Add, AddFails, Present, Posts, LateArrives, plugin, vars
          <5>2. CASE pass.known = NotRead
            <6>1. AsRead(pass.known)' = row'
              BY <5>1, <5>2 DEF AsRead
            <6> QED BY <5>1, <6>1 DEF Telling
          <5>3. CASE pass.known # NotRead
            <6>1. AsRead(pass.known)' = pass.known /\ AsRead(pass.known) = pass.known
              BY <5>1, <5>3 DEF AsRead
            <6>2. row.state = "gone" \/ c <= row.runObserved => row'.state = "gone" \/ c <= row'.runObserved
              BY <2>3, ServerRemembers
            <6> QED BY <5>1, <6>1, <6>2 DEF Telling
          <5> QED BY <5>2, <5>3
        <4> QED BY <4>3, <4>4, <4>5
      <3> QED BY <1>1, <2>1, <2>3, <3>1, <3>2
    <2> QED BY <2>1, <2>2, <2>3
  <1> QED BY <1>2, <1>3, <1>4

-----------------------------------------------------------------------------
(* The theorems *)

LEMMA InitInvariant == Init => IInv
  <1> SUFFICES ASSUME Init PROVE IInv
    OBVIOUS
  <1>1. TypeOK
    BY InitTypes
  <1>2. Own = {} /\ Pending = {} /\ pass.at = "begin"
    BY DEF Init, Own, Pending, LateReports
  <1>3. row.state = "live" /\ row.sync = "requested"
    BY DEF Init
  <1>4. JobsListed /\ ReadsBehind /\ RemovedClean /\ ReportsTrue
    BY <1>2, <1>3 DEF Init, JobsListed, OneJob, ReadsBehind, RemovedClean, ReportsTrue, AppliedBrought
  <1>5. NudgesHeard
    BY <1>2 DEF Init, NudgesHeard, NeverSleepsOnNudge, NoNudge
  <1>6. RunsCounted
    BY DEF Init, RunsCounted
  <1> QED BY <1>1, <1>4, <1>5, <1>6 DEF IInv

LEMMA NextInvariant == IInv /\ [Next]_vars => IInv'
  BY NextTypes, NextJobsListed, NextReadsBehind, NextRemovedClean, NextReportsTrue, NextNudgesHeard, NextRunsCounted DEF IInv

\* The invariant holds of every state of an automation, its job and its passes.
THEOREM AutomationsInvariant == Spec => []IInv
  BY InitInvariant, NextInvariant, PTL DEF Spec

\* At most one job carries the automation's sentinel, whatever reports are lost,
\* whatever ids stay unknown and whatever a local user does.
THEOREM OneJobEver == Spec => []OneJob
  <1>1. IInv => OneJob
    BY DEF IInv, JobsListed
  <1> QED BY <1>1, AutomationsInvariant, PTL

\* What the server was told is so, though its handlers read and write without a lock:
\* applied means that the gateway was brought to the row's generation, or that an edit
\* and a report overtook each other at it, and a forgotten automation left only
\* stranded jobs.
THEOREM ReportsAreTrue == Spec => []ReportInv
  <1>1. IInv => ReportInv
    BY DEF IInv, ReportsTrue, RemovedClean, ReportInv, NothingLeft
  <1> QED BY <1>1, AutomationsInvariant, PTL

\* A click is run once, and once more for each pass that could not report a run and each
\* time the server forgot one.
THEOREM ClickRunsOnce == Spec => []RunPerClick
  <1>1. IInv => RunPerClick
    <2> SUFFICES ASSUME IInv, NEW c \in Clicks PROVE runs[c] <= 1 + unreported
      BY DEF RunPerClick
    <2>1. runs[c] \in Nat /\ unreported \in Nat
      BY DEF IInv, TypeOK
    <2> QED BY <2>1 DEF IInv, RunsCounted
  <1> QED BY <1>1, AutomationsInvariant, PTL

\* The loop never sleeps on a nudge that it has not read the effect of.
THEOREM NudgesAreRead == Spec => []NeverSleepsOnNudge
  <1>1. IInv => NeverSleepsOnNudge
    BY DEF IInv, NudgesHeard
  <1> QED BY <1>1, AutomationsInvariant, PTL

\* An update that keeps the interval keeps the anchor.
LEMMA AnchorStays ==
  ASSUME NEW spec \in Specs, NEW job \in Jobs, NEW now \in Anchors, job.schedule.kind = "every"
  PROVE  LET schedule == Stored(PreserveEveryAnchor(SpecToCronAdd(spec), job), now).schedule
         IN  \/ schedule = job.schedule
             \/ schedule.kind = "at"
             \/ schedule.val # job.schedule.val
  <1> DEFINE P == SpecToCronAdd(spec)
  <1>1. P.schedule \in Schedule("every", Intervals, {"none"}) \cup Schedule("at", Instants, {"iso"})
    BY ParamsType
  <1>2. P = [schedule |-> P.schedule, prompt |-> P.prompt]
    BY DEF SpecToCronAdd
  <1>3. job.schedule \in Schedules
    BY DEF Jobs
  <1>4. CASE P.schedule.kind = "every" /\ P.schedule.val = job.schedule.val
    <2>1. P.schedule.tag = "none"
      BY <1>1, <1>4 DEF Schedule
    <2>2. PreserveEveryAnchor(P, job) = [P EXCEPT !.schedule.tag = job.schedule.tag]
      BY <1>4, <2>1 DEF PreserveEveryAnchor
    <2>3. PreserveEveryAnchor(P, job).schedule = job.schedule
      BY <1>1, <1>2, <1>3, <1>4, <2>2 DEF Schedule, Schedules
    <2>4. job.schedule.tag # "none"
      BY <1>3 DEF Schedules, Schedule, Anchors
    <2> QED BY <1>3, <2>3, <2>4 DEF Stored, Schedules, Schedule
  <1>5. CASE ~(P.schedule.kind = "every" /\ P.schedule.val = job.schedule.val)
    <2>1. PreserveEveryAnchor(P, job) = P
      BY <1>5 DEF PreserveEveryAnchor
    <2>2. Stored(P, now).schedule = [P.schedule EXCEPT !.tag = IF @ = "none" THEN now ELSE @]
      BY DEF Stored
    <2> HIDE DEF P
    <2>3. Stored(P, now).schedule.kind = P.schedule.kind /\ Stored(P, now).schedule.val = P.schedule.val
      BY <1>1, <2>2 DEF Schedule
    <2> QED BY <1>1, <1>5, <2>1, <2>3 DEF Schedule, P
  <1> QED BY <1>4, <1>5

\* No pass moves the grid of an interval that stays as it is.
THEOREM CadenceIsKept == Spec => CadenceKept
  <1>1. IInv /\ [Next]_vars =>
          [Present => \A j \in Existing :
             /\ pass' # pass /\ jobs[j] # Gone
             /\ jobs[j].schedule = pass.listed[j].schedule /\ jobs[j].schedule.kind = "every"
             => \/ jobs'[j].schedule = jobs[j].schedule
                \/ jobs'[j].schedule.kind = "at"
                \/ jobs'[j].schedule.val # jobs[j].schedule.val]_vars
    <2> SUFFICES ASSUME IInv, [Next]_vars, Present, NEW j \in Existing,
                        pass' # pass, jobs[j] # Gone,
                        jobs[j].schedule = pass.listed[j].schedule, jobs[j].schedule.kind = "every"
                 PROVE  \/ jobs'[j].schedule = jobs[j].schedule
                        \/ jobs'[j].schedule.kind = "at"
                        \/ jobs'[j].schedule.val # jobs[j].schedule.val
      OBVIOUS
    <2>1. TypeOK /\ j \in JobIds
      BY DEF IInv, Existing, Found
    <2>2. CASE Update
      <3>1. PICK i \in Existing, now \in Anchors : jobs' = [jobs EXCEPT ![i] = Stored(Params(i), now)]
        BY <2>2 DEF Update
      <3>2. CASE i # j
        BY <2>1, <3>1, <3>2 DEF TypeOK
      <3>3. CASE i = j
        <4>1. jobs'[j] = Stored(Params(j), now)
          BY <2>1, <3>1, <3>3 DEF TypeOK
        <4>2. pass.listed[j] \in Jobs /\ pass.item.spec \in Specs
          BY <2>1, ParamsOfExisting, PassType DEF Present, Rows
        <4> QED BY <4>1, <4>2, AnchorStays DEF Params
      <3> QED BY <3>2, <3>3
    <2>3. CASE ~Update
      <3>1. jobs' = jobs
        BY <2>3 DEF Present, Next, Operator, Edit, SlowEdit, SlowEditEnds, Delete, RunNow, Nudged, LocalChange, Due, Fire, NudgeArrives,
           NudgeLost, PassBegins, Asks, DesiredServed, DesiredFails, Converge, Remove, Absent, Keep, UpdateFails,
           Add, AddFails, Run, SlowReport, Posts, PostServed, PostFails, LateArrives, Restart, gateway, plugin, vars
      <3> QED BY <3>1
    <2> QED BY <2>2, <2>3
  <1> QED BY <1>1, AutomationsInvariant, PTL DEF Spec, CadenceKept
=============================================================================
