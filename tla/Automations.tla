---------------------------- MODULE Automations ----------------------------
(***************************************************************************)
(* One automation between its operator, the server and the OpenClaw        *)
(* gateway that runs it (plugin/src/automations/reconcile.ts).  Each pass  *)
(* of the reconciler lists the gateway's jobs, asks the server for what is *)
(* desired, brings the job there, runs it if the operator asked for a run, *)
(* and reports.  The operator edits, runs and deletes at any time, a local *)
(* user changes the gateway's job, requests fail or come late, and the     *)
(* gateway may die in between.  The server's handlers read the row and     *)
(* write it later, without a lock.                                         *)
(*                                                                         *)
(* Mirrored jobs of others, run rows and what is reported about a job are  *)
(* left out, and so is the brief overlap of two loops of one account       *)
(* during a reconnect (reconcile.ts:176-178).                              *)
(***************************************************************************)
EXTENDS CronJobs, FiniteSets, TLC

CONSTANTS
  MaxGen,      \* bound: generations, one for each edit and for the deletion
  MaxClicks,   \* bound: runs asked for
  MaxJobs,     \* bound: jobs the gateway ever makes; a user removes none but the first ones
  MaxUpsets    \* bound: local changes, failed, late or slow requests, failed calls, deaths

ASSUME AutomationsAssumption ==
  /\ MaxGen \in Nat \ {0} /\ MaxJobs \in Nat \ {0}
  /\ MaxClicks \in Nat /\ MaxUpsets \in Nat

VARIABLES
  row,       \* the server: the automation's row
  edits,     \* edits whose handler has read the row and not written it yet
  nudge,     \* an automation.sync on its way: the row's version it tells of
  version,   \* how often the operator changed the row
  jobs,      \* the gateway: its jobs by id, Gone or not there yet
  made,      \* how many jobs it made
  pass,      \* the reconciler: its await and its local variables
  dirty,     \* a wake came since the pass began
  late,      \* reports the plugin gave up on, which the server is at or may still get
  brought,   \* history: generations the job was brought to
  runs,      \* history: runs asked of the gateway, per requested run
  crossed,   \* history: generations that were written over by a handler that had not read them
  unreported,\* history: runs that a pass could not report, or that the server forgot again
  stranded,  \* history: jobs whose removal failed
  heard,     \* history: the newest version a nudge told this process
  read,      \* history: the version the last pass read
  upsets     \* history, for the bound

server == <<row, edits, nudge, version>>
gateway == <<jobs, made>>
plugin == <<pass, dirty>>
writes == <<crossed, unreported>>
hist == <<brought, runs, writes, stranded, heard, read>>
vars == <<server, gateway, plugin, late, hist, upsets>>

JobIds == 1 .. MaxJobs
NoJob == 0
Gone == [gone |-> TRUE]
Gens == 1 .. MaxGen
Clicks == 1 .. MaxClicks
NoNudge == 0
Unread == 0  \* the version a pass read that could not read

Reports ==
  [gen : Gens, job : JobIds \cup {NoJob}, status : {"applied", "failed", "removed"}, runObserved : Clicks \cup {0}]
Rows ==
  [state : {"live", "removing", "gone"}, gen : Gens, spec : Specs,
   sync : {"requested", "applied", "failed"}, job : JobIds \cup {NoJob},
   runRequested : Clicks \cup {0}, runObserved : Clicks \cup {0}]
NotRead == [read |-> FALSE]
Knowns == Rows \cup {NotRead}  \* what a handler knows of the row
Posted == [report : Reports, known : Knowns]
Passes ==
  [at : {"begin", "sleep"}]
  \cup [at : {"asked"}, listed : [JobIds -> Jobs \cup {Gone}]]
  \cup [at : {"item"}, listed : [JobIds -> Jobs \cup {Gone}], item : Rows]
  \cup [at : {"run"}, report : Reports, click : Clicks]
  \cup [at : {"report"}, report : Reports, known : Knowns, ran : BOOLEAN]

TypeOK ==
  /\ row \in Rows /\ version \in Nat /\ nudge \in Nat
  /\ jobs \in [JobIds -> Jobs \cup {Gone}] /\ made \in 0 .. MaxJobs
  /\ pass \in Passes /\ dirty \in BOOLEAN
  /\ late \subseteq Posted /\ edits \subseteq [spec : Specs, known : Rows]
  /\ brought \subseteq Gens /\ crossed \subseteq Gens /\ runs \in [Clicks -> Nat] /\ unreported \in Nat
  /\ stranded \subseteq JobIds /\ heard \in Nat /\ read \in Nat /\ upsets \in Nat

Init ==
  /\ \E spec \in Specs :
       row = [state |-> "live", gen |-> 1, spec |-> spec, sync |-> "requested", job |-> NoJob,
              runRequested |-> 0, runObserved |-> 0]
  /\ version = 1 /\ nudge = NoNudge
  /\ jobs = [j \in JobIds |-> Gone] /\ made = 0
  /\ pass = [at |-> "begin"] /\ dirty = FALSE
  /\ late = {} /\ edits = {}
  /\ brought = {} /\ crossed = {} /\ runs = [c \in Clicks |-> 0] /\ unreported = 0
  /\ stranded = {} /\ heard = 0 /\ read = Unread /\ upsets = 0

\* One of the bounded upsets happens.
Fault == upsets < MaxUpsets /\ upsets' = upsets + 1

-----------------------------------------------------------------------------
(* The server *)

\* What a handler goes by: the row as it read it, or as it is if nobody overtakes it.
AsRead(known) == IF known = NotRead THEN row ELSE known

\* It writes the columns it changed and leaves the others as they are by now; a row
\* that is gone takes none.
Writes(known, want) ==
  /\ row' = IF row.state = "gone" THEN row
            ELSE [c \in DOMAIN row |-> IF want[c] # known[c] THEN want[c] ELSE row[c]]
  /\ crossed' = crossed \cup
       (IF known.gen = row.gen /\ known.sync = row.sync THEN {} ELSE {row'.gen})
  /\ unreported' = unreported +
       (IF known.runObserved # row.runObserved /\ row'.runObserved < row.runObserved THEN 1 ELSE 0)

\* Mutation: the last report counts.
RunObserved_Last(known, told) == told

\* A stale report never arms a run again.
RunObserved(known, told) == IF told > known THEN told ELSE known

\* Mutation: whatever an agent applied is what the operator wants.
Current_Any(known, report) == TRUE

Current(known, report) == report.gen >= known.gen

\* apply_automation_state_report: what it makes of the row it read.
Reported(known, report) ==
  LET told == [known EXCEPT !.job = IF report.job = NoJob THEN @ ELSE report.job,
                            !.runObserved = RunObserved(@, report.runObserved)]
  IN CASE known.state = "gone" -> known
       [] known.state = "removing" ->
            IF report.status = "removed" THEN [told EXCEPT !.state = "gone"] ELSE told
       [] known.state = "live" ->
            IF ~Current(known, report) THEN told
            ELSE [told EXCEPT !.sync = IF report.status = "failed" THEN "failed" ELSE "applied"]

Takes(posted) ==
  Writes(AsRead(posted.known), Reported(AsRead(posted.known), posted.report))

\* A handler has read the row for a report, and others come before it writes.
SlowReport ==
  /\ row.state # "gone" /\ Fault
  /\ \/ /\ pass.at = "report" /\ pass.known = NotRead
        /\ pass' = [pass EXCEPT !.known = row] /\ UNCHANGED late
     \/ \E posted \in late :
          /\ posted.known = NotRead
          /\ late' = (late \ {posted}) \cup {[posted EXCEPT !.known = row]} /\ UNCHANGED pass
  /\ UNCHANGED <<server, gateway, dirty, hist>>

-----------------------------------------------------------------------------
(* The operator *)

\* The agent is nudged of a change; one nudge says as much as two.
Nudged ==
  /\ version' = version + 1 /\ nudge' = version + 1
  /\ UNCHANGED <<gateway, plugin, late, brought, runs, stranded, heard, read, upsets>>

\* The generation is the next one at the write: the row is locked by then.
Edited(known, spec) == [known EXCEPT !.spec = spec, !.gen = row.gen + 1, !.sync = "requested"]

Editable(spec) == row.state = "live" /\ row.gen < MaxGen /\ row.spec # spec

Edit(spec) ==
  /\ Editable(spec)
  /\ Writes(row, Edited(row, spec))
  /\ Nudged /\ UNCHANGED edits

SlowEdit(spec) ==
  /\ Editable(spec) /\ Fault
  /\ edits' = edits \cup {[spec |-> spec, known |-> row]}
  /\ UNCHANGED <<row, nudge, version, gateway, plugin, late, hist>>

SlowEditEnds ==
  /\ row.state # "gone" /\ row.gen < MaxGen
  /\ \E edit \in edits :
       /\ Writes(edit.known, Edited(edit.known, edit.spec))
       /\ edits' = edits \ {edit}
  /\ Nudged

\* What a deletion or a click writes nobody else does: a slow one is as if it came late.
Delete ==
  /\ row.state = "live" /\ row.gen < MaxGen
  /\ row' = [row EXCEPT !.state = "removing", !.gen = @ + 1]
  /\ Nudged /\ UNCHANGED <<edits, writes>>

RunNow ==
  /\ row.state = "live" /\ row.runRequested < MaxClicks
  /\ row' = [row EXCEPT !.runRequested = @ + 1]
  /\ Nudged /\ UNCHANGED <<edits, writes>>

-----------------------------------------------------------------------------
(* The gateway *)

\* The time of a job comes, and it fires.
Due ==
  /\ \E j \in JobIds :
       /\ jobs[j] # Gone /\ jobs[j].schedule.kind = "every" /\ ~jobs[j].due
       /\ jobs' = [jobs EXCEPT ![j].due = TRUE]
  /\ UNCHANGED <<server, made, plugin, late, hist, upsets>>

Fire ==
  /\ \E j \in JobIds :
       /\ jobs[j] # Gone /\ jobs[j].due
       /\ jobs' = [jobs EXCEPT ![j].due = FALSE]
  /\ UNCHANGED <<server, made, plugin, late, hist, upsets>>

\* A local user changes a job or removes it.
LocalChange ==
  /\ Fault
  /\ \E j \in JobIds :
       /\ jobs[j] # Gone
       /\ \/ \E prompt \in Prompts : jobs' = [jobs EXCEPT ![j].prompt = prompt]
          \/ \E schedule \in Schedules : jobs' = [jobs EXCEPT ![j].schedule = schedule]
          \/ jobs' = [jobs EXCEPT ![j].sentinel = FALSE]
          \/ made < MaxJobs /\ jobs' = [jobs EXCEPT ![j] = Gone]
  /\ jobs' # jobs
  /\ UNCHANGED <<server, made, plugin, late, hist>>

-----------------------------------------------------------------------------
(* The loop *)

\* wake: it cuts the sleep short, or has the pass followed by another one.
NudgeArrives ==
  /\ nudge # NoNudge
  /\ nudge' = NoNudge
  /\ heard' = nudge
  /\ dirty' = TRUE
  /\ pass' = IF pass.at = "sleep" THEN [at |-> "begin"] ELSE pass
  /\ UNCHANGED <<row, edits, version, gateway, late, brought, runs, writes, stranded, read, upsets>>

NudgeLost ==
  /\ nudge # NoNudge /\ Fault
  /\ nudge' = NoNudge
  /\ UNCHANGED <<row, edits, version, gateway, plugin, late, hist>>

\* The loop begins a pass: on a wake, after the interval, or at once.
PassBegins ==
  /\ pass.at \in {"begin", "sleep"}
  /\ dirty' = FALSE
  /\ pass' = [at |-> "asked", listed |-> jobs]
  /\ UNCHANGED <<server, gateway, late, hist, upsets>>

\* Mutation: the flag is cleared after the pass.
Ends_Clearing == pass' = [at |-> "sleep"] /\ dirty' = FALSE

\* A pass that ends is followed by another one if a wake came meanwhile.
Ends == pass' = [at |-> IF dirty THEN "begin" ELSE "sleep"] /\ UNCHANGED dirty

DesiredServed ==
  /\ pass.at = "asked"
  /\ read' = version
  /\ IF row.state = "gone" THEN Ends
     ELSE pass' = [at |-> "item", listed |-> pass.listed, item |-> row] /\ UNCHANGED dirty
  /\ UNCHANGED <<server, gateway, late, brought, runs, writes, stranded, heard, upsets>>

DesiredFails ==
  /\ pass.at = "asked" /\ Fault
  /\ read' = Unread
  /\ Ends
  /\ UNCHANGED <<server, gateway, late, brought, runs, writes, stranded, heard>>

-----------------------------------------------------------------------------
(* reconcileOnce on the item *)

\* Mutation: the job is the one the server knows the id of.
Found_ById(listed, id) == {j \in JobIds : listed[j] # Gone /\ j = id}

\* The job that carries the automation's sentinel, else the one of the known id.
Found(listed, id) ==
  LET own == {j \in JobIds : listed[j] # Gone /\ listed[j].sentinel}
  IN IF own # {} THEN own ELSE {j \in JobIds : listed[j] # Gone /\ j = id}

Existing == Found(pass.listed, pass.item.job)
Present == pass.at = "item" /\ pass.item.state = "live"
Absent == pass.at = "item" /\ pass.item.state = "removing"

Report(job, status) ==
  [gen |-> pass.item.gen, job |-> job, status |-> status,
   runObserved |-> IF status = "applied" THEN pass.item.runObserved ELSE 0]

ToReport(report) == pass' = [at |-> "report", report |-> report, known |-> NotRead, ran |-> FALSE]

\* The job is as desired; a run that was asked for and not observed comes first.
Brought(job) ==
  /\ brought' = brought \cup {pass.item.gen}
  /\ IF job # NoJob /\ pass.item.runRequested > pass.item.runObserved
     THEN pass' = [at |-> "run", report |-> Report(job, "applied"), click |-> pass.item.runRequested]
     ELSE ToReport(Report(job, "applied"))

\* A job that cannot be removed is reported removed all the same.
Remove ==
  /\ Absent
  /\ \/ /\ Existing = {}
        /\ ToReport(Report(pass.item.job, "removed"))
        /\ UNCHANGED <<jobs, dirty, stranded, upsets>>
     \/ \E j \in Existing :
          /\ ToReport(Report(j, "removed"))
          /\ \/ jobs' = [jobs EXCEPT ![j] = Gone] /\ dirty' = TRUE /\ UNCHANGED <<stranded, upsets>>
             \/ Fault /\ stranded' = stranded \cup {j} /\ UNCHANGED <<jobs, dirty>>
  /\ UNCHANGED <<server, made, late, brought, runs, writes, heard, read>>

\* What the job is asked to be: the listed one tells the anchor.
Params(j) == PreserveEveryAnchor(SpecToCronAdd(pass.item.spec), pass.listed[j])

Keep ==
  /\ Present
  /\ \E j \in Existing : CronJobMatchesParams(pass.listed[j], Params(j)) /\ Brought(j)
  /\ UNCHANGED <<server, gateway, dirty, late, runs, writes, stranded, heard, read, upsets>>

Update ==
  /\ Present
  /\ \E j \in Existing, now \in Anchors :
       /\ ~CronJobMatchesParams(pass.listed[j], Params(j))
       /\ jobs[j] # Gone /\ Accepts(Params(j))
       /\ jobs' = [jobs EXCEPT ![j] = Stored(Params(j), now)]
       /\ Brought(j)
  /\ dirty' = TRUE
  /\ UNCHANGED <<server, made, late, runs, writes, stranded, heard, read, upsets>>

UpdateFails ==
  /\ Present
  /\ \E j \in Existing :
       /\ ~CronJobMatchesParams(pass.listed[j], Params(j))
       /\ IF jobs[j] # Gone /\ Accepts(Params(j)) THEN Fault ELSE UNCHANGED upsets
       /\ ToReport(Report(j, "failed"))
  /\ UNCHANGED <<server, gateway, dirty, late, hist>>

\* resolveNewJobId: the id of the new job may stay unknown to the plugin.
Add ==
  /\ Present /\ Existing = {} /\ made < MaxJobs
  /\ LET params == SpecToCronAdd(pass.item.spec)
     IN /\ Accepts(params)
        /\ \E now \in Anchors : jobs' = [jobs EXCEPT ![made + 1] = Stored(params, now)]
  /\ made' = made + 1
  /\ \/ Brought(made + 1) /\ UNCHANGED upsets
     \/ Brought(NoJob) /\ Fault
  /\ dirty' = TRUE
  /\ UNCHANGED <<server, late, runs, writes, stranded, heard, read>>

AddFails ==
  /\ Present /\ Existing = {}
  /\ IF Accepts(SpecToCronAdd(pass.item.spec)) THEN Fault ELSE UNCHANGED upsets
  /\ ToReport(Report(NoJob, "failed"))
  /\ UNCHANGED <<server, gateway, dirty, late, hist>>

\* The run counts as observed whatever the gateway says to it.
Run ==
  /\ pass.at = "run"
  /\ runs' = [runs EXCEPT ![pass.click] = @ + 1]
  /\ pass' = [at |-> "report", report |-> [pass.report EXCEPT !.runObserved = pass.click],
              known |-> NotRead, ran |-> TRUE]
  /\ UNCHANGED <<server, gateway, dirty, late, brought, writes, stranded, heard, read, upsets>>

ThisPost == [report |-> pass.report, known |-> pass.known]

PostServed ==
  /\ pass.at = "report"
  /\ Takes(ThisPost)
  /\ Ends
  /\ UNCHANGED <<edits, nudge, version, gateway, late, brought, runs, stranded, heard, read, upsets>>

\* The report is lost, or the server gets it later or is at it already.
GivenUp ==
  /\ \/ late' = late \cup {ThisPost}
     \/ pass.known = NotRead /\ UNCHANGED late
  /\ unreported' = unreported + (IF pass.ran THEN 1 ELSE 0)

\* The request times out.
PostFails ==
  /\ pass.at = "report" /\ Fault
  /\ GivenUp /\ Ends
  /\ UNCHANGED <<server, gateway, brought, runs, crossed, stranded, heard, read>>

LateArrives ==
  /\ \E posted \in late : Takes(posted) /\ late' = late \ {posted}
  /\ UNCHANGED <<edits, nudge, version, gateway, plugin, brought, runs, stranded, heard, read, upsets>>

\* The gateway dies and starts again; its jobs are stored.
Restart ==
  /\ Fault
  /\ pass' = [at |-> "begin"] /\ dirty' = FALSE
  /\ heard' = 0 /\ read' = Unread
  /\ IF pass.at = "report" THEN GivenUp ELSE UNCHANGED <<late, unreported>>
  /\ UNCHANGED <<server, gateway, brought, runs, crossed, stranded>>

-----------------------------------------------------------------------------

Operator == (\E spec \in Specs : Edit(spec) \/ SlowEdit(spec)) \/ SlowEditEnds \/ Delete \/ RunNow
Asks == DesiredServed \/ DesiredFails
Converge == Remove \/ Keep \/ Update \/ UpdateFails \/ Add \/ AddFails \/ Run
Posts == PostServed \/ PostFails

Next ==
  \/ Operator \/ SlowReport \/ LocalChange \/ Due \/ Fire
  \/ NudgeArrives \/ NudgeLost \/ PassBegins
  \/ Asks \/ Converge \/ Posts \/ LateArrives \/ Restart

\* The interval's timer fires, calls and requests end, and jobs come due and fire.
Fairness ==
  /\ WF_vars(PassBegins) /\ WF_vars(Asks) /\ WF_vars(Converge) /\ WF_vars(Posts)
  /\ WF_vars(Due) /\ WF_vars(Fire)

Spec == Init /\ [][Next]_vars /\ Fairness

-----------------------------------------------------------------------------
(* Safety *)

Own == {j \in JobIds : jobs[j] # Gone /\ jobs[j].sentinel}

\* One automation has one job that carries its sentinel, however often its
\* report was lost, its id stayed unknown or a user changed it (reconcile.ts:282-303).
OneJob == \A i, j \in Own : i = j

\* What the server calls applied is what the gateway was brought to: no report of
\* an earlier generation, late or not, says so of an edit that came since, unless
\* the edit came between the read and the write of the report, or the report
\* between those of the edit.
AppliedBrought ==
  row.sync = "applied" /\ row.state = "live" => row.gen \in brought \cup crossed

\* A run asked for once is started once, but for passes that could not report it
\* and reports that were overtaken and took the mark back (reconcile.ts:352-383).
RunPerClick == \A c \in Clicks : runs[c] <= 1 + unreported

\* The loop never sleeps on a nudge: it sleeps when its last pass read what the
\* nudge told of, or could not read (reconcile.ts:493-541).
NeverSleepsOnNudge == pass.at = "sleep" => heard <= read \/ read = Unread

\* Once the server forgot the automation no job of it is left, but for one whose
\* removal failed (reconcile.ts:305-325).
NothingLeft == row.state = "gone" => Own \subseteq stranded

\* What the server was told is so, of a state that keeps its types.
ReportInv == TypeOK /\ AppliedBrought /\ NothingLeft

\* "a managed row becomes ``applied`` once the plugin reports an ``observed_generation``
\* >= the row's current ``desired_generation``" (table_write.py:2412-2414): no row of a
\* generation the gateway was not brought to is called applied.  Not kept (README,
\* known disagreements).
AppliedOnlyOnceBrought == row.sync = "applied" /\ row.state = "live" => row.gen \in brought

\* "Advance only forward; a stale report must never re-arm run-now."
\* (table_write.py:2446)  Not kept either.
NeverRearmed == [][row'.runObserved >= row.runObserved]_vars

\* A job's interval keeps its grid through every pass: neither an edit of other
\* fields nor a pass without one moves it, but where the job was changed locally
\* since the pass listed it (cron-handle.ts:396-415).
CadenceKept ==
  [][Present => \A j \in Existing :
       /\ pass' # pass /\ jobs[j] # Gone
       /\ jobs[j].schedule = pass.listed[j].schedule /\ jobs[j].schedule.kind = "every"
       => \/ jobs'[j].schedule = jobs[j].schedule
          \/ jobs'[j].schedule.kind = "at"
          \/ jobs'[j].schedule.val # jobs[j].schedule.val]_vars

-----------------------------------------------------------------------------
(* Liveness *)

\* In the end the gateway's job is what the operator last wanted, the server says
\* so, each run asked for was started, and a deleted automation is forgotten.
Converges ==
  <>[](/\ row.state # "removing"
       /\ row.state = "live" =>
            /\ row.sync = "applied" /\ row.runObserved = row.runRequested
            /\ \E j \in Own : CronJobMatchesParams(jobs[j], SpecToCronAdd(row.spec)))

\* A job on an interval keeps firing: passes that find nothing to change leave it alone.
KeepsFiring ==
  <>[](\A j \in Own : jobs[j].schedule.kind = "at") \/ []<><<Fire>>_vars

\* The automation comes to rest without stopping: it is as wanted, and it fires.
Settles == Converges /\ KeepsFiring
=============================================================================
