------------------------------ MODULE CronJobs ------------------------------
(***************************************************************************)
(* Jobs of the gateway's cron service as the OpenClaw plugin sees them     *)
(* (plugin/src/automations/cron-handle.ts): the job an automation asks     *)
(* for, whether a job is that already, and what an update does to it.      *)
(*                                                                         *)
(* A schedule is an interval or one instant.  The gateway gives an         *)
(* interval its anchor, the grid the job fires on; an instant is written   *)
(* in several forms.  Everything else of a job is its prompt.              *)
(***************************************************************************)
EXTENDS Integers

CONSTANTS Intervals, Instants, Prompts

Anchors == {"even", "odd"}

Schedule(kind, vals, tags) == [kind : {kind}, val : vals, tag : tags]

\* What an operator authors: no anchor, an instant as a number.  The ISO form,
\* which newer clients author, is what the number becomes.
Specs ==
  [schedule : Schedule("every", Intervals, {"none"}) \cup Schedule("at", Instants, {"number"}),
   prompt : Prompts]

\* What the gateway keeps; an older plugin wrote instants as digits.
Schedules == Schedule("every", Intervals, Anchors) \cup Schedule("at", Instants, {"digits", "iso"})

\* due: the time of the job has come.
Jobs == [schedule : Schedules, prompt : Prompts, sentinel : BOOLEAN, due : BOOLEAN]

\* normalizeCronAtValue, normalizeCronSchedule
NormalizeSchedule(s) ==
  IF s.kind = "at" /\ s.tag \in {"number", "digits"} THEN [s EXCEPT !.tag = "iso"] ELSE s

\* Mutation: the instant goes out as it was authored.
SpecToCronAdd_Bare(spec) == [schedule |-> spec.schedule, prompt |-> spec.prompt]

\* specToCronAdd
SpecToCronAdd(spec) == [schedule |-> NormalizeSchedule(spec.schedule), prompt |-> spec.prompt]

\* scheduleMatches: an anchor counts when it was asked for, an instant's form never.
ScheduleMatches(want, have) ==
  /\ want.kind = have.kind /\ want.val = have.val
  /\ want.kind = "every" => want.tag \in {"none", have.tag}

\* cronJobMatchesParams; the sentinel is part of the description.
CronJobMatchesParams(job, params) ==
  /\ job.sentinel /\ job.prompt = params.prompt
  /\ ScheduleMatches(params.schedule, job.schedule)

\* Mutation: the gateway anchors the interval anew with each update.
PreserveEveryAnchor_No(params, job) == params

\* preserveEveryAnchor: an interval that stays keeps its anchor.
PreserveEveryAnchor(params, job) ==
  IF /\ params.schedule.kind = "every" /\ job.schedule.kind = "every"
     /\ params.schedule.val = job.schedule.val /\ params.schedule.tag = "none"
  THEN [params EXCEPT !.schedule.tag = job.schedule.tag]
  ELSE params

-----------------------------------------------------------------------------
(* The gateway *)

\* Its schema takes an instant as a string only.
Accepts(params) == params.schedule.tag # "number"

\* An interval without an anchor is anchored at now; the next run is computed anew.
Stored(params, now) ==
  [schedule |-> [params.schedule EXCEPT !.tag = IF @ = "none" THEN now ELSE @],
   prompt |-> params.prompt, sentinel |-> TRUE, due |-> FALSE]
=============================================================================
