------------------------------ MODULE Campaign ------------------------------
(***************************************************************************)
(* bench/framework-compat/campaign.mjs: the controller that starts the     *)
(* endurance load, restarts the service's containers on a schedule, probes *)
(* the frameworks, watches that no container restarts by itself, and says  *)
(* whether all of it passed.                                               *)
(*                                                                         *)
(* Docker, the containers and the load (soak.mjs, which EnduranceLoad      *)
(* models) are external.  A container's generation is a number.  Source    *)
(* and image provenance, inventories, resource samples and final evidence  *)
(* are gates that pass or do not.                                          *)
(***************************************************************************)
EXTENDS Integers, Sequences, FiniteSetsExt

CONSTANTS
  Services,    \* <<"memory-core", "db">>
  Schedule,    \* what is due, in order: a service to restart, or Probe
  Probe,
  MaxRestarts  \* restarts nobody planned

VARIABLES
  generation,  \* the containers
  restarts,    \* how often one restarted by itself
  campaign,    \* the controller: its phase, ending, controllerHardStopReason, signalReceived, result
  armed,       \* whether the schedule's timers are set
  due,         \* the next task whose timer has not fired
  chain,       \* maintenanceChain: tasks queued, by their index in Schedule
  task,        \* the task in hand
  planned,     \* plannedFault
  faultOpen,   \* whether fault-state.json says a fault is active
  expected,    \* expectedGenerations
  monitor,     \* the round of generation checks under way
  violations,  \* services of generationMonitoring.violations
  outcome,     \* frameworkRuns and faults: what became of each task, 0 being the startup's probes
  load,        \* the soak process
  baseline,      \* history: the generations of the baselines
  unplanned,   \* history: services that restarted outside a fault of theirs, while watched
  excused      \* history: services whose generation could not be told, or was told too late

faultVars == <<chain, task, planned, faultOpen, outcome>>
watchVars == <<expected, monitor, violations>>
historyVars == <<baseline, unplanned, excused>>
campaignVars ==
  <<generation, restarts, campaign, armed, due, faultVars, watchVars, historyVars, load>>

Service == {Services[i] : i \in 1 .. Len(Services)}
NoFault == "none"
Unknown == 0
Unread == -1
NoRound == [at |-> 0]
NoTask == [at |-> "idle"]

ASSUME CampaignConstants ==
  /\ Len(Services) \in Nat \ {0} /\ DOMAIN Services = 1 .. Len(Services)
  /\ \A i, j \in DOMAIN Services : Services[i] = Services[j] => i = j
  /\ Len(Schedule) \in Nat /\ DOMAIN Schedule = 1 .. Len(Schedule)
  /\ \A i \in DOMAIN Schedule : Schedule[i] \in Service \cup {Probe}
  /\ NoFault \notin Service /\ Probe \notin Service /\ MaxRestarts \in Nat

Captured == \E s \in Service : expected[s] # Unknown
Phase(p) == campaign.phase = p
To(p) == campaign' = [campaign EXCEPT !.phase = p]

\* Ending clears the timers; a hard stop also ends the load, which exits with a failure.
Stopped(c) == [c EXCEPT !.ending = TRUE, !.stopped = TRUE]
HardStopController == campaign' = Stopped(campaign) /\ armed' = FALSE

(***************************************************************************)
(* The world.                                                              *)
(***************************************************************************)

\* Between the two readings of its generation a fault cannot tell a restart from its own.
InFaultOf(s) == task.at \in {"opening", "acting", "recovering"} /\ planned = s

\* The last check has read it, or is over.
LastRead(s) ==
  \/ campaign.phase \in {"judging", "summarized", "complete", "aborted"}
  \/ /\ Phase("checking")
     /\ monitor = NoRound \/ \E i \in 1 .. monitor.at : Services[i] = s /\ (i = monitor.at => monitor.seen # Unread)

Restarts(s) ==
  /\ restarts < MaxRestarts
  /\ restarts' = restarts + 1
  /\ generation' = [generation EXCEPT ![s] = @ + 1]
  /\ unplanned' = IF Captured /\ ~InFaultOf(s) /\ ~LastRead(s) THEN unplanned \cup {s} ELSE unplanned
  /\ UNCHANGED <<campaign, armed, due, faultVars, watchVars, baseline, excused, load>>

LoadExits ==
  /\ load = "running"
  /\ load' \in {"passed", "failed"}
  /\ UNCHANGED <<generation, restarts, campaign, armed, due, faultVars, watchVars, historyVars>>

Signals ==
  /\ ~campaign.signalled /\ campaign.phase \notin {"complete", "aborted"}
  /\ campaign' = [Stopped(campaign) EXCEPT !.signalled = TRUE]
  /\ armed' = FALSE
  /\ UNCHANGED <<generation, restarts, due, faultVars, watchVars, historyVars, load>>

(***************************************************************************)
(* serviceGeneration(): what an inspection may return.                     *)
(***************************************************************************)
ServiceGeneration(s) == {generation[s], Unknown}
SameGeneration(s, observed) == expected[s] # Unknown /\ observed = expected[s]

(***************************************************************************)
(* Faults and probes, one at a time.                                       *)
(***************************************************************************)
TimerFires ==
  /\ armed /\ due <= Len(Schedule)
  /\ chain' = Append(chain, due)
  /\ due' = due + 1
  /\ UNCHANGED <<generation, restarts, campaign, armed, task, planned, faultOpen, outcome, watchVars, historyVars, load>>

TaskEnds(i, result) ==
  /\ task' = NoTask
  /\ outcome' = [outcome EXCEPT ![i] = result]

\* Nothing begins once the campaign is ending.
QueueMaintenance ==
  /\ task = NoTask /\ chain # <<>>
  /\ chain' = Tail(chain)
  /\ IF campaign.ending THEN UNCHANGED <<task, planned>>
     ELSE LET what == Schedule[Head(chain)] IN
          /\ task' = [at |-> IF what = Probe THEN "probing" ELSE "reading", index |-> Head(chain), before |-> Unknown]
          /\ planned' = IF what = Probe THEN planned ELSE what
  /\ UNCHANGED <<generation, restarts, campaign, armed, due, faultOpen, outcome, watchVars, historyVars, load>>

\* A failed probe stops nothing, but the verdict remembers it.
RunProbes ==
  /\ task.at = "probing"
  /\ \E result \in {"passed", "failed"} : TaskEnds(task.index, result)
  /\ UNCHANGED <<generation, restarts, campaign, armed, due, chain, planned, faultOpen, watchVars, historyVars, load>>

\* The reading before the fault must be the expected one.
ReadBefore ==
  /\ task.at = "reading"
  /\ \E before \in ServiceGeneration(planned) :
       IF SameGeneration(planned, before)
       THEN /\ task' = [task EXCEPT !.at = "opening", !.before = before]
            /\ UNCHANGED <<campaign, armed, planned, outcome, violations, excused>>
       ELSE /\ TaskEnds(task.index, "failed")
            /\ violations' = violations \cup {planned}
            /\ excused' = IF before = Unknown THEN excused \cup {planned} ELSE excused
            /\ planned' = NoFault
            /\ HardStopController
  /\ UNCHANGED <<generation, restarts, due, chain, faultOpen, expected, monitor, baseline, unplanned, load>>

OpenFault ==
  /\ task.at = "opening"
  /\ faultOpen' = TRUE
  /\ task' = [task EXCEPT !.at = "acting"]
  /\ UNCHANGED <<generation, restarts, campaign, armed, due, chain, planned, outcome, watchVars, historyVars, load>>

\* The commands may fail, having restarted the container or not; a wait for readiness follows.
FaultAction ==
  /\ task.at = "acting"
  /\ \E restarted \in BOOLEAN, at \in {"recovering", "failing"} :
       /\ generation' = IF restarted THEN [generation EXCEPT ![planned] = @ + 1] ELSE generation
       /\ task' = [task EXCEPT !.at = at]
  /\ UNCHANGED <<restarts, campaign, armed, due, chain, planned, faultOpen, outcome, watchVars, historyVars, load>>

GenerationChanged(before, after) == before # Unknown /\ after # Unknown /\ before # after

\* Not recovered, not readable or not changed: the baseline stays.
ReadAfter ==
  /\ task.at = "recovering"
  /\ \E after \in ServiceGeneration(planned) :
       LET changed == GenerationChanged(task.before, after) IN
       /\ expected' = IF changed THEN [expected EXCEPT ![planned] = after] ELSE expected
       /\ task' = [task EXCEPT !.at = IF changed THEN "closing" ELSE "failing"]
  /\ UNCHANGED <<generation, restarts, campaign, armed, due, chain, planned, faultOpen, outcome, monitor,
                 violations, historyVars, load>>

\* A reading the monitor took by now will be judged as if no fault had been planned.
CloseFault ==
  /\ task.at \in {"closing", "failing"}
  /\ faultOpen' = FALSE
  /\ planned' = NoFault
  /\ excused' = IF task.at = "failing" \/ (monitor.at # 0 /\ Services[monitor.at] = planned /\ monitor.seen # Unread)
                THEN excused \cup {planned} ELSE excused
  /\ IF task.at = "closing"
     THEN task' = [task EXCEPT !.at = "auditing"] /\ UNCHANGED <<campaign, armed, outcome>>
     ELSE TaskEnds(task.index, "failed") /\ HardStopController
  /\ UNCHANGED <<generation, restarts, due, chain, watchVars, baseline, unplanned, load>>

WaitAudit ==
  /\ task.at = "auditing"
  /\ \E result \in {"passed", "failed"} :
       /\ TaskEnds(task.index, result)
       /\ IF result = "passed" THEN UNCHANGED <<campaign, armed>> ELSE HardStopController
  /\ UNCHANGED <<generation, restarts, due, chain, planned, faultOpen, watchVars, historyVars, load>>

\* A write of fault-state.json throws: the fault stays planned, and maybe active.
MaintenanceFails ==
  /\ task.at \in {"opening", "closing", "failing"}
  /\ task' = NoTask
  /\ excused' = excused \cup {planned}
  /\ HardStopController
  /\ UNCHANGED <<generation, restarts, due, chain, planned, faultOpen, outcome, watchVars, baseline, unplanned, load>>

(***************************************************************************)
(* checkGenerationContinuity(): the services one after the other, each     *)
(* read and then judged.                                                   *)
(***************************************************************************)
MonitorTicks ==
  /\ Captured /\ ~campaign.ending /\ monitor = NoRound
  /\ monitor' = [at |-> 1, seen |-> Unread]
  /\ UNCHANGED <<generation, restarts, campaign, armed, due, faultVars, expected, violations, historyVars, load>>

Observe ==
  /\ monitor.at # 0 /\ monitor.seen = Unread
  /\ \E observed \in ServiceGeneration(Services[monitor.at]) : monitor' = [monitor EXCEPT !.seen = observed]
  /\ UNCHANGED <<generation, restarts, campaign, armed, due, faultVars, expected, violations, historyVars, load>>

NextService == IF monitor.at < Len(Services) THEN [monitor EXCEPT !.at = @ + 1, !.seen = Unread] ELSE NoRound

\* A failed reading is a violation when it is the last one, or none succeeded for 90 seconds.
Violates(s) ==
  IF monitor.seen = Unknown THEN {TRUE} \cup (IF Phase("checking") THEN {} ELSE {FALSE})
  ELSE {~SameGeneration(s, monitor.seen)}
JudgeAnyway(s) == TRUE  \* mutant: a service under a planned fault is judged like the other
Judged(s) == planned # s

JudgeGeneration ==
  /\ monitor.at # 0 /\ monitor.seen # Unread
  /\ LET s == Services[monitor.at] IN
     /\ \E violates \in IF Judged(s) THEN Violates(s) ELSE {FALSE} :
          IF violates THEN violations' = violations \cup {s} /\ HardStopController
          ELSE UNCHANGED <<violations, campaign, armed>>
     /\ excused' = IF Judged(s) /\ monitor.seen = Unknown THEN excused \cup {s} ELSE excused
  /\ monitor' = NextService
  /\ UNCHANGED <<generation, restarts, due, faultVars, expected, baseline, unplanned, load>>

(***************************************************************************)
(* The campaign.                                                           *)
(***************************************************************************)

\* A signal or an inventory that cannot be captured ends the campaign before it starts.
Startup ==
  /\ Phase("starting")
  /\ \E inventoried \in BOOLEAN, result \in {"passed", "failed"} :
       IF inventoried /\ ~campaign.stopped
       THEN /\ outcome' = [outcome EXCEPT ![0] = result]
            /\ load' = "running"
            /\ To("loading") /\ UNCHANGED armed
       ELSE /\ campaign' = [Stopped(campaign) EXCEPT !.phase = "settling"]
            /\ armed' = FALSE
            /\ UNCHANGED <<outcome, load>>
  /\ UNCHANGED <<generation, restarts, due, chain, task, planned, faultOpen, watchVars, historyVars>>

WaitForWorkloadRunning ==
  /\ Phase("loading")
  /\ \E running \in {FALSE} \cup {~campaign.signalled} :
       IF running THEN To("baselines") /\ UNCHANGED armed
       ELSE campaign' = [Stopped(campaign) EXCEPT !.phase = "watching"] /\ armed' = FALSE
  /\ UNCHANGED <<generation, restarts, due, faultVars, watchVars, historyVars, load>>

CaptureGenerationBaselines ==
  /\ Phase("baselines")
  /\ \E captured \in BOOLEAN :
       IF captured
       THEN /\ expected' = generation /\ baseline' = generation
            /\ To("scheduling") /\ UNCHANGED armed
       ELSE /\ campaign' = [Stopped(campaign) EXCEPT !.phase = "watching"]
            /\ armed' = FALSE
            /\ UNCHANGED <<expected, baseline>>
  /\ UNCHANGED <<generation, restarts, due, faultVars, monitor, violations, unplanned, excused, load>>

\* After a first sample of the resources, whatever stopped the campaign meanwhile.
ScheduleTasks ==
  /\ Phase("scheduling")
  /\ armed' = TRUE
  /\ To("watching")
  /\ UNCHANGED <<generation, restarts, due, faultVars, watchVars, historyVars, load>>

LoadFinished ==
  /\ Phase("watching") /\ load # "running"
  /\ campaign' = [campaign EXCEPT !.ending = TRUE, !.phase = "settling"]
  /\ armed' = FALSE
  /\ UNCHANGED <<generation, restarts, due, faultVars, watchVars, historyVars, load>>

AllSettled == task = NoTask /\ chain = <<>> /\ monitor = NoRound

Settle ==
  /\ Phase("settling") /\ AllSettled
  /\ To("checking")
  /\ monitor' = IF Captured THEN [at |-> 1, seen |-> Unread] ELSE NoRound
  /\ UNCHANGED <<generation, restarts, armed, due, faultVars, expected, violations, historyVars, load>>

CollectEvidence ==
  /\ Phase("checking") /\ monitor = NoRound
  /\ To("judging")
  /\ UNCHANGED <<generation, restarts, armed, due, faultVars, watchVars, historyVars, load>>

Gates ==
  /\ ~campaign.signalled /\ ~campaign.stopped
  /\ \A i \in 0 .. Len(Schedule) : outcome[i] = "passed"
  /\ load = "passed"
  /\ Captured /\ planned = NoFault /\ violations = {}

Conclude ==
  /\ Phase("judging")
  /\ \E provenance \in BOOLEAN :
       campaign' = [campaign EXCEPT !.phase = "summarized",
                                    !.result = IF Gates /\ provenance THEN "PASSED" ELSE "FAILED",
                                    !.told = campaign.signalled]
  /\ UNCHANGED <<generation, restarts, armed, due, faultVars, watchVars, historyVars, load>>

\* campaign.complete.json is written unless a signal came that the summary does not tell of.
Complete ==
  /\ Phase("summarized")
  /\ To(IF campaign.signalled /\ ~campaign.told THEN "aborted" ELSE "complete")
  /\ UNCHANGED <<generation, restarts, armed, due, faultVars, watchVars, historyVars, load>>

CampaignInit ==
  /\ generation = [s \in Service |-> 1] /\ restarts = 0
  /\ campaign = [phase |-> "starting", ending |-> FALSE, stopped |-> FALSE, signalled |-> FALSE,
                 result |-> "none", told |-> FALSE]
  /\ armed = FALSE /\ due = 1 /\ chain = <<>> /\ task = NoTask
  /\ planned = NoFault /\ faultOpen = FALSE
  /\ expected = [s \in Service |-> Unknown]
  /\ monitor = NoRound /\ violations = {}
  /\ outcome = [i \in 0 .. Len(Schedule) |-> "none"]
  /\ load = "none"
  /\ baseline = [s \in Service |-> Unknown]
  /\ unplanned = {} /\ excused = {}

TaskStep ==
  \/ QueueMaintenance \/ RunProbes \/ ReadBefore \/ OpenFault \/ FaultAction
  \/ ReadAfter \/ CloseFault \/ WaitAudit \/ MaintenanceFails
CheckStep == Observe \/ JudgeGeneration
PhaseStep ==
  \/ Startup \/ WaitForWorkloadRunning \/ CaptureGenerationBaselines \/ ScheduleTasks
  \/ LoadFinished \/ Settle \/ CollectEvidence \/ Conclude \/ Complete

CampaignNext ==
  \/ \E s \in Service : Restarts(s)
  \/ LoadExits \/ Signals \/ TimerFires \/ MonitorTicks
  \/ TaskStep \/ CheckStep \/ PhaseStep

CampaignSpec == CampaignInit /\ [][CampaignNext]_campaignVars

(***************************************************************************)
(* Properties.                                                             *)
(***************************************************************************)
Faults(s) == {i \in 1 .. Len(Schedule) : Schedule[i] = s}

\* A container is blamed only if it restarted outside a fault of its own, could not be read,
\* or was read too early.  A campaign that passed ran its whole schedule, each fault of which
\* restarted its container; watched no container restart by itself from the baselines to the
\* last reading; left no fault open; and completed before any signal.  No fault runs beside
\* the last check.
CampaignTellsTruth ==
  /\ violations \subseteq unplanned \cup excused
  /\ campaign.phase \in {"checking", "judging", "summarized", "complete"} => task = NoTask /\ chain = <<>>
  /\ campaign.result = "PASSED" =>
       /\ unplanned = {} /\ load = "passed" /\ ~faultOpen
       /\ \A i \in 0 .. Len(Schedule) : outcome[i] = "passed"
       /\ \A s \in Service : expected[s] >= baseline[s] + Cardinality(Faults(s))
  /\ Phase("complete") /\ campaign.result = "PASSED" => ~campaign.signalled
=============================================================================
