---------------------------- MODULE EnduranceLoad ----------------------------
(***************************************************************************)
(* bench/framework-compat/soak.mjs once its preflight has passed: load on  *)
(* a service that is being restarted, an oracle of what the service has    *)
(* acknowledged, and audits of the oracle that pause the load.             *)
(*                                                                         *)
(* The service and fault-state.json, which the campaign's controller       *)
(* writes, are external.  Search, context, get and feedback are one kind   *)
(* of use: each expects to find the memory it asks for.  An entry's three  *)
(* audit attempts are one step.  Rates, errors, clocks and disk space only *)
(* decide whether a run stops or with which verdict, which is a choice     *)
(* here, and so is what an isolation probe finds: it reads under a foreign *)
(* identity.                                                               *)
(***************************************************************************)
EXTENDS Integers, Sequences, FiniteSetsExt

CONSTANTS
  Entry,      \* 1 .. n, in the order they are observed
  Concurrency, \* maxConcurrency
  MaxFaults    \* planned faults

VARIABLES
  held,        \* the service: each memory "absent", "active", "archived" or "lost"
  oracle,      \* what the harness knows: "none", "active", "archived"
  flying,      \* operations in flight, each leasing its entry
  stray,       \* archives whose caller has given up and that may still be carried out
  audits,      \* auditChain: requests queued; 0 is the final audit
  auditing,    \* activeAudit
  pulse,       \* the heartbeat: "idle" or awaiting its "audit"
  faultFile,   \* fault-state.json: whether a fault is active, the latest audit requested
  lastAudit,   \* lastAuditRequest
  receipt,     \* the post-fault audit in heartbeat.json
  soak,        \* the run: where it stands, what it has seen, its verdict
  blamed,      \* history: memories the harness called lost, or found unexpectedly inactive
  unanswered,  \* history: memories archived by a call whose answer never came
  missing,     \* history: per audit request, what was acknowledged and already lost
  lostBefore   \* history: what was lost when the final audit took its snapshot

serviceVars == <<held, stray, unanswered>>
auditVars == <<audits, auditing, pulse, lastAudit, receipt>>
verdictVars == <<blamed, missing, lostBefore>>
loadVars == <<serviceVars, auditVars, verdictVars, oracle, flying, faultFile, soak>>

NoAudit == [at |-> "none"]
Final == 0

Leased == {op.entry : op \in flying}
ActiveOracle == {m \in Entry : oracle[m] = "active"}
AuditBarrier == audits # <<>> \/ auditing # NoAudit

ASSUME LoadConstants == Entry \subseteq Nat /\ Concurrency \in Nat /\ MaxFaults \in Nat

HardStop == soak' = [soak EXCEPT !.stopped = TRUE]

(***************************************************************************)
(* The service, which loses at most one memory.                            *)
(***************************************************************************)
ServiceLoses(m) ==
  /\ held[m] = "active" /\ \A n \in Entry : held[n] # "lost"
  /\ held' = [held EXCEPT ![m] = "lost"]
  /\ UNCHANGED <<stray, unanswered, auditVars, verdictVars, oracle, flying, faultFile, soak>>

CarriedOut(kind, m) ==
  CASE kind = "ingest" -> [held EXCEPT ![m] = "active"]
    [] kind = "archive" /\ held[m] = "active" -> [held EXCEPT ![m] = "archived"]
    [] OTHER -> held

Advances(op, at) == flying' = (flying \ {op}) \cup {[op EXCEPT !.at = at]}

ServiceAnswers(op) ==
  /\ op.at = "sent"
  /\ held' = CarriedOut(op.kind, op.entry)
  /\ Advances(op, IF op.kind = "ingest" \/ held[op.entry] = "active" THEN "found" ELSE "gone")
  /\ UNCHANGED <<stray, unanswered, auditVars, verdictVars, oracle, faultFile, soak>>

\* The timeout, or the connection breaks: before the call is carried out, which may then
\* still happen, or after.  Too many errors in five minutes stop the run, unless a fault is
\* active by the time the error is counted.
RequestFails(op) ==
  /\ flying' = flying \ {op}
  /\ stray' \in {stray} \cup (IF op.kind = "archive" /\ op.at = "sent" THEN {stray \cup {op.entry}} ELSE {})
  /\ unanswered' = unanswered \cup (IF op.kind = "archive" /\ op.at = "found" THEN {op.entry} ELSE {})
  /\ \E stop \in {soak.stopped, soak.stopped \/ ~faultFile.active} : soak' = [soak EXCEPT !.stopped = stop]
  /\ UNCHANGED <<held, auditVars, verdictVars, oracle, faultFile>>

ArchivesLate(m) ==
  /\ m \in stray
  /\ stray' = stray \ {m}
  /\ held' = CarriedOut("archive", m)
  /\ unanswered' = unanswered \cup {m}
  /\ UNCHANGED <<auditVars, verdictVars, oracle, flying, faultFile, soak>>

(***************************************************************************)
(* The load.                                                               *)
(***************************************************************************)
AnyActive == ActiveOracle  \* mutant: an operation may pick what another one has leased
Unleased == ActiveOracle \ Leased
Fresh == {m \in Entry : held[m] = "absent" /\ m \notin Leased}

Operations ==
  [at : {"sent"}, kind : {"use", "archive"}, entry : Unleased]
  \cup [at : {"sent"}, kind : {"ingest"}, entry : {m \in Fresh : \A n \in Fresh : m <= n}]

WorkloadOperation ==
  /\ soak.phase = "running" /\ ~soak.stopped /\ ~AuditBarrier
  /\ Cardinality(flying) < Concurrency
  /\ \E op \in Operations : flying' = flying \cup {op}
  /\ UNCHANGED <<serviceVars, auditVars, verdictVars, oracle, faultFile, soak>>

\* request() has read the fault file after the answer, and its caller draws the conclusion.
Acknowledges(op) ==
  /\ op.at = "found"
  /\ oracle' = [oracle EXCEPT ![op.entry] =
       CASE op.kind = "ingest" -> "active" [] op.kind = "archive" -> "archived" [] OTHER -> @]
  /\ UNCHANGED <<soak, blamed>>

Blames(op) ==
  /\ op.at = "gone"
  /\ blamed' = blamed \cup {op.entry}
  /\ HardStop
  /\ UNCHANGED oracle

Concludes(op) ==
  /\ Acknowledges(op) \/ Blames(op)
  /\ flying' = flying \ {op}
  /\ UNCHANGED <<serviceVars, auditVars, missing, lostBefore, faultFile>>

(***************************************************************************)
(* Audits.                                                                 *)
(***************************************************************************)
AuditBegins ==
  /\ auditing = NoAudit /\ audits # <<>>
  /\ auditing' = [at |-> "draining", request |-> Head(audits), left |-> {}, ok |-> TRUE]
  /\ audits' = Tail(audits)
  /\ UNCHANGED <<serviceVars, pulse, lastAudit, receipt, verdictVars, oracle, flying, faultFile, soak>>

Snapshot ==
  /\ auditing.at = "draining" /\ flying = {}
  /\ auditing' = [auditing EXCEPT !.at = "verifying", !.left = ActiveOracle]
  /\ lostBefore' = IF auditing.request = Final THEN {m \in Entry : held[m] = "lost"} ELSE lostBefore
  /\ UNCHANGED <<serviceVars, audits, pulse, lastAudit, receipt, blamed, missing, oracle, flying, faultFile, soak>>

\* The audit throws: a heartbeat that awaited it fails, and so does the end of the run.
DrainTimesOut ==
  /\ auditing.at = "draining" /\ flying # {}
  /\ auditing' = NoAudit
  /\ pulse' = "idle"
  /\ soak' = [soak EXCEPT !.stopped = TRUE, !.phase = IF auditing.request = Final THEN "crashed" ELSE @]
  /\ UNCHANGED <<serviceVars, audits, lastAudit, receipt, verdictVars, oracle, flying, faultFile>>

VerifyAuditEntry(m) ==
  /\ auditing.at = "verifying" /\ m \in auditing.left
  /\ \E result \in {"FOUND", "LOST", "UNVERIFIED"} :
       /\ result = "FOUND" => held[m] = "active"
       /\ result = "LOST" => held[m] # "active"
       /\ auditing' = [auditing EXCEPT !.left = @ \ {m}, !.ok = @ /\ result = "FOUND"]
       /\ blamed' = IF result = "LOST" THEN blamed \cup {m} ELSE blamed
       /\ IF result = "FOUND" THEN UNCHANGED soak ELSE HardStop
  /\ UNCHANGED <<serviceVars, audits, pulse, lastAudit, receipt, missing, lostBefore, oracle, flying, faultFile>>

\* A heartbeat that awaited the audit tells its result, and whether the run was stopped.
AuditEnds ==
  /\ auditing.at = "verifying" /\ auditing.left = {}
  /\ auditing' = NoAudit
  /\ pulse' = "idle"
  /\ receipt' = IF pulse = "idle" THEN receipt
                ELSE [request |-> auditing.request, ok |-> auditing.ok /\ ~soak.stopped]
  /\ soak' = IF auditing.request = Final THEN [soak EXCEPT !.phase = "beating"] ELSE soak
  /\ UNCHANGED <<serviceVars, audits, lastAudit, verdictVars, oracle, flying, faultFile>>

\* A heartbeat, one that was queued when the load stopped too, finds a new request in the fault
\* file, unless a fault is active.
HeartbeatAudits ==
  /\ pulse = "idle" /\ soak.phase \in {"running", "draining", "settling", "beating"}
  /\ ~faultFile.active /\ faultFile.request # lastAudit
  /\ lastAudit' = faultFile.request
  /\ audits' = Append(audits, faultFile.request)
  /\ pulse' = "audit"
  /\ UNCHANGED <<serviceVars, auditing, receipt, verdictVars, oracle, flying, faultFile, soak>>

(***************************************************************************)
(* The controller's half of the fault file.                                *)
(***************************************************************************)
FaultBegins ==
  /\ ~faultFile.active /\ faultFile.request < MaxFaults /\ soak.phase = "running"
  /\ faultFile' = [faultFile EXCEPT !.active = TRUE]
  /\ UNCHANGED <<serviceVars, auditVars, verdictVars, oracle, flying, soak>>

FaultEnds ==
  /\ faultFile.active
  /\ faultFile' = [active |-> FALSE, request |-> faultFile.request + 1]
  /\ missing' = [missing EXCEPT ![faultFile.request + 1] = {m \in ActiveOracle : held[m] = "lost"}]
  /\ UNCHANGED <<serviceVars, auditVars, blamed, lostBefore, oracle, flying, soak>>

(***************************************************************************)
(* The end: finalize().                                                    *)
(***************************************************************************)
EndStep == UNCHANGED <<serviceVars, verdictVars, auditing, pulse, lastAudit, receipt, oracle, flying, faultFile>>

\* A signal, a clock that jumps, a full disk, an isolation probe that got no answer.
StoppedFromOutside ==
  /\ soak.phase = "running" /\ ~soak.stopped
  /\ HardStop
  /\ EndStep /\ UNCHANGED audits

LoadStops ==
  /\ soak.phase = "running"
  /\ \E full \in BOOLEAN :
       /\ ~full => soak.stopped
       /\ soak' = [soak EXCEPT !.phase = "draining", !.full = full]
  /\ EndStep /\ UNCHANGED audits

FinalDrain ==
  /\ soak.phase = "draining"
  /\ soak' = [soak EXCEPT !.phase = "settling", !.stopped = @ \/ flying # {}]
  /\ EndStep /\ UNCHANGED audits

FinalAudit ==
  /\ soak.phase = "settling" /\ pulse = "idle" /\ ~AuditBarrier
  /\ audits' = <<Final>>
  /\ soak' = [soak EXCEPT !.phase = "auditing"]
  /\ EndStep

\* After the last heartbeat; a rate too low, or what stopped the run since LoadStops, fails
\* it, and one unexpected error is enough for ADVISORY.
Summarize ==
  /\ soak.phase = "beating" /\ pulse = "idle" /\ ~AuditBarrier
  /\ \E verdict \in {"FAILED", "ADVISORY", "PASSED"} :
       /\ soak.stopped \/ ~soak.full => verdict = "FAILED"
       /\ soak' = [soak EXCEPT !.phase = "ended", !.verdict = verdict]
  /\ EndStep /\ UNCHANGED audits

LoadInit ==
  /\ held = [m \in Entry |-> "absent"]
  /\ oracle = [m \in Entry |-> "none"]
  /\ flying = {} /\ stray = {}
  /\ audits = <<>> /\ auditing = NoAudit /\ pulse = "idle"
  /\ faultFile = [active |-> FALSE, request |-> 0]
  /\ lastAudit = 0
  /\ receipt = [request |-> 0, ok |-> FALSE]
  /\ soak = [phase |-> "running", stopped |-> FALSE, full |-> FALSE, verdict |-> "none"]
  /\ blamed = {} /\ unanswered = {} /\ lostBefore = {}
  /\ missing = [q \in 1 .. MaxFaults |-> {}]

OperationStep == \E op \in flying : ServiceAnswers(op) \/ RequestFails(op) \/ Concludes(op)
AuditStep ==
  \/ AuditBegins \/ Snapshot \/ DrainTimesOut \/ AuditEnds \/ HeartbeatAudits
  \/ \E m \in Entry : VerifyAuditEntry(m)
FinalStep == LoadStops \/ FinalDrain \/ FinalAudit \/ Summarize

LoadNext ==
  \/ \E m \in Entry : ServiceLoses(m) \/ ArchivesLate(m)
  \/ WorkloadOperation \/ OperationStep \/ AuditStep
  \/ FaultBegins \/ FaultEnds \/ StoppedFromOutside \/ FinalStep

LoadSpec == LoadInit /\ [][LoadNext]_loadVars

(***************************************************************************)
(* Properties.                                                             *)
(***************************************************************************)

\* A memory is called lost only if the service lost it or archived it in a call that got no
\* answer: no operation, audit or probe of the run mistakes another one's doing for a loss.
\* Nothing runs beside an audit; one that reports success after a fault overlooked nothing
\* that was acknowledged and lost by then; and a run that did not fail lasted its time and
\* lost nothing acknowledged before its final audit.
LoadTellsTruth ==
  /\ \A m \in blamed : held[m] = "lost" \/ m \in unanswered
  /\ auditing.at = "verifying" => flying = {}
  /\ receipt.ok => \A m \in missing[receipt.request] : oracle[m] # "active"
  /\ soak.verdict \in {"PASSED", "ADVISORY"} =>
       soak.full /\ blamed = {} /\ flying = {} /\ ActiveOracle \cap lostBefore = {}
=============================================================================
