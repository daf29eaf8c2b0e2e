---------------------------- MODULE BenchmarkRuns ----------------------------
(***************************************************************************)
(* bench/longmemeval: Mode A, whose shard workers append a row per         *)
(* question and whose aggregator reports on them, and Mode B, which pays   *)
(* a reader and a judge for each question of a complete Mode A.  Both are  *)
(* resumed by running the same command again.                              *)
(*                                                                         *)
(* One system, one condition, the whole question set, one seed and data    *)
(* set: an identity is a commit.  The checkout and the paid endpoint are   *)
(* external.  A file is the set of its readable rows and whether it ends   *)
(* in a torn line; whoever appends next to a torn line loses its row too.  *)
(***************************************************************************)
EXTENDS Integers, FiniteSetsExt

CONSTANTS
  Question,     \* 1 .. n, as they sort
  MaxShards,
  PoolSize,  \* questions Mode B has in hand
  MaxCommit,
  MaxMishaps    \* crashes, failed questions and edits given up

ASSUME BenchmarkConstants == Question \subseteq Nat /\ IsFiniteSet(Question)

VARIABLES
  checkout,  \* the repository: its head, and whether its worktree is dirty
  files,     \* per shard, its readable rows and whether its last line is torn
  modeA,     \* the orchestrator: "off", "sharding", "aggregating", and its number of shards
  workers,   \* per shard: off, or a process that loads its modules, is stamped, runs
  reportA,   \* the latest: for which commit, whether it has no fatal flag, the rows it rests on
  fileB,
  modeB,     \* as one of the workers; todo: the questions not begun
  slots,     \* the questions of the pool in hand, each in one of its two calls
  reportB,
  mishaps

runA == <<files, modeA, workers, reportA>>
runB == <<fileB, modeB, slots, reportB>>
benchmarkVars == <<checkout, runA, runB, mishaps>>

Shard == 0 .. MaxShards - 1
Off == [at |-> "off"]
NoReport == [run |-> 0, ok |-> FALSE, rows |-> {}]
EmptyFile == [rows |-> {}, torn |-> FALSE]

\* A process that begins to load its modules now; the code it runs is that of the checkout, or
\* any mixture if the checkout changes before it has looked at the worktree.
NewProcess == [at |-> "loading", code |-> checkout, run |-> 0, todo |-> {}]
Mixture == [head |-> 0, dirty |-> TRUE]

\* What git rev-parse tells, and git status.
RunIdentity == checkout.head
CleanWorktree == ~checkout.dirty

(***************************************************************************)
(* integrity.ts, and how rows are read.                                    *)
(***************************************************************************)
RowMatchesRun(row, run) == row.run = run

\* mutant: a question that failed is not tried again
Attempted(rows, run) == {row.qid : row \in {r \in rows : RowMatchesRun(r, run)}}
LoadDone(rows, run) == {row.qid : row \in {r \in rows : RowMatchesRun(r, run) /\ r.ok}}

\* One row per question of this run: the first successful one, if there is any, in the order in
\* which the directory lists the shards.
Preferred(rows, run) ==
  LET mine == {r \in rows : RowMatchesRun(r, run)} IN
  {r \in mine : r.ok \/ ~\E s \in mine : s.qid = r.qid /\ s.ok}

ReadRows(rows, run) ==
  {read \in SUBSET Preferred(rows, run) :
    \A r \in Preferred(rows, run) : \E only \in read : {s \in read : s.qid = r.qid} = {only}}

RunFailures(rows) ==
  {q \in Question : \A r \in rows : r.qid # q} \cup {r.qid : r \in {s \in rows : ~s.ok}}

Report(read, run) == [run |-> run, ok |-> RunFailures(read) = {}, rows |-> read]

RowOf(p, qid, ok) == [qid |-> qid, run |-> p.run, code |-> p.code, ok |-> ok]

\* fs.appendFileSync() of a row
Appended(file, row) ==
  IF file.torn THEN [file EXCEPT !.torn = FALSE] ELSE [file EXCEPT !.rows = @ \cup {row}]

\* A process dies while it appends, or not.
Tearings(file) == {file, [file EXCEPT !.torn = TRUE]}

Mishap == mishaps < MaxMishaps /\ mishaps' = mishaps + 1

(***************************************************************************)
(* The repository is edited; the edits are stashed, or committed.          *)
(***************************************************************************)
Overtaken(p) == IF p.at \in {"loading", "stamped"} THEN [p EXCEPT !.code = Mixture] ELSE p

Moves(next) ==
  /\ checkout' = next
  /\ workers' = [s \in Shard |-> Overtaken(workers[s])] /\ modeB' = Overtaken(modeB)
  /\ UNCHANGED <<files, modeA, reportA, fileB, slots, reportB>>

Edit ==
  /\ ~checkout.dirty /\ checkout.head < MaxCommit
  /\ Moves([checkout EXCEPT !.dirty = TRUE])
  /\ UNCHANGED mishaps

Stash ==
  /\ checkout.dirty
  /\ Moves([checkout EXCEPT !.dirty = FALSE])
  /\ Mishap

Commit ==
  /\ checkout.dirty
  /\ Moves([head |-> checkout.head + 1, dirty |-> FALSE])
  /\ UNCHANGED mishaps

(***************************************************************************)
(* Mode A.                                                                 *)
(***************************************************************************)
AllRows == UNION {files[s].rows : s \in Shard}
OfShard(s) == {q \in Question : (q - 1) % modeA.shards = s}

OrchestratorStarts ==
  /\ modeA = Off
  /\ ~(reportA.ok /\ reportA.run = RunIdentity)
  /\ \E n \in 1 .. MaxShards :
       /\ modeA' = [at |-> "sharding", shards |-> n]
       /\ workers' = [s \in Shard |-> IF s < n THEN NewProcess ELSE Off]
  /\ UNCHANGED <<checkout, files, reportA, runB, mishaps>>

NoCheck == TRUE  \* mutant: a worktree that is not clean is stamped with its head like any other
Startable == CleanWorktree

\* Its imports come first, then git rev-parse, then git status.
WorkerStamps(s) ==
  /\ workers[s].at = "loading"
  /\ workers' = [workers EXCEPT ![s].at = "stamped", ![s].run = RunIdentity]
  /\ UNCHANGED <<checkout, files, modeA, reportA, runB, mishaps>>

\* An unclean worktree stops a worker at once.
WorkerStarts(s) ==
  /\ workers[s].at = "stamped"
  /\ workers' = [workers EXCEPT ![s] =
       IF ~Startable THEN Off
       ELSE [@ EXCEPT !.at = "running", !.todo = OfShard(s) \ LoadDone(files[s].rows, workers[s].run)]]
  /\ UNCHANGED <<checkout, files, modeA, reportA, runB, mishaps>>

\* The next question, answered or failed.
WorkerAppends(s) ==
  /\ workers[s].at = "running" /\ workers[s].todo # {}
  /\ LET w == workers[s] q == Min(w.todo) IN
     /\ \E ok \in BOOLEAN :
          /\ IF ok THEN UNCHANGED mishaps ELSE Mishap
          /\ files' = [files EXCEPT ![s] = Appended(@, RowOf(w, q, ok))]
     /\ workers' = [workers EXCEPT ![s].todo = @ \ {q}]
  /\ UNCHANGED <<checkout, modeA, reportA, runB>>

WorkerEnds(s) ==
  /\ workers[s].at = "running" /\ workers[s].todo = {}
  /\ workers' = [workers EXCEPT ![s] = Off]
  /\ UNCHANGED <<checkout, files, modeA, reportA, runB, mishaps>>

\* The kernel, or a liveness failure that must not fill the file with error rows.
WorkerDies(s) ==
  /\ workers[s].at = "running" /\ workers[s].todo # {}
  /\ Mishap
  /\ workers' = [workers EXCEPT ![s] = Off]
  /\ \E file \in Tearings(files[s]) : files' = [files EXCEPT ![s] = file]
  /\ UNCHANGED <<checkout, modeA, reportA, runB>>

\* Whether or not shards failed, the rows on disk are aggregated, for the head of that moment.
Aggregate ==
  /\ modeA.at = "sharding" /\ \A s \in Shard : workers[s] = Off
  /\ modeA' = Off
  /\ IF Startable
     THEN \E read \in ReadRows(AllRows, RunIdentity) : reportA' = Report(read, RunIdentity)
     ELSE UNCHANGED reportA
  /\ UNCHANGED <<checkout, files, workers, runB, mishaps>>

(***************************************************************************)
(* Mode B.                                                                 *)
(***************************************************************************)

ModeBLoads ==
  /\ modeB = Off
  /\ ~(reportB.ok /\ reportB.run = RunIdentity)
  /\ modeB' = NewProcess
  /\ UNCHANGED <<checkout, runA, fileB, slots, reportB, mishaps>>

ModeBStamps ==
  /\ modeB.at = "loading"
  /\ modeB' = [modeB EXCEPT !.at = "stamped", !.run = RunIdentity]
  /\ UNCHANGED <<checkout, runA, fileB, slots, reportB, mishaps>>

\* Nothing is paid for unless Mode A is complete for the stamped commit.
ModeBStarts ==
  /\ modeB.at = "stamped"
  /\ modeB' =
       IF Startable /\ \E read \in ReadRows(AllRows, modeB.run) : RunFailures(read) = {}
       THEN [modeB EXCEPT !.at = "running", !.todo = Question \ LoadDone(fileB.rows, modeB.run)]
       ELSE Off
  /\ UNCHANGED <<checkout, runA, fileB, slots, reportB, mishaps>>

TakesNext ==
  /\ modeB.at = "running" /\ modeB.todo # {} /\ Cardinality(slots) < PoolSize
  /\ modeB' = [modeB EXCEPT !.todo = @ \ {Min(modeB.todo)}]
  /\ slots' = slots \cup {[qid |-> Min(modeB.todo), call |-> "answer"]}
  /\ UNCHANGED <<checkout, runA, fileB, reportB, mishaps>>

Records(slot, ok) ==
  /\ slots' = slots \ {slot}
  /\ fileB' = Appended(fileB, RowOf(modeB, slot.qid, ok))

\* chat(): text, if only the end of a reasoning trace
CallAnswers(slot) ==
  /\ IF slot.call = "judge" THEN Records(slot, TRUE)
     ELSE /\ slots' = (slots \ {slot}) \cup {[slot EXCEPT !.call = "judge"]}
          /\ UNCHANGED fileB
  /\ UNCHANGED <<checkout, runA, modeB, reportB, mishaps>>

\* Not worth another attempt, or its attempts are used up.
CallGivenUp(slot) ==
  /\ Mishap
  /\ Records(slot, FALSE)
  /\ UNCHANGED <<checkout, runA, modeB, reportB>>

ModeBDies ==
  /\ modeB.at = "running"
  /\ Mishap
  /\ modeB' = Off /\ slots' = {}
  /\ fileB' \in IF slots = {} THEN {fileB} ELSE Tearings(fileB)
  /\ UNCHANGED <<checkout, runA, reportB>>

\* The file is read again, for the identity of the start.
ModeBReports ==
  /\ modeB.at = "running" /\ modeB.todo = {} /\ slots = {}
  /\ modeB' = Off
  /\ \E read \in ReadRows(fileB.rows, modeB.run) : reportB' = Report(read, modeB.run)
  /\ UNCHANGED <<checkout, runA, fileB, slots, mishaps>>

BenchmarkInit ==
  /\ checkout = [head |-> 1, dirty |-> FALSE]
  /\ files = [s \in Shard |-> EmptyFile] /\ fileB = EmptyFile
  /\ modeA = Off /\ workers = [s \in Shard |-> Off] /\ reportA = NoReport
  /\ modeB = Off /\ slots = {} /\ reportB = NoReport
  /\ mishaps = 0

WorkerStep(s) ==
  \/ WorkerStamps(s) \/ WorkerStarts(s) \/ WorkerAppends(s) \/ WorkerEnds(s)
PoolStep == TakesNext \/ \E slot \in slots : CallAnswers(slot) \/ CallGivenUp(slot)

OrchestratorStep == OrchestratorStarts \/ Aggregate
ModeBStep == ModeBLoads \/ ModeBStamps \/ ModeBStarts \/ PoolStep \/ ModeBReports

BenchmarkNext ==
  \/ Edit \/ Stash \/ Commit
  \/ OrchestratorStep \/ \E s \in Shard : WorkerStep(s) \/ WorkerDies(s)
  \/ ModeBStep \/ ModeBDies

BenchmarkSpec == BenchmarkInit /\ [][BenchmarkNext]_benchmarkVars

(***************************************************************************)
(* Properties.                                                             *)
(***************************************************************************)

\* A report without a fatal flag rests on exactly one row for every question, each of which
\* succeeded, however many commits, crashes, shard counts and reruns wrote to the files it read.
\* Each was computed by the clean code of the report's own commit, unless the checkout changed
\* while the process that wrote it was starting: what it loads, the head it stamps and the
\* worktree it finds clean are of three moments, and it cannot tell.
ReportsTellTruth ==
  \A report \in {reportA, reportB} : report.ok =>
    /\ {r.qid : r \in report.rows} = Question
    /\ Cardinality(report.rows) = Cardinality(Question)
    /\ \A r \in report.rows :
         r.ok /\ r.run = report.run /\ r.code \in {[head |-> report.run, dirty |-> FALSE], Mixture}

\* Once begun, running the same commands again brings both reports of the current commit in
\* the end: no crash, torn line or failed question is stuck in the files.
RerunsConverge ==
  modeA # Off ~> [](reportA.ok /\ reportB.ok /\ reportA.run = checkout.head /\ reportB.run = checkout.head)
=============================================================================
