----------------------------- MODULE MCDurable ------------------------------
(***************************************************************************)
(* Small instances of what outlives a request: the file provider's file,   *)
(* the process that serves, the migrations it runs at boot, and the        *)
(* benchmark that is resumed from its files.  The modules share no state,  *)
(* so each behaviour exercises one of them, named by part.                 *)
(***************************************************************************)
EXTENDS FileProvider, Shutdown, Migrations, BenchmarkRuns, TLC

VARIABLE part

durableVars == <<vars, serverStateVars, migrationVars, benchmarkVars, part>>

\* Three files; one of two replicas ships an edited second one.
MCFiles == <<"001", "002", "003">>
MCSources ==
  [r \in Replica |-> [v \in {"001", "002", "003"} |-> IF r = "edited" /\ v = "002" THEN "sum2" ELSE "sum1"]]

\* Bound: Mode A and Mode B are under way together only on the last commit, and only as long as
\* nothing has failed.
OneCommand == Off \in {modeA', modeB'} \/ (checkout.head = MaxCommit /\ mishaps' = 0)

DurableInit ==
  /\ part \in {"file", "process", "migrations", "benchmark"}
  /\ Init /\ ShutdownInit /\ MigrationsInit /\ BenchmarkInit
  /\ part # "migrations" => \A v \in Versions : ledger[v] = "absent"

DurableNext ==
  /\ UNCHANGED part
  /\ \/ part = "file" /\ Next
        /\ UNCHANGED <<serverStateVars, migrationVars, benchmarkVars>>
     \/ part = "process" /\ ShutdownNext
        /\ UNCHANGED <<vars, migrationVars, benchmarkVars>>
     \/ part = "migrations" /\ MigrationsNext
        /\ UNCHANGED <<vars, serverStateVars, benchmarkVars>>
     \/ part = "benchmark" /\ BenchmarkNext /\ OneCommand
        /\ UNCHANGED <<vars, serverStateVars, migrationVars>>

\* Whoever runs the benchmark commits the edits and runs its commands again until they
\* succeed, Mode A too when it has to wait for Mode B to end; calls have deadlines.
DurableSpec ==
  /\ DurableInit /\ [][DurableNext]_durableVars
  /\ FileFairness /\ ShutdownFairness
  /\ WF_benchmarkVars(part = "benchmark" /\ Commit)
  /\ SF_benchmarkVars(part = "benchmark" /\ OrchestratorStep /\ OneCommand)
  /\ \A s \in Shard : WF_benchmarkVars(part = "benchmark" /\ WorkerStep(s))
  /\ WF_benchmarkVars(part = "benchmark" /\ ModeBStep /\ OneCommand)
=============================================================================
