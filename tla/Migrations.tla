----------------------------- MODULE Migrations -----------------------------
(***************************************************************************)
(* migrate() of src/providers/postgres-provider.ts: replicas that start at *)
(* once, die between any two statements, and may ship an edited file.      *)
(* Each file of migrations/ is one transaction that ends by adding its own *)
(* ledger row without a checksum; migrate() pins the checksum afterwards.  *)
(***************************************************************************)
EXTENDS Integers, Sequences

CONSTANTS
  Replica,
  Files,       \* the sequence of versions
  Sources,     \* [Replica -> [version -> checksum of its file]]
  MaxBoots     \* bound on the starts of a replica

\* The files of a directory, sorted by name; a checksum is a hash.
ASSUME MigrationsConstants ==
  /\ Len(Files) \in Nat \ {0} /\ DOMAIN Files = 1 .. Len(Files)
  /\ \A i, j \in DOMAIN Files : Files[i] = Files[j] => i = j
  /\ \A r \in Replica, i \in DOMAIN Files : Sources[r][Files[i]] \notin {"absent", "unpinned"}

VARIABLES
  ledger,      \* version -> "absent", "unpinned" or a checksum
  schema,      \* version -> the source that was applied, or "absent"
  dimension,   \* the embedding table is provisioned
  lockedBy,    \* holders of the advisory lock
  replicas,    \* each replica: where it stands, the next file, its boots
  reapplied,   \* history: some file ran twice
  orphans      \* history: files whose applier left before it pinned them

migrationVars == <<ledger, schema, dimension, lockedBy, replicas, reapplied, orphans>>

Versions == {Files[i] : i \in DOMAIN Files}
File(r) == Files[replicas[r].file]
Working(r) == replicas[r].at \in {"checking", "applied", "recording", "provisioning"}

Go(r, at) == replicas' = [replicas EXCEPT ![r].at = at]

(***************************************************************************)
(* A replica.                                                              *)
(***************************************************************************)
Boot(r) ==
  /\ replicas[r].at \in {"down", "failed"} /\ replicas[r].boots < MaxBoots
  /\ replicas' = [replicas EXCEPT ![r] = [at |-> "waiting", file |-> 1, boots |-> @.boots + 1]]
  /\ UNCHANGED <<ledger, schema, dimension, lockedBy, reapplied, orphans>>

LockIgnored(r) == TRUE  \* mutant: no advisory lock
LockFree(r) == lockedBy = {}

TakesLock(r) ==
  /\ replicas[r].at = "waiting" /\ LockFree(r)
  /\ lockedBy' = lockedBy \cup {r}
  /\ Go(r, "checking")
  /\ UNCHANGED <<ledger, schema, dimension, reapplied, orphans>>

\* A replica that leaves lets the lock go, and the file it has run but not recorded.
Leaves(r, at) ==
  /\ lockedBy' = lockedBy \ {r}
  /\ Go(r, at)
  /\ orphans' = orphans \cup (IF replicas[r].at = "recording" THEN {File(r)} ELSE {})
  /\ UNCHANGED <<ledger, schema, dimension, reapplied>>

\* lock_timeout, or any statement that fails: rolled back, unlocked, reported.
MigrationGivesUp(r) ==
  /\ replicas[r].at = "waiting" \/ Working(r)
  /\ Leaves(r, "failed")

MoveOn(r) ==
  IF replicas[r].file = Len(Files) THEN Go(r, "provisioning")
  ELSE replicas' = [replicas EXCEPT ![r].at = "checking", ![r].file = @ + 1]

\* A file the ledger lists is verified, or pinned if an older binary applied it.
Verify(r) ==
  LET own == Sources[r][File(r)] IN
  /\ replicas[r].at = "checking" /\ ledger[File(r)] # "absent"
  /\ IF ledger[File(r)] \notin {"unpinned", own}
     THEN Go(r, "failed") /\ lockedBy' = lockedBy \ {r} /\ UNCHANGED ledger
     ELSE /\ ledger' = [ledger EXCEPT ![File(r)] = own]
          /\ MoveOn(r)
          /\ UNCHANGED lockedBy
  /\ UNCHANGED <<schema, dimension, reapplied, orphans>>

\* The file's transaction and the row it adds become visible together.  The code decided
\* to run it on a read before, which the advisory lock keeps true.
LedgerRow(v) == IF ledger[v] = "absent" THEN "unpinned" ELSE ledger[v]

Decide(r) ==
  /\ replicas[r].at = "checking" /\ ledger[File(r)] = "absent"
  /\ Go(r, "applied")
  /\ UNCHANGED <<ledger, schema, dimension, lockedBy, reapplied, orphans>>

Run(r) ==
  /\ replicas[r].at = "applied"
  /\ ledger' = [ledger EXCEPT ![File(r)] = LedgerRow(File(r))]
  /\ reapplied' = (reapplied \/ schema[File(r)] # "absent")
  /\ schema' = [schema EXCEPT ![File(r)] = Sources[r][File(r)]]
  /\ Go(r, "recording")
  /\ UNCHANGED <<dimension, lockedBy, orphans>>

\* INSERT ... ON CONFLICT DO UPDATE ... WHERE checksum IS NULL.
Record(r) ==
  /\ replicas[r].at = "recording"
  /\ ledger' = [ledger EXCEPT ![File(r)] = IF @ = "unpinned" THEN Sources[r][File(r)] ELSE @]
  /\ MoveOn(r)
  /\ UNCHANGED <<schema, dimension, lockedBy, reapplied, orphans>>

Provision(r) ==
  /\ replicas[r].at = "provisioning"
  /\ dimension' = TRUE
  /\ lockedBy' = lockedBy \ {r}
  /\ Go(r, "ready")
  /\ UNCHANGED <<ledger, schema, reapplied, orphans>>

\* What health() finds in the catalog: the table, its space column, the five valid dedupe
\* indexes, which the three files bring in this order, and the embedding table if an embedder
\* needs one.
HealthOk(embedder) ==
  /\ \A i \in DOMAIN Files : schema[Files[i]] # "absent"
  /\ embedder => dimension

\* The process dies: its session ends, and with it the lock.
Die(r) ==
  /\ replicas[r].at \notin {"down", "failed"}
  /\ Leaves(r, "down")

\* A fresh database, or one an older binary migrated without checksums.
MigrationsInit ==
  /\ \E n \in 0 .. Len(Files), original \in {Sources[r] : r \in Replica} :
       /\ ledger = [v \in Versions |->
            IF \E i \in 1 .. n : Files[i] = v THEN "unpinned" ELSE "absent"]
       /\ schema = [v \in Versions |->
            IF \E i \in 1 .. n : Files[i] = v THEN original[v] ELSE "absent"]
       /\ orphans = {Files[i] : i \in 1 .. n}
  /\ dimension = FALSE
  /\ lockedBy = {}
  /\ replicas = [r \in Replica |-> [at |-> "down", file |-> 1, boots |-> 0]]
  /\ reapplied = FALSE

MigrationsNext ==
  \E r \in Replica :
    \/ Boot(r) \/ TakesLock(r) \/ MigrationGivesUp(r) \/ Verify(r) \/ Decide(r) \/ Run(r)
    \/ Record(r) \/ Provision(r) \/ Die(r)

MigrationsSpec == MigrationsInit /\ [][MigrationsNext]_migrationVars

(***************************************************************************)
(* Properties.                                                             *)
(***************************************************************************)

\* Whoever dies where, no file runs twice (003 cannot), none runs before its predecessors,
\* the ledger lists what was applied, and a replica serves only the complete schema, which
\* its own files made, or files with their text; probes find it healthy from then on, and
\* nothing less.  Excepted is a file whose applier left before it pinned the checksum, an
\* older binary or a process that died: the next replica vouches for it with a checksum of
\* its own, whatever text was applied.
LedgerTellsSchema ==
  /\ ~reapplied
  /\ \A i \in DOMAIN Files :
       /\ ledger[Files[i]] = "absent" <=> schema[Files[i]] = "absent"
       /\ schema[Files[i]] # "absent" => \A j \in 1 .. i : schema[Files[j]] # "absent"
  /\ \A r \in Replica : replicas[r].at = "ready" =>
       HealthOk(TRUE) /\ \A v \in Versions \ orphans : schema[v] = Sources[r][v]
  /\ HealthOk(FALSE) => \A v \in Versions : ledger[v] # "absent"
=============================================================================
