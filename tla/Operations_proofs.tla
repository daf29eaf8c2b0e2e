-------------------------- MODULE Operations_proofs --------------------------
(***************************************************************************)
(* How the service is run: what a process leaves behind however it starts  *)
(* and ends, the file that a single host keeps its store in, the schema    *)
(* that replicas migrate together, and what the harnesses report of it - a *)
(* benchmark that is resumed, the load of an endurance run, the campaign   *)
(* that disturbs it - for every number of requests, writes, replicas,      *)
(* files, questions, memories and containers.                              *)
(***************************************************************************)
EXTENDS Shutdown, FileProvider, Migrations, BenchmarkRuns, EnduranceLoad, Campaign,
        FiniteSetTheorems, FunctionTheorems, TLAPS

(***************************************************************************)
(* The end of the server.  Only an emptied server can end with code 0, for *)
(* the timer that gives the drain up ends with 1 and the first caller of   *)
(* finishShutdown() decides.                                               *)
(***************************************************************************)
ShutdownTypeOK ==
  /\ process \in {"booting", "listening", "exited"}
  /\ inFlight \in [Request -> {"none", "open", "answered", "cut"}]
  /\ shuttingDown \in BOOLEAN
  /\ forceTimer \in {"unset", "set", "cleared", "fired"}
  /\ finalized \in [is: BOOLEAN, code: {0, 1}, at: Nat]
  /\ closing \in {"no", "begun", "closed", "failed"}
  /\ exitCode \in {-1, 0, 1, 143}
  /\ elapsed \in Nat

Settled == \A r \in Request : inFlight[r] \in {"none", "answered"}

ShutdownInv ==
  /\ ShutdownTypeOK
  /\ process = "booting" =>
       ~shuttingDown /\ closing \in {"no", "begun"} /\ \A r \in Request : inFlight[r] = "none"
  /\ process = "listening" =>
       closing \in {"no", "begun"} /\ (closing = "begun" <=> finalized.is)
  /\ ~shuttingDown =>
       /\ forceTimer = "unset" /\ elapsed = 0 /\ ~finalized.is
       /\ \A r \in Request : inFlight[r] # "cut"
       /\ closing # "no" => \A r \in Request : inFlight[r] = "none"
  /\ shuttingDown => (forceTimer = "set" <=> ~finalized.is)
  /\ forceTimer = "set" => closing = "no" /\ elapsed <= ShutdownTimeout
  /\ finalized.is => finalized.at <= ShutdownTimeout /\ elapsed <= finalized.at + CloseTimeout
  /\ finalized.is /\ finalized.code = 0 => Settled
  /\ (\E r \in Request : inFlight[r] = "cut") => elapsed >= ShutdownTimeout /\ finalized.is
  /\ process = "exited" /\ exitCode = 0 => closing = "closed" /\ Settled

\* A process that has not begun.
LEMMA ShutdownInvInit == ShutdownInit => ShutdownInv
<1> SUFFICES ASSUME ShutdownInit PROVE ShutdownInv
  OBVIOUS
<1>1. ShutdownTypeOK
  BY DEF ShutdownInit, ShutdownTypeOK, NotFinal
<1>2. \A r \in Request : inFlight[r] = "none"
  BY DEF ShutdownInit
<1>3. ~finalized.is
  BY DEF ShutdownInit, NotFinal
<1> QED BY <1>1, <1>2, <1>3 DEF ShutdownInit, ShutdownInv

\* Every step of the boot, of a request and of the end keeps the invariant.
LEMMA ShutdownInvStep == ShutdownInv /\ [ShutdownNext]_serverStateVars => ShutdownInv'
<1> SUFFICES ASSUME ShutdownInv, [ShutdownNext]_serverStateVars PROVE ShutdownInv'
  OBVIOUS
<1> USE ShutdownConstants DEF ShutdownInv, ShutdownTypeOK, Settled
<1>1. CASE BootSucceeds
  BY <1>1 DEF BootSucceeds
<1>2. CASE MigrationFails
  BY <1>2 DEF MigrationFails
<1>3. CASE BootGivesUp
  BY <1>3 DEF BootGivesUp
<1>4. CASE KilledAtBoot
  BY <1>4 DEF KilledAtBoot
<1>5. ASSUME NEW r \in Request, Accept(r) PROVE ShutdownInv'
  BY <1>5 DEF Accept
<1>6. ASSUME NEW r \in Request, Answer(r) PROVE ShutdownInv'
  BY <1>6 DEF Answer
<1>7. CASE Signal
  BY <1>7 DEF Signal
<1>8. CASE ForceTimerFires
  <2>1. /\ shuttingDown /\ ~finalized.is /\ process = "listening" /\ closing = "no"
        /\ elapsed = ShutdownTimeout
    BY <1>8 DEF ForceTimerFires
  <2>2. /\ finalized' = [is |-> TRUE, code |-> 1, at |-> elapsed] /\ closing' = "begun"
        /\ forceTimer' = "fired"
        /\ UNCHANGED <<process, shuttingDown, exitCode, elapsed>>
    BY <1>8, <2>1 DEF ForceTimerFires, FinishShutdown
  <2>3. inFlight' \in [Request -> {"none", "open", "answered", "cut"}]
    BY <1>8 DEF ForceTimerFires
  <2>4. finalized'.is /\ finalized'.code = 1 /\ finalized'.at = elapsed
    BY <2>2
  <2>5. finalized' \in [is: BOOLEAN, code: {0, 1}, at: Nat]
    BY <2>2
  <2> QED BY <2>1, <2>2, <2>3, <2>4, <2>5
<1>9. CASE ServerClosed
  <2>1. /\ shuttingDown /\ process = "listening" /\ forceTimer' = "cleared"
        /\ UNCHANGED <<process, inFlight, shuttingDown, exitCode, elapsed>>
        /\ \A r \in Request : inFlight[r] # "open"
    BY <1>9 DEF ServerClosed, Open
  <2>2. CASE finalized.is
    <3>1. UNCHANGED <<finalized, closing>>
      BY <1>9, <2>2 DEF ServerClosed, FinishShutdown
    <3> QED BY <2>1, <2>2, <3>1
  <2>3. CASE ~finalized.is
    <3>1. PICK code \in {0, 1} :
            finalized' = [is |-> TRUE, code |-> code, at |-> elapsed] /\ closing' = "begun"
      BY <1>9, <2>3 DEF ServerClosed, FinishShutdown
    <3>2. forceTimer = "set" /\ elapsed <= ShutdownTimeout
      BY <2>1, <2>3
    <3>3. /\ finalized' \in [is: BOOLEAN, code: {0, 1}, at: Nat]
          /\ finalized'.is /\ finalized'.at = elapsed
      BY <3>1
    <3>4. \A r \in Request : inFlight[r] \in {"none", "answered"}
      BY <2>1, <2>3
    <3> QED BY <2>1, <2>3, <3>1, <3>2, <3>3, <3>4
  <2> QED BY <2>2, <2>3
<1>10. CASE ProviderCloses
  BY <1>10 DEF ProviderCloses
<1>11. CASE CloseTimerFires
  BY <1>11 DEF CloseTimerFires
<1>12. CASE TimeGoes
  BY <1>12 DEF TimeGoes
<1>13. CASE UNCHANGED serverStateVars
  BY <1>13 DEF serverStateVars
<1> QED BY <1>1, <1>2, <1>3, <1>4, <1>5, <1>6, <1>7, <1>8, <1>9, <1>10, <1>11, <1>12, <1>13
        DEF ShutdownNext

\* A process that reports success answered every request and closed its store, and one that
\* was told to stop keeps to its two timeouts.
THEOREM ExitsAreHonest == ShutdownSpec => []ExitIsHonest
<1>1. ShutdownInv => ExitIsHonest
  BY ShutdownConstants DEF ShutdownInv, ShutdownTypeOK, Settled, ExitIsHonest, Open
<1> QED BY <1>1, ShutdownInvInit, ShutdownInvStep, PTL DEF ShutdownSpec

(***************************************************************************)
(* Replicas that migrate.  The advisory lock is held by exactly those that *)
(* work, so what one of them read of the ledger is still true when it      *)
(* acts on it; and a pinned row is never changed, so what a replica        *)
(* verified stays so after it has let the lock go.                         *)
(***************************************************************************)
Positions == DOMAIN Files
Stages == {"down", "failed", "waiting", "checking", "applied", "recording", "provisioning", "ready"}

MigrationTypeOK ==
  /\ DOMAIN ledger = Versions /\ DOMAIN schema = Versions
  /\ replicas \in [Replica -> [at: Stages, file: Positions, boots: Int]]

OwnRow(r, i) == ledger[Files[i]] = Sources[r][Files[i]]

SchemaInOrder ==
  \A i \in Positions :
    /\ ledger[Files[i]] = "absent" <=> schema[Files[i]] = "absent"
    /\ schema[Files[i]] # "absent" => \A j \in 1 .. i : schema[Files[j]] # "absent"

LockHeld ==
  /\ lockedBy = {r \in Replica : Working(r)}
  /\ \A r, q \in lockedBy : r = q

\* How far a replica has come.
Progress(r) ==
  /\ replicas[r].at = "waiting" => replicas[r].file = 1
  /\ Working(r) => \A j \in 1 .. replicas[r].file - 1 : OwnRow(r, j)
  /\ replicas[r].at = "applied" => ledger[File(r)] = "absent"
  /\ replicas[r].at = "recording" => ledger[File(r)] = "unpinned"
  /\ replicas[r].at = "provisioning" => \A i \in Positions : OwnRow(r, i)
  /\ replicas[r].at = "ready" => dimension /\ \A i \in Positions : OwnRow(r, i)

MigrationInv ==
  /\ MigrationTypeOK
  /\ ~reapplied
  /\ SchemaInOrder
  /\ LockHeld
  /\ \A r \in Replica : Progress(r)

\* A fresh database, or one that an older binary brought some way.
LEMMA MigrationInvInit == MigrationsInit => MigrationInv
<1> SUFFICES ASSUME MigrationsInit PROVE MigrationInv
  OBVIOUS
<1> USE MigrationsConstants
<1>1. PICK n \in 0 .. Len(Files), original \in {Sources[r] : r \in Replica} :
        /\ ledger = [v \in Versions |->
             IF \E i \in 1 .. n : Files[i] = v THEN "unpinned" ELSE "absent"]
        /\ schema = [v \in Versions |->
             IF \E i \in 1 .. n : Files[i] = v THEN original[v] ELSE "absent"]
  BY DEF MigrationsInit
<1>2. \A i \in Positions :
        /\ ledger[Files[i]] = IF i <= n THEN "unpinned" ELSE "absent"
        /\ schema[Files[i]] = IF i <= n THEN original[Files[i]] ELSE "absent"
        /\ original[Files[i]] # "absent"
  <2> SUFFICES ASSUME NEW i \in Positions
               PROVE  /\ ledger[Files[i]] = IF i <= n THEN "unpinned" ELSE "absent"
                      /\ schema[Files[i]] = IF i <= n THEN original[Files[i]] ELSE "absent"
                      /\ original[Files[i]] # "absent"
    OBVIOUS
  <2>1. (\E k \in 1 .. n : Files[k] = Files[i]) <=> i <= n
    BY DEF Positions
  <2>2. Files[i] \in Versions
    BY DEF Versions, Positions
  <2>3. original[Files[i]] # "absent"
    BY DEF Positions
  <2> QED BY <1>1, <2>1, <2>2, <2>3
<1>3. SchemaInOrder
  BY <1>2 DEF SchemaInOrder, Positions
<1>4. MigrationTypeOK
  BY <1>1 DEF MigrationsInit, MigrationTypeOK, Stages, Positions
<1>5. LockHeld /\ ~reapplied /\ \A r \in Replica : Progress(r)
  BY DEF MigrationsInit, LockHeld, Working, Progress
<1> QED BY <1>3, <1>4, <1>5 DEF MigrationInv

\* A step that leaves the rows alone.
LEMMA RowsUntouched ==
  ASSUME MigrationInv, NEW r \in Replica, UNCHANGED <<ledger, schema, reapplied>>,
         NEW to \in [at: Stages, file: Positions, boots: Int],
         replicas' = [replicas EXCEPT ![r] = to],
         dimension => dimension',
         LockHeld', Progress(r)'
  PROVE  MigrationInv'
<1>1. MigrationTypeOK'
  BY DEF MigrationInv, MigrationTypeOK
<1>2. SchemaInOrder' /\ ~reapplied'
  BY DEF MigrationInv, SchemaInOrder
<1>3. ASSUME NEW q \in Replica PROVE Progress(q)'
  <2>1. CASE q = r
    BY <2>1
  <2>2. CASE q # r
    <3>1. replicas'[q] = replicas[q]
      BY <2>2 DEF MigrationInv, MigrationTypeOK
    <3> QED BY <3>1 DEF MigrationInv, Progress, Working, OwnRow, File
  <2> QED BY <2>1, <2>2
<1> QED BY <1>1, <1>2, <1>3 DEF MigrationInv

\* A working replica holds the lock, so no other one works.
LEMMA WorksAlone ==
  ASSUME MigrationInv, NEW r \in Replica, Working(r), NEW q \in Replica, q # r
  PROVE  ~Working(q)
BY DEF MigrationInv, LockHeld

\* A working replica pins or adds its row: a pinned row is left as it is.
LEMMA RowWritten ==
  ASSUME MigrationInv, NEW r \in Replica, Working(r), NEW v,
         ledger' = [ledger EXCEPT ![File(r)] = v],
         ledger[File(r)] \in {"absent", "unpinned"} \/ v = ledger[File(r)],
         NEW to \in [at: Stages, file: Positions, boots: Int],
         replicas' = [replicas EXCEPT ![r] = to],
         UNCHANGED <<lockedBy, dimension>>, DOMAIN schema' = Versions,
         Working(r)', Progress(r)', SchemaInOrder', ~reapplied'
  PROVE  MigrationInv'
<1>1. MigrationTypeOK'
  BY DEF MigrationInv, MigrationTypeOK
<1>2. \A q \in Replica \ {r} : replicas'[q] = replicas[q]
  BY DEF MigrationInv, MigrationTypeOK
<1>3. LockHeld'
  <2>1. \A q \in Replica : Working(q)' <=> Working(q)
    BY <1>2 DEF Working
  <2> QED BY <2>1 DEF MigrationInv, LockHeld
<1>4. ASSUME NEW q \in Replica PROVE Progress(q)'
  <2>1. CASE q = r
    BY <2>1
  <2>2. CASE q # r
    <3>1. replicas'[q] = replicas[q] /\ ~Working(q)
      BY <1>2, <2>2, WorksAlone
    <3>2. ASSUME NEW i \in Positions, OwnRow(q, i)
          PROVE  OwnRow(q, i)'
      <4>1. ledger[Files[i]] \notin {"absent", "unpinned"}
        BY <3>2, MigrationsConstants DEF OwnRow, Positions
      <4>2. ledger'[Files[i]] = ledger[Files[i]]
        BY <4>1 DEF MigrationInv, MigrationTypeOK
      <4> QED BY <3>2, <4>2 DEF OwnRow
    <3> QED BY <3>1, <3>2 DEF MigrationInv, Progress, Working
  <2> QED BY <2>1, <2>2
<1> QED BY <1>1, <1>3, <1>4 DEF MigrationInv

\* A replica whose row is its own goes on to the next file, or to what comes after the last.
LEMMA MovesOn ==
  ASSUME MigrationInv, NEW r \in Replica, Working(r), MoveOn(r),
         ledger' = [ledger EXCEPT ![File(r)] = Sources[r][File(r)]]
  PROVE  /\ Working(r)' /\ Progress(r)'
         /\ \E to \in [at: Stages, file: Positions, boots: Int] :
              replicas' = [replicas EXCEPT ![r] = to]
<1> DEFINE k == replicas[r].file
           last == k = Len(Files)
           to == IF last THEN [replicas[r] EXCEPT !.at = "provisioning"]
                 ELSE [replicas[r] EXCEPT !.at = "checking", !.file = k + 1]
<1>1. k \in Positions /\ k \in 1 .. Len(Files) /\ Len(Files) \in Nat
  BY MigrationsConstants DEF MigrationInv, MigrationTypeOK, Positions
<1>2. replicas' = [replicas EXCEPT ![r] = to]
  BY DEF MoveOn, Go, MigrationInv, MigrationTypeOK
<1>3. to \in [at: Stages, file: Positions, boots: Int]
  <2>1. replicas[r] \in [at: Stages, file: Positions, boots: Int]
    BY DEF MigrationInv, MigrationTypeOK
  <2>2. ~last => k + 1 \in Positions
    BY <1>1, MigrationsConstants DEF Positions
  <2>3. "provisioning" \in Stages /\ "checking" \in Stages
    BY DEF Stages
  <2> QED BY <2>1, <2>2, <2>3
<1>4. replicas'[r] = to
  BY <1>2 DEF MigrationInv, MigrationTypeOK
<1>5. \A j \in 1 .. k : OwnRow(r, j)'
  <2> SUFFICES ASSUME NEW j \in 1 .. k PROVE OwnRow(r, j)'
    OBVIOUS
  <2>1. File(r) = Files[k] /\ DOMAIN ledger = Versions /\ Files[j] \in Versions /\ Files[k] \in Versions
    BY <1>1, MigrationsConstants DEF File, MigrationInv, MigrationTypeOK, Versions, Positions
  <2>2. CASE j = k
    BY <2>1, <2>2 DEF OwnRow
  <2>3. CASE j # k
    <3>1. OwnRow(r, j)
      BY <1>1, <2>3 DEF MigrationInv, Progress
    <3> QED BY <2>1, <3>1 DEF OwnRow
  <2> QED BY <2>2, <2>3
<1>6. Working(r)'
  BY <1>1, <1>4, MigrationsConstants DEF Working, MigrationInv, MigrationTypeOK
<1>7. Progress(r)'
  <2>1. CASE last
    <3>1. replicas'[r].at = "provisioning" /\ replicas'[r].file = k
      BY <1>4, <2>1 DEF MigrationInv, MigrationTypeOK
    <3>2. \A i \in Positions : OwnRow(r, i)'
      BY <1>5, <2>1, MigrationsConstants DEF Positions
    <3>3. \A j \in 1 .. k - 1 : OwnRow(r, j)'
      BY <1>1, <1>5
    <3> QED BY <3>1, <3>2, <3>3 DEF Progress
  <2>2. CASE ~last
    <3>1. replicas'[r].at = "checking" /\ replicas'[r].file = k + 1
      BY <1>4, <2>2 DEF MigrationInv, MigrationTypeOK
    <3>2. \A j \in 1 .. (k + 1) - 1 : OwnRow(r, j)'
      BY <1>1, <1>5
    <3> QED BY <3>1, <3>2 DEF Progress
  <2> QED BY <2>1, <2>2
<1> QED BY <1>2, <1>3, <1>6, <1>7

\* Every step of a replica keeps the invariant.
LEMMA MigrationInvStep == MigrationInv /\ [MigrationsNext]_migrationVars => MigrationInv'
<1> SUFFICES ASSUME MigrationInv, [MigrationsNext]_migrationVars PROVE MigrationInv'
  OBVIOUS
<1> DEFINE Place == [at: Stages, file: Positions, boots: Int]
<1>0. \A r \in Replica : replicas[r] \in Place /\ replicas[r].file \in Positions
  BY DEF MigrationInv, MigrationTypeOK
<1>1. ASSUME NEW r \in Replica, NEW at \in Stages, Go(r, at)
      PROVE  LET to == [replicas[r] EXCEPT !.at = at] IN
             /\ replicas' = [replicas EXCEPT ![r] = to] /\ to \in Place /\ replicas'[r] = to
             /\ to.at = at /\ to.file = replicas[r].file
  BY <1>0, <1>1 DEF Go, MigrationInv, MigrationTypeOK
\* A replica that leaves, from wherever it was.
<1>2. ASSUME NEW r \in Replica, NEW at \in {"failed", "down"}, Go(r, at),
             lockedBy' = lockedBy \ {r}, UNCHANGED <<ledger, schema, dimension, reapplied>>
      PROVE  MigrationInv'
  <2> DEFINE to == [replicas[r] EXCEPT !.at = at]
  <2>1. replicas' = [replicas EXCEPT ![r] = to] /\ to \in Place /\ replicas'[r].at = at
    <3>1. at \in Stages
      BY DEF Stages
    <3> QED BY <1>1, <1>2, <3>1
  <2>2. ~Working(r)' /\ \A q \in Replica \ {r} : Working(q)' <=> Working(q)
    BY <1>2, <2>1 DEF Working, MigrationInv, MigrationTypeOK
  <2>3. LockHeld'
    BY <1>2, <2>2 DEF MigrationInv, LockHeld
  <2>4. Progress(r)'
    BY <1>2, <2>1, <2>2 DEF Progress
  <2> HIDE DEF to
  <2> QED BY <1>2, <2>1, <2>3, <2>4, RowsUntouched
<1>3. ASSUME NEW r \in Replica, Boot(r)
      PROVE  MigrationInv'
  <2> DEFINE to == [at |-> "waiting", file |-> 1, boots |-> replicas[r].boots + 1]
  <2>1. replicas' = [replicas EXCEPT ![r] = to] /\ replicas'[r] = to
    BY <1>3 DEF Boot, MigrationInv, MigrationTypeOK
  <2>2. to \in Place
    BY <1>0, MigrationsConstants DEF Stages, Positions
  <2>3. \A q \in Replica : Working(q)' <=> Working(q)
    BY <1>3, <2>1 DEF Boot, Working, MigrationInv, MigrationTypeOK
  <2>4. LockHeld'
    BY <1>3, <2>3 DEF Boot, MigrationInv, LockHeld
  <2>5. Progress(r)'
    BY <2>1 DEF Progress, Working
  <2> HIDE DEF to
  <2> QED BY <1>3, <2>1, <2>2, <2>4, <2>5, RowsUntouched DEF Boot
<1>4. ASSUME NEW r \in Replica, TakesLock(r)
      PROVE  MigrationInv'
  <2> DEFINE to == [replicas[r] EXCEPT !.at = "checking"]
  <2>1. /\ replicas' = [replicas EXCEPT ![r] = to] /\ to \in Place
        /\ replicas'[r].at = "checking" /\ replicas'[r].file = 1
    <3>1. "checking" \in Stages /\ Go(r, "checking")
      BY <1>4 DEF Stages, TakesLock
    <3>2. replicas[r].file = 1
      BY <1>4 DEF TakesLock, MigrationInv, Progress
    <3> QED BY <1>1, <3>1, <3>2
  <2>2. Working(r)' /\ \A q \in Replica \ {r} : Working(q)' <=> Working(q)
    BY <2>1 DEF Working, MigrationInv, MigrationTypeOK
  <2>3. LockHeld'
    BY <1>4, <2>2 DEF TakesLock, LockFree, MigrationInv, LockHeld
  <2>4. Progress(r)'
    BY <2>1 DEF Progress
  <2> HIDE DEF to
  <2> QED BY <1>4, <2>1, <2>3, <2>4, RowsUntouched DEF TakesLock
<1>5. ASSUME NEW r \in Replica, MigrationGivesUp(r) \/ Die(r)
      PROVE  MigrationInv'
  BY <1>2, <1>5 DEF MigrationGivesUp, Die, Leaves
<1>6. ASSUME NEW r \in Replica, Verify(r)
      PROVE  MigrationInv'
  <2>1. CASE ledger[File(r)] \notin {"unpinned", Sources[r][File(r)]}
    <3>1. UNCHANGED <<ledger, schema, dimension, reapplied>> /\ Go(r, "failed")
          /\ lockedBy' = lockedBy \ {r}
      BY <1>6, <2>1 DEF Verify
    <3> QED BY <1>2, <3>1
  <2>2. CASE ledger[File(r)] \in {"unpinned", Sources[r][File(r)]}
    <3>1. /\ Working(r) /\ MoveOn(r) /\ ledger[File(r)] # "absent"
          /\ ledger' = [ledger EXCEPT ![File(r)] = Sources[r][File(r)]]
          /\ UNCHANGED <<lockedBy, schema, dimension, reapplied>>
      BY <1>6, <2>2 DEF Verify, Working
    <3>2. PICK to \in Place : replicas' = [replicas EXCEPT ![r] = to]
      BY <3>1, MovesOn
    <3>3. Sources[r][File(r)] # "absent" /\ DOMAIN ledger = Versions
      BY <1>0, MigrationsConstants DEF File, Positions, MigrationInv, MigrationTypeOK
    <3>4. SchemaInOrder'
      BY <3>1, <3>3 DEF MigrationInv, SchemaInOrder, Versions, Positions
    <3>5. Working(r)' /\ Progress(r)'
      BY <3>1, MovesOn
    <3> QED BY <2>2, <3>1, <3>2, <3>4, <3>5, RowWritten DEF MigrationInv, MigrationTypeOK
  <2> QED BY <2>1, <2>2
<1>7. ASSUME NEW r \in Replica, Decide(r)
      PROVE  MigrationInv'
  <2> DEFINE to == [replicas[r] EXCEPT !.at = "applied"]
  <2>1. /\ replicas' = [replicas EXCEPT ![r] = to] /\ to \in Place
        /\ replicas'[r].at = "applied" /\ replicas'[r].file = replicas[r].file
    BY <1>1, <1>7 DEF Decide, Stages
  <2>2. \A q \in Replica : Working(q)' <=> Working(q)
    BY <1>7, <2>1 DEF Decide, Working, MigrationInv, MigrationTypeOK
  <2>3. LockHeld'
    BY <1>7, <2>2 DEF Decide, MigrationInv, LockHeld
  <2>4. Working(r)
    BY <1>7 DEF Decide, Working
  <2>5. Progress(r)'
    BY <1>7, <2>1, <2>4 DEF Decide, Progress, File, MigrationInv, OwnRow
  <2> HIDE DEF to
  <2> QED BY <1>7, <2>1, <2>3, <2>5, RowsUntouched DEF Decide
<1>8. ASSUME NEW r \in Replica, Run(r)
      PROVE  MigrationInv'
  <2> DEFINE to == [replicas[r] EXCEPT !.at = "recording"]
             k == replicas[r].file
  <2>1. /\ replicas' = [replicas EXCEPT ![r] = to] /\ to \in Place
        /\ replicas'[r].at = "recording" /\ replicas'[r].file = k
    BY <1>1, <1>8 DEF Run, Stages
  <2>2. Working(r) /\ Working(r)' /\ ledger[File(r)] = "absent" /\ schema[File(r)] = "absent"
    BY <1>0, <1>8, <2>1 DEF Run, Working, MigrationInv, Progress, SchemaInOrder, File
  <2>3. /\ ledger' = [ledger EXCEPT ![File(r)] = "unpinned"]
        /\ schema' = [schema EXCEPT ![File(r)] = Sources[r][File(r)]]
        /\ ~reapplied' /\ UNCHANGED <<lockedBy, dimension>>
    BY <1>8, <2>2 DEF Run, LedgerRow, MigrationInv
  <2>4. /\ k \in Positions /\ File(r) = Files[k] /\ Sources[r][Files[k]] # "absent"
        /\ DOMAIN ledger = Versions /\ DOMAIN schema = Versions
        /\ \A i \in Positions : Files[i] \in Versions /\ (Files[i] = Files[k] => i = k)
    BY <1>0, MigrationsConstants DEF File, Versions, Positions, MigrationInv, MigrationTypeOK
  <2>5. \A j \in 1 .. k - 1 : OwnRow(r, j) /\ j \in Positions /\ Sources[r][Files[j]] # "absent"
    BY <2>2, <2>4, MigrationsConstants DEF MigrationInv, Progress, Positions
  <2>6. SchemaInOrder'
    <3> SUFFICES ASSUME NEW i \in Positions
                 PROVE  /\ ledger'[Files[i]] = "absent" <=> schema'[Files[i]] = "absent"
                        /\ schema'[Files[i]] # "absent" =>
                             \A j \in 1 .. i : schema'[Files[j]] # "absent"
      BY DEF SchemaInOrder
    <3>1. CASE i = k
      <4>1. \A j \in 1 .. k - 1 : schema[Files[j]] # "absent"
        BY <2>5 DEF MigrationInv, SchemaInOrder, OwnRow
      <4>2. \A j \in 1 .. k - 1 : schema'[Files[j]] # "absent"
        BY <2>3, <2>4, <2>5, <4>1
      <4>3. \A j \in 1 .. k : j \in 1 .. k - 1 \/ j = k
        BY <2>4, MigrationsConstants DEF Positions
      <4> QED BY <2>3, <2>4, <3>1, <4>2, <4>3
    <3>2. CASE i # k
      <4>1. ledger'[Files[i]] = ledger[Files[i]] /\ schema'[Files[i]] = schema[Files[i]]
        BY <2>3, <2>4, <3>2
      <4>2. \A j \in 1 .. i : j \in Positions
        BY MigrationsConstants DEF Positions
      <4>3. \A j \in Positions : schema[Files[j]] # "absent" => schema'[Files[j]] # "absent"
        BY <2>3, <2>4
      <4> QED BY <4>1, <4>2, <4>3 DEF MigrationInv, SchemaInOrder
    <3> QED BY <3>1, <3>2
  <2>7. Progress(r)'
    <3>1. \A j \in 1 .. k - 1 : OwnRow(r, j)'
      BY <2>3, <2>4, <2>5 DEF OwnRow
    <3>2. ledger'[Files[k]] = "unpinned"
      BY <2>3, <2>4
    <3> QED BY <2>1, <3>1, <3>2 DEF Progress, File
  <2> HIDE DEF to, k
  <2> QED BY <2>1, <2>2, <2>3, <2>4, <2>6, <2>7, RowWritten
<1>9. ASSUME NEW r \in Replica, Record(r)
      PROVE  MigrationInv'
  <2>1. /\ Working(r) /\ MoveOn(r) /\ ledger[File(r)] = "unpinned"
        /\ ledger' = [ledger EXCEPT ![File(r)] = Sources[r][File(r)]]
        /\ UNCHANGED <<lockedBy, schema, dimension, reapplied>>
    BY <1>9 DEF Record, Working, MigrationInv, Progress
  <2>2. PICK to \in Place : replicas' = [replicas EXCEPT ![r] = to]
    BY <2>1, MovesOn
  <2>3. Sources[r][File(r)] # "absent" /\ DOMAIN ledger = Versions
    BY <1>0, MigrationsConstants DEF File, Positions, MigrationInv, MigrationTypeOK
  <2>4. SchemaInOrder'
    BY <2>1, <2>3 DEF MigrationInv, SchemaInOrder, Versions, Positions
  <2>5. Working(r)' /\ Progress(r)'
    BY <2>1, MovesOn
  <2> QED BY <2>1, <2>2, <2>4, <2>5, RowWritten DEF MigrationInv, MigrationTypeOK
<1>10. ASSUME NEW r \in Replica, Provision(r)
       PROVE  MigrationInv'
  <2> DEFINE to == [replicas[r] EXCEPT !.at = "ready"]
  <2>1. replicas' = [replicas EXCEPT ![r] = to] /\ to \in Place /\ replicas'[r].at = "ready"
    BY <1>1, <1>10 DEF Provision, Stages
  <2>2. ~Working(r)' /\ \A q \in Replica \ {r} : Working(q)' <=> Working(q)
    BY <2>1 DEF Working, MigrationInv, MigrationTypeOK
  <2>3. LockHeld'
    BY <1>10, <2>2 DEF Provision, MigrationInv, LockHeld
  <2>4. Progress(r)'
    BY <1>10, <2>1, <2>2 DEF Provision, Progress, MigrationInv, OwnRow
  <2> HIDE DEF to
  <2> QED BY <1>10, <2>1, <2>3, <2>4, RowsUntouched DEF Provision
<1>11. CASE UNCHANGED migrationVars
  BY <1>11 DEF migrationVars, MigrationInv, MigrationTypeOK, SchemaInOrder, LockHeld, Progress,
     Working, OwnRow, File
<1> QED BY <1>3, <1>4, <1>5, <1>6, <1>7, <1>8, <1>9, <1>10, <1>11 DEF MigrationsNext

\* The text a file was applied from is known: its row pins it, or the replica that applied it
\* is about to, unless that one has left.
Traced(i) ==
  \/ Files[i] \in orphans
  \/ ledger[Files[i]] = schema[Files[i]]
  \/ \E r \in Replica :
       /\ replicas[r].at = "recording" /\ File(r) = Files[i]
       /\ schema[Files[i]] = Sources[r][Files[i]]

AllTraced == \A i \in Positions : schema[Files[i]] # "unpinned" /\ Traced(i)

\* A replica that neither runs a file nor has run one changes nothing of that.
LEMMA TracedBeside ==
  ASSUME MigrationInv, AllTraced, NEW r \in Replica, replicas[r].at # "recording",
         UNCHANGED <<ledger, schema, orphans>>,
         \A q \in Replica \ {r} : replicas'[q] = replicas[q]
  PROVE  AllTraced'
BY DEF AllTraced, Traced, File

\* Nor does a row that is pinned with the text that was applied, or as an orphan's.
LEMMA TracedPinned ==
  ASSUME MigrationInv, AllTraced, NEW r \in Replica, Working(r),
         \/ replicas[r].at # "recording" /\ ledger[File(r)] # "absent"
         \/ replicas[r].at = "recording",
         ledger[File(r)] \in {"unpinned", Sources[r][File(r)]},
         ledger' = [ledger EXCEPT ![File(r)] = Sources[r][File(r)]],
         UNCHANGED <<schema, orphans>>
  PROVE  AllTraced'
<1> DEFINE k == replicas[r].file
<1>1. /\ k \in Positions /\ File(r) = Files[k] /\ DOMAIN ledger = Versions
      /\ \A i \in Positions : Files[i] \in Versions
  BY DEF MigrationInv, MigrationTypeOK, File, Versions, Positions
<1>2. \A q \in Replica : replicas[q].at = "recording" => q = r
  BY WorksAlone DEF Working
<1> SUFFICES ASSUME NEW i \in Positions PROVE schema'[Files[i]] # "unpinned" /\ Traced(i)'
  BY DEF AllTraced
<1>3. schema[Files[i]] # "unpinned" /\ Traced(i)
  BY DEF AllTraced
<1>4. CASE Files[i] \in orphans
  BY <1>3, <1>4 DEF Traced
<1>5. CASE Files[i] \notin orphans /\ Files[i] # File(r)
  <2>1. ledger'[Files[i]] = ledger[Files[i]]
    BY <1>1, <1>5
  <2>2. ledger[Files[i]] = schema[Files[i]]
    BY <1>2, <1>3, <1>5 DEF Traced
  <2> QED BY <1>3, <2>1, <2>2 DEF Traced
<1>6. CASE Files[i] \notin orphans /\ Files[i] = File(r)
  <2>1. ledger'[Files[i]] = Sources[r][Files[i]]
    BY <1>1, <1>6
  <2>2. schema[Files[i]] = Sources[r][Files[i]]
    BY <1>2, <1>3, <1>6 DEF Traced
  <2> QED BY <1>3, <2>1, <2>2 DEF Traced
<1> QED BY <1>4, <1>5, <1>6

\* Every step of a replica keeps the texts known.
LEMMA TracedStep == MigrationInv /\ AllTraced /\ [MigrationsNext]_migrationVars => AllTraced'
<1> SUFFICES ASSUME MigrationInv, AllTraced, [MigrationsNext]_migrationVars PROVE AllTraced'
  OBVIOUS
<1>1. ASSUME NEW r \in Replica, NEW at, Leaves(r, at) PROVE AllTraced'
  <2>1. /\ UNCHANGED <<ledger, schema>> /\ orphans \subseteq orphans'
        /\ replicas[r].at = "recording" => File(r) \in orphans'
        /\ \A q \in Replica \ {r} : replicas'[q] = replicas[q]
    BY <1>1 DEF Leaves, Go, MigrationInv, MigrationTypeOK
  <2> QED BY <2>1 DEF AllTraced, Traced, File
<1>2. ASSUME NEW r \in Replica, Boot(r) \/ TakesLock(r) \/ Decide(r) \/ Provision(r)
      PROVE  AllTraced'
  <2>1. /\ UNCHANGED <<ledger, schema, orphans>> /\ replicas[r].at # "recording"
        /\ \A q \in Replica \ {r} : replicas'[q] = replicas[q]
    BY <1>2 DEF Boot, TakesLock, Decide, Provision, Go, MigrationInv, MigrationTypeOK
  <2> QED BY <2>1, TracedBeside
<1>3. ASSUME NEW r \in Replica, Verify(r) PROVE AllTraced'
  <2>1. CASE ledger[File(r)] \notin {"unpinned", Sources[r][File(r)]}
    <3>1. /\ UNCHANGED <<ledger, schema, orphans>> /\ replicas[r].at # "recording"
          /\ \A q \in Replica \ {r} : replicas'[q] = replicas[q]
      BY <1>3, <2>1 DEF Verify, Go, MigrationInv, MigrationTypeOK
    <3> QED BY <3>1, TracedBeside
  <2>2. CASE ledger[File(r)] \in {"unpinned", Sources[r][File(r)]}
    <3>1. /\ ledger' = [ledger EXCEPT ![File(r)] = Sources[r][File(r)]]
          /\ UNCHANGED <<schema, orphans>> /\ Working(r)
          /\ replicas[r].at # "recording" /\ ledger[File(r)] # "absent"
      BY <1>3, <2>2 DEF Verify, Working
    <3> QED BY <2>2, <3>1, TracedPinned
  <2> QED BY <2>1, <2>2
<1>4. ASSUME NEW r \in Replica, Record(r) PROVE AllTraced'
  <2>1. /\ replicas[r].at = "recording" /\ Working(r) /\ ledger[File(r)] = "unpinned"
        /\ ledger' = [ledger EXCEPT ![File(r)] = Sources[r][File(r)]]
        /\ UNCHANGED <<schema, orphans>>
    BY <1>4 DEF Record, Working, MigrationInv, Progress
  <2> QED BY <2>1, TracedPinned
<1>5. ASSUME NEW r \in Replica, Run(r) PROVE AllTraced'
  <2> DEFINE k == replicas[r].file
  <2>1. /\ k \in Positions /\ File(r) = Files[k]
        /\ DOMAIN ledger = Versions /\ DOMAIN schema = Versions
        /\ \A i \in Positions : Files[i] \in Versions
        /\ Sources[r][Files[k]] # "unpinned"
    BY MigrationsConstants DEF MigrationInv, MigrationTypeOK, File, Versions, Positions
  <2>2. /\ replicas'[r].at = "recording" /\ File(r)' = File(r)
        /\ \A q \in Replica : replicas[q].at # "recording"
    <3>1. \A q \in Replica \ {r} : replicas[q].at # "recording"
      BY <1>5, WorksAlone DEF Run, Working
    <3> QED BY <1>5, <3>1 DEF Run, Go, File, MigrationInv, MigrationTypeOK
  <2>3. /\ \A i \in Positions : Files[i] # File(r) =>
             ledger'[Files[i]] = ledger[Files[i]] /\ schema'[Files[i]] = schema[Files[i]]
        /\ schema'[File(r)] = Sources[r][File(r)] /\ orphans' = orphans
    BY <1>5, <2>1 DEF Run
  <2> SUFFICES ASSUME NEW i \in Positions PROVE schema'[Files[i]] # "unpinned" /\ Traced(i)'
    BY DEF AllTraced
  <2>4. CASE Files[i] = File(r)
    BY <2>1, <2>2, <2>3, <2>4 DEF Traced
  <2>5. CASE Files[i] # File(r)
    BY <2>2, <2>3, <2>5 DEF AllTraced, Traced
  <2> QED BY <2>4, <2>5
<1>6. CASE UNCHANGED migrationVars
  BY <1>6 DEF migrationVars, AllTraced, Traced, File
<1> QED BY <1>1, <1>2, <1>3, <1>4, <1>5, <1>6 DEF MigrationsNext, MigrationGivesUp, Die

\* Whoever dies where, no file runs twice or before its predecessors, the ledger lists what
\* was applied, and a replica serves only the complete schema, made by its own files but for
\* those whose applier left before it pinned them.
THEOREM LedgersTellSchemas == MigrationsSpec => []LedgerTellsSchema
<1>1. MigrationInv /\ AllTraced => LedgerTellsSchema
  <2> SUFFICES ASSUME MigrationInv, AllTraced PROVE LedgerTellsSchema
    OBVIOUS
  <2>1. ASSUME NEW r \in Replica, replicas[r].at = "ready"
        PROVE  HealthOk(TRUE) /\ \A v \in Versions \ orphans : schema[v] = Sources[r][v]
    <3>1. dimension /\ \A i \in Positions : OwnRow(r, i)
      BY <2>1 DEF MigrationInv, Progress
    <3>2. \A i \in Positions : ledger[Files[i]] \notin {"absent", "unpinned"}
      BY <3>1, MigrationsConstants DEF OwnRow, Positions
    <3>3. \A q \in Replica : replicas[q].at = "recording" => ledger[File(q)] = "unpinned"
      BY DEF MigrationInv, Progress
    <3>4. ASSUME NEW i \in Positions, Files[i] \notin orphans
          PROVE  schema[Files[i]] = Sources[r][Files[i]]
      BY <3>1, <3>2, <3>3, <3>4 DEF AllTraced, Traced, OwnRow
    <3>5. HealthOk(TRUE)
      BY <3>1, <3>2 DEF HealthOk, MigrationInv, SchemaInOrder, Positions
    <3> QED BY <3>4, <3>5 DEF Versions, Positions
  <2>2. HealthOk(FALSE) => \A v \in Versions : ledger[v] # "absent"
    BY DEF HealthOk, MigrationInv, SchemaInOrder, Versions, Positions
  <2>3. /\ ~reapplied
        /\ \A i \in DOMAIN Files :
             /\ ledger[Files[i]] = "absent" <=> schema[Files[i]] = "absent"
             /\ schema[Files[i]] # "absent" => \A j \in 1 .. i : schema[Files[j]] # "absent"
    BY DEF MigrationInv, SchemaInOrder, Positions
  <2> QED BY <2>1, <2>2, <2>3 DEF LedgerTellsSchema
<1>2. MigrationsInit => AllTraced
  <2> SUFFICES ASSUME MigrationsInit, NEW i \in Positions
               PROVE  schema[Files[i]] # "unpinned" /\ Traced(i)
    BY DEF AllTraced
  <2>1. PICK n \in 0 .. Len(Files), original \in {Sources[r] : r \in Replica} :
          /\ ledger = [v \in Versions |->
               IF \E j \in 1 .. n : Files[j] = v THEN "unpinned" ELSE "absent"]
          /\ schema = [v \in Versions |->
               IF \E j \in 1 .. n : Files[j] = v THEN original[v] ELSE "absent"]
          /\ orphans = {Files[j] : j \in 1 .. n}
    BY DEF MigrationsInit
  <2>2. Files[i] \in Versions /\ original[Files[i]] # "unpinned"
    BY MigrationsConstants DEF Versions, Positions
  <2> QED BY <2>1, <2>2 DEF Traced
<1> QED BY <1>1, <1>2, MigrationInvInit, MigrationInvStep, TracedStep, PTL DEF MigrationsSpec

(***************************************************************************)
(* The benchmark.  A row is stamped when its worker starts, from a clean   *)
(* worktree, so whatever commit is checked out when it is written, its     *)
(* identity tells its code, if the checkout stood still meanwhile.         *)
(***************************************************************************)
CleanCode(n) == [head |-> n, dirty |-> FALSE]
Codes == [head: Nat, dirty: BOOLEAN]
SoundRow ==
  {r \in [qid: Question, run: Nat, code: Codes, ok: BOOLEAN] : r.code \in {CleanCode(r.run), Mixture}}
FileRecords == [rows: SUBSET SoundRow, torn: BOOLEAN]

\* A worker, or Mode B, and what it still has to stamp before its code is told by its commit.
Process ==
  [at: {"loading", "stamped", "running"}, code: Codes, run: Nat, todo: SUBSET Question]
Told(p) ==
  \/ p.code = Mixture
  \/ p.at = "loading" /\ p.code = checkout
  \/ p.at = "stamped" /\ p.code = checkout /\ p.run = checkout.head
  \/ p.at = "running" /\ p.code = CleanCode(p.run)
Honest(p) == p = Off \/ (p \in Process /\ Told(p))

Truthful(report) ==
  report.ok =>
    /\ {r.qid : r \in report.rows} = Question
    /\ Cardinality(report.rows) = Cardinality(Question)
    /\ \A r \in report.rows : r.ok /\ r.run = report.run /\ r.code \in {CleanCode(report.run), Mixture}

BenchmarkInv ==
  /\ checkout \in Codes
  /\ files \in [Shard -> FileRecords] /\ fileB \in FileRecords
  /\ DOMAIN workers = Shard /\ \A s \in Shard : Honest(workers[s])
  /\ Honest(modeB)
  /\ slots \subseteq [qid: Question, call: {"answer", "judge"}]
  /\ slots # {} => modeB.at = "running"
  /\ Truthful(reportA) /\ Truthful(reportB)

\* A set of questions that is not empty has a first one.
LEMMA FirstQuestion == ASSUME NEW S \in SUBSET Question, S # {} PROVE Min(S) \in S
<1>1. S \subseteq Nat
  BY BenchmarkConstants
<1> DEFINE Less == OpToRel(<, Nat)
<1>2. \A x, y \in Nat : y < x => <<y, x>> \in Less
  BY Zenon DEF OpToRel
<1>3. IsWellFoundedOn(Less, Nat)
  BY NatLessThanWellFounded
<1> HIDE DEF Less
<1>4. PICK x \in S : \A y \in S : <<y, x>> \notin Less
  BY <1>1, <1>3, WFMin
<1>5. \A y \in S : x <= y
  <2> TAKE y \in S
  <2>1. x \in Nat /\ y \in Nat
    BY <1>1, <1>4
  <2>2. ~(y < x)
    BY <1>2, <1>4, <2>1
  <2> QED BY <2>1, <2>2
<1> QED BY <1>5 DEF Min

\* An appended row is one more, or the line is lost.
LEMMA AppendedSound ==
  ASSUME NEW file \in FileRecords, NEW row \in SoundRow
  PROVE  Appended(file, row) \in FileRecords
BY DEF Appended, FileRecords

\* A torn line leaves the readable rows as they are.
LEMMA TornSound == ASSUME NEW file \in FileRecords PROVE Tearings(file) \subseteq FileRecords
BY DEF Tearings, FileRecords

\* A report without a failure has one row for each question, all of its own commit.
LEMMA ReportTruthful ==
  ASSUME NEW rows \in SUBSET SoundRow, NEW run, NEW read \in ReadRows(rows, run)
  PROVE  Truthful(Report(read, run))
<1> DEFINE report == Report(read, run)
<1> SUFFICES ASSUME report.ok PROVE Truthful(report)
  BY DEF Truthful
<1>1. report.rows = read /\ report.run = run /\ RunFailures(read) = {}
  BY DEF Report
<1> HIDE DEF report
<1>2. \A r \in read : r \in SoundRow /\ r.run = run
  BY DEF ReadRows, Preferred, RowMatchesRun
<1>3. \A r, s \in read : r.qid = s.qid => r = s
  <2> SUFFICES ASSUME NEW r \in read, NEW s \in read, r.qid = s.qid PROVE r = s
    OBVIOUS
  <2>1. PICK only \in read : {t \in read : t.qid = r.qid} = {only}
    BY DEF ReadRows
  <2> QED BY <2>1
<1>4. \A r \in read : r.ok
  BY <1>1 DEF RunFailures
<1>5. \A q \in Question : \E r \in read : r.qid = q
  BY <1>1 DEF RunFailures
<1>6. \A r \in read : r.qid \in Question /\ r.code \in {CleanCode(run), Mixture}
  BY <1>2 DEF SoundRow
<1> DEFINE f == [r \in read |-> r.qid]
<1>7. f \in Bijection(read, Question)
  <2>1. f \in [read -> Question] /\ \A q \in Question : \E r \in read : f[r] = q
    BY <1>5, <1>6
  <2>2. \A r, s \in read : f[r] = f[s] => r = s
    BY <1>3
  <2> HIDE DEF f
  <2> QED BY <2>1, <2>2, Fun_IsBij
<1>8. Cardinality(read) = Cardinality(Question)
  <2>1. PICK g : g \in Bijection(Question, read)
    BY <1>7, Fun_BijInverse
  <2> QED BY <2>1, FS_Bijection, BenchmarkConstants DEF ExistsBijection
<1>9. {r.qid : r \in read} = Question
  BY <1>5, <1>6
<1> QED BY <1>1, <1>2, <1>4, <1>6, <1>8, <1>9 DEF Truthful

\* The rows of all the shards are sound, too.
LEMMA AllRowsSound == BenchmarkInv => AllRows \in SUBSET SoundRow
BY DEF BenchmarkInv, FileRecords, AllRows

\* What runs writes sound rows.
LEMMA WritesSound ==
  ASSUME NEW p, Honest(p), p.at = "running"
  PROVE  /\ p \in Process
         /\ \A q \in Question, ok \in BOOLEAN : RowOf(p, q, ok) \in SoundRow
         /\ \A todo \in SUBSET Question : Honest([p EXCEPT !.todo = todo])
<1>1. p \in Process /\ p.code \in {CleanCode(p.run), Mixture}
  BY DEF Honest, Told, Off
<1>2. p.run \in Nat /\ p.code \in Codes
  BY <1>1 DEF Process
<1>3. \A q \in Question, ok \in BOOLEAN : RowOf(p, q, ok) \in SoundRow
  BY <1>1, <1>2 DEF RowOf, SoundRow
<1>4. ASSUME NEW todo \in SUBSET Question PROVE Honest([p EXCEPT !.todo = todo])
  BY <1>1 DEF Honest, Told, Process
<1> QED BY <1>1, <1>3, <1>4

\* Whatever the checkout becomes, who is still starting no longer claims a code.
LEMMA MovesHonest ==
  ASSUME BenchmarkInv, NEW next \in Codes, Moves(next), mishaps' = mishaps \/ Mishap
  PROVE  BenchmarkInv'
<1>1. ASSUME NEW p, Honest(p) PROVE Overtaken(p) = Off \/ (Overtaken(p) \in Process /\ Told(Overtaken(p))')
  <2>1. CASE p = Off
    BY <2>1 DEF Overtaken, Off
  <2>2. CASE p # Off
    <3>1. p \in Process /\ Told(p)
      BY <1>1, <2>2 DEF Honest
    <3>2. CASE p.at \in {"loading", "stamped"}
      <4>1. Overtaken(p) = [p EXCEPT !.code = Mixture] /\ Mixture \in Codes
        BY <3>2 DEF Overtaken, Mixture, Codes
      <4>2. Overtaken(p) \in Process /\ Overtaken(p).code = Mixture
        BY <3>1, <4>1 DEF Process
      <4> QED BY <4>2 DEF Told
    <3>3. CASE p.at = "running"
      <4>1. Overtaken(p) = p
        BY <3>3 DEF Overtaken
      <4> QED BY <3>1, <3>3, <4>1 DEF Told
    <3> QED BY <3>1, <3>2, <3>3 DEF Process
  <2> QED BY <2>1, <2>2
<1>2. checkout' = next /\ workers' = [s \in Shard |-> Overtaken(workers[s])] /\ modeB' = Overtaken(modeB)
  BY DEF Moves
<1>3. DOMAIN workers' = Shard /\ \A s \in Shard : Honest(workers[s])'
  BY <1>1, <1>2 DEF BenchmarkInv, Honest
<1>4. Honest(modeB)'
  BY <1>1, <1>2 DEF BenchmarkInv, Honest
<1>5. modeB.at = "running" => modeB'.at = "running"
  BY <1>2 DEF Overtaken
<1> QED BY <1>2, <1>3, <1>4, <1>5 DEF Moves, BenchmarkInv

\* As long as the checkout stays, an honest process is honest.
LEMMA StaysHonest ==
  ASSUME NEW p, Honest(p), UNCHANGED checkout
  PROVE  p = Off \/ (p \in Process /\ Told(p)')
BY DEF Honest, Told

\* A process that begins now is honest; so is one that is told its commit next, and one that
\* then finds the worktree clean.
LEMMA StartsHonest ==
  ASSUME checkout \in Codes
  PROVE  /\ Honest(NewProcess)
         /\ \A p : Honest(p) /\ p.at = "loading"
              => Honest([p EXCEPT !.at = "stamped", !.run = RunIdentity])
         /\ \A p : \A todo \in SUBSET Question : Honest(p) /\ p.at = "stamped" /\ Startable
              => Honest([p EXCEPT !.at = "running", !.todo = todo])
<1>1. Honest(NewProcess)
  BY DEF Honest, Told, Process, NewProcess
<1>2. ASSUME NEW p, Honest(p), p.at = "loading"
      PROVE  Honest([p EXCEPT !.at = "stamped", !.run = RunIdentity])
  <2>1. p \in Process /\ p.code \in {checkout, Mixture}
    BY <1>2 DEF Honest, Told, Off
  <2>2. RunIdentity = checkout.head /\ RunIdentity \in Nat
    BY DEF RunIdentity, Codes
  <2> QED BY <2>1, <2>2 DEF Honest, Told, Process
<1>3. ASSUME NEW p, NEW todo \in SUBSET Question, Honest(p), p.at = "stamped", Startable
      PROVE  Honest([p EXCEPT !.at = "running", !.todo = todo])
  <2>1. p \in Process /\ (p.code = Mixture \/ (p.code = checkout /\ p.run = checkout.head))
    BY <1>3 DEF Honest, Told, Off
  <2>2. checkout = CleanCode(checkout.head)
    BY <1>3 DEF Startable, CleanWorktree, CleanCode, Codes
  <2>3. p.code = Mixture \/ p.code = CleanCode(p.run)
    BY <2>1, <2>2
  <2> QED BY <2>1, <2>3 DEF Honest, Told, Process
<1> QED BY <1>1, <1>2, <1>3

\* No process has started and no file has a row at first.
LEMMA BenchmarkInvInit == BenchmarkInit => BenchmarkInv
<1> SUFFICES ASSUME BenchmarkInit PROVE BenchmarkInv
  OBVIOUS
<1>1. EmptyFile \in FileRecords
  BY DEF EmptyFile, FileRecords
<1>2. Honest(Off)
  BY DEF Honest
<1>3. Truthful(NoReport)
  BY DEF Truthful, NoReport
<1> QED BY <1>1, <1>2, <1>3 DEF BenchmarkInit, BenchmarkInv, Codes

\* A step of one worker leaves the others and Mode B honest.
LEMMA OneWorkerSteps ==
  ASSUME BenchmarkInv, NEW s \in Shard, NEW w, Honest(w), workers' = [workers EXCEPT ![s] = w],
         UNCHANGED <<checkout, modeB>>
  PROVE  /\ DOMAIN workers' = Shard /\ \A t \in Shard : Honest(workers[t])'
         /\ Honest(modeB)'
<1>1. DOMAIN workers' = Shard /\ \A t \in Shard : workers'[t] \in {w, workers[t]}
  BY DEF BenchmarkInv
<1>2. \A t \in Shard : Honest(workers'[t])
  BY <1>1 DEF BenchmarkInv
<1> QED BY <1>1, <1>2, StaysHonest DEF BenchmarkInv, Honest

\* Every step keeps the rows sound.
LEMMA BenchmarkInvStep == BenchmarkInv /\ [BenchmarkNext]_benchmarkVars => BenchmarkInv'
<1> SUFFICES ASSUME BenchmarkInv, [BenchmarkNext]_benchmarkVars PROVE BenchmarkInv'
  OBVIOUS
<1> USE DEF runA, runB
<1>1. ASSUME Edit \/ Stash \/ Commit PROVE BenchmarkInv'
  <2>1. /\ [checkout EXCEPT !.dirty = TRUE] \in Codes /\ [checkout EXCEPT !.dirty = FALSE] \in Codes
        /\ [head |-> checkout.head + 1, dirty |-> FALSE] \in Codes
    <3>1. checkout \in [head: Nat, dirty: BOOLEAN]
      BY DEF BenchmarkInv, Codes
    <3>2. checkout.head + 1 \in Nat
      BY <3>1
    <3> QED BY <3>1, <3>2 DEF Codes
  <2> QED BY <1>1, <2>1, MovesHonest DEF Edit, Stash, Commit
<1>2. ASSUME OrchestratorStarts PROVE BenchmarkInv'
  <2>1. Honest(NewProcess) /\ Honest(Off)
    BY StartsHonest DEF BenchmarkInv, Honest
  <2>2. PICK n \in 1 .. MaxShards : workers' = [s \in Shard |-> IF s < n THEN NewProcess ELSE Off]
    BY <1>2 DEF OrchestratorStarts
  <2>3. DOMAIN workers' = Shard /\ \A s \in Shard : Honest(workers'[s])
    BY <2>1, <2>2
  <2>4. checkout' = checkout
    BY <1>2 DEF OrchestratorStarts
  <2>5. (\A s \in Shard : Honest(workers[s])') /\ Honest(modeB)'
    BY <1>2, <2>3, <2>4, StaysHonest DEF OrchestratorStarts, BenchmarkInv, Honest
  <2> QED BY <1>2, <2>3, <2>5 DEF OrchestratorStarts, BenchmarkInv
<1>3. ASSUME NEW s \in Shard, WorkerStamps(s) \/ WorkerStarts(s) \/ WorkerEnds(s) PROVE BenchmarkInv'
  <2>1. PICK w : Honest(w) /\ workers' = [workers EXCEPT ![s] = w]
    <3>1. Honest(workers[s]) /\ Honest(Off)
      BY DEF BenchmarkInv, Honest
    <3>2. CASE WorkerStamps(s)
      <4>1. workers' = [workers EXCEPT ![s] = [workers[s] EXCEPT !.at = "stamped", !.run = RunIdentity]]
        BY <3>2 DEF WorkerStamps, BenchmarkInv
      <4> QED BY <3>1, <3>2, <4>1, StartsHonest DEF WorkerStamps, BenchmarkInv
    <3>3. CASE WorkerStarts(s)
      <4>1. OfShard(s) \ LoadDone(files[s].rows, workers[s].run) \in SUBSET Question
        BY DEF OfShard
      <4> QED BY <3>1, <3>3, <4>1, StartsHonest DEF WorkerStarts, BenchmarkInv
    <3>4. CASE WorkerEnds(s)
      BY <3>1, <3>4 DEF WorkerEnds
    <3> QED BY <1>3, <3>2, <3>3, <3>4
  <2>2. UNCHANGED <<checkout, modeB, files, fileB, slots, reportA, reportB>>
    BY <1>3 DEF WorkerStamps, WorkerStarts, WorkerEnds
  <2> QED BY <2>1, <2>2, OneWorkerSteps DEF BenchmarkInv
<1>4. ASSUME NEW s \in Shard, WorkerAppends(s) PROVE BenchmarkInv'
  <2> DEFINE w == workers[s]
             q == Min(w.todo)
  <2>1. Honest(w) /\ w.at = "running" /\ w.todo # {}
    BY <1>4 DEF WorkerAppends, BenchmarkInv
  <2>2. w \in Process
    BY <2>1, WritesSound
  <2>3. q \in Question
    BY <2>1, <2>2, FirstQuestion DEF Process
  <2>4. PICK ok \in BOOLEAN : files' = [files EXCEPT ![s] = Appended(files[s], RowOf(w, q, ok))]
    BY <1>4 DEF WorkerAppends
  <2>5. workers' = [workers EXCEPT ![s] = [w EXCEPT !.todo = w.todo \ {q}]]
    BY <1>4 DEF WorkerAppends, BenchmarkInv
  <2>6. w.todo \ {q} \in SUBSET Question
    BY <2>2 DEF Process
  <2> HIDE DEF q
  <2>7. RowOf(w, q, ok) \in SoundRow /\ Honest([w EXCEPT !.todo = w.todo \ {q}])
    BY <2>1, <2>3, <2>6, WritesSound
  <2> HIDE DEF w
  <2>8. files' \in [Shard -> FileRecords]
    BY <2>4, <2>7, AppendedSound DEF BenchmarkInv
  <2>9. UNCHANGED <<checkout, modeB, fileB, slots, reportA, reportB>>
    BY <1>4 DEF WorkerAppends
  <2> QED BY <2>5, <2>7, <2>8, <2>9, OneWorkerSteps DEF BenchmarkInv
<1>5. ASSUME NEW s \in Shard, WorkerDies(s) PROVE BenchmarkInv'
  <2>1. files' \in [Shard -> FileRecords]
    BY <1>5, TornSound DEF WorkerDies, BenchmarkInv
  <2>2. workers' = [workers EXCEPT ![s] = Off] /\ Honest(Off)
    BY <1>5 DEF WorkerDies, Honest
  <2>3. UNCHANGED <<checkout, modeB, fileB, slots, reportA, reportB>>
    BY <1>5 DEF WorkerDies
  <2> QED BY <2>1, <2>2, <2>3, OneWorkerSteps DEF BenchmarkInv
<1>6. ASSUME UNCHANGED <<checkout, workers, files>>, Honest(modeB)'
      PROVE  /\ checkout' \in Codes /\ files' \in [Shard -> FileRecords]
             /\ DOMAIN workers' = Shard /\ \A s \in Shard : Honest(workers[s])'
             /\ Honest(modeB)'
  BY <1>6, StaysHonest DEF BenchmarkInv, Honest
<1>7. ASSUME UNCHANGED <<checkout, modeB>> PROVE Honest(modeB)'
  BY <1>7, StaysHonest DEF BenchmarkInv, Honest
<1>8. ASSUME NEW p, Honest(p), UNCHANGED checkout, modeB' = p PROVE Honest(modeB)'
  BY <1>8, StaysHonest DEF Honest
<1>9. ASSUME Aggregate PROVE BenchmarkInv'
  <2>1. Truthful(reportA')
    BY <1>9, AllRowsSound, ReportTruthful DEF Aggregate, BenchmarkInv
  <2>2. UNCHANGED <<checkout, workers, files, fileB, modeB, slots, reportB>>
    BY <1>9 DEF Aggregate
  <2> QED BY <1>6, <1>7, <2>1, <2>2 DEF BenchmarkInv
<1>10. ASSUME ModeBLoads \/ ModeBStamps \/ ModeBStarts PROVE BenchmarkInv'
  <2>1. PICK p : Honest(p) /\ modeB' = p
    <3>1. CASE ModeBLoads
      BY <3>1, StartsHonest DEF ModeBLoads, BenchmarkInv
    <3>2. CASE ModeBStamps
      BY <3>2, StartsHonest DEF ModeBStamps, BenchmarkInv
    <3>3. CASE ModeBStarts
      <4>1. Question \ LoadDone(fileB.rows, modeB.run) \in SUBSET Question /\ Honest(Off)
        BY DEF Honest
      <4> QED BY <3>3, <4>1, StartsHonest DEF ModeBStarts, BenchmarkInv
    <3> QED BY <1>10, <3>1, <3>2, <3>3
  <2>2. UNCHANGED <<checkout, workers, files, fileB, slots, reportA, reportB>> /\ slots = {}
    BY <1>10 DEF ModeBLoads, ModeBStamps, ModeBStarts, BenchmarkInv, Off
  <2> QED BY <1>6, <1>8, <2>1, <2>2 DEF BenchmarkInv
<1>11. ASSUME TakesNext PROVE BenchmarkInv'
  <2>1. modeB \in Process /\ modeB.at = "running" /\ modeB.todo # {}
    BY <1>11, WritesSound DEF TakesNext, BenchmarkInv
  <2>2. Min(modeB.todo) \in Question
    BY <2>1, FirstQuestion DEF Process
  <2>3. modeB' = [modeB EXCEPT !.todo = modeB.todo \ {Min(modeB.todo)}]
    BY <1>11 DEF TakesNext
  <2>4. Honest([modeB EXCEPT !.todo = modeB.todo \ {Min(modeB.todo)}])
    BY <2>1, WritesSound DEF BenchmarkInv, Process
  <2>5. modeB'.at = "running"
    BY <2>1, <2>3 DEF Process
  <2>6. slots' \subseteq [qid: Question, call: {"answer", "judge"}]
    BY <1>11, <2>2 DEF TakesNext, BenchmarkInv
  <2>7. UNCHANGED <<checkout, workers, files, fileB, reportA, reportB>>
    BY <1>11 DEF TakesNext
  <2> QED BY <1>6, <1>8, <2>3, <2>4, <2>5, <2>6, <2>7 DEF BenchmarkInv
<1>12. ASSUME NEW slot \in slots, NEW ok \in BOOLEAN, Records(slot, ok)
       PROVE  fileB' \in FileRecords /\ slots' \subseteq slots
  <2>1. slot.qid \in Question /\ modeB.at = "running"
    BY DEF BenchmarkInv
  <2>2. RowOf(modeB, slot.qid, ok) \in SoundRow
    BY <2>1, WritesSound DEF BenchmarkInv
  <2> QED BY <1>12, <2>2, AppendedSound DEF Records, BenchmarkInv
<1>13. ASSUME NEW slot \in slots, CallAnswers(slot) PROVE BenchmarkInv'
  <2>1. UNCHANGED <<checkout, workers, files, modeB, reportA, reportB>>
    BY <1>13 DEF CallAnswers
  <2>2. CASE slot.call = "judge"
    BY <1>6, <1>7, <1>12, <1>13, <2>1, <2>2 DEF CallAnswers, BenchmarkInv
  <2>3. CASE slot.call # "judge"
    <3>1. slots' \subseteq [qid: Question, call: {"answer", "judge"}] /\ fileB' = fileB
      BY <1>13, <2>3 DEF CallAnswers, BenchmarkInv
    <3> QED BY <1>6, <1>7, <2>1, <3>1 DEF BenchmarkInv
  <2> QED BY <2>2, <2>3
<1>14. ASSUME NEW slot \in slots, CallGivenUp(slot) PROVE BenchmarkInv'
  <2>1. UNCHANGED <<checkout, workers, files, modeB, reportA, reportB>>
    BY <1>14 DEF CallGivenUp
  <2> QED BY <1>6, <1>7, <1>12, <1>14, <2>1 DEF CallGivenUp, BenchmarkInv
<1>15. ASSUME ModeBDies \/ ModeBReports PROVE BenchmarkInv'
  <2>1. fileB' \in FileRecords
    BY <1>15, TornSound DEF ModeBDies, ModeBReports, BenchmarkInv
  <2>2. Truthful(reportB')
    <3>1. fileB.rows \in SUBSET SoundRow
      BY DEF BenchmarkInv, FileRecords
    <3> QED BY <1>15, <3>1, ReportTruthful DEF ModeBDies, ModeBReports, BenchmarkInv
  <2>3. modeB' = Off /\ Honest(Off) /\ slots' = {}
    BY <1>15 DEF ModeBDies, ModeBReports, Honest
  <2>4. UNCHANGED <<checkout, workers, files, reportA>>
    BY <1>15 DEF ModeBDies, ModeBReports
  <2> QED BY <1>6, <1>8, <2>1, <2>2, <2>3, <2>4 DEF BenchmarkInv
<1>16. CASE UNCHANGED benchmarkVars
  BY <1>6, <1>7, <1>16 DEF benchmarkVars, BenchmarkInv
<1> QED
  BY <1>1, <1>2, <1>3, <1>4, <1>5, <1>9, <1>10, <1>11, <1>13, <1>14, <1>15, <1>16
  DEF BenchmarkNext, OrchestratorStep, WorkerStep, ModeBStep, PoolStep

\* However many commits, crashes, shard counts and reruns wrote to the files, a report without
\* a failure rests on one successful row per question, each of the clean code of its commit
\* unless the checkout changed while the process that wrote it was starting.
THEOREM ReportsAreTrue == BenchmarkSpec => []ReportsTellTruth
<1>1. BenchmarkInv => ReportsTellTruth
  BY DEF BenchmarkInv, ReportsTellTruth, Truthful, CleanCode
<1> QED BY <1>1, BenchmarkInvInit, BenchmarkInvStep, PTL DEF BenchmarkSpec

(***************************************************************************)
(* The load.  Each entry is leased to one operation, so that what is       *)
(* acknowledged and not to be found was lost, or archived by a call that   *)
(* got no answer; at most one audit is under way, and it has yet to find   *)
(* whatever was lost before it began.                                      *)
(***************************************************************************)
LoadOp == [at: {"sent", "found", "gone"}, kind: {"use", "archive", "ingest"}, entry: Entry]
AuditRequest == 0 .. MaxFaults
LoadAudit == [at: {"draining", "verifying"}, request: AuditRequest, left: SUBSET Entry, ok: BOOLEAN]
LoadRun ==
  [phase: {"running", "draining", "settling", "auditing", "beating", "ended", "crashed"},
   stopped: BOOLEAN, full: BOOLEAN, verdict: {"none", "FAILED", "ADVISORY", "PASSED"}]

StoreTypes ==
  /\ held \in [Entry -> {"absent", "active", "archived", "lost"}]
  /\ oracle \in [Entry -> {"none", "active", "archived"}]
  /\ flying \subseteq LoadOp /\ stray \subseteq Entry
  /\ blamed \subseteq Entry /\ unanswered \subseteq Entry /\ lostBefore \subseteq Entry
AuditTypes ==
  /\ audits = <<>> \/ (\E q \in AuditRequest : audits = <<q>>)
  /\ auditing \in {NoAudit} \cup LoadAudit /\ pulse \in {"idle", "audit"}
  /\ faultFile \in [active: BOOLEAN, request: AuditRequest] /\ lastAudit \in AuditRequest
  /\ receipt \in [request: AuditRequest, ok: BOOLEAN]
  /\ missing \in [1 .. MaxFaults -> SUBSET Entry]
RunTypes == soak \in LoadRun
LoadTypeOK == StoreTypes /\ AuditTypes /\ RunTypes

\* Leases exclude each other, and an operation keeps what it has been told of its entry.
LeasesOK ==
  /\ \A o, p \in flying : o.entry = p.entry => o = p
  /\ \A o \in flying :
       /\ o.kind # "ingest" => oracle[o.entry] = "active"
       /\ o.kind = "ingest" => oracle[o.entry] = "none" /\ o.at # "gone"
       /\ o.kind = "ingest" /\ o.at = "sent" => held[o.entry] = "absent"
  /\ \A m \in Entry : held[m] = "absent" => oracle[m] = "none" /\ m \notin stray \cup unanswered

\* What is known of a memory, and why it may not be there.
Excused(m) == held[m] = "lost" \/ m \in unanswered
BeingArchived(m) == \E o \in flying : o.entry = m /\ o.kind = "archive" /\ o.at = "found"
KnownOK ==
  /\ \A m \in Entry : oracle[m] = "active" => held[m] = "active" \/ Excused(m) \/ BeingArchived(m)
  /\ \A o \in flying : o.kind = "ingest" /\ o.at = "found" => held[o.entry] = "active" \/ Excused(o.entry)
  /\ \A o \in flying : o.at = "gone" => Excused(o.entry)
  /\ \A m \in blamed : Excused(m)

\* One audit at a time: a heartbeat's, or the last one.
Verifying == auditing.at = "verifying"
QueueOK ==
  /\ audits = <<>> \/ auditing = NoAudit
  /\ AuditBarrier <=> pulse = "audit" \/ soak.phase = "auditing"
  /\ pulse = "audit" => soak.phase \notin {"auditing", "ended"}
  /\ \A q \in AuditRequest : audits = <<q>> => q <= faultFile.request /\ (q = Final <=> soak.phase = "auditing")
  /\ auditing # NoAudit =>
       auditing.request <= faultFile.request /\ (auditing.request = Final <=> soak.phase = "auditing")
  /\ faultFile.active => faultFile.request < MaxFaults
  /\ lastAudit <= faultFile.request /\ receipt.request <= faultFile.request
VerifyingOK ==
  /\ Verifying => flying = {} /\ auditing.left \subseteq ActiveOracle /\ (~auditing.ok => soak.stopped)
  /\ auditing.at = "draining" => auditing.ok

\* What was lost when a fault ended, or when the last audit began, that audit has yet to find.
MissingOK ==
  /\ \A q \in 1 .. MaxFaults : \A m \in missing[q] : held[m] = "lost" /\ oracle[m] # "none"
  /\ \A m \in lostBefore : held[m] = "lost"
  /\ Verifying /\ auditing.ok /\ auditing.request # Final =>
       missing[auditing.request] \cap ActiveOracle \subseteq auditing.left
  /\ Verifying /\ auditing.request = Final /\ ~soak.stopped =>
       lostBefore \cap ActiveOracle \subseteq auditing.left
  /\ receipt.ok => receipt.request # 0 /\ missing[receipt.request] \cap ActiveOracle = {}

EndOK ==
  /\ blamed # {} => soak.stopped
  /\ soak.phase \in {"beating", "ended"} =>
       flying = {} /\ (soak.stopped \/ lostBefore \cap ActiveOracle = {})
  /\ soak.verdict # "none" => soak.phase = "ended"
  /\ soak.verdict \in {"PASSED", "ADVISORY"} => soak.full /\ ~soak.stopped

LoadInv ==
  /\ LoadTypeOK /\ LeasesOK /\ KnownOK /\ QueueOK /\ VerifyingOK /\ MissingOK /\ EndOK

\* The queue of audits holds one request at most.
LEMMA Queues ==
  \A q : /\ Head(<<q>>) = q /\ Tail(<<q>>) = <<>> /\ <<q>> # <<>> /\ Append(<<>>, q) = <<q>>
         /\ \A r : <<q>> = <<r>> => q = r
OBVIOUS

\* What stops a run changes nothing else of it.
LEMMA RunStops ==
  ASSUME soak \in LoadRun, HardStop \/ soak' = soak
  PROVE  /\ soak' \in LoadRun /\ soak'.phase = soak.phase /\ soak'.full = soak.full /\ soak'.verdict = soak.verdict
         /\ soak.stopped => soak'.stopped
         /\ HardStop => soak'.stopped
BY DEF LoadRun, HardStop

\* What the service loses excuses it, and no audit has seen it lost.
LEMMA ServiceLosesKeeps ==
  ASSUME NEW m \in Entry, LoadInv, ServiceLoses(m)
  PROVE  LoadInv'
<1>1. StoreTypes' /\ AuditTypes' /\ RunTypes'
  BY DEF LoadInv, StoreTypes, AuditTypes, RunTypes, ServiceLoses, LoadTypeOK, auditVars, verdictVars
<1>2. LeasesOK' /\ KnownOK' /\ QueueOK' /\ VerifyingOK' /\ MissingOK' /\ EndOK'
  BY DEF LoadInv, LeasesOK, KnownOK, QueueOK, VerifyingOK, MissingOK, EndOK, ServiceLoses, Excused,
      BeingArchived, AuditBarrier, Verifying, ActiveOracle, auditVars, verdictVars
<1> QED BY <1>1, <1>2 DEF LoadInv, LoadTypeOK

\* An archive nobody waits for is carried out: the memory is among the unanswered from then on.
LEMMA ArchivesLateKeeps ==
  ASSUME NEW m \in Entry, LoadInv, ArchivesLate(m)
  PROVE  LoadInv'
<1>1. AuditTypes' /\ RunTypes'
  BY DEF LoadInv, AuditTypes, RunTypes, ArchivesLate, LoadTypeOK, auditVars, verdictVars
<1>2. QueueOK' /\ VerifyingOK' /\ EndOK'
  BY DEF LoadInv, QueueOK, VerifyingOK, EndOK, ArchivesLate, AuditBarrier, Verifying, ActiveOracle,
      auditVars, verdictVars
<1>3. StoreTypes'  BY DEF LoadInv, StoreTypes, ArchivesLate, LoadTypeOK, CarriedOut, verdictVars
<1>4. LeasesOK'  BY DEF LoadInv, LeasesOK, ArchivesLate, CarriedOut
<1>5. KnownOK'  BY DEF LoadInv, KnownOK, ArchivesLate, Excused, BeingArchived, CarriedOut, verdictVars
<1>6. MissingOK'
  BY DEF LoadInv, MissingOK, ArchivesLate, Verifying, ActiveOracle, CarriedOut, auditVars, verdictVars
<1> QED BY <1>1, <1>2, <1>3, <1>4, <1>5, <1>6 DEF LoadInv, LoadTypeOK

\* What an operation is told is so, or the memory is excused or being archived.
LEMMA ServiceAnswersKeeps ==
  ASSUME NEW op \in flying, LoadInv, ServiceAnswers(op)
  PROVE  LoadInv'
<1>1. AuditTypes' /\ RunTypes'
  BY DEF LoadInv, AuditTypes, RunTypes, ServiceAnswers, LoadTypeOK, auditVars, verdictVars
<1>2. QueueOK' /\ VerifyingOK' /\ EndOK'
  BY DEF LoadInv, QueueOK, VerifyingOK, EndOK, ServiceAnswers, AuditBarrier, Verifying, auditVars,
      verdictVars
<1>3. StoreTypes'
  BY DEF LoadInv, StoreTypes, ServiceAnswers, LoadTypeOK, CarriedOut, Advances, LoadOp, verdictVars
<1>4. LeasesOK'
  BY DEF LoadInv, LeasesOK, ServiceAnswers, LoadTypeOK, CarriedOut, Advances, StoreTypes, LoadOp
<1>5. KnownOK'
  <2> DEFINE e == op.entry
  <2>1. /\ op \in LoadOp /\ e \in Entry /\ op.at = "sent" /\ held \in [Entry -> {"absent", "active", "archived", "lost"}]
        /\ oracle' = oracle /\ unanswered' = unanswered /\ blamed' = blamed
    BY DEF ServiceAnswers, LoadInv, LoadTypeOK, StoreTypes, LoadOp, auditVars, verdictVars
  <2>2. /\ \A o \in flying : o.entry = e => o = op
        /\ op.kind # "ingest" => oracle[e] = "active"
        /\ op.kind = "ingest" => oracle[e] = "none" /\ held[e] = "absent"
    BY <2>1 DEF LoadInv, LeasesOK
  <2>3. /\ \A m \in Entry : m # e => held'[m] = held[m]
        /\ held'[e] = (CASE op.kind = "ingest" -> "active"
                         [] op.kind = "archive" /\ held[e] = "active" -> "archived"
                         [] OTHER -> held[e])
    BY <2>1 DEF ServiceAnswers, CarriedOut, LoadOp
  <2> DEFINE next == [op EXCEPT !.at = IF op.kind = "ingest" \/ held[e] = "active" THEN "found" ELSE "gone"]
  <2>4. /\ next \in LoadOp /\ next.entry = e /\ next.kind = op.kind
        /\ next.at = IF op.kind = "ingest" \/ held[e] = "active" THEN "found" ELSE "gone"
    BY <2>1 DEF LoadOp
  <2>5. flying' = (flying \ {op}) \cup {next}  BY DEF ServiceAnswers, Advances
  <2> HIDE DEF next, e
  <2>6. ASSUME op.kind # "ingest", held[e] # "active"  PROVE Excused(e)
    <3>1. ~BeingArchived(e)  BY <2>1, <2>2 DEF BeingArchived
    <3> QED BY <2>1, <2>2, <2>6, <3>1 DEF LoadInv, KnownOK
  <2>7. \A m \in Entry : Excused(m) => Excused(m)'
    BY <2>1, <2>2, <2>3 DEF Excused, LoadOp
  <2>8. ASSUME NEW m \in Entry, oracle[m] = "active"
        PROVE  (held[m] = "active" \/ Excused(m) \/ BeingArchived(m))'
    <3>1. CASE m # e
      <4>1. held[m] = "active" \/ Excused(m) \/ BeingArchived(m)  BY <2>8 DEF LoadInv, KnownOK
      <4>2. BeingArchived(m) => BeingArchived(m)'  BY <2>1, <2>5 DEF BeingArchived
      <4> QED BY <4>1, <4>2, <2>3, <2>7, <3>1
    <3>2. CASE m = e
      <4>1. op.kind # "ingest"  BY <2>2, <2>8, <3>2
      <4>2. CASE held[e] # "active"  BY <2>6, <2>7, <3>2, <4>1, <4>2
      <4>3. CASE held[e] = "active" /\ op.kind = "use"  BY <2>3, <3>2, <4>3
      <4>4. CASE held[e] = "active" /\ op.kind = "archive"  BY <2>4, <2>5, <3>2, <4>4 DEF BeingArchived
      <4> QED BY <2>1, <4>1, <4>2, <4>3, <4>4 DEF LoadOp
    <3> QED BY <3>1, <3>2
  <2>9. \A o \in flying' : o.kind = "ingest" /\ o.at = "found" => (held[o.entry] = "active" \/ Excused(o.entry))'
    <3> SUFFICES ASSUME NEW o \in flying', o.kind = "ingest", o.at = "found"
                 PROVE  held'[o.entry] = "active" \/ Excused(o.entry)'
      OBVIOUS
    <3>1. CASE o = next  BY <2>1, <2>3, <2>4, <3>1 DEF e
    <3>2. CASE o \in flying /\ o # op
      <4>1. o.entry \in Entry /\ o.entry # e
        BY <2>2, <3>2 DEF LoadInv, LoadTypeOK, StoreTypes, LoadOp
      <4>2. held[o.entry] = "active" \/ Excused(o.entry)  BY <3>2 DEF LoadInv, KnownOK
      <4> QED BY <4>1, <4>2, <2>3, <2>7
    <3> QED BY <2>5, <3>1, <3>2
  <2>10. \A o \in flying' : o.at = "gone" => Excused(o.entry)'
    <3> SUFFICES ASSUME NEW o \in flying', o.at = "gone"  PROVE Excused(o.entry)'  OBVIOUS
    <3>1. CASE o = next
      <4>1. op.kind # "ingest" /\ held[e] # "active"  BY <2>4, <3>1
      <4> QED BY <2>1, <2>4, <2>6, <2>7, <3>1, <4>1 DEF e
    <3>2. CASE o \in flying
      <4>1. o.entry \in Entry /\ Excused(o.entry)
        BY <3>2 DEF LoadInv, LoadTypeOK, StoreTypes, LoadOp, KnownOK
      <4> QED BY <4>1, <2>7
    <3> QED BY <2>5, <3>1, <3>2
  <2>11. \A m \in blamed' : Excused(m)'
    BY <2>1, <2>7 DEF LoadInv, LoadTypeOK, StoreTypes, KnownOK
  <2> QED BY <2>1, <2>8, <2>9, <2>10, <2>11 DEF KnownOK
<1>6. MissingOK'
  BY DEF LoadInv, MissingOK, ServiceAnswers, CarriedOut, Verifying, ActiveOracle, LeasesOK, auditVars,
      verdictVars
<1> QED BY <1>1, <1>2, <1>3, <1>4, <1>5, <1>6 DEF LoadInv, LoadTypeOK

\* A call without an answer leaves its memory among the stray or the unanswered, if it archived.
LEMMA RequestFailsKeeps ==
  ASSUME NEW op \in flying, LoadInv, RequestFails(op)
  PROVE  LoadInv'
<1>1. AuditTypes'  BY DEF LoadInv, AuditTypes, RequestFails, LoadTypeOK, auditVars, verdictVars
<1>2. LeasesOK' /\ KnownOK' /\ QueueOK' /\ VerifyingOK'
  BY DEF LoadInv, LeasesOK, KnownOK, QueueOK, VerifyingOK, RequestFails, Excused, BeingArchived,
      AuditBarrier, Verifying, auditVars, verdictVars
<1>3. StoreTypes'  BY DEF LoadInv, StoreTypes, RequestFails, LoadTypeOK, LoadOp, verdictVars
<1>4. RunTypes'  BY DEF LoadInv, RunTypes, RequestFails, LoadTypeOK, LoadRun
<1>5. MissingOK'
  BY DEF LoadInv, MissingOK, RequestFails, LoadTypeOK, Verifying, ActiveOracle, RunTypes, LoadRun,
      auditVars, verdictVars
<1>6. EndOK'  BY DEF LoadInv, EndOK, RequestFails, LoadTypeOK, RunTypes, LoadRun, verdictVars
<1> QED BY <1>1, <1>2, <1>3, <1>4, <1>5, <1>6 DEF LoadInv, LoadTypeOK

\* Who finds nothing found a memory that is excused; the lease ends with what is known settled.
LEMMA ConcludesKeeps ==
  ASSUME NEW op \in flying, LoadInv, Concludes(op)
  PROVE  LoadInv'
<1>1. AuditTypes'  BY DEF LoadInv, AuditTypes, Concludes, LoadTypeOK, auditVars
<1>2. VerifyingOK'  BY DEF LoadInv, VerifyingOK, Concludes, Verifying, auditVars
<1>3. StoreTypes'
  BY DEF LoadInv, StoreTypes, Concludes, LoadTypeOK, Acknowledges, Blames, LoadOp, serviceVars
<1>4. RunTypes'  BY DEF LoadInv, RunTypes, Concludes, LoadTypeOK, Acknowledges, Blames, HardStop, LoadRun
<1>5. LeasesOK'
  <2>1. /\ held' = held /\ stray' = stray /\ unanswered' = unanswered /\ flying' = flying \ {op} /\ op \in LoadOp
        /\ oracle \in [Entry -> {"none", "active", "archived"}]
    BY DEF Concludes, LoadInv, LoadTypeOK, StoreTypes, serviceVars, auditVars
  <2>2. \A m \in Entry : m # op.entry => oracle'[m] = oracle[m]
    BY <2>1 DEF Concludes, Acknowledges, Blames
  <2>3. \A o \in flying' : o \in flying /\ o.entry # op.entry /\ o.entry \in Entry
    BY <2>1 DEF LoadInv, LeasesOK, LoadTypeOK, StoreTypes, LoadOp
  <2>4. held[op.entry] = "absent" => oracle'[op.entry] = "none"
    <3> SUFFICES ASSUME held[op.entry] = "absent"  PROVE oracle'[op.entry] = "none"  OBVIOUS
    <3>1. op.kind = "ingest" /\ oracle[op.entry] = "none"
      BY <2>1 DEF LoadInv, LeasesOK, LoadOp
    <3>2. op.at # "found"
      BY <2>1, <3>1 DEF LoadInv, LeasesOK, KnownOK, Excused, LoadOp
    <3> QED BY <3>1, <3>2 DEF Concludes, Acknowledges, Blames
  <2>5. \A m \in Entry : held'[m] = "absent" => oracle'[m] = "none" /\ m \notin stray' \cup unanswered'
    BY <2>1, <2>2, <2>4 DEF LoadInv, LeasesOK, LoadOp
  <2>6. \A o \in flying' : oracle'[o.entry] = oracle[o.entry]  BY <2>2, <2>3
  <2> QED BY <2>1, <2>3, <2>5, <2>6 DEF LoadInv, LeasesOK, LoadOp
<1>6. KnownOK'
  BY DEF LoadInv, KnownOK, Concludes, LoadTypeOK, Acknowledges, Blames, Excused, BeingArchived,
      StoreTypes, serviceVars
<1>7. QueueOK'
  BY DEF LoadInv, QueueOK, Concludes, LoadTypeOK, Acknowledges, Blames, HardStop, AuditBarrier,
      RunTypes, LoadRun, auditVars
<1>8. MissingOK'
  BY DEF LoadInv, MissingOK, Concludes, LoadTypeOK, Acknowledges, Blames, Verifying, ActiveOracle,
      LeasesOK, VerifyingOK, StoreTypes, AuditTypes, AuditRequest, serviceVars, auditVars
<1>9. EndOK'
  BY DEF LoadInv, EndOK, Concludes, LoadTypeOK, Acknowledges, Blames, HardStop, RunTypes, LoadRun
<1> QED BY <1>1, <1>2, <1>3, <1>4, <1>5, <1>6, <1>7, <1>8, <1>9 DEF LoadInv, LoadTypeOK

\* An operation leases a memory nobody else has leased, and never beside an audit.
LEMMA WorkloadOperationKeeps ==
  ASSUME LoadInv, WorkloadOperation
  PROVE  LoadInv'
<1>1. AuditTypes' /\ RunTypes'
  BY DEF LoadInv, AuditTypes, RunTypes, WorkloadOperation, LoadTypeOK, auditVars, verdictVars
<1>2. QueueOK' /\ MissingOK' /\ EndOK'
  BY DEF LoadInv, QueueOK, MissingOK, EndOK, WorkloadOperation, AuditBarrier, Verifying, ActiveOracle,
      serviceVars, auditVars, verdictVars
<1>3. StoreTypes'
  BY DEF LoadInv, StoreTypes, WorkloadOperation, LoadTypeOK, Operations, Unleased, Fresh, ActiveOracle,
      LoadOp, serviceVars, verdictVars
<1>4. LeasesOK'
  BY DEF LoadInv, LeasesOK, WorkloadOperation, Operations, Unleased, Fresh, Leased, ActiveOracle,
      serviceVars
<1>5. KnownOK'
  BY DEF LoadInv, KnownOK, WorkloadOperation, Excused, BeingArchived, Operations, serviceVars,
      verdictVars
<1>6. VerifyingOK'  BY DEF VerifyingOK, WorkloadOperation, AuditBarrier, Verifying, NoAudit, auditVars
<1> QED BY <1>1, <1>2, <1>3, <1>4, <1>5, <1>6 DEF LoadInv, LoadTypeOK

\* The one request that is queued becomes the audit.
LEMMA AuditBeginsKeeps ==
  ASSUME LoadInv, AuditBegins
  PROVE  LoadInv'
<1>q. PICK q \in AuditRequest : audits = <<q>> /\ auditing = NoAudit
  BY DEF AuditBegins, LoadInv, LoadTypeOK, AuditTypes
<1>n. /\ auditing' = [at |-> "draining", request |-> q, left |-> {}, ok |-> TRUE] /\ audits' = <<>>
      /\ auditing' \in LoadAudit /\ auditing' # NoAudit
  <2>1. auditing' = [at |-> "draining", request |-> q, left |-> {}, ok |-> TRUE] /\ audits' = <<>>
    BY <1>q, Queues DEF AuditBegins
  <2>2. auditing' \in LoadAudit  BY <2>1 DEF LoadAudit
  <2>3. auditing'.at # NoAudit.at  BY <2>1 DEF NoAudit
  <2> QED BY <2>1, <2>2, <2>3
<1>1. StoreTypes' /\ RunTypes'
  BY DEF LoadInv, StoreTypes, RunTypes, AuditBegins, LoadTypeOK, serviceVars, verdictVars
<1>2. LeasesOK' /\ KnownOK' /\ VerifyingOK' /\ MissingOK' /\ EndOK'
  BY DEF LoadInv, LeasesOK, KnownOK, VerifyingOK, MissingOK, EndOK, AuditBegins, Excused, BeingArchived,
      Verifying, ActiveOracle, serviceVars, verdictVars
<1>3. AuditTypes'
  BY <1>q, <1>n DEF AuditBegins, AuditTypes, LoadInv, LoadTypeOK, serviceVars, verdictVars
<1>4. QueueOK'
  <2>1. AuditBarrier /\ AuditBarrier'  BY <1>q, <1>n, Queues DEF AuditBarrier
  <2>2. q <= faultFile.request /\ (q = Final <=> soak.phase = "auditing")  BY <1>q DEF LoadInv, QueueOK
  <2>3. audits' = <<>> /\ auditing'.request = q  BY <1>n
  <2> QED BY <1>n, <2>1, <2>2, <2>3, Queues DEF AuditBegins, LoadInv, QueueOK
<1> QED BY <1>1, <1>2, <1>3, <1>4 DEF LoadInv, LoadTypeOK

\* The audit verifies what is active once nothing is in flight: whatever was lost is still to find.
LEMMA SnapshotKeeps ==
  ASSUME LoadInv, Snapshot
  PROVE  LoadInv'
<1>n. /\ auditing \in LoadAudit /\ flying = {} /\ auditing' \in LoadAudit
      /\ auditing' = [at |-> "verifying", request |-> auditing.request, left |-> ActiveOracle, ok |-> auditing.ok]
      /\ auditing.at = "draining"
  <2>1. auditing \in LoadAudit /\ flying = {} /\ auditing.at = "draining"
    BY DEF Snapshot, LoadInv, LoadTypeOK, AuditTypes, NoAudit
  <2>2. ActiveOracle \subseteq Entry  BY DEF ActiveOracle
  <2>3. auditing' = [at |-> "verifying", request |-> auditing.request, left |-> ActiveOracle, ok |-> auditing.ok]
    BY <2>1 DEF Snapshot, LoadAudit
  <2> QED BY <2>1, <2>2, <2>3 DEF LoadAudit
<1>1. StoreTypes' /\ RunTypes'  BY DEF LoadInv, StoreTypes, RunTypes, Snapshot, LoadTypeOK, serviceVars
<1>2. LeasesOK' /\ KnownOK' /\ MissingOK'
  BY DEF LoadInv, LeasesOK, KnownOK, MissingOK, Snapshot, Excused, BeingArchived, ActiveOracle,
      serviceVars
<1>3. AuditTypes'  BY <1>n DEF Snapshot, AuditTypes, LoadInv, LoadTypeOK, serviceVars
<1>4. QueueOK'
  <2>1. auditing # NoAudit /\ auditing' # NoAudit /\ auditing'.request = auditing.request
    BY <1>n DEF LoadAudit, NoAudit
  <2>2. AuditBarrier' <=> AuditBarrier  BY <2>1 DEF AuditBarrier, Snapshot
  <2> QED BY <2>1, <2>2 DEF Snapshot, LoadInv, QueueOK
<1>5. VerifyingOK'
  <2>1. flying' = flying /\ ActiveOracle' = ActiveOracle /\ soak' = soak
    BY DEF Snapshot, ActiveOracle
  <2>2. auditing.ok
    BY <1>n DEF LoadInv, VerifyingOK
  <2> QED BY <1>n, <2>1, <2>2 DEF VerifyingOK
<1>6. EndOK'  BY DEF LoadInv, EndOK, Snapshot, ActiveOracle, NoAudit, QueueOK
<1> QED BY <1>1, <1>2, <1>3, <1>4, <1>5, <1>6 DEF LoadInv, LoadTypeOK

\* An audit that could not begin ends its heartbeat, and the run if it was the last one.
LEMMA DrainTimesOutKeeps ==
  ASSUME LoadInv, DrainTimesOut
  PROVE  LoadInv'
<1>1. StoreTypes' /\ AuditTypes'
  BY DEF LoadInv, StoreTypes, AuditTypes, DrainTimesOut, LoadTypeOK, serviceVars, verdictVars
<1>2. LeasesOK' /\ KnownOK' /\ EndOK'
  BY DEF LoadInv, LeasesOK, KnownOK, EndOK, DrainTimesOut, Excused, BeingArchived, serviceVars,
      verdictVars
<1>3. RunTypes'  BY DEF LoadInv, RunTypes, DrainTimesOut, LoadTypeOK, LoadRun
<1>4. QueueOK'
  <2>1. /\ auditing # NoAudit /\ auditing' = NoAudit /\ pulse' = "idle"
        /\ soak' = [soak EXCEPT !.stopped = TRUE,
                                !.phase = IF auditing.request = Final THEN "crashed" ELSE @]
        /\ UNCHANGED <<audits, lastAudit, receipt, faultFile>>
    BY DEF DrainTimesOut, NoAudit
  <2>2. ~AuditBarrier'  BY <2>1 DEF LoadInv, QueueOK, AuditBarrier
  <2>3. soak'.phase = IF auditing.request = Final THEN "crashed" ELSE soak.phase
    BY <2>1 DEF LoadInv, LoadTypeOK, RunTypes, LoadRun
  <2> QED BY <2>1, <2>2, <2>3 DEF LoadInv, QueueOK, AuditBarrier
<1>5. VerifyingOK'  BY DEF VerifyingOK, DrainTimesOut, Verifying, NoAudit
<1>6. MissingOK'
  BY DEF LoadInv, MissingOK, DrainTimesOut, Verifying, ActiveOracle, NoAudit, serviceVars, verdictVars
<1> QED BY <1>1, <1>2, <1>3, <1>4, <1>5, <1>6 DEF LoadInv, LoadTypeOK

\* An audit that found everything it had to overlooked nothing.
LEMMA AuditEndsKeeps ==
  ASSUME LoadInv, AuditEnds
  PROVE  LoadInv'
<1>1. StoreTypes'  BY DEF LoadInv, StoreTypes, AuditEnds, LoadTypeOK, serviceVars, verdictVars
<1>2. LeasesOK' /\ KnownOK'
  BY DEF LoadInv, LeasesOK, KnownOK, AuditEnds, Excused, BeingArchived, serviceVars, verdictVars
<1>3. AuditTypes'  BY DEF LoadInv, AuditTypes, AuditEnds, LoadTypeOK, LoadAudit, NoAudit, verdictVars
<1>4. RunTypes'  BY DEF LoadInv, RunTypes, AuditEnds, LoadTypeOK, LoadRun
<1>5. QueueOK'  BY DEF LoadInv, QueueOK, AuditEnds, AuditBarrier, NoAudit
<1>6. VerifyingOK'  BY DEF VerifyingOK, AuditEnds, Verifying, NoAudit
<1>7. MissingOK'
  BY DEF LoadInv, MissingOK, AuditEnds, LoadTypeOK, Verifying, ActiveOracle, NoAudit, Final, QueueOK,
      AuditTypes, LoadAudit, serviceVars, verdictVars
<1>8. EndOK'
  BY DEF LoadInv, EndOK, AuditEnds, ActiveOracle, Verifying, NoAudit, QueueOK, VerifyingOK, MissingOK,
      verdictVars
<1> QED BY <1>1, <1>2, <1>3, <1>4, <1>5, <1>6, <1>7, <1>8 DEF LoadInv, LoadTypeOK

\* A heartbeat queues the request of the last fault, once.
LEMMA HeartbeatAuditsKeeps ==
  ASSUME LoadInv, HeartbeatAudits
  PROVE  LoadInv'
<1>n. /\ audits = <<>> /\ auditing = NoAudit /\ faultFile.request \in AuditRequest /\ faultFile.request # Final
      /\ audits' = <<faultFile.request>> /\ lastAudit' = faultFile.request /\ auditing' = NoAudit
  <2>1. ~AuditBarrier  BY DEF HeartbeatAudits, LoadInv, QueueOK
  <2>2. faultFile.request \in AuditRequest /\ lastAudit \in AuditRequest /\ lastAudit <= faultFile.request
    BY DEF LoadInv, LoadTypeOK, AuditTypes, QueueOK
  <2>3. faultFile.request # Final  BY <2>2, LoadConstants DEF HeartbeatAudits, AuditRequest, Final
  <2> QED BY <2>1, <2>2, <2>3, Queues DEF HeartbeatAudits, AuditBarrier
<1>1. StoreTypes' /\ RunTypes'
  BY DEF LoadInv, StoreTypes, RunTypes, HeartbeatAudits, LoadTypeOK, serviceVars, verdictVars
<1>2. LeasesOK' /\ KnownOK' /\ VerifyingOK' /\ MissingOK' /\ EndOK'
  BY DEF LoadInv, LeasesOK, KnownOK, VerifyingOK, MissingOK, EndOK, HeartbeatAudits, Excused,
      BeingArchived, Verifying, ActiveOracle, serviceVars, verdictVars
<1>3. AuditTypes'  BY <1>n DEF HeartbeatAudits, AuditTypes, LoadInv, LoadTypeOK, serviceVars, verdictVars
<1>4. QueueOK'
  <2>1. AuditBarrier'  BY <1>n, Queues DEF AuditBarrier
  <2>2. pulse' = "audit" /\ soak' = soak /\ soak.phase \in {"running", "draining", "settling", "beating"} /\ faultFile' = faultFile
        /\ receipt' = receipt
    BY DEF HeartbeatAudits, serviceVars, verdictVars
  <2>3. \A r \in AuditRequest : audits' = <<r>> => r = faultFile.request  BY <1>n, Queues
  <2>4. faultFile.request <= faultFile.request  BY <1>n, LoadConstants DEF AuditRequest
  <2> QED BY <1>n, <2>1, <2>2, <2>3, <2>4 DEF LoadInv, QueueOK
<1> QED BY <1>1, <1>2, <1>3, <1>4 DEF LoadInv, LoadTypeOK

\* A memory that was lost is not found: the audit fails, and the run is stopped.
LEMMA VerifyAuditEntryKeeps ==
  ASSUME NEW m \in Entry, LoadInv, VerifyAuditEntry(m)
  PROVE  LoadInv'
<1>n. /\ auditing \in LoadAudit /\ auditing.at = "verifying" /\ m \in auditing.left
      /\ \E result \in {"FOUND", "LOST", "UNVERIFIED"} :
           /\ result = "FOUND" => held[m] = "active"
           /\ auditing' = [at |-> "verifying", request |-> auditing.request, left |-> auditing.left \ {m},
                           ok |-> auditing.ok /\ result = "FOUND"]
           /\ IF result = "FOUND" THEN UNCHANGED soak ELSE HardStop
  <2>1. auditing \in LoadAudit /\ auditing.at = "verifying"
    BY DEF VerifyAuditEntry, LoadInv, LoadTypeOK, AuditTypes, NoAudit
  <2>2. PICK result \in {"FOUND", "LOST", "UNVERIFIED"} :
          /\ result = "FOUND" => held[m] = "active"
          /\ auditing' = [auditing EXCEPT !.left = @ \ {m}, !.ok = @ /\ result = "FOUND"]
          /\ IF result = "FOUND" THEN UNCHANGED soak ELSE HardStop
    BY DEF VerifyAuditEntry
  <2>3. auditing' = [at |-> "verifying", request |-> auditing.request, left |-> auditing.left \ {m},
                     ok |-> auditing.ok /\ result = "FOUND"]
    BY <2>1, <2>2 DEF LoadAudit
  <2> QED BY <2>1, <2>2, <2>3 DEF VerifyAuditEntry
<1>1. StoreTypes'  BY DEF LoadInv, StoreTypes, VerifyAuditEntry, LoadTypeOK, serviceVars
<1>2. LeasesOK'  BY DEF LoadInv, LeasesOK, VerifyAuditEntry, serviceVars
<1>3. AuditTypes'
  <2>1. auditing' \in LoadAudit  BY <1>n DEF LoadAudit
  <2> QED BY <2>1 DEF VerifyAuditEntry, AuditTypes, LoadInv, LoadTypeOK
<1>4. RunTypes'  BY DEF LoadInv, RunTypes, VerifyAuditEntry, LoadTypeOK, HardStop, LoadRun
<1>5. KnownOK'
  BY DEF LoadInv, KnownOK, VerifyAuditEntry, Excused, BeingArchived, VerifyingOK, Verifying,
      ActiveOracle, serviceVars
<1>6. QueueOK'
  BY DEF LoadInv, QueueOK, VerifyAuditEntry, LoadTypeOK, HardStop, AuditBarrier, NoAudit, AuditTypes,
      LoadAudit, RunTypes, LoadRun
<1>7. VerifyingOK'
  BY DEF LoadInv, VerifyingOK, VerifyAuditEntry, LoadTypeOK, HardStop, Verifying, ActiveOracle, NoAudit,
      AuditTypes, LoadAudit, RunTypes, LoadRun
<1>8. MissingOK'
  <2>1. UNCHANGED <<held, oracle, missing, lostBefore, receipt>> /\ ActiveOracle' = ActiveOracle
    BY DEF VerifyAuditEntry, ActiveOracle, serviceVars
  <2>2. /\ auditing'.request = auditing.request /\ auditing'.left = auditing.left \ {m}
        /\ auditing'.ok => auditing.ok /\ held[m] = "active"
        /\ ~soak'.stopped => ~soak.stopped /\ held[m] = "active"
    <3>1. PICK result \in {"FOUND", "LOST", "UNVERIFIED"} :
            /\ result = "FOUND" => held[m] = "active"
            /\ auditing' = [at |-> "verifying", request |-> auditing.request, left |-> auditing.left \ {m},
                            ok |-> auditing.ok /\ result = "FOUND"]
            /\ IF result = "FOUND" THEN UNCHANGED soak ELSE HardStop
      BY <1>n
    <3>2. ~soak'.stopped => ~soak.stopped /\ result = "FOUND"
      <4>1. soak \in LoadRun /\ (HardStop \/ soak' = soak)  BY <3>1 DEF LoadInv, LoadTypeOK, RunTypes
      <4> QED BY <3>1, <4>1, RunStops
    <3> QED BY <3>1, <3>2
  <2>3. Verifying /\ auditing.request \in AuditRequest  BY <1>n DEF Verifying, LoadAudit
  <2>4. ASSUME auditing'.ok, auditing.request # Final
        PROVE  missing[auditing.request] \cap ActiveOracle \subseteq auditing'.left
    <3>1. missing[auditing.request] \cap ActiveOracle \subseteq auditing.left
      BY <2>2, <2>3, <2>4 DEF LoadInv, MissingOK
    <3>2. m \notin missing[auditing.request]
      BY <2>2, <2>3, <2>4, LoadConstants DEF LoadInv, MissingOK, AuditRequest, Final
    <3> QED BY <2>2, <3>1, <3>2
  <2>5. ASSUME ~soak'.stopped, auditing.request = Final
        PROVE  lostBefore \cap ActiveOracle \subseteq auditing'.left
    <3>1. lostBefore \cap ActiveOracle \subseteq auditing.left  BY <2>2, <2>3, <2>5 DEF LoadInv, MissingOK
    <3>2. m \notin lostBefore  BY <2>2, <2>5 DEF LoadInv, MissingOK
    <3> QED BY <2>2, <3>1, <3>2
  <2> QED BY <2>1, <2>2, <2>4, <2>5 DEF LoadInv, MissingOK
<1>9. EndOK'
  BY DEF LoadInv, EndOK, VerifyAuditEntry, LoadTypeOK, HardStop, ActiveOracle, NoAudit, AuditBarrier,
      QueueOK, RunTypes, LoadRun
<1> QED BY <1>1, <1>2, <1>3, <1>4, <1>5, <1>6, <1>7, <1>8, <1>9 DEF LoadInv, LoadTypeOK

\* A fault begins.
LEMMA FaultBeginsKeeps ==
  ASSUME LoadInv, FaultBegins
  PROVE  LoadInv'
<1>1. StoreTypes' /\ AuditTypes' /\ RunTypes'
  BY DEF LoadInv, StoreTypes, AuditTypes, RunTypes, FaultBegins, LoadTypeOK, serviceVars, auditVars,
      verdictVars
<1>2. LeasesOK' /\ KnownOK' /\ QueueOK' /\ VerifyingOK' /\ MissingOK' /\ EndOK'
  BY DEF LoadInv, LeasesOK, KnownOK, QueueOK, VerifyingOK, MissingOK, EndOK, FaultBegins, Excused,
      BeingArchived, AuditBarrier, Verifying, ActiveOracle, serviceVars, auditVars, verdictVars
<1> QED BY <1>1, <1>2 DEF LoadInv, LoadTypeOK

\* A fault ends: what is lost by then is for its audit to find, which has yet to be asked for.
LEMMA FaultEndsKeeps ==
  ASSUME LoadInv, FaultEnds
  PROVE  LoadInv'
<1>1. StoreTypes' /\ RunTypes'  BY DEF LoadInv, StoreTypes, RunTypes, FaultEnds, LoadTypeOK, serviceVars
<1>2. LeasesOK' /\ KnownOK' /\ VerifyingOK' /\ EndOK'
  BY DEF LoadInv, LeasesOK, KnownOK, VerifyingOK, EndOK, FaultEnds, Excused, BeingArchived, Verifying,
      ActiveOracle, serviceVars, auditVars
<1>3. AuditTypes'
  <2>1. faultFile \in [active: BOOLEAN, request: AuditRequest] /\ faultFile.active
    BY DEF FaultEnds, LoadInv, LoadTypeOK, AuditTypes
  <2>2. faultFile.request < MaxFaults  BY DEF FaultEnds, LoadInv, QueueOK
  <2>3. faultFile' \in [active: BOOLEAN, request: AuditRequest]
    BY <2>1, <2>2, LoadConstants DEF FaultEnds, AuditRequest
  <2>4. missing' \in [1 .. MaxFaults -> SUBSET Entry]
    BY DEF FaultEnds, ActiveOracle, LoadInv, LoadTypeOK, AuditTypes
  <2> QED BY <2>3, <2>4 DEF FaultEnds, AuditTypes, LoadInv, LoadTypeOK, serviceVars, auditVars
<1>4. QueueOK'
  BY DEF LoadInv, QueueOK, FaultEnds, LoadTypeOK, AuditBarrier, AuditTypes, LoadAudit, AuditRequest,
      auditVars
<1>5. MissingOK'
  BY DEF LoadInv, MissingOK, FaultEnds, LoadTypeOK, ActiveOracle, Verifying, NoAudit, QueueOK,
      AuditTypes, AuditRequest, serviceVars, auditVars
<1> QED BY <1>1, <1>2, <1>3, <1>4, <1>5 DEF LoadInv, LoadTypeOK

\* A run may be stopped whenever it runs.
LEMMA StoppedFromOutsideKeeps ==
  ASSUME LoadInv, StoppedFromOutside
  PROVE  LoadInv'
<1>1. StoreTypes'
  BY DEF LoadInv, StoreTypes, StoppedFromOutside, LoadTypeOK, EndStep, serviceVars, verdictVars
<1>2. AuditTypes'  BY DEF LoadInv, AuditTypes, StoppedFromOutside, LoadTypeOK, EndStep, verdictVars
<1>3. RunTypes'  BY DEF LoadInv, RunTypes, StoppedFromOutside, LoadTypeOK, HardStop, LoadRun
<1>4. LeasesOK'  BY DEF LoadInv, LeasesOK, StoppedFromOutside, EndStep, serviceVars
<1>5. KnownOK'
  BY DEF LoadInv, KnownOK, StoppedFromOutside, Excused, BeingArchived, EndStep, serviceVars, verdictVars
<1>6. QueueOK'  BY DEF LoadInv, QueueOK, StoppedFromOutside, AuditBarrier, HardStop, EndStep
<1>7. VerifyingOK'  BY DEF LoadInv, VerifyingOK, StoppedFromOutside, Verifying, ActiveOracle, EndStep
<1>8. MissingOK'
  BY DEF LoadInv, MissingOK, StoppedFromOutside, Verifying, ActiveOracle, EndStep, serviceVars,
      verdictVars
<1>9. EndOK'  BY DEF LoadInv, EndOK, StoppedFromOutside, HardStop
<1> QED BY <1>1, <1>2, <1>3, <1>4, <1>5, <1>6, <1>7, <1>8, <1>9 DEF LoadInv, LoadTypeOK

\* The load lasted its time, or was stopped.
LEMMA LoadStopsKeeps ==
  ASSUME LoadInv, LoadStops
  PROVE  LoadInv'
<1>1. StoreTypes'  BY DEF LoadInv, StoreTypes, LoadStops, LoadTypeOK, EndStep, serviceVars, verdictVars
<1>2. AuditTypes'  BY DEF LoadInv, AuditTypes, LoadStops, LoadTypeOK, EndStep, verdictVars
<1>3. RunTypes'  BY DEF LoadInv, RunTypes, LoadStops, LoadTypeOK, LoadRun
<1>4. LeasesOK'  BY DEF LoadInv, LeasesOK, LoadStops, EndStep, serviceVars
<1>5. KnownOK'
  BY DEF LoadInv, KnownOK, LoadStops, Excused, BeingArchived, EndStep, serviceVars, verdictVars
<1>6. QueueOK'  BY DEF LoadInv, QueueOK, LoadStops, AuditBarrier, EndStep
<1>7. VerifyingOK'  BY DEF LoadInv, VerifyingOK, LoadStops, Verifying, ActiveOracle, EndStep
<1>8. MissingOK'
  BY DEF LoadInv, MissingOK, LoadStops, Verifying, ActiveOracle, EndStep, serviceVars, verdictVars
<1>9. EndOK'  BY DEF LoadInv, EndOK, LoadStops, EndStep, verdictVars
<1> QED BY <1>1, <1>2, <1>3, <1>4, <1>5, <1>6, <1>7, <1>8, <1>9 DEF LoadInv, LoadTypeOK

\* What is still in flight when the load has drained stops the run.
LEMMA FinalDrainKeeps ==
  ASSUME LoadInv, FinalDrain
  PROVE  LoadInv'
<1>1. StoreTypes'  BY DEF LoadInv, StoreTypes, FinalDrain, LoadTypeOK, EndStep, serviceVars, verdictVars
<1>2. AuditTypes'  BY DEF LoadInv, AuditTypes, FinalDrain, LoadTypeOK, EndStep, verdictVars
<1>3. RunTypes'  BY DEF LoadInv, RunTypes, FinalDrain, LoadTypeOK, LoadRun
<1>4. LeasesOK'  BY DEF LoadInv, LeasesOK, FinalDrain, EndStep, serviceVars
<1>5. KnownOK'
  BY DEF LoadInv, KnownOK, FinalDrain, Excused, BeingArchived, EndStep, serviceVars, verdictVars
<1>6. QueueOK'  BY DEF LoadInv, QueueOK, FinalDrain, AuditBarrier, EndStep
<1>7. VerifyingOK'
  BY DEF LoadInv, VerifyingOK, FinalDrain, LoadTypeOK, EndStep, Verifying, ActiveOracle, RunTypes, LoadRun
<1>8. MissingOK'
  BY DEF LoadInv, MissingOK, FinalDrain, LoadTypeOK, EndStep, Verifying, ActiveOracle, RunTypes, LoadRun,
      serviceVars, verdictVars
<1>9. EndOK'  BY DEF LoadInv, EndOK, FinalDrain, LoadTypeOK, EndStep, RunTypes, LoadRun, verdictVars
<1> QED BY <1>1, <1>2, <1>3, <1>4, <1>5, <1>6, <1>7, <1>8, <1>9 DEF LoadInv, LoadTypeOK

\* The last audit is asked for once no other is under way.
LEMMA FinalAuditKeeps ==
  ASSUME LoadInv, FinalAudit
  PROVE  LoadInv'
<1>1. StoreTypes'  BY DEF LoadInv, StoreTypes, FinalAudit, LoadTypeOK, EndStep, serviceVars, verdictVars
<1>2. AuditTypes'
  BY LoadConstants DEF LoadInv, AuditTypes, FinalAudit, LoadTypeOK, EndStep, AuditRequest, Final, verdictVars
<1>3. RunTypes'  BY DEF LoadInv, RunTypes, FinalAudit, LoadTypeOK, LoadRun
<1>4. LeasesOK'  BY DEF LoadInv, LeasesOK, FinalAudit, EndStep, serviceVars
<1>5. KnownOK'
  BY DEF LoadInv, KnownOK, FinalAudit, Excused, BeingArchived, EndStep, serviceVars, verdictVars
<1>6. QueueOK'
  BY DEF LoadInv, QueueOK, FinalAudit, LoadTypeOK, EndStep, AuditBarrier, Final, AuditTypes, AuditRequest
<1>7. VerifyingOK'  BY DEF LoadInv, VerifyingOK, FinalAudit, Verifying, ActiveOracle, EndStep
<1>8. MissingOK'
  BY DEF LoadInv, MissingOK, FinalAudit, Verifying, ActiveOracle, EndStep, serviceVars, verdictVars
<1>9. EndOK'  BY DEF LoadInv, EndOK, FinalAudit, EndStep, verdictVars
<1> QED BY <1>1, <1>2, <1>3, <1>4, <1>5, <1>6, <1>7, <1>8, <1>9 DEF LoadInv, LoadTypeOK

\* A run passes if nothing stopped it, and then its last audit found everything.
LEMMA SummarizeKeeps ==
  ASSUME LoadInv, Summarize
  PROVE  LoadInv'
<1>1. StoreTypes'  BY DEF LoadInv, StoreTypes, Summarize, LoadTypeOK, EndStep, serviceVars, verdictVars
<1>2. AuditTypes'  BY DEF LoadInv, AuditTypes, Summarize, LoadTypeOK, EndStep, verdictVars
<1>3. RunTypes'  BY DEF LoadInv, RunTypes, Summarize, LoadTypeOK, LoadRun
<1>4. LeasesOK'  BY DEF LoadInv, LeasesOK, Summarize, EndStep, serviceVars
<1>5. KnownOK'
  BY DEF LoadInv, KnownOK, Summarize, Excused, BeingArchived, EndStep, serviceVars, verdictVars
<1>6. QueueOK'  BY DEF LoadInv, QueueOK, Summarize, AuditBarrier, EndStep
<1>7. VerifyingOK'  BY DEF LoadInv, VerifyingOK, Summarize, Verifying, ActiveOracle, EndStep
<1>8. MissingOK'
  BY DEF LoadInv, MissingOK, Summarize, Verifying, ActiveOracle, EndStep, serviceVars, verdictVars
<1>9. EndOK'  BY DEF LoadInv, EndOK, Summarize, ActiveOracle, EndStep, verdictVars
<1> QED BY <1>1, <1>2, <1>3, <1>4, <1>5, <1>6, <1>7, <1>8, <1>9 DEF LoadInv, LoadTypeOK

\* A run that has just begun has nothing to tell.
LEMMA LoadStarts ==
  ASSUME LoadInit
  PROVE  LoadInv
<1>1. soak \in LoadRun  BY DEF LoadInit, LoadRun
<1>2. faultFile \in [active: BOOLEAN, request: AuditRequest] /\ receipt \in [request: AuditRequest, ok: BOOLEAN]
      /\ lastAudit \in AuditRequest
  BY LoadConstants DEF LoadInit, AuditRequest
<1>3. StoreTypes  BY DEF LoadInit, StoreTypes
<1>4. AuditTypes  BY <1>2 DEF LoadInit, AuditTypes
<1>5. LeasesOK /\ KnownOK  BY DEF LoadInit, LeasesOK, KnownOK
<1>6. auditing.at = "none" /\ ~AuditBarrier  BY DEF LoadInit, NoAudit, AuditBarrier
<1>7. QueueOK
  <2>1. \A q \in AuditRequest : audits # <<q>>  BY Queues DEF LoadInit
  <2> QED BY <1>6, <2>1, LoadConstants DEF LoadInit, QueueOK
<1>8. VerifyingOK /\ MissingOK /\ EndOK
  BY <1>6 DEF LoadInit, VerifyingOK, Verifying, MissingOK, EndOK
<1> QED BY <1>1, <1>3, <1>4, <1>5, <1>7, <1>8 DEF LoadInv, LoadTypeOK, RunTypes

\* Every step of the run keeps its invariant.
LEMMA LoadMoves ==
  ASSUME LoadInv, [LoadNext]_loadVars
  PROVE  LoadInv'
<1>1. ASSUME NEW m \in Entry, ServiceLoses(m)  PROVE LoadInv'  BY <1>1, ServiceLosesKeeps
<1>2. ASSUME NEW m \in Entry, ArchivesLate(m)  PROVE LoadInv'  BY <1>2, ArchivesLateKeeps
<1>3. CASE WorkloadOperation  BY <1>3, WorkloadOperationKeeps
<1>4. CASE OperationStep
  BY <1>4, ServiceAnswersKeeps, RequestFailsKeeps, ConcludesKeeps DEF OperationStep
<1>5. CASE AuditStep
  BY <1>5, AuditBeginsKeeps, SnapshotKeeps, DrainTimesOutKeeps, AuditEndsKeeps, HeartbeatAuditsKeeps,
     VerifyAuditEntryKeeps DEF AuditStep
<1>6. CASE FaultBegins \/ FaultEnds \/ StoppedFromOutside
  BY <1>6, FaultBeginsKeeps, FaultEndsKeeps, StoppedFromOutsideKeeps
<1>7. CASE FinalStep  BY <1>7, LoadStopsKeeps, FinalDrainKeeps, FinalAuditKeeps, SummarizeKeeps DEF FinalStep
<1>8. CASE UNCHANGED loadVars
  <2>1. UNCHANGED <<held, oracle, flying, stray, blamed, unanswered, lostBefore, missing>>
    BY <1>8 DEF loadVars, serviceVars, verdictVars
  <2>2. UNCHANGED <<audits, auditing, pulse, faultFile, lastAudit, receipt, soak>>
    BY <1>8 DEF loadVars, auditVars
  <2>3. LoadTypeOK'  BY <2>1, <2>2 DEF LoadInv, LoadTypeOK, StoreTypes, AuditTypes, RunTypes
  <2>4. LeasesOK' /\ KnownOK'
    BY <2>1 DEF LoadInv, LeasesOK, KnownOK, Excused, BeingArchived
  <2>5. QueueOK' /\ VerifyingOK' /\ MissingOK' /\ EndOK'
    BY <2>1, <2>2 DEF LoadInv, QueueOK, AuditBarrier, VerifyingOK, MissingOK, EndOK, Verifying, ActiveOracle
  <2> QED BY <2>3, <2>4, <2>5 DEF LoadInv
<1> QED BY <1>1, <1>2, <1>3, <1>4, <1>5, <1>6, <1>7, <1>8 DEF LoadNext

\* LoadTellsTruth, for any number of entries, of operations at a time and of faults: what the
\* endurance run calls lost was lost, or archived by a call that got no answer; an audit runs
\* alone and overlooks nothing; and a run that is not FAILED lasted its time and lost nothing.
THEOREM LoadIsJudged == LoadSpec => []LoadTellsTruth
<1>1. LoadInit => LoadInv  BY LoadStarts
<1>2. LoadInv /\ [LoadNext]_loadVars => LoadInv'  BY LoadMoves
<1>3. LoadInv => LoadTellsTruth
  <2> SUFFICES ASSUME LoadInv  PROVE LoadTellsTruth  OBVIOUS
  <2>1. \A m \in blamed : held[m] = "lost" \/ m \in unanswered  BY DEF LoadInv, KnownOK, Excused
  <2>2. auditing.at = "verifying" => flying = {}  BY DEF LoadInv, VerifyingOK, Verifying
  <2>3. receipt.ok => \A m \in missing[receipt.request] : oracle[m] # "active"
    <3> SUFFICES ASSUME receipt.ok, NEW m \in missing[receipt.request], oracle[m] = "active"  PROVE FALSE
      OBVIOUS
    <3>1. receipt.request \in 1 .. MaxFaults
      BY LoadConstants DEF LoadInv, LoadTypeOK, AuditTypes, MissingOK, AuditRequest
    <3>2. m \in Entry  BY <3>1 DEF LoadInv, LoadTypeOK, AuditTypes
    <3> QED BY <3>2 DEF LoadInv, MissingOK, ActiveOracle
  <2>4. soak.verdict \in {"PASSED", "ADVISORY"} =>
          soak.full /\ blamed = {} /\ flying = {} /\ ActiveOracle \cap lostBefore = {}
    BY DEF LoadInv, EndOK
  <2> QED BY <2>1, <2>2, <2>3, <2>4 DEF LoadTellsTruth
<1> QED BY <1>1, <1>2, <1>3, PTL DEF LoadSpec

(***************************************************************************)
(* The campaign.  What it expects of a container is what runs, but for     *)
(* restarts nobody planned and readings that are excused, until the last   *)
(* check has read it; a container that restarted by itself is ahead of     *)
(* what is expected until the check finds it; and every fault that ended   *)
(* well brought the expectation forward.                                   *)
(***************************************************************************)
Underway == {"reading", "opening", "acting", "recovering", "closing", "failing"}
CampaignTask ==
  [at: Underway \cup {"probing", "auditing"}, index: DOMAIN Schedule, before: Nat]
Phases ==
  {"starting", "loading", "baselines", "scheduling", "watching", "settling", "checking", "judging",
   "summarized", "complete", "aborted"}
Controller ==
  [phase: Phases, ending: BOOLEAN, stopped: BOOLEAN, signalled: BOOLEAN,
   result: {"none", "PASSED", "FAILED"}, told: BOOLEAN]

WorldTypes ==
  /\ generation \in [Service -> Nat \ {0}] /\ restarts \in Nat
  /\ load \in {"none", "running", "passed", "failed"}
ControlTypes ==
  campaign \in Controller /\ armed \in BOOLEAN /\ due \in Nat \ {0} /\ chain \in Seq(DOMAIN Schedule)
TaskTypes ==
  /\ task \in {NoTask} \cup CampaignTask
  /\ planned \in Service \cup {NoFault} /\ faultOpen \in BOOLEAN
  /\ outcome \in [0 .. Len(Schedule) -> {"none", "passed", "failed"}]
WatchTypes ==
  /\ expected \in [Service -> Nat]
  /\ monitor \in {NoRound} \cup [at: DOMAIN Services, seen: Nat \cup {Unread}]
  /\ violations \subseteq Service
  /\ baseline \in [Service -> Nat] /\ unplanned \subseteq Service /\ excused \subseteq Service
CampaignTypeOK == WorldTypes /\ ControlTypes /\ TaskTypes /\ WatchTypes

\* What the phases leave to do.
Closing == {"settling", "checking", "judging", "summarized", "complete", "aborted"}
LastPhases == Closing \ {"settling"}
PhasesOK ==
  /\ campaign.phase \in {"starting", "loading", "baselines"} => ~Captured
  /\ campaign.phase = "scheduling" => Captured
  /\ campaign.phase \in Closing => ~armed /\ campaign.ending
  /\ campaign.phase \in LastPhases => task = NoTask /\ chain = <<>>
  /\ campaign.phase \in LastPhases \ {"checking"} => monitor = NoRound
  /\ campaign.stopped => campaign.ending
  /\ campaign.signalled => campaign.stopped
  /\ campaign.result = "none" <=> campaign.phase \notin {"summarized", "complete", "aborted"}

\* Before the baselines nothing is under way; from then on a generation of every container is expected.
BaselinesOK ==
  /\ ~Captured => /\ ~armed /\ task = NoTask /\ chain = <<>> /\ planned = NoFault /\ monitor = NoRound
                  /\ unplanned = {} /\ violations = {} /\ excused = {} /\ ~faultOpen
                  /\ \A i \in DOMAIN Schedule : outcome[i] = "none"
  /\ Captured => \A s \in Service : expected[s] # Unknown

TaskOK ==
  /\ task.at \in Underway => planned \in Service /\ Schedule[task.index] = planned
  /\ task.at = "probing" => Schedule[task.index] = Probe
  /\ task.at = "auditing" => Schedule[task.index] \in Service
  /\ task.at \in {"opening", "acting", "recovering"} => task.before = expected[planned]
  /\ planned # NoFault => task.at \in Underway \/ (campaign.stopped /\ planned \in excused)
  /\ faultOpen => task.at \in {"acting", "recovering", "closing", "failing"} \/ campaign.stopped

Blameless(s) == s \notin unplanned \cup excused
Disturbs(s) == planned = s /\ task.at \in {"opening", "acting", "recovering", "failing"}

\* What is expected of a container, and what the monitor has seen of it.
ExpectedOK ==
  \A s \in Service :
    /\ expected[s] <= generation[s]
    /\ Captured /\ Blameless(s) /\ ~Disturbs(s) /\ ~LastRead(s) => expected[s] = generation[s]
SeenOK ==
  monitor.at # 0 /\ monitor.seen \notin {Unread, Unknown} =>
    \/ ~Blameless(Services[monitor.at])
    \/ planned = Services[monitor.at] /\ task.at \in Underway \ {"reading"}
    \/ monitor.seen = expected[Services[monitor.at]]

\* A container that restarted by itself, and the last check that finds it.
StillToFind(s) ==
  monitor # NoRound /\ \E i \in DOMAIN Services :
    /\ Services[i] = s /\ i >= monitor.at
    /\ i = monitor.at => monitor.seen = Unread \/ monitor.seen # expected[s]
UnplannedOK ==
  \A s \in unplanned :
    /\ expected[s] < generation[s] /\ ~InFaultOf(s)
    /\ ~campaign.stopped => campaign.phase \in {"scheduling", "watching", "settling", "checking"}
    /\ campaign.phase = "checking" /\ ~campaign.stopped => StillToFind(s)

\* The faults of a container that ended well, and the one whose audit is awaited.
Passed(results, s) == {i \in Faults(s) : results[i] = "passed"}
AwaitsAudit(s) == task.at \in {"closing", "auditing"} /\ Schedule[task.index] = s
Forward(s) ==
  expected[s] >= baseline[s] + Cardinality(Passed(outcome, s)) + (IF AwaitsAudit(s) THEN 1 ELSE 0)
FaultsOK == \A s \in Service : Forward(s)

VerdictOK ==
  /\ violations \subseteq unplanned \cup excused
  /\ campaign.result = "PASSED" =>
       /\ unplanned = {} /\ load = "passed" /\ ~faultOpen /\ ~campaign.told
       /\ \A i \in 0 .. Len(Schedule) : outcome[i] = "passed"
  /\ campaign.phase = "complete" /\ campaign.result = "PASSED" => ~campaign.signalled

CampaignInv ==
  /\ CampaignTypeOK /\ PhasesOK /\ BaselinesOK /\ TaskOK
  /\ ExpectedOK /\ SeenOK /\ UnplannedOK /\ FaultsOK /\ VerdictOK

\* There are services, each at its place.
LEMMA ServiceFacts ==
  /\ Service # {} /\ NoFault \notin Service /\ Probe \notin Service
  /\ \A i \in DOMAIN Services : Services[i] \in Service
  /\ DOMAIN Services = 1 .. Len(Services) /\ Len(Services) \in Nat \ {0}
BY CampaignConstants DEF Service

\* Stopping sets two fields and no other.
LEMMA StoppedFields ==
  ASSUME NEW c \in Controller
  PROVE  /\ Stopped(c) \in Controller
         /\ Stopped(c).phase = c.phase /\ Stopped(c).ending /\ Stopped(c).stopped
         /\ Stopped(c).signalled = c.signalled /\ Stopped(c).result = c.result /\ Stopped(c).told = c.told
BY DEF Controller, Stopped

\* A fault is added to those that passed when its outcome is that, and only then.
LEMMA PassedFacts ==
  ASSUME NEW o \in [0 .. Len(Schedule) -> {"none", "passed", "failed"}], NEW s \in Service
  PROVE  /\ IsFiniteSet(Passed(o, s)) /\ Cardinality(Passed(o, s)) \in Nat
         /\ \A i \in 0 .. Len(Schedule), r \in {"none", "passed", "failed"} :
              Cardinality(Passed([o EXCEPT ![i] = r], s))
                <= Cardinality(Passed(o, s)) + (IF r = "passed" /\ i \in Faults(s) THEN 1 ELSE 0)
<1>1. IsFiniteSet(Faults(s))
  <2>1. IsFiniteSet(1 .. Len(Schedule))  BY FS_Interval, CampaignConstants
  <2> QED BY <2>1, FS_Subset DEF Faults
<1>2. \A p \in [0 .. Len(Schedule) -> {"none", "passed", "failed"}] :
        IsFiniteSet(Passed(p, s)) /\ Cardinality(Passed(p, s)) \in Nat
  BY <1>1, FS_Subset, FS_CardinalityType DEF Passed
<1>3. ASSUME NEW i \in 0 .. Len(Schedule), NEW r \in {"none", "passed", "failed"}
      PROVE  Cardinality(Passed([o EXCEPT ![i] = r], s))
               <= Cardinality(Passed(o, s)) + (IF r = "passed" /\ i \in Faults(s) THEN 1 ELSE 0)
  <2> DEFINE p == [o EXCEPT ![i] = r]
  <2>0. p \in [0 .. Len(Schedule) -> {"none", "passed", "failed"}] /\ p[i] = r
        /\ \A j \in 0 .. Len(Schedule) : j # i => p[j] = o[j]
    OBVIOUS
  <2> HIDE DEF p
  <2>c. Cardinality(Passed(p, s)) \in Nat /\ Cardinality(Passed(o, s)) \in Nat  BY <1>2, <2>0
  <2>1. CASE r = "passed" /\ i \in Faults(s)
    <3>1. Passed(p, s) = Passed(o, s) \cup {i}  BY <2>0, <2>1, CampaignConstants DEF Passed, Faults
    <3>2. Cardinality(Passed(p, s)) = Cardinality(Passed(o, s))
          \/ Cardinality(Passed(p, s)) = Cardinality(Passed(o, s)) + 1
      BY <1>2, <3>1, FS_AddElement
    <3>3. Cardinality(Passed(p, s)) <= Cardinality(Passed(o, s)) + 1  BY <2>c, <3>2
    <3> QED BY <2>1, <3>3 DEF p
  <2>2. CASE ~(r = "passed" /\ i \in Faults(s))
    <3>1. Passed(p, s) \subseteq Passed(o, s)  BY <2>0, <2>2, CampaignConstants DEF Passed, Faults
    <3>2. Cardinality(Passed(p, s)) <= Cardinality(Passed(o, s)) + 0  BY <2>c, <3>1, <1>2, FS_Subset
    <3> QED BY <2>2, <3>2 DEF p
  <2> QED BY <2>1, <2>2
<1> QED BY <1>2, <1>3

\* What is expected stays ahead of the faults that passed while neither they nor it change.
LEMMA ForwardStays ==
  ASSUME CampaignInv, UNCHANGED <<expected, baseline, outcome>>,
         \A s \in Service : AwaitsAudit(s)' => AwaitsAudit(s)
  PROVE  FaultsOK'
<1> SUFFICES ASSUME NEW s \in Service  PROVE Forward(s)'  BY DEF FaultsOK
<1>1. expected[s] \in Nat /\ baseline[s] \in Nat /\ Cardinality(Passed(outcome, s)) \in Nat
  BY PassedFacts DEF CampaignInv, CampaignTypeOK, TaskTypes, WatchTypes
<1>2. Passed(outcome, s)' = Passed(outcome, s)  BY DEF Passed
<1> QED BY <1>1, <1>2 DEF CampaignInv, FaultsOK, Forward

\* A step that may end the campaign leaves its phase and its verdict alone.
LEMMA HardStops ==
  ASSUME ControlTypes, HardStopController \/ UNCHANGED <<campaign, armed>>
  PROVE  /\ campaign' \in Controller /\ armed' \in BOOLEAN
         /\ campaign'.phase = campaign.phase /\ campaign'.signalled = campaign.signalled
         /\ campaign'.result = campaign.result /\ campaign'.told = campaign.told
         /\ campaign' = campaign \/ (campaign'.stopped /\ campaign'.ending)
         /\ campaign.stopped => campaign'.stopped
         /\ armed' => armed
         /\ HardStopController => campaign'.stopped /\ campaign'.ending /\ ~armed'
<1>1. CASE HardStopController
  <2>1. campaign' = Stopped(campaign) /\ ~armed' /\ armed' \in BOOLEAN  BY <1>1 DEF HardStopController
  <2> QED BY <1>1, <2>1, StoppedFields DEF ControlTypes
<1>2. CASE UNCHANGED <<campaign, armed>>
  BY <1>2 DEF ControlTypes, HardStopController, Stopped, Controller
<1> QED BY <1>1, <1>2

\* The reading of a container stays its last one while the phase and the round stay.
LEMMA LastReadKept ==
  ASSUME UNCHANGED monitor, campaign'.phase = campaign.phase
  PROVE  \A s \in Service : LastRead(s)' <=> LastRead(s)
BY DEF LastRead, Phase

\* Expectations stay those of what runs while neither changes.
LEMMA ExpectedStays ==
  ASSUME CampaignInv, UNCHANGED <<generation, expected, unplanned>>, excused \subseteq excused',
         \A s \in Service : Disturbs(s) => Disturbs(s)' \/ s \in excused',
         \A s \in Service : LastRead(s) => LastRead(s)'
  PROVE  ExpectedOK'
BY DEF CampaignInv, ExpectedOK, Blameless, Captured

\* What is to be found stays so while neither the containers nor the round change.
LEMMA UnplannedStays ==
  ASSUME CampaignInv, UNCHANGED <<generation, expected, unplanned, monitor>>,
         campaign.stopped => campaign'.stopped, campaign'.phase = campaign.phase,
         \A s \in Service : InFaultOf(s)' => InFaultOf(s)
  PROVE  UnplannedOK'
BY DEF CampaignInv, UnplannedOK, StillToFind, CampaignTypeOK, WatchTypes

\* One task ends: it passed if it awaited its audit and no other does now.
LEMMA ForwardMoves ==
  ASSUME CampaignInv, UNCHANGED <<expected, baseline>>,
         NEW i \in 0 .. Len(Schedule), NEW r \in {"none", "passed", "failed"},
         outcome' = [outcome EXCEPT ![i] = r], \A s \in Service : ~AwaitsAudit(s)',
         \A s \in Service : r = "passed" /\ i \in Faults(s) => AwaitsAudit(s)
  PROVE  FaultsOK'
<1> SUFFICES ASSUME NEW s \in Service  PROVE Forward(s)'  BY DEF FaultsOK
<1>1. expected[s] \in Nat /\ baseline[s] \in Nat /\ outcome \in [0 .. Len(Schedule) -> {"none", "passed", "failed"}]
  BY DEF CampaignInv, CampaignTypeOK, TaskTypes, WatchTypes
<1>2. outcome' \in [0 .. Len(Schedule) -> {"none", "passed", "failed"}]  BY <1>1
<1>3. Passed(outcome, s)' = Passed(outcome', s)  BY DEF Passed
<1> DEFINE before == Cardinality(Passed(outcome, s))
           after == Cardinality(Passed(outcome', s))
<1>4. before \in Nat /\ after \in Nat  BY <1>1, <1>2, PassedFacts
<1>5. after <= before + (IF r = "passed" /\ i \in Faults(s) THEN 1 ELSE 0)  BY <1>1, PassedFacts
<1>6. expected[s] >= baseline[s] + before + (IF AwaitsAudit(s) THEN 1 ELSE 0)
  BY DEF CampaignInv, FaultsOK, Forward
<1>7. expected'[s] = expected[s] /\ baseline'[s] = baseline[s] /\ ~AwaitsAudit(s)'
      /\ (r = "passed" /\ i \in Faults(s) => AwaitsAudit(s))
  OBVIOUS
<1> HIDE DEF before, after
<1>8. expected'[s] >= baseline'[s] + after + 0  BY <1>1, <1>4, <1>5, <1>6, <1>7
<1> QED BY <1>8, <1>3, <1>7 DEF Forward, after

Halts(p) == campaign' = [Stopped(campaign) EXCEPT !.phase = p]

\* A step to another phase leaves the rest of the controller alone; one that halts also stops it.
LEMMA PhaseMoves ==
  ASSUME ControlTypes, NEW p \in Phases, To(p) \/ Halts(p)
  PROVE  /\ campaign' \in Controller /\ campaign'.phase = p
         /\ campaign'.signalled = campaign.signalled /\ campaign'.result = campaign.result
         /\ campaign'.told = campaign.told
         /\ To(p) => campaign'.ending = campaign.ending /\ campaign'.stopped = campaign.stopped
         /\ Halts(p) => campaign'.ending /\ campaign'.stopped
<1>1. To(p) => /\ campaign' \in Controller /\ campaign'.phase = p
               /\ campaign'.ending = campaign.ending /\ campaign'.stopped = campaign.stopped
               /\ campaign'.signalled = campaign.signalled /\ campaign'.result = campaign.result
               /\ campaign'.told = campaign.told
  BY DEF To, ControlTypes, Controller
<1>2. Halts(p) => /\ campaign' \in Controller /\ campaign'.phase = p /\ campaign'.ending /\ campaign'.stopped
                  /\ campaign'.signalled = campaign.signalled /\ campaign'.result = campaign.result
                  /\ campaign'.told = campaign.told
  BY StoppedFields DEF Halts, ControlTypes, Controller
<1> QED BY <1>1, <1>2

\* A container that restarts by itself is remembered, and the last check has yet to read it.
LEMMA RestartsKeeps ==
  ASSUME NEW s \in Service, CampaignInv, Restarts(s)
  PROVE  CampaignInv'
<1>g. /\ generation \in [Service -> Nat \ {0}] /\ expected \in [Service -> Nat]
      /\ unplanned \subseteq Service /\ excused \subseteq Service
  BY DEF CampaignInv, CampaignTypeOK, WorldTypes, WatchTypes
<1>n. /\ generation' \in [Service -> Nat \ {0}] /\ generation'[s] > generation[s]
      /\ \A t \in Service : generation'[t] >= generation[t] /\ (t # s => generation'[t] = generation[t])
  BY <1>g DEF Restarts
<1>l. \A t \in Service : /\ (LastRead(t)' <=> LastRead(t)) /\ (Disturbs(t)' <=> Disturbs(t))
                        /\ (InFaultOf(t)' <=> InFaultOf(t)) /\ (StillToFind(t)' <=> StillToFind(t))
  BY LastReadKept DEF Restarts, Disturbs, InFaultOf, StillToFind, faultVars, watchVars
<1>u. unplanned' = IF Captured /\ ~InFaultOf(s) /\ ~LastRead(s) THEN unplanned \cup {s} ELSE unplanned
  BY DEF Restarts
<1>1. WorldTypes' /\ ControlTypes' /\ TaskTypes' /\ WatchTypes'
  BY DEF CampaignInv, WorldTypes, ControlTypes, TaskTypes, WatchTypes, Restarts, CampaignTypeOK,
      faultVars, watchVars
<1>2. PhasesOK' /\ BaselinesOK' /\ TaskOK' /\ SeenOK'
  BY DEF CampaignInv, PhasesOK, BaselinesOK, TaskOK, SeenOK, Restarts, Captured, Blameless, faultVars,
      watchVars
<1>3. ExpectedOK'
  <2> SUFFICES ASSUME NEW t \in Service
               PROVE  /\ expected'[t] <= generation'[t]
                      /\ (Captured /\ Blameless(t) /\ ~Disturbs(t) /\ ~LastRead(t))' => expected'[t] = generation'[t]
    BY DEF ExpectedOK
  <2>1. expected' = expected /\ excused' = excused /\ (Captured' <=> Captured)
    BY DEF Restarts, Captured, faultVars, watchVars
  <2>2. expected[t] <= generation'[t]  BY <1>g, <1>n DEF CampaignInv, ExpectedOK
  <2>3. InFaultOf(t) => Disturbs(t)  BY DEF InFaultOf, Disturbs
  <2>4. CASE t = s  BY <2>1, <2>2, <2>3, <2>4, <1>l, <1>u DEF Blameless
  <2>5. CASE t # s
    BY <2>1, <2>2, <2>5, <1>l, <1>u, <1>n DEF Blameless, CampaignInv, ExpectedOK
  <2> QED BY <2>4, <2>5
<1>4. UnplannedOK'
  <2> SUFFICES ASSUME NEW t \in unplanned'
               PROVE  /\ expected[t] < generation'[t] /\ ~InFaultOf(t)
                      /\ ~campaign.stopped => campaign.phase \in {"scheduling", "watching", "settling", "checking"}
                      /\ campaign.phase = "checking" /\ ~campaign.stopped => StillToFind(t)
    BY <1>l, <1>u, <1>g DEF UnplannedOK, Restarts, faultVars, watchVars
  <2>1. CASE t \in unplanned
    <3>1. expected[t] < generation[t]  BY <2>1 DEF CampaignInv, UnplannedOK
    <3> QED BY <1>g, <1>n, <2>1, <3>1 DEF CampaignInv, UnplannedOK
  <2>2. CASE t \notin unplanned
    <3>1. t = s /\ Captured /\ ~InFaultOf(s) /\ ~LastRead(s)  BY <1>u, <2>2
    <3>2. expected[s] < generation'[s]  BY <1>g, <1>n DEF CampaignInv, ExpectedOK
    <3>3. campaign.phase \in {"scheduling", "watching", "settling", "checking"}
      BY <3>1 DEF LastRead, Phase, CampaignInv, PhasesOK, CampaignTypeOK, ControlTypes, Controller, Phases
    <3>4. campaign.phase = "checking" => StillToFind(s)
      <4> SUFFICES ASSUME campaign.phase = "checking"  PROVE StillToFind(s)  OBVIOUS
      <4>1. monitor # NoRound /\ ~\E i \in 1 .. monitor.at : Services[i] = s /\ (i = monitor.at => monitor.seen # Unread)
        BY <3>1 DEF LastRead, Phase
      <4>2. monitor.at \in DOMAIN Services
        BY <4>1 DEF CampaignInv, CampaignTypeOK, WatchTypes
      <4>3. PICK i \in DOMAIN Services : Services[i] = s  BY ServiceFacts DEF Service
      <4>4. i >= monitor.at /\ (i = monitor.at => monitor.seen = Unread)
        BY <4>1, <4>2, <4>3, ServiceFacts
      <4> QED BY <4>1, <4>3, <4>4 DEF StillToFind
    <3> QED BY <3>1, <3>2, <3>3, <3>4
  <2> QED BY <2>1, <2>2
<1>5. FaultsOK'  BY ForwardStays DEF FaultsOK, Restarts, AwaitsAudit, faultVars, watchVars
<1>6. VerdictOK'  BY DEF CampaignInv, VerdictOK, Restarts, LastRead, PhasesOK, faultVars, watchVars
<1> QED BY <1>1, <1>2, <1>3, <1>4, <1>5, <1>6 DEF CampaignInv, CampaignTypeOK

\* The load's end changes nothing but the load.
LEMMA LoadExitsKeeps ==
  ASSUME CampaignInv, LoadExits
  PROVE  CampaignInv'
<1>1. WorldTypes' /\ ControlTypes' /\ TaskTypes' /\ WatchTypes'
  BY DEF CampaignInv, WorldTypes, ControlTypes, TaskTypes, WatchTypes, LoadExits, CampaignTypeOK,
      faultVars, watchVars, historyVars
<1>2. PhasesOK' /\ BaselinesOK' /\ TaskOK' /\ SeenOK' /\ UnplannedOK' /\ VerdictOK'
  BY DEF CampaignInv, PhasesOK, BaselinesOK, TaskOK, SeenOK, UnplannedOK, VerdictOK, LoadExits,
      Captured, Blameless, StillToFind, InFaultOf, faultVars, watchVars, historyVars
<1>3. ExpectedOK'
  BY ExpectedStays, LastReadKept DEF LoadExits, Disturbs, faultVars, watchVars, historyVars
<1>4. FaultsOK'  BY ForwardStays DEF FaultsOK, LoadExits, AwaitsAudit, faultVars, watchVars, historyVars
<1> QED BY <1>1, <1>2, <1>3, <1>4 DEF CampaignInv, CampaignTypeOK

\* A signal stops the campaign, whatever its phase.
LEMMA SignalsKeeps ==
  ASSUME CampaignInv, Signals
  PROVE  CampaignInv'
<1>c. campaign \in Controller  BY DEF CampaignInv, CampaignTypeOK, ControlTypes
<1>h. /\ campaign' \in Controller
      /\ campaign'.phase = campaign.phase /\ campaign'.ending /\ campaign'.stopped /\ campaign'.signalled
      /\ campaign'.result = campaign.result /\ campaign'.told = campaign.told
  <2>1. campaign' = [Stopped(campaign) EXCEPT !.signalled = TRUE]  BY DEF Signals
  <2> QED BY <1>c, <2>1, StoppedFields DEF Controller
<1>1. WorldTypes' /\ TaskTypes' /\ WatchTypes'
  BY DEF CampaignInv, WorldTypes, TaskTypes, WatchTypes, Signals, CampaignTypeOK, faultVars, watchVars,
      historyVars
<1>2. BaselinesOK' /\ SeenOK'
  BY DEF CampaignInv, BaselinesOK, SeenOK, Signals, Captured, Blameless, faultVars, watchVars,
      historyVars
<1>3. ControlTypes'
  BY <1>h DEF Signals, ControlTypes, CampaignInv, CampaignTypeOK, faultVars, watchVars, historyVars
<1>4. PhasesOK'
  BY StoppedFields DEF CampaignInv, PhasesOK, Signals, CampaignTypeOK, Captured, ControlTypes,
      faultVars, watchVars
<1>5. TaskOK'
  BY StoppedFields DEF CampaignInv, TaskOK, Signals, CampaignTypeOK, ControlTypes, faultVars, watchVars,
      historyVars
<1>6. ExpectedOK'
  BY <1>h, ExpectedStays, LastReadKept DEF Signals, Disturbs, faultVars, watchVars, historyVars
<1>7. UnplannedOK'
  BY StoppedFields DEF CampaignInv, UnplannedOK, Signals, CampaignTypeOK, InFaultOf, ControlTypes,
      faultVars, watchVars, historyVars
<1>8. FaultsOK'  BY ForwardStays DEF FaultsOK, Signals, AwaitsAudit, faultVars, watchVars, historyVars
<1>9. VerdictOK' BY <1>h DEF Signals, VerdictOK, CampaignInv, faultVars, watchVars, historyVars
<1> QED BY <1>1, <1>2, <1>3, <1>4, <1>5, <1>6, <1>7, <1>8, <1>9 DEF CampaignInv, CampaignTypeOK

\* A timer queues one task of the schedule.
LEMMA TimerFiresKeeps ==
  ASSUME CampaignInv, TimerFires
  PROVE  CampaignInv'
<1>1. WorldTypes' /\ TaskTypes' /\ WatchTypes'
  BY DEF CampaignInv, WorldTypes, TaskTypes, WatchTypes, TimerFires, CampaignTypeOK, watchVars,
      historyVars
<1>2. BaselinesOK' /\ TaskOK' /\ ExpectedOK' /\ SeenOK' /\ UnplannedOK' /\ VerdictOK'
  BY DEF CampaignInv, BaselinesOK, TaskOK, ExpectedOK, SeenOK, UnplannedOK, VerdictOK, TimerFires,
      Captured, Blameless, Disturbs, LastRead, Phase, StillToFind, InFaultOf, watchVars, historyVars
<1>3. ControlTypes'  BY CampaignConstants DEF CampaignInv, ControlTypes, TimerFires, CampaignTypeOK
<1>4. PhasesOK'  BY DEF CampaignInv, PhasesOK, TimerFires, LastPhases, Captured, watchVars
<1>5. FaultsOK'  BY ForwardStays DEF FaultsOK, TimerFires, AwaitsAudit, watchVars, historyVars
<1> QED BY <1>1, <1>2, <1>3, <1>4, <1>5 DEF CampaignInv, CampaignTypeOK

\* The next task begins only while the campaign is not ending.
LEMMA QueueMaintenanceKeeps ==
  ASSUME CampaignInv, QueueMaintenance
  PROVE  CampaignInv'
<1>1. WorldTypes' /\ ControlTypes' /\ WatchTypes'
  BY DEF CampaignInv, WorldTypes, ControlTypes, WatchTypes, QueueMaintenance, CampaignTypeOK, watchVars,
      historyVars
<1>2. PhasesOK' /\ BaselinesOK' /\ UnplannedOK' /\ VerdictOK'
  BY DEF CampaignInv, PhasesOK, BaselinesOK, UnplannedOK, VerdictOK, QueueMaintenance, Captured,
      StillToFind, InFaultOf, watchVars, historyVars
<1>3. TaskTypes'
  <2>1. CASE campaign.ending
    BY <2>1 DEF QueueMaintenance, TaskTypes, CampaignInv, CampaignTypeOK, watchVars, historyVars
  <2>2. CASE ~campaign.ending
    <3>1. Head(chain) \in DOMAIN Schedule
      BY DEF QueueMaintenance, CampaignInv, CampaignTypeOK, ControlTypes
    <3>2. Schedule[Head(chain)] \in Service \cup {Probe}  BY <3>1, CampaignConstants
    <3>3. task' \in CampaignTask  BY <2>2, <3>1 DEF QueueMaintenance, CampaignTask, Underway, Unknown
    <3> QED BY <2>2, <3>2, <3>3 DEF QueueMaintenance, TaskTypes, CampaignInv, CampaignTypeOK, watchVars,
          historyVars
  <2> QED BY <2>1, <2>2
<1>4. TaskOK'
  BY CampaignConstants DEF CampaignInv, TaskOK, QueueMaintenance, CampaignTypeOK, NoTask, Underway,
      ControlTypes, historyVars
<1>5. ExpectedOK'
  BY DEF CampaignInv, ExpectedOK, QueueMaintenance, Captured, Blameless, Disturbs, LastRead, Phase,
      NoTask, watchVars, historyVars
<1>6. SeenOK'
  BY DEF CampaignInv, SeenOK, QueueMaintenance, NoTask, Blameless, Underway, watchVars, historyVars
<1>7. FaultsOK'  BY ForwardStays DEF FaultsOK, QueueMaintenance, AwaitsAudit, watchVars, historyVars
<1> QED BY <1>1, <1>2, <1>3, <1>4, <1>5, <1>6, <1>7 DEF CampaignInv, CampaignTypeOK

\* Probes are no container's fault.
LEMMA RunProbesKeeps ==
  ASSUME CampaignInv, RunProbes
  PROVE  CampaignInv'
<1>t. task \in CampaignTask /\ task.index \in 0 .. Len(Schedule) /\ Schedule[task.index] = Probe
  BY CampaignConstants DEF RunProbes, CampaignInv, CampaignTypeOK, TaskTypes, TaskOK, CampaignTask, NoTask
<1>1. WorldTypes' /\ ControlTypes' /\ WatchTypes'
  BY DEF CampaignInv, WorldTypes, ControlTypes, WatchTypes, RunProbes, CampaignTypeOK, watchVars,
      historyVars
<1>2. TaskTypes'  BY DEF CampaignInv, TaskTypes, RunProbes, CampaignTypeOK, TaskEnds
<1>3. PhasesOK'  BY DEF CampaignInv, PhasesOK, RunProbes, Captured, TaskEnds, watchVars
<1>4. BaselinesOK'  BY DEF CampaignInv, BaselinesOK, RunProbes, Captured, NoTask, watchVars
<1>5. TaskOK'  BY DEF CampaignInv, TaskOK, RunProbes, TaskEnds, Underway, NoTask, historyVars
<1>6. ExpectedOK'
  BY ExpectedStays, LastReadKept DEF RunProbes, TaskEnds, Disturbs, NoTask, watchVars, historyVars
<1>7. SeenOK'  BY DEF CampaignInv, SeenOK, RunProbes, Blameless, Underway, watchVars, historyVars
<1>8. UnplannedOK'
  BY DEF CampaignInv, UnplannedOK, RunProbes, TaskEnds, StillToFind, InFaultOf, NoTask, watchVars,
      historyVars
<1>9. FaultsOK'
  <2>1. PICK r \in {"passed", "failed"} : TaskEnds(task.index, r)  BY DEF RunProbes
  <2>2. \A s \in Service : task.index \notin Faults(s) /\ ~AwaitsAudit(s)'
    BY <1>t, <2>1, ServiceFacts DEF Faults, TaskEnds, AwaitsAudit, NoTask
  <2> QED BY <1>t, <2>1, <2>2, ForwardMoves DEF RunProbes, TaskEnds, watchVars, historyVars
<1>10. VerdictOK'
  BY DEF CampaignInv, VerdictOK, RunProbes, PhasesOK, LastPhases, Closing, NoTask, watchVars,
      historyVars
<1> QED BY <1>1, <1>2, <1>3, <1>4, <1>5, <1>6, <1>7, <1>8, <1>9, <1>10 DEF CampaignInv, CampaignTypeOK

\* A fault begins only on a container that runs what is expected; else it is blamed with reason.
LEMMA ReadBeforeKeeps ==
  ASSUME CampaignInv, ReadBefore
  PROVE  CampaignInv'
<1>t. task \in CampaignTask /\ task.at = "reading" /\ planned \in Service /\ Schedule[task.index] = planned
      /\ task.index \in 0 .. Len(Schedule) /\ (faultOpen => campaign.stopped)
  BY CampaignConstants
  DEF ReadBefore, CampaignInv, CampaignTypeOK, TaskTypes, TaskOK, CampaignTask, Underway, NoTask
<1>c. ControlTypes  BY DEF CampaignInv, CampaignTypeOK
<1>h. HardStopController \/ UNCHANGED <<campaign, armed>>  BY DEF ReadBefore
<1>e. Captured /\ expected[planned] # Unknown /\ ~LastRead(planned) /\ ~Disturbs(planned)
  BY <1>t DEF CampaignInv, BaselinesOK, PhasesOK, LastPhases, Closing, LastRead, Phase, Disturbs, NoTask
<1>r. \/ /\ expected[planned] = generation[planned] /\ task' = [task EXCEPT !.at = "opening", !.before = expected[planned]]
         /\ UNCHANGED <<campaign, armed, planned, outcome, violations, excused>>
      \/ /\ TaskEnds(task.index, "failed") /\ violations' = violations \cup {planned}
         /\ excused' = excused \/ excused' = excused \cup {planned}
         /\ planned \in unplanned \cup excused'
         /\ planned' = NoFault /\ HardStopController
  <2>1. PICK before \in ServiceGeneration(planned) :
       IF SameGeneration(planned, before)
       THEN /\ task' = [task EXCEPT !.at = "opening", !.before = before]
            /\ UNCHANGED <<campaign, armed, planned, outcome, violations, excused>>
       ELSE /\ TaskEnds(task.index, "failed")
            /\ violations' = violations \cup {planned}
            /\ excused' = IF before = Unknown THEN excused \cup {planned} ELSE excused
            /\ planned' = NoFault
            /\ HardStopController
    BY DEF ReadBefore
  <2>2. CASE SameGeneration(planned, before)
    BY <2>1, <2>2 DEF SameGeneration, ServiceGeneration
  <2>3. CASE ~SameGeneration(planned, before) /\ before = Unknown  BY <2>1, <2>3
  <2>4. CASE ~SameGeneration(planned, before) /\ before # Unknown
    <3>1. expected[planned] # generation[planned]  BY <1>e, <2>4 DEF SameGeneration, ServiceGeneration
    <3>2. ~Blameless(planned)  BY <1>t, <1>e, <3>1 DEF CampaignInv, ExpectedOK
    <3> QED BY <2>1, <2>4, <3>2 DEF Blameless
  <2> QED BY <2>2, <2>3, <2>4
<1>f. expected \in [Service -> Nat]  BY DEF CampaignInv, CampaignTypeOK, WatchTypes
<1>a. \/ /\ task' \in CampaignTask /\ task'.at = "opening" /\ task'.index = task.index
         /\ task'.before = expected[planned] /\ planned' = planned
      \/ task' = NoTask /\ planned' = NoFault
  BY <1>r, <1>t, <1>f DEF CampaignTask, Underway, TaskEnds
<1>1. WorldTypes'  BY DEF CampaignInv, WorldTypes, ReadBefore, CampaignTypeOK
<1>2. SeenOK'  BY DEF CampaignInv, SeenOK, ReadBefore, Blameless
<1>3. ControlTypes' BY <1>c, <1>h, HardStops DEF ReadBefore, ControlTypes
<1>4. TaskTypes'
  <2>1. outcome' \in [0 .. Len(Schedule) -> {"none", "passed", "failed"}]
    BY <1>r DEF TaskEnds, CampaignInv, CampaignTypeOK, TaskTypes
  <2> QED BY <1>a, <2>1, <1>t DEF ReadBefore, TaskTypes, CampaignInv, CampaignTypeOK
<1>5. WatchTypes' BY <1>t, <1>r DEF ReadBefore, WatchTypes, CampaignInv, CampaignTypeOK
<1>6. PhasesOK'
  BY StoppedFields DEF CampaignInv, PhasesOK, ReadBefore, CampaignTypeOK, HardStopController, NoTask,
      Captured, ControlTypes
<1>7. BaselinesOK'  BY DEF CampaignInv, BaselinesOK, ReadBefore, Captured, NoTask
<1>8. TaskOK'
  <2>1. faultOpen => (campaign.stopped)'
    BY <1>c, <1>h, HardStops, <1>t DEF ReadBefore
  <2> QED BY <2>1, <1>a, <1>t DEF ReadBefore, TaskOK, Underway, NoTask, NoFault
<1>9. ExpectedOK'
  <2>1. excused \subseteq excused'  BY <1>r
  <2>2. campaign'.phase = campaign.phase  BY <1>c, <1>h, HardStops
  <2>3. \A s \in Service : ~Disturbs(s)  BY <1>t DEF Disturbs
  <2> QED BY <2>1, <2>2, <2>3, ExpectedStays, LastReadKept DEF ReadBefore
<1>10. UnplannedOK'
  <2>1. planned \in unplanned => task' = NoTask
    <3>1. planned \in unplanned => expected[planned] < generation[planned]
      BY DEF CampaignInv, UnplannedOK
    <3>2. CASE expected[planned] = generation[planned]  BY <3>1, <3>2, <1>f, <1>t
    <3> QED BY <3>2, <1>r DEF TaskEnds
  <2>2. \A s \in unplanned : ~InFaultOf(s)'  BY <2>1, <1>a DEF InFaultOf, NoTask
  <2>3. campaign'.phase = campaign.phase /\ (campaign.stopped => campaign'.stopped)
    BY <1>c, <1>h, HardStops
  <2> QED BY <2>2, <2>3 DEF ReadBefore, CampaignInv, UnplannedOK, StillToFind
<1>11. FaultsOK'
  <2>1. \A s \in Service : ~AwaitsAudit(s)'  BY <1>a DEF AwaitsAudit, NoTask
  <2>2. CASE outcome' = outcome  BY <2>1, <2>2, ForwardStays DEF ReadBefore
  <2>3. CASE TaskEnds(task.index, "failed")  BY <2>1, <2>3, <1>t, ForwardMoves DEF TaskEnds, ReadBefore
  <2> QED BY <1>r, <2>2, <2>3
<1>12. VerdictOK'
  <2>1. campaign'.result = campaign.result /\ campaign'.phase = campaign.phase  BY <1>c, <1>h, HardStops
  <2>2. campaign.result = "none"
    BY <1>t, <1>c DEF CampaignInv, PhasesOK, LastPhases, Closing, NoTask, CampaignTask
  <2>3. violations' \subseteq unplanned' \cup excused'  BY <1>r DEF ReadBefore, CampaignInv, VerdictOK
  <2> QED BY <2>1, <2>2, <2>3 DEF VerdictOK
<1> QED BY <1>1, <1>2, <1>3, <1>4, <1>5, <1>6, <1>7, <1>8, <1>9, <1>10, <1>11, <1>12 DEF CampaignInv,
      CampaignTypeOK

\* The fault is open before anything is done to the container.
LEMMA OpenFaultKeeps ==
  ASSUME CampaignInv, OpenFault
  PROVE  CampaignInv'
<1>1. WorldTypes' /\ ControlTypes' /\ WatchTypes'
  BY DEF CampaignInv, WorldTypes, ControlTypes, WatchTypes, OpenFault, CampaignTypeOK, watchVars,
      historyVars
<1>2. UnplannedOK'
  BY DEF CampaignInv, UnplannedOK, OpenFault, StillToFind, InFaultOf, watchVars, historyVars
<1>3. TaskTypes'
  <2>1. task \in CampaignTask  BY DEF OpenFault, CampaignInv, CampaignTypeOK, TaskTypes, NoTask
  <2>2. task' \in CampaignTask  BY <2>1 DEF OpenFault, CampaignTask, Underway
  <2> QED BY <2>2 DEF OpenFault, CampaignInv, CampaignTypeOK, TaskTypes, watchVars, historyVars
<1>4. PhasesOK'  BY DEF CampaignInv, PhasesOK, OpenFault, NoTask, Captured, watchVars
<1>5. BaselinesOK'  BY DEF CampaignInv, BaselinesOK, OpenFault, Captured, NoTask, watchVars
<1>6. TaskOK'  BY DEF CampaignInv, TaskOK, OpenFault, Underway, watchVars
<1>7. ExpectedOK'
  <2>1. task'.at = "acting"
    BY DEF OpenFault, CampaignInv, CampaignTypeOK, TaskTypes, CampaignTask, NoTask
  <2> QED BY <2>1, ExpectedStays, LastReadKept DEF OpenFault, Disturbs, watchVars, historyVars
<1>8. SeenOK'  BY DEF CampaignInv, SeenOK, OpenFault, Blameless, Underway, watchVars, historyVars
<1>9. FaultsOK'  BY ForwardStays DEF FaultsOK, OpenFault, AwaitsAudit, watchVars, historyVars
<1>10. VerdictOK'
  BY DEF CampaignInv, VerdictOK, OpenFault, PhasesOK, LastPhases, Closing, NoTask, watchVars,
      historyVars
<1> QED BY <1>1, <1>2, <1>3, <1>4, <1>5, <1>6, <1>7, <1>8, <1>9, <1>10 DEF CampaignInv, CampaignTypeOK

\* A restart that was planned disturbs only its container.
LEMMA FaultActionKeeps ==
  ASSUME CampaignInv, FaultAction
  PROVE  CampaignInv'
<1>t. task \in CampaignTask /\ planned \in Service
  BY DEF FaultAction, CampaignInv, CampaignTypeOK, TaskTypes, TaskOK, Underway, NoTask
<1>g. /\ generation \in [Service -> Nat \ {0}] /\ expected \in [Service -> Nat]
      /\ unplanned \subseteq Service /\ excused \subseteq Service
  BY DEF CampaignInv, CampaignTypeOK, WorldTypes, WatchTypes
<1>n. /\ generation' \in [Service -> Nat \ {0}]
      /\ \A s \in Service : generation'[s] >= generation[s] /\ (s # planned => generation'[s] = generation[s])
  <2>1. generation' = [generation EXCEPT ![planned] = @ + 1] \/ generation' = generation
    BY DEF FaultAction
  <2> QED BY <1>t, <1>g, <2>1
<1>a. task'.at \in {"recovering", "failing"} /\ planned' = planned /\ task.at = "acting"
  BY <1>t DEF FaultAction, CampaignTask
<1>l. \A s \in Service : LastRead(s)' <=> LastRead(s)
  BY LastReadKept DEF FaultAction, watchVars, historyVars
<1>1. ControlTypes' /\ WatchTypes'
  BY DEF CampaignInv, ControlTypes, WatchTypes, FaultAction, CampaignTypeOK, watchVars, historyVars
<1>2. VerdictOK'  BY DEF CampaignInv, VerdictOK, FaultAction, watchVars, historyVars
<1>3. WorldTypes' BY <1>n DEF FaultAction, WorldTypes, CampaignInv, CampaignTypeOK, watchVars, historyVars
<1>4. TaskTypes'
  BY DEF CampaignInv, TaskTypes, FaultAction, CampaignTypeOK, CampaignTask, Underway, NoTask
<1>5. PhasesOK'  BY DEF CampaignInv, PhasesOK, FaultAction, NoTask, Captured, watchVars
<1>6. BaselinesOK'  BY DEF CampaignInv, BaselinesOK, FaultAction, Captured, NoTask, watchVars
<1>7. TaskOK'  BY DEF CampaignInv, TaskOK, FaultAction, Underway, watchVars
<1>8. ExpectedOK'
  <2> SUFFICES ASSUME NEW s \in Service
               PROVE  /\ expected'[s] <= generation'[s]
                      /\ (Captured /\ Blameless(s) /\ ~Disturbs(s) /\ ~LastRead(s))' => expected'[s] = generation'[s]
    BY DEF ExpectedOK
  <2>1. expected' = expected /\ (Captured' <=> Captured) /\ (Blameless(s)' <=> Blameless(s))
    BY DEF FaultAction, Captured, Blameless, watchVars, historyVars
  <2>2. expected[s] <= generation'[s]  BY <1>g, <1>n DEF CampaignInv, ExpectedOK
  <2>3. CASE s = planned  BY <2>1, <2>2, <2>3, <1>a DEF Disturbs
  <2>4. CASE s # planned
    BY <2>1, <2>2, <2>4, <1>a, <1>l, <1>n DEF Disturbs, CampaignInv, ExpectedOK
  <2> QED BY <2>3, <2>4
<1>9. SeenOK' BY <1>a DEF FaultAction, SeenOK, Blameless, Underway, CampaignInv, watchVars, historyVars
<1>10. UnplannedOK'
  <2> SUFFICES ASSUME NEW s \in unplanned
               PROVE  /\ expected[s] < generation'[s] /\ ~InFaultOf(s)'
                      /\ ~campaign.stopped => campaign.phase \in {"scheduling", "watching", "settling", "checking"}
                      /\ campaign.phase = "checking" /\ ~campaign.stopped => StillToFind(s)
    BY DEF UnplannedOK, StillToFind, FaultAction, watchVars, historyVars
  <2>1. expected[s] < generation[s] /\ ~InFaultOf(s)  BY DEF CampaignInv, UnplannedOK
  <2>2. ~InFaultOf(s)'  BY <2>1, <1>a DEF InFaultOf
  <2> QED BY <1>g, <1>n, <2>1, <2>2 DEF CampaignInv, UnplannedOK
<1>11. FaultsOK'  BY ForwardStays DEF FaultsOK, FaultAction, AwaitsAudit, watchVars, historyVars
<1> QED BY <1>1, <1>2, <1>3, <1>4, <1>5, <1>6, <1>7, <1>8, <1>9, <1>10, <1>11 DEF CampaignInv,
      CampaignTypeOK

\* A restart that is seen brings the expectation forward.
LEMMA ReadAfterKeeps ==
  ASSUME CampaignInv, ReadAfter
  PROVE  CampaignInv'
<1>t. /\ task \in CampaignTask /\ task.at = "recovering" /\ planned \in Service
      /\ Schedule[task.index] = planned /\ task.before = expected[planned]
  BY DEF ReadAfter, CampaignInv, CampaignTypeOK, TaskTypes, TaskOK, Underway, NoTask
<1>g. /\ generation \in [Service -> Nat \ {0}] /\ expected \in [Service -> Nat]
      /\ unplanned \subseteq Service /\ excused \subseteq Service
  BY DEF CampaignInv, CampaignTypeOK, WorldTypes, WatchTypes
<1>e. Captured /\ (\A s \in Service : expected[s] # Unknown)
  BY <1>t DEF CampaignInv, BaselinesOK, NoTask
<1>r. \/ /\ expected' = [expected EXCEPT ![planned] = generation[planned]]
         /\ generation[planned] # expected[planned] /\ task' = [task EXCEPT !.at = "closing"]
      \/ expected' = expected /\ task' = [task EXCEPT !.at = "failing"]
  BY <1>t DEF ReadAfter, ServiceGeneration, GenerationChanged
<1>n. /\ expected' \in [Service -> Nat] /\ \A s \in Service : s # planned => expected'[s] = expected[s]
      /\ task' \in CampaignTask /\ planned' = planned /\ Schedule[task'.index] = planned
      /\ task'.at \in {"closing", "failing"}
      /\ task'.at = "closing" => expected'[planned] = generation[planned] /\ expected'[planned] > expected[planned]
      /\ task'.at = "failing" => expected' = expected
  <2>1. expected[planned] <= generation[planned]  BY <1>t DEF CampaignInv, ExpectedOK
  <2>2. CASE expected' = expected /\ task' = [task EXCEPT !.at = "failing"]
    BY <1>t, <1>g, <2>2 DEF CampaignTask, Underway, ReadAfter
  <2>3. CASE /\ expected' = [expected EXCEPT ![planned] = generation[planned]]
             /\ generation[planned] # expected[planned] /\ task' = [task EXCEPT !.at = "closing"]
    <3>1. expected'[planned] = generation[planned] /\ expected'[planned] > expected[planned]
      BY <1>t, <1>g, <2>1, <2>3
    <3>2. expected' \in [Service -> Nat] /\ \A s \in Service : s # planned => expected'[s] = expected[s]
      BY <1>t, <1>g, <2>3
    <3>3. task' \in CampaignTask /\ planned' = planned /\ Schedule[task'.index] = planned /\ task'.at = "closing"
      BY <1>t, <2>3 DEF CampaignTask, Underway, ReadAfter
    <3> QED BY <3>1, <3>2, <3>3
  <2> QED BY <1>r, <2>2, <2>3
<1>k. /\ Captured' /\ (\A s \in Service : expected'[s] # Unknown)
      /\ \A s \in Service : (LastRead(s)' <=> LastRead(s)) /\ (Blameless(s)' <=> Blameless(s))
  <2>1. \A s \in Service : expected'[s] # Unknown
    <3> SUFFICES ASSUME NEW s \in Service  PROVE expected'[s] # Unknown  OBVIOUS
    <3>1. generation[s] # Unknown /\ expected[s] # Unknown  BY <1>g, <1>e DEF Unknown
    <3> QED BY <1>n, <3>1
  <2> QED BY <2>1, ServiceFacts, LastReadKept DEF ReadAfter, Captured, Blameless, historyVars
<1>1. WorldTypes' /\ ControlTypes'
  BY DEF CampaignInv, WorldTypes, ControlTypes, ReadAfter, CampaignTypeOK
<1>2. VerdictOK'  BY DEF CampaignInv, VerdictOK, ReadAfter, historyVars
<1>3. TaskTypes'
  BY DEF CampaignInv, TaskTypes, ReadAfter, CampaignTypeOK, CampaignTask, Underway, NoTask
<1>4. WatchTypes' BY <1>n DEF ReadAfter, WatchTypes, CampaignInv, CampaignTypeOK, historyVars
<1>5. PhasesOK'
  BY <1>e, <1>k, <1>t, <1>n DEF ReadAfter, PhasesOK, CampaignInv, NoTask, CampaignTask, historyVars
<1>6. BaselinesOK'  BY DEF CampaignInv, BaselinesOK, ReadAfter, GenerationChanged, Captured, NoTask
<1>7. TaskOK'  BY DEF CampaignInv, TaskOK, ReadAfter, Underway
<1>8. ExpectedOK'
  <2> SUFFICES ASSUME NEW s \in Service
               PROVE  /\ expected'[s] <= generation[s]
                      /\ (Captured /\ Blameless(s) /\ ~Disturbs(s) /\ ~LastRead(s))' => expected'[s] = generation[s]
    BY DEF ExpectedOK, ReadAfter
  <2>1. expected[s] <= generation[s]  BY DEF CampaignInv, ExpectedOK
  <2>2. CASE s = planned /\ task'.at = "closing"  BY <1>n, <1>g, <2>2
  <2>3. CASE s = planned /\ task'.at = "failing"  BY <1>n, <2>1, <2>3 DEF Disturbs
  <2>4. CASE s # planned
    <3>1. expected'[s] = expected[s] /\ ~Disturbs(s)  BY <1>n, <2>4 DEF Disturbs
    <3> QED BY <3>1, <1>k, <1>e, <2>1 DEF CampaignInv, ExpectedOK
  <2> QED BY <1>n, <2>2, <2>3, <2>4
<1>9. SeenOK'  BY DEF CampaignInv, SeenOK, ReadAfter, Blameless, Underway, historyVars
<1>10. UnplannedOK'
  <2> SUFFICES ASSUME NEW s \in unplanned
               PROVE  /\ expected'[s] < generation[s] /\ ~InFaultOf(s)'
                      /\ ~campaign.stopped => campaign.phase \in {"scheduling", "watching", "settling", "checking"}
                      /\ campaign.phase = "checking" /\ ~campaign.stopped => StillToFind(s)'
    BY DEF UnplannedOK, ReadAfter, historyVars
  <2>1. s # planned  BY <1>t DEF CampaignInv, UnplannedOK, InFaultOf
  <2>2. expected'[s] = expected[s]  BY <1>n, <1>g, <2>1
  <2>3. StillToFind(s)' <=> StillToFind(s)  BY <2>2 DEF StillToFind, ReadAfter
  <2>4. ~InFaultOf(s)'  BY <1>n DEF InFaultOf
  <2> QED BY <2>2, <2>3, <2>4 DEF CampaignInv, UnplannedOK
<1>11. FaultsOK'
  <2> SUFFICES ASSUME NEW s \in Service  PROVE Forward(s)'  BY DEF FaultsOK
  <2>1. baseline[s] \in Nat /\ Cardinality(Passed(outcome, s)) \in Nat
    BY PassedFacts DEF CampaignInv, CampaignTypeOK, TaskTypes, WatchTypes
  <2>2. Passed(outcome, s)' = Passed(outcome, s) /\ baseline' = baseline
    BY DEF Passed, ReadAfter, historyVars
  <2>3. expected[s] >= baseline[s] + Cardinality(Passed(outcome, s))
    <3>1. ~AwaitsAudit(s)  BY <1>t DEF AwaitsAudit
    <3> QED BY <3>1, <1>g, <2>1 DEF CampaignInv, FaultsOK, Forward
  <2>4. CASE s = planned /\ task'.at = "closing"
    BY <1>n, <1>g, <2>1, <2>2, <2>3, <2>4 DEF Forward
  <2>5. CASE s # planned \/ task'.at = "failing"
    <3>1. expected'[s] = expected[s] /\ ~AwaitsAudit(s)'  BY <1>n, <2>5 DEF AwaitsAudit
    <3> QED BY <1>g, <2>1, <2>2, <2>3, <3>1 DEF Forward
  <2> QED BY <1>n, <2>4, <2>5
<1> QED BY <1>1, <1>2, <1>3, <1>4, <1>5, <1>6, <1>7, <1>8, <1>9, <1>10, <1>11 DEF CampaignInv,
      CampaignTypeOK

\* Closing a fault excuses its container, if it failed or was read meanwhile.
LEMMA CloseFaultKeeps ==
  ASSUME CampaignInv, CloseFault
  PROVE  CampaignInv'
<1>t. /\ task \in CampaignTask /\ task.at \in {"closing", "failing"} /\ planned \in Service
      /\ Schedule[task.index] = planned /\ task.index \in 0 .. Len(Schedule)
  BY CampaignConstants
  DEF CloseFault, CampaignInv, CampaignTypeOK, TaskTypes, TaskOK, CampaignTask, Underway, NoTask
<1>c. ControlTypes  BY DEF CampaignInv, CampaignTypeOK
<1>h. HardStopController \/ UNCHANGED <<campaign, armed>>  BY DEF CloseFault
<1>r. \/ task.at = "closing" /\ task' = [task EXCEPT !.at = "auditing"] /\ UNCHANGED <<campaign, armed, outcome>>
      \/ task.at = "failing" /\ TaskEnds(task.index, "failed") /\ HardStopController /\ planned \in excused'
  BY <1>t DEF CloseFault
<1>a. /\ excused \subseteq excused' /\ excused' \subseteq excused \cup {planned}
      /\ planned' = NoFault /\ ~faultOpen' /\ faultOpen' \in BOOLEAN
      /\ \/ task'.at = "auditing" /\ task'.index = task.index /\ task' \in CampaignTask
         \/ task' = NoTask
  BY <1>r, <1>t DEF CloseFault, TaskEnds, CampaignTask
<1>1. WorldTypes'  BY DEF CampaignInv, WorldTypes, CloseFault, CampaignTypeOK
<1>2. SeenOK'  BY DEF CampaignInv, SeenOK, CloseFault, Blameless, watchVars
<1>3. ControlTypes' BY <1>c, <1>h, HardStops DEF CloseFault, ControlTypes
<1>4. TaskTypes'
  <2>1. outcome' \in [0 .. Len(Schedule) -> {"none", "passed", "failed"}]
    BY <1>r DEF TaskEnds, CampaignInv, CampaignTypeOK, TaskTypes
  <2> QED BY <1>a, <2>1 DEF TaskTypes
<1>5. WatchTypes' BY <1>t, <1>a DEF CloseFault, WatchTypes, CampaignInv, CampaignTypeOK, watchVars
<1>6. PhasesOK'
  BY StoppedFields DEF CampaignInv, PhasesOK, CloseFault, CampaignTypeOK, HardStopController, NoTask,
      Captured, ControlTypes, watchVars
<1>7. BaselinesOK'  BY DEF CampaignInv, BaselinesOK, CloseFault, Captured, NoTask, watchVars
<1>8. TaskOK' BY <1>t, <1>a DEF TaskOK, NoTask, NoFault, Underway
<1>9. ExpectedOK'
  <2>1. campaign'.phase = campaign.phase  BY <1>c, <1>h, HardStops
  <2>2. \A s \in Service : Disturbs(s) => s \in excused'  BY <1>r DEF Disturbs
  <2> QED BY <1>a, <2>1, <2>2, ExpectedStays, LastReadKept DEF CloseFault, watchVars
<1>10. UnplannedOK'
  <2>1. campaign'.phase = campaign.phase /\ (campaign.stopped => campaign'.stopped)
    BY <1>c, <1>h, HardStops
  <2>2. \A s \in Service : ~InFaultOf(s)'  BY <1>a DEF InFaultOf, NoTask
  <2> QED BY <2>1, <2>2, UnplannedStays DEF CloseFault, watchVars
<1>11. FaultsOK'
  <2>1. CASE task.at = "closing" /\ outcome' = outcome /\ task'.index = task.index
    <3>1. \A s \in Service : AwaitsAudit(s)' => AwaitsAudit(s)  BY <2>1 DEF AwaitsAudit
    <3> QED BY <2>1, <3>1, ForwardStays DEF CloseFault, watchVars
  <2>2. CASE TaskEnds(task.index, "failed")
    <3>1. \A s \in Service : ~AwaitsAudit(s)'  BY <2>2 DEF AwaitsAudit, TaskEnds, NoTask
    <3> QED BY <2>2, <3>1, <1>t, ForwardMoves DEF CloseFault, TaskEnds, watchVars
  <2> QED BY <1>r, <1>t, <2>1, <2>2 DEF CampaignTask
<1>12. VerdictOK'
  <2>1. campaign'.result = campaign.result /\ campaign'.phase = campaign.phase  BY <1>c, <1>h, HardStops
  <2>2. campaign.result = "none"
    BY <1>t, <1>c DEF CampaignInv, PhasesOK, LastPhases, Closing, NoTask, CampaignTask
  <2>3. violations' \subseteq unplanned' \cup excused'
    BY <1>a DEF CloseFault, CampaignInv, VerdictOK, watchVars
  <2> QED BY <2>1, <2>2, <2>3 DEF VerdictOK
<1> QED BY <1>1, <1>2, <1>3, <1>4, <1>5, <1>6, <1>7, <1>8, <1>9, <1>10, <1>11, <1>12 DEF CampaignInv,
      CampaignTypeOK

\* A fault passes when its audit does.
LEMMA WaitAuditKeeps ==
  ASSUME CampaignInv, WaitAudit
  PROVE  CampaignInv'
<1>t. task \in CampaignTask /\ task.at = "auditing" /\ task.index \in 0 .. Len(Schedule)
  BY CampaignConstants DEF WaitAudit, CampaignInv, CampaignTypeOK, TaskTypes, CampaignTask, NoTask
<1>c. ControlTypes  BY DEF CampaignInv, CampaignTypeOK
<1>h. HardStopController \/ UNCHANGED <<campaign, armed>>  BY DEF WaitAudit
<1>1. WorldTypes' /\ WatchTypes'
  BY DEF CampaignInv, WorldTypes, WatchTypes, WaitAudit, CampaignTypeOK, watchVars, historyVars
<1>2. ControlTypes' BY <1>c, <1>h, HardStops DEF WaitAudit, ControlTypes, watchVars, historyVars
<1>3. TaskTypes'  BY DEF CampaignInv, TaskTypes, WaitAudit, CampaignTypeOK, TaskEnds
<1>4. PhasesOK'
  BY StoppedFields DEF CampaignInv, PhasesOK, WaitAudit, CampaignTypeOK, TaskEnds, HardStopController,
      Captured, ControlTypes, watchVars
<1>5. BaselinesOK'  BY DEF CampaignInv, BaselinesOK, WaitAudit, Captured, NoTask, watchVars
<1>6. TaskOK'
  BY StoppedFields DEF CampaignInv, TaskOK, WaitAudit, CampaignTypeOK, TaskEnds, HardStopController,
      Underway, NoTask, ControlTypes, historyVars
<1>7. ExpectedOK'
  <2>1. campaign'.phase = campaign.phase  BY <1>c, <1>h, HardStops
  <2>2. \A s \in Service : ~Disturbs(s)  BY <1>t DEF Disturbs
  <2> QED BY <2>1, <2>2, ExpectedStays, LastReadKept DEF WaitAudit, watchVars, historyVars
<1>8. SeenOK'  BY DEF CampaignInv, SeenOK, WaitAudit, Blameless, Underway, watchVars, historyVars
<1>9. UnplannedOK'
  BY StoppedFields DEF CampaignInv, UnplannedOK, WaitAudit, CampaignTypeOK, TaskEnds,
      HardStopController, StillToFind, InFaultOf, NoTask, ControlTypes, watchVars, historyVars
<1>10. FaultsOK'
  <2>1. PICK r \in {"passed", "failed"} : TaskEnds(task.index, r)  BY DEF WaitAudit
  <2>2. \A s \in Service : ~AwaitsAudit(s)' /\ (task.index \in Faults(s) => AwaitsAudit(s))
    BY <1>t, <2>1 DEF Faults, TaskEnds, AwaitsAudit, NoTask
  <2> QED BY <1>t, <2>1, <2>2, ForwardMoves DEF WaitAudit, TaskEnds, watchVars, historyVars
<1>11. VerdictOK'
  BY StoppedFields DEF CampaignInv, VerdictOK, WaitAudit, CampaignTypeOK, HardStopController, PhasesOK,
      LastPhases, Closing, NoTask, ControlTypes, watchVars, historyVars
<1> QED BY <1>1, <1>2, <1>3, <1>4, <1>5, <1>6, <1>7, <1>8, <1>9, <1>10, <1>11 DEF CampaignInv,
      CampaignTypeOK

\* What throws leaves the fault planned, its container excused and the campaign stopped.
LEMMA MaintenanceFailsKeeps ==
  ASSUME CampaignInv, MaintenanceFails
  PROVE  CampaignInv'
<1>t. task.at \in {"opening", "closing", "failing"} /\ planned \in Service
  BY DEF MaintenanceFails, CampaignInv, TaskOK, Underway
<1>c. ControlTypes  BY DEF CampaignInv, CampaignTypeOK
<1>h. HardStopController \/ UNCHANGED <<campaign, armed>>  BY DEF MaintenanceFails
<1>1. WorldTypes' /\ TaskTypes'
  BY DEF CampaignInv, WorldTypes, TaskTypes, MaintenanceFails, CampaignTypeOK
<1>2. SeenOK'  BY DEF CampaignInv, SeenOK, MaintenanceFails, Blameless, watchVars
<1>3. ControlTypes'
  BY StoppedFields DEF CampaignInv, ControlTypes, MaintenanceFails, CampaignTypeOK, HardStopController
<1>4. WatchTypes' BY <1>t DEF MaintenanceFails, WatchTypes, CampaignInv, CampaignTypeOK, watchVars
<1>5. PhasesOK'
  BY StoppedFields DEF CampaignInv, PhasesOK, MaintenanceFails, CampaignTypeOK, HardStopController,
      Captured, ControlTypes, watchVars
<1>6. BaselinesOK'  BY DEF CampaignInv, BaselinesOK, MaintenanceFails, Captured, NoTask, watchVars
<1>7. TaskOK'
  BY StoppedFields DEF CampaignInv, TaskOK, MaintenanceFails, CampaignTypeOK, HardStopController,
      Underway, NoTask, ControlTypes
<1>8. ExpectedOK'
  <2>1. campaign'.phase = campaign.phase  BY <1>c, <1>h, HardStops
  <2>2. \A s \in Service : Disturbs(s) => s \in excused'  BY DEF Disturbs, MaintenanceFails
  <2> QED BY <2>1, <2>2, ExpectedStays, LastReadKept DEF MaintenanceFails, watchVars
<1>9. UnplannedOK'
  BY StoppedFields DEF CampaignInv, UnplannedOK, MaintenanceFails, CampaignTypeOK, HardStopController,
      InFaultOf, NoTask, ControlTypes, watchVars
<1>10. FaultsOK'
  <2>1. \A s \in Service : ~AwaitsAudit(s)'  BY DEF MaintenanceFails, AwaitsAudit, NoTask
  <2> QED BY <2>1, ForwardStays DEF MaintenanceFails, watchVars
<1>11. VerdictOK'
  BY StoppedFields DEF CampaignInv, VerdictOK, MaintenanceFails, CampaignTypeOK, HardStopController,
      ControlTypes, watchVars
<1> QED BY <1>1, <1>2, <1>3, <1>4, <1>5, <1>6, <1>7, <1>8, <1>9, <1>10, <1>11 DEF CampaignInv,
      CampaignTypeOK

\* A round of checks begins with nothing seen.
LEMMA MonitorTicksKeeps ==
  ASSUME CampaignInv, MonitorTicks
  PROVE  CampaignInv'
<1>1. WorldTypes' /\ ControlTypes' /\ TaskTypes'
  BY DEF CampaignInv, WorldTypes, ControlTypes, TaskTypes, MonitorTicks, CampaignTypeOK, faultVars
<1>2. BaselinesOK' /\ TaskOK' /\ SeenOK' /\ UnplannedOK' /\ VerdictOK'
  BY DEF CampaignInv, BaselinesOK, TaskOK, SeenOK, UnplannedOK, VerdictOK, MonitorTicks, Captured,
      StillToFind, InFaultOf, faultVars, historyVars
<1>3. WatchTypes'
  BY CampaignConstants DEF CampaignInv, WatchTypes, MonitorTicks, CampaignTypeOK, historyVars
<1>4. PhasesOK'  BY DEF CampaignInv, PhasesOK, MonitorTicks, LastPhases, Captured
<1>5. ExpectedOK'
  BY DEF CampaignInv, ExpectedOK, MonitorTicks, Blameless, Disturbs, LastRead, PhasesOK, Closing, Phase,
      faultVars, historyVars
<1>6. FaultsOK'  BY ForwardStays DEF FaultsOK, MonitorTicks, AwaitsAudit, faultVars, historyVars
<1> QED BY <1>1, <1>2, <1>3, <1>4, <1>5, <1>6 DEF CampaignInv, CampaignTypeOK

\* What is read of a container is what is expected, unless it is disturbed, to blame or excused.
LEMMA ObserveKeeps ==
  ASSUME CampaignInv, Observe
  PROVE  CampaignInv'
<1> DEFINE s == Services[monitor.at]
<1>m. /\ monitor \in [at: DOMAIN Services, seen: Nat \cup {Unread}] /\ monitor.seen = Unread /\ monitor # NoRound
      /\ s \in Service /\ monitor.at \in 1 .. Len(Services)
  BY ServiceFacts DEF Observe, CampaignInv, CampaignTypeOK, WatchTypes, NoRound
<1>g. /\ generation \in [Service -> Nat \ {0}] /\ expected \in [Service -> Nat] /\ unplanned \subseteq Service
  BY DEF CampaignInv, CampaignTypeOK, WorldTypes, WatchTypes
<1>n. /\ monitor' \in [at: DOMAIN Services, seen: Nat \cup {Unread}] /\ monitor'.at = monitor.at
      /\ monitor'.seen \in {generation[s], Unknown} /\ monitor'.seen # Unread /\ monitor' # NoRound
  <2>1. PICK observed \in {generation[s], Unknown} : monitor' = [monitor EXCEPT !.seen = observed]
    BY DEF Observe, ServiceGeneration
  <2>2. observed \in Nat  BY <1>m, <1>g DEF Unknown
  <2>3. monitor' = [at |-> monitor.at, seen |-> observed]  BY <1>m, <2>1
  <2> QED BY <1>m, <2>1, <2>2, <2>3, ServiceFacts DEF NoRound, Unread
<1>e. Captured /\ (\A t \in Service : expected[t] # Unknown)
      /\ campaign.phase \notin {"judging", "summarized", "complete", "aborted"}
  BY <1>m DEF CampaignInv, BaselinesOK, PhasesOK, LastPhases, Closing
<1>u. \A i \in DOMAIN Services : Services[i] = s => i = monitor.at  BY <1>m, CampaignConstants
<1>l. \A t \in Service : LastRead(t) => LastRead(t)'
  BY <1>m, <1>n, <1>e DEF LastRead, Phase, Observe
<1>1. WorldTypes' /\ ControlTypes' /\ TaskTypes'
  BY DEF CampaignInv, WorldTypes, ControlTypes, TaskTypes, Observe, CampaignTypeOK, faultVars
<1>2. TaskOK' /\ VerdictOK'  BY DEF CampaignInv, TaskOK, VerdictOK, Observe, faultVars, historyVars
<1>3. WatchTypes' BY <1>n DEF Observe, WatchTypes, CampaignInv, CampaignTypeOK, faultVars, historyVars
<1>4. PhasesOK'  BY DEF CampaignInv, PhasesOK, Observe, NoRound, Captured, faultVars
<1>5. BaselinesOK'  BY DEF CampaignInv, BaselinesOK, Observe, Captured, NoRound
<1>6. ExpectedOK' BY <1>l, ExpectedStays DEF Observe, Disturbs, faultVars, historyVars
<1>7. SeenOK'
  <2>1. ~LastRead(s)  BY <1>m, <1>e, <1>u, ServiceFacts DEF LastRead, Phase
  <2>2. Blameless(s) /\ ~Disturbs(s) => expected[s] = generation[s]
    BY <1>m, <1>e, <2>1 DEF CampaignInv, ExpectedOK
  <2>3. Disturbs(s) => planned = s /\ task.at \in Underway \ {"reading"}  BY DEF Disturbs, Underway
  <2> QED BY <1>n, <2>2, <2>3 DEF SeenOK, Observe, Blameless, faultVars, historyVars
<1>8. UnplannedOK'
  <2> SUFFICES ASSUME NEW t \in unplanned
               PROVE  /\ expected[t] < generation[t] /\ ~InFaultOf(t)
                      /\ ~campaign.stopped => campaign.phase \in {"scheduling", "watching", "settling", "checking"}
                      /\ campaign.phase = "checking" /\ ~campaign.stopped => StillToFind(t)'
    BY DEF UnplannedOK, Observe, InFaultOf, faultVars, historyVars
  <2>1. expected[t] < generation[t] /\ expected[t] # Unknown /\ t \in Service
    BY <1>e, <1>g DEF CampaignInv, UnplannedOK
  <2>2. ASSUME StillToFind(t)  PROVE StillToFind(t)'
    <3>1. PICK i \in DOMAIN Services : Services[i] = t /\ i >= monitor.at  BY <2>2 DEF StillToFind
    <3>2. i = monitor'.at => monitor'.seen # expected'[t]  BY <1>n, <1>g, <2>1, <3>1 DEF Observe
    <3> QED BY <1>n, <3>1, <3>2 DEF StillToFind
  <2> QED BY <2>1, <2>2 DEF CampaignInv, UnplannedOK
<1>9. FaultsOK'  BY ForwardStays DEF FaultsOK, Observe, AwaitsAudit, faultVars, historyVars
<1> QED BY <1>1, <1>2, <1>3, <1>4, <1>5, <1>6, <1>7, <1>8, <1>9 DEF CampaignInv, CampaignTypeOK

\* Whoever is blamed is to blame or excused; the last check stops at whoever is to blame.
LEMMA JudgeGenerationKeeps ==
  ASSUME CampaignInv, JudgeGeneration
  PROVE  CampaignInv'
<1> DEFINE s == Services[monitor.at]
<1>m. /\ monitor \in [at: DOMAIN Services, seen: Nat \cup {Unread}] /\ monitor.seen # Unread /\ monitor # NoRound
      /\ s \in Service /\ monitor.at \in 1 .. Len(Services) /\ Len(Services) \in Nat
  BY ServiceFacts DEF JudgeGeneration, CampaignInv, CampaignTypeOK, WatchTypes, NoRound
<1>n. \/ monitor' = [at |-> monitor.at + 1, seen |-> Unread] /\ monitor.at < Len(Services)
      \/ monitor' = NoRound /\ monitor.at = Len(Services)
  <2>1. monitor' = NextService /\ monitor = [at |-> monitor.at, seen |-> monitor.seen]
    BY <1>m DEF JudgeGeneration
  <2>2. CASE monitor.at < Len(Services)  BY <1>m, <2>1, <2>2 DEF NextService
  <2>3. CASE monitor.at = Len(Services)
    <3>1. ~(monitor.at < Len(Services))  BY <1>m, <2>3
    <3> QED BY <2>1, <2>3, <3>1 DEF NextService
  <2>4. \A n \in Nat : \A k \in 1 .. n : k < n \/ k = n  OBVIOUS
  <2> QED BY <1>m, <2>2, <2>3, <2>4
<1>e. Captured /\ (\A t \in Service : expected[t] # Unknown)
      /\ campaign.phase \notin {"judging", "summarized", "complete", "aborted"}
  BY <1>m DEF CampaignInv, BaselinesOK, PhasesOK, LastPhases, Closing
<1>u. \A i \in DOMAIN Services : Services[i] = s => i = monitor.at  BY <1>m, CampaignConstants
<1>c. ControlTypes  BY DEF CampaignInv, CampaignTypeOK
<1>h. HardStopController \/ UNCHANGED <<campaign, armed>>  BY DEF JudgeGeneration
<1>j. campaign'.phase = campaign.phase /\ (campaign.stopped => campaign'.stopped)
  BY <1>c, <1>h, HardStops
<1>v. PICK violates \in (IF Judged(s) THEN Violates(s) ELSE {FALSE}) :
        IF violates THEN violations' = violations \cup {s} /\ HardStopController
        ELSE UNCHANGED <<violations, campaign, armed>>
  BY DEF JudgeGeneration
<1>x. excused' = IF Judged(s) /\ monitor.seen = Unknown THEN excused \cup {s} ELSE excused
  BY DEF JudgeGeneration
<1>b. violates => s \in unplanned \cup excused'
  <2> SUFFICES ASSUME violates, monitor.seen # Unknown  PROVE s \in unplanned \cup excused
    BY <1>v, <1>x
  <2>1. planned # s /\ monitor.seen # expected[s]
    BY <1>v, <1>m, <1>e DEF Judged, Violates, SameGeneration
  <2>2. monitor.at # 0  BY <1>m
  <2> QED BY <1>m, <2>1, <2>2 DEF CampaignInv, SeenOK, Blameless
<1>w. \/ violations' = violations \cup {s} /\ s \in unplanned \cup excused'
      \/ violations' = violations
  BY <1>v, <1>b
<1>f. s \in unplanned /\ campaign.phase = "checking" => campaign'.stopped
  <2> SUFFICES ASSUME s \in unplanned, campaign.phase = "checking", ~campaign.stopped
               PROVE  campaign'.stopped
    BY <1>j
  <2>1. StillToFind(s)  BY DEF CampaignInv, UnplannedOK
  <2>2. monitor.seen # expected[s]  BY <1>m, <1>u, <2>1 DEF StillToFind
  <2>3. task = NoTask  BY DEF CampaignInv, PhasesOK, LastPhases, Closing
  <2>4. planned = NoFault  BY <2>3 DEF CampaignInv, TaskOK, NoTask, Underway
  <2>5. Judged(s)  BY <1>m, <2>4, ServiceFacts DEF Judged
  <2>6. CASE violates  BY <1>c, <1>v, <2>6, HardStops
  <2>7. CASE violates = FALSE  BY <1>v, <2>2, <2>5, <2>7 DEF Violates, SameGeneration, Phase
  <2> QED BY <1>v, <2>6, <2>7 DEF Violates
<1>l. \A t \in Service : LastRead(t) => LastRead(t)'
  <2> SUFFICES ASSUME NEW t \in Service, LastRead(t)  PROVE LastRead(t)'  OBVIOUS
  <2>1. PICK i \in 1 .. monitor.at : Services[i] = t /\ campaign.phase = "checking"
    BY <1>m, <1>e DEF LastRead, Phase
  <2> QED BY <1>m, <1>n, <1>j, <2>1 DEF LastRead, Phase
<1>1. WorldTypes' /\ TaskTypes'
  BY DEF CampaignInv, WorldTypes, TaskTypes, JudgeGeneration, CampaignTypeOK, faultVars
<1>2. ControlTypes' BY <1>c, <1>h, HardStops DEF JudgeGeneration, ControlTypes, faultVars
<1>3. WatchTypes'
  <2>1. monitor' \in {NoRound} \cup [at: DOMAIN Services, seen: Nat \cup {Unread}]
    BY <1>m, <1>n, ServiceFacts
  <2>2. violations' \subseteq Service /\ excused' \subseteq Service
    BY <1>m, <1>w, <1>x DEF CampaignInv, CampaignTypeOK, WatchTypes
  <2> QED BY <2>1, <2>2 DEF JudgeGeneration, WatchTypes, CampaignInv, CampaignTypeOK
<1>4. PhasesOK'
  BY StoppedFields DEF CampaignInv, PhasesOK, JudgeGeneration, CampaignTypeOK, HardStopController,
      NoRound, Captured, ControlTypes, faultVars
<1>5. BaselinesOK'  BY DEF CampaignInv, BaselinesOK, JudgeGeneration, Captured, NoRound
<1>6. TaskOK'
  BY StoppedFields DEF CampaignInv, TaskOK, JudgeGeneration, CampaignTypeOK, HardStopController,
      ControlTypes, faultVars
<1>7. ExpectedOK'
  <2>1. excused \subseteq excused'  BY <1>x
  <2> QED BY <1>l, <2>1, ExpectedStays DEF JudgeGeneration, Disturbs, faultVars
<1>8. SeenOK'  BY DEF SeenOK, JudgeGeneration, NextService, NoRound
<1>9. UnplannedOK'
  <2> SUFFICES ASSUME NEW t \in unplanned
               PROVE  /\ expected[t] < generation[t] /\ ~InFaultOf(t)
                      /\ ~campaign'.stopped => campaign.phase \in {"scheduling", "watching", "settling", "checking"}
                      /\ campaign.phase = "checking" /\ ~campaign'.stopped => StillToFind(t)'
    BY <1>j DEF UnplannedOK, JudgeGeneration, InFaultOf, faultVars
  <2>1. ASSUME campaign.phase = "checking", ~campaign'.stopped  PROVE StillToFind(t)'
    <3>1. t # s /\ StillToFind(t)  BY <1>f, <1>j, <2>1 DEF CampaignInv, UnplannedOK
    <3>2. PICK i \in DOMAIN Services : Services[i] = t /\ i >= monitor.at  BY <3>1 DEF StillToFind
    <3>3. i # monitor.at /\ i \in 1 .. Len(Services)  BY <3>1, <3>2, ServiceFacts
    <3>4. monitor' = [at |-> monitor.at + 1, seen |-> Unread] /\ i >= monitor.at + 1
      BY <1>m, <1>n, <3>2, <3>3
    <3> QED BY <3>2, <3>4 DEF StillToFind, NoRound
  <2> QED BY <1>j, <2>1 DEF CampaignInv, UnplannedOK
<1>10. FaultsOK'  BY ForwardStays DEF FaultsOK, JudgeGeneration, AwaitsAudit, faultVars
<1>11. VerdictOK'
  <2>1. campaign'.result = campaign.result  BY <1>c, <1>h, HardStops
  <2>2. campaign.result = "none"  BY <1>m, <1>e DEF CampaignInv, PhasesOK
  <2>3. violations' \subseteq unplanned' \cup excused'
    BY <1>w, <1>x DEF JudgeGeneration, CampaignInv, VerdictOK
  <2> QED BY <2>1, <2>2, <2>3 DEF VerdictOK
<1> QED BY <1>1, <1>2, <1>3, <1>4, <1>5, <1>6, <1>7, <1>8, <1>9, <1>10, <1>11 DEF CampaignInv,
      CampaignTypeOK

\* The campaign starts, or settles before it has started.
LEMMA StartupKeeps ==
  ASSUME CampaignInv, Startup
  PROVE  CampaignInv'
<1>c. ControlTypes  BY DEF CampaignInv, CampaignTypeOK
<1>h. /\ campaign.phase = "starting"
      /\ \/ To("loading") /\ ~campaign.stopped /\ UNCHANGED armed
         \/ Halts("settling") /\ ~armed' /\ armed' \in BOOLEAN
  BY DEF Startup, Halts, Phase
<1>k. /\ campaign' \in Controller /\ campaign'.result = campaign.result /\ campaign'.signalled = campaign.signalled
      /\ \/ campaign'.phase = "loading" /\ ~campaign.stopped /\ ~campaign'.stopped
         \/ campaign'.phase = "settling" /\ campaign'.stopped /\ campaign'.ending /\ ~armed'
  BY <1>c, <1>h, PhaseMoves DEF Phases
<1>p. ~Captured /\ campaign.result = "none"  BY <1>h DEF CampaignInv, PhasesOK
<1>b. /\ task = NoTask /\ chain = <<>> /\ monitor = NoRound /\ violations = {}
  BY <1>p DEF CampaignInv, BaselinesOK
<1>1. WorldTypes' /\ TaskTypes' /\ WatchTypes'
  BY DEF CampaignInv, WorldTypes, TaskTypes, WatchTypes, Startup, CampaignTypeOK, watchVars, historyVars
<1>2. ExpectedOK' /\ SeenOK'
  BY DEF CampaignInv, ExpectedOK, SeenOK, Startup, Captured, Blameless, Disturbs, LastRead, Phase,
      watchVars, historyVars
<1>3. ControlTypes' BY <1>c, <1>h, <1>k DEF Startup, ControlTypes
<1>4. PhasesOK'
  <2>1. ~Captured' /\ task' = NoTask /\ chain' = <<>> /\ monitor' = NoRound
    BY <1>p, <1>b DEF Startup, Captured, watchVars, historyVars
  <2>2. (campaign'.signalled => campaign'.stopped) /\ (campaign'.phase = "settling" => ~armed')
    BY <1>h, <1>k DEF CampaignInv, PhasesOK
  <2> QED BY <1>k, <1>p, <2>1, <2>2 DEF PhasesOK, Closing, LastPhases
<1>5. BaselinesOK'
  BY CampaignConstants DEF CampaignInv, BaselinesOK, Startup, CampaignTypeOK, Captured, TaskTypes,
      watchVars, historyVars
<1>6. TaskOK'  BY DEF CampaignInv, TaskOK, Startup, Phase, NoTask, BaselinesOK, PhasesOK
<1>7. UnplannedOK'  BY DEF CampaignInv, UnplannedOK, Startup, Phase, PhasesOK, BaselinesOK, historyVars
<1>8. FaultsOK'
  <2>1. \A s \in Service : ~AwaitsAudit(s)'  BY <1>b DEF Startup, AwaitsAudit, NoTask
  <2>2. CASE outcome' = outcome  BY <2>1, <2>2, ForwardStays DEF Startup, watchVars, historyVars
  <2>3. ASSUME NEW r \in {"passed", "failed"}, outcome' = [outcome EXCEPT ![0] = r]  PROVE FaultsOK'
    <3>1. 0 \in 0 .. Len(Schedule) /\ \A s \in Service : 0 \notin Faults(s)
      BY CampaignConstants DEF Faults
    <3> QED BY <2>1, <2>3, <3>1, ForwardMoves DEF Startup, watchVars, historyVars
  <2> QED BY <2>2, <2>3 DEF Startup
<1>9. VerdictOK' BY <1>k, <1>p, <1>b DEF Startup, VerdictOK, watchVars, historyVars
<1> QED BY <1>1, <1>2, <1>3, <1>4, <1>5, <1>6, <1>7, <1>8, <1>9 DEF CampaignInv, CampaignTypeOK

\* The load runs, or the campaign is over.
LEMMA WaitForWorkloadRunningKeeps ==
  ASSUME CampaignInv, WaitForWorkloadRunning
  PROVE  CampaignInv'
<1>c. ControlTypes  BY DEF CampaignInv, CampaignTypeOK
<1>h. /\ campaign.phase = "loading"
      /\ \/ To("baselines") /\ UNCHANGED armed
         \/ Halts("watching") /\ ~armed' /\ armed' \in BOOLEAN
  BY DEF WaitForWorkloadRunning, Halts, Phase
<1>k. /\ campaign' \in Controller /\ campaign'.result = campaign.result /\ campaign'.signalled = campaign.signalled
      /\ \/ /\ campaign'.phase = "baselines" /\ campaign'.stopped = campaign.stopped
            /\ campaign'.ending = campaign.ending
         \/ campaign'.phase = "watching" /\ campaign'.stopped /\ campaign'.ending
  BY <1>c, <1>h, PhaseMoves DEF Phases
<1>p. ~Captured /\ campaign.result = "none"  BY <1>h DEF CampaignInv, PhasesOK
<1>1. WorldTypes' /\ TaskTypes' /\ WatchTypes'
  BY DEF CampaignInv, WorldTypes, TaskTypes, WatchTypes, WaitForWorkloadRunning, CampaignTypeOK,
      faultVars, watchVars, historyVars
<1>2. BaselinesOK' /\ ExpectedOK' /\ SeenOK'
  BY DEF CampaignInv, BaselinesOK, ExpectedOK, SeenOK, WaitForWorkloadRunning, Captured, Blameless,
      Disturbs, LastRead, Phase, faultVars, watchVars, historyVars
<1>3. ControlTypes'
  BY <1>c, <1>h, <1>k DEF WaitForWorkloadRunning, ControlTypes, faultVars, watchVars, historyVars
<1>4. PhasesOK'
  BY <1>h, <1>k, <1>p DEF WaitForWorkloadRunning, PhasesOK, Captured, Closing, LastPhases, CampaignInv,
     faultVars, watchVars, historyVars
<1>5. TaskOK'
  BY DEF CampaignInv, TaskOK, WaitForWorkloadRunning, Phase, BaselinesOK, PhasesOK, faultVars, watchVars
<1>6. UnplannedOK'
  BY DEF CampaignInv, UnplannedOK, WaitForWorkloadRunning, Phase, PhasesOK, BaselinesOK, historyVars
<1>7. FaultsOK'
  BY ForwardStays DEF FaultsOK, WaitForWorkloadRunning, AwaitsAudit, faultVars, watchVars, historyVars
<1>8. VerdictOK'
  BY <1>k, <1>p DEF WaitForWorkloadRunning, VerdictOK, CampaignInv, faultVars, watchVars, historyVars
<1> QED BY <1>1, <1>2, <1>3, <1>4, <1>5, <1>6, <1>7, <1>8 DEF CampaignInv, CampaignTypeOK

\* The baselines are what runs.
LEMMA CaptureGenerationBaselinesKeeps ==
  ASSUME CampaignInv, CaptureGenerationBaselines
  PROVE  CampaignInv'
<1>c. ControlTypes  BY DEF CampaignInv, CampaignTypeOK
<1>h. /\ campaign.phase = "baselines"
      /\ \/ To("scheduling") /\ UNCHANGED armed /\ expected' = generation /\ baseline' = generation
         \/ Halts("watching") /\ ~armed' /\ armed' \in BOOLEAN /\ UNCHANGED <<expected, baseline>>
  BY DEF CaptureGenerationBaselines, Halts, Phase
<1>k. /\ campaign' \in Controller /\ campaign'.result = campaign.result /\ campaign'.signalled = campaign.signalled
      /\ \/ /\ campaign'.phase = "scheduling" /\ campaign'.stopped = campaign.stopped
            /\ campaign'.ending = campaign.ending /\ expected' = generation /\ baseline' = generation
         \/ campaign'.phase = "watching" /\ campaign'.stopped /\ campaign'.ending /\ UNCHANGED <<expected, baseline>>
  BY <1>c, <1>h, PhaseMoves DEF Phases
<1>p. ~Captured /\ campaign.result = "none"  BY <1>h DEF CampaignInv, PhasesOK
<1>b. /\ ~armed /\ task = NoTask /\ chain = <<>> /\ planned = NoFault /\ monitor = NoRound
      /\ unplanned = {} /\ violations = {} /\ excused = {} /\ ~faultOpen
      /\ \A i \in DOMAIN Schedule : outcome[i] = "none"
  BY <1>p DEF CampaignInv, BaselinesOK
<1>g. /\ generation \in [Service -> Nat \ {0}] /\ (Captured' => expected' = generation)
      /\ (expected' = generation => Captured')
  <2>1. generation \in [Service -> Nat \ {0}]  BY DEF CampaignInv, CampaignTypeOK, WorldTypes
  <2>2. Captured' => expected' = generation  BY <1>h, <1>p DEF Captured
  <2>3. expected' = generation => Captured'  BY <2>1, ServiceFacts DEF Captured, Unknown
  <2> QED BY <2>1, <2>2, <2>3
<1>1. WorldTypes' /\ TaskTypes'
  BY DEF CampaignInv, WorldTypes, TaskTypes, CaptureGenerationBaselines, CampaignTypeOK, faultVars
<1>2. ControlTypes'
  BY <1>c, <1>h, <1>k DEF CaptureGenerationBaselines, ControlTypes, faultVars
<1>3. WatchTypes'
  BY DEF CampaignInv, WatchTypes, CaptureGenerationBaselines, CampaignTypeOK, WorldTypes
<1>4. PhasesOK'
  BY <1>h, <1>k, <1>p, <1>b, <1>g DEF CaptureGenerationBaselines, PhasesOK, Closing, LastPhases,
     CampaignInv, faultVars
<1>5. BaselinesOK'
  <2>1. ~armed'  BY <1>h, <1>b
  <2>2. Captured' => \A s \in Service : expected'[s] # Unknown  BY <1>g DEF Unknown
  <2> QED BY <2>1, <2>2, <1>b DEF CaptureGenerationBaselines, BaselinesOK, faultVars
<1>6. TaskOK'
  BY DEF CampaignInv, TaskOK, CaptureGenerationBaselines, Phase, NoTask, BaselinesOK, PhasesOK,
      faultVars
<1>7. ExpectedOK'
  BY DEF CampaignInv, ExpectedOK, CaptureGenerationBaselines, CampaignTypeOK, Phase, Captured,
      Blameless, Disturbs, LastRead, WorldTypes, faultVars
<1>8. SeenOK'
  BY DEF CampaignInv, SeenOK, CaptureGenerationBaselines, Phase, NoRound, PhasesOK, BaselinesOK
<1>9. UnplannedOK'
  BY DEF CampaignInv, UnplannedOK, CaptureGenerationBaselines, Phase, PhasesOK, BaselinesOK
<1>10. FaultsOK'
  <2> SUFFICES ASSUME NEW s \in Service  PROVE Forward(s)'  BY DEF FaultsOK
  <2>1. ~AwaitsAudit(s)' /\ ~AwaitsAudit(s)
    BY <1>b DEF CaptureGenerationBaselines, AwaitsAudit, NoTask, faultVars
  <2>2. CASE UNCHANGED <<expected, baseline>>
    BY <2>1, <2>2, ForwardStays, <1>b DEF CaptureGenerationBaselines, AwaitsAudit, NoTask, FaultsOK,
       faultVars
  <2>3. CASE expected' = generation /\ baseline' = generation
    <3>1. Passed(outcome, s)' = {}
      BY <1>b, CampaignConstants DEF CaptureGenerationBaselines, Passed, Faults, faultVars
    <3>2. Cardinality(Passed(outcome, s)') = 0  BY <3>1, FS_EmptySet
    <3>3. expected'[s] >= baseline'[s] + 0 + 0  BY <1>g, <2>3
    <3> QED BY <2>1, <3>2, <3>3 DEF Forward
  <2> QED BY <1>h, <2>2, <2>3
<1>11. VerdictOK'
  BY <1>k, <1>p DEF CaptureGenerationBaselines, VerdictOK, CampaignInv, faultVars
<1> QED BY <1>1, <1>2, <1>3, <1>4, <1>5, <1>6, <1>7, <1>8, <1>9, <1>10, <1>11 DEF CampaignInv,
      CampaignTypeOK

\* The timers are set once the baselines are known.
LEMMA ScheduleTasksKeeps ==
  ASSUME CampaignInv, ScheduleTasks
  PROVE  CampaignInv'
<1>1. WorldTypes' /\ TaskTypes' /\ WatchTypes'
  BY DEF CampaignInv, WorldTypes, TaskTypes, WatchTypes, ScheduleTasks, CampaignTypeOK, faultVars,
      watchVars, historyVars
<1>2. ExpectedOK' /\ SeenOK'
  BY DEF CampaignInv, ExpectedOK, SeenOK, ScheduleTasks, Captured, Blameless, Disturbs, LastRead, Phase,
      faultVars, watchVars, historyVars
<1>3. ControlTypes'
  BY DEF CampaignInv, ControlTypes, ScheduleTasks, CampaignTypeOK, To, Controller, Phases, faultVars
<1>4. PhasesOK'  BY DEF CampaignInv, PhasesOK, ScheduleTasks, Phase, To, Closing, LastPhases
<1>5. BaselinesOK'  BY DEF CampaignInv, BaselinesOK, ScheduleTasks, Phase, Captured, PhasesOK, watchVars
<1>6. TaskOK'  BY DEF CampaignInv, TaskOK, ScheduleTasks, To, faultVars, watchVars, historyVars
<1>7. UnplannedOK'
  BY DEF CampaignInv, UnplannedOK, ScheduleTasks, InFaultOf, To, faultVars, watchVars, historyVars
<1>8. FaultsOK'
  BY ForwardStays DEF FaultsOK, ScheduleTasks, AwaitsAudit, faultVars, watchVars, historyVars
<1>9. VerdictOK'  BY DEF CampaignInv, VerdictOK, ScheduleTasks, To, faultVars, watchVars, historyVars
<1> QED BY <1>1, <1>2, <1>3, <1>4, <1>5, <1>6, <1>7, <1>8, <1>9 DEF CampaignInv, CampaignTypeOK

\* The end of the load ends the campaign.
LEMMA LoadFinishedKeeps ==
  ASSUME CampaignInv, LoadFinished
  PROVE  CampaignInv'
<1>1. WorldTypes' /\ TaskTypes' /\ WatchTypes'
  BY DEF CampaignInv, WorldTypes, TaskTypes, WatchTypes, LoadFinished, CampaignTypeOK, faultVars,
      watchVars, historyVars
<1>2. BaselinesOK' /\ TaskOK' /\ ExpectedOK' /\ SeenOK' /\ UnplannedOK' /\ VerdictOK'
  BY DEF CampaignInv, BaselinesOK, TaskOK, ExpectedOK, SeenOK, UnplannedOK, VerdictOK, LoadFinished,
      Captured, Blameless, Disturbs, LastRead, Phase, InFaultOf, faultVars, watchVars, historyVars
<1>3. ControlTypes'
  BY DEF CampaignInv, ControlTypes, LoadFinished, CampaignTypeOK, Controller, Phases, faultVars
<1>4. PhasesOK'  BY DEF CampaignInv, PhasesOK, LoadFinished, Phase, LastPhases
<1>5. FaultsOK'
  BY ForwardStays DEF FaultsOK, LoadFinished, AwaitsAudit, faultVars, watchVars, historyVars
<1> QED BY <1>1, <1>2, <1>3, <1>4, <1>5 DEF CampaignInv, CampaignTypeOK

\* The last check begins once nothing else runs, and has everything to find.
LEMMA SettleKeeps ==
  ASSUME CampaignInv, Settle
  PROVE  CampaignInv'
<1>1. WorldTypes' /\ TaskTypes'
  BY DEF CampaignInv, WorldTypes, TaskTypes, Settle, CampaignTypeOK, faultVars
<1>2. BaselinesOK' /\ ExpectedOK'
  BY DEF CampaignInv, BaselinesOK, ExpectedOK, Settle, Captured, Blameless, Disturbs, LastRead, Phase,
      faultVars, historyVars
<1>3. ControlTypes'
  BY DEF CampaignInv, ControlTypes, Settle, CampaignTypeOK, To, Controller, Phases, faultVars
<1>4. WatchTypes'  BY CampaignConstants DEF CampaignInv, WatchTypes, Settle, CampaignTypeOK, historyVars
<1>5. PhasesOK'  BY DEF CampaignInv, PhasesOK, Settle, Phase, To, AllSettled, Closing, faultVars
<1>6. TaskOK'  BY DEF CampaignInv, TaskOK, Settle, To, faultVars, historyVars
<1>7. SeenOK'  BY DEF CampaignInv, SeenOK, Settle, Blameless, AllSettled, faultVars, historyVars
<1>8. UnplannedOK'
  <2> SUFFICES ASSUME NEW t \in unplanned  PROVE StillToFind(t)'
    BY DEF UnplannedOK, Settle, Phase, To, InFaultOf, CampaignInv, CampaignTypeOK, ControlTypes,
       Controller, faultVars, historyVars
  <2>1. t \in Service  BY DEF CampaignInv, CampaignTypeOK, WatchTypes
  <2>2. Captured  BY DEF CampaignInv, BaselinesOK
  <2>3. monitor' = [at |-> 1, seen |-> Unread]  BY <2>2 DEF Settle
  <2>4. PICK i \in DOMAIN Services : Services[i] = t  BY <2>1, ServiceFacts DEF Service
  <2> QED BY <2>3, <2>4, ServiceFacts DEF StillToFind, NoRound
<1>9. FaultsOK'  BY ForwardStays DEF FaultsOK, Settle, AwaitsAudit, faultVars, historyVars
<1>10. VerdictOK'  BY DEF CampaignInv, VerdictOK, Settle, To, faultVars, historyVars
<1> QED BY <1>1, <1>2, <1>3, <1>4, <1>5, <1>6, <1>7, <1>8, <1>9, <1>10 DEF CampaignInv, CampaignTypeOK

\* The last check is over; whatever it had to find stopped the campaign.
LEMMA CollectEvidenceKeeps ==
  ASSUME CampaignInv, CollectEvidence
  PROVE  CampaignInv'
<1>1. WorldTypes' /\ TaskTypes' /\ WatchTypes'
  BY DEF CampaignInv, WorldTypes, TaskTypes, WatchTypes, CollectEvidence, CampaignTypeOK, faultVars,
      watchVars, historyVars
<1>2. BaselinesOK' /\ SeenOK'
  BY DEF CampaignInv, BaselinesOK, SeenOK, CollectEvidence, Captured, Blameless, faultVars, watchVars,
      historyVars
<1>3. ControlTypes'
  BY DEF CampaignInv, ControlTypes, CollectEvidence, CampaignTypeOK, To, Controller, Phases, faultVars
<1>4. PhasesOK'
  BY DEF CampaignInv, PhasesOK, CollectEvidence, Phase, To, Closing, LastPhases, faultVars, watchVars
<1>5. TaskOK'  BY DEF CampaignInv, TaskOK, CollectEvidence, To, faultVars, watchVars, historyVars
<1>6. ExpectedOK'  BY DEF CampaignInv, ExpectedOK, CollectEvidence, LastRead, To, watchVars
<1>7. UnplannedOK'
  BY DEF CampaignInv, UnplannedOK, CollectEvidence, StillToFind, InFaultOf, Phase, To, faultVars,
      watchVars, historyVars
<1>8. FaultsOK'
  BY ForwardStays DEF FaultsOK, CollectEvidence, AwaitsAudit, faultVars, watchVars, historyVars
<1>9. VerdictOK'  BY DEF CampaignInv, VerdictOK, CollectEvidence, To, faultVars, watchVars, historyVars
<1> QED BY <1>1, <1>2, <1>3, <1>4, <1>5, <1>6, <1>7, <1>8, <1>9 DEF CampaignInv, CampaignTypeOK

\* The verdict is PASSED only when nothing was to be found.
LEMMA ConcludeKeeps ==
  ASSUME CampaignInv, Conclude
  PROVE  CampaignInv'
<1>c. campaign \in Controller /\ campaign.phase = "judging"
  BY DEF Conclude, Phase, CampaignInv, CampaignTypeOK, ControlTypes
<1>k. /\ campaign' \in Controller /\ campaign'.phase = "summarized" /\ campaign'.ending = campaign.ending
      /\ campaign'.stopped = campaign.stopped /\ campaign'.signalled = campaign.signalled
      /\ campaign'.told = campaign.signalled /\ campaign'.result \in {"PASSED", "FAILED"}
      /\ campaign'.result = "PASSED" => Gates
  <2>1. PICK provenance \in BOOLEAN :
          campaign' = [campaign EXCEPT !.phase = "summarized",
                                       !.result = IF Gates /\ provenance THEN "PASSED" ELSE "FAILED",
                                       !.told = campaign.signalled]
    BY DEF Conclude
  <2>2. CASE Gates /\ provenance  BY <1>c, <2>1, <2>2 DEF Controller, Phases
  <2>3. CASE ~(Gates /\ provenance)  BY <1>c, <2>1, <2>3 DEF Controller, Phases
  <2> QED BY <2>2, <2>3
<1>1. WorldTypes' /\ TaskTypes' /\ WatchTypes'
  BY DEF CampaignInv, WorldTypes, TaskTypes, WatchTypes, Conclude, CampaignTypeOK, faultVars, watchVars,
      historyVars
<1>2. BaselinesOK' /\ TaskOK' /\ ExpectedOK' /\ SeenOK'
  BY DEF CampaignInv, BaselinesOK, TaskOK, ExpectedOK, SeenOK, Conclude, Captured, Blameless, LastRead,
      faultVars, watchVars, historyVars
<1>3. ControlTypes'
  BY <1>k DEF Conclude, ControlTypes, CampaignInv, CampaignTypeOK, faultVars, watchVars, historyVars
<1>4. PhasesOK'
  BY <1>c, <1>k DEF Conclude, PhasesOK, Captured, Closing, LastPhases, CampaignInv, faultVars, watchVars,
     historyVars
<1>5. UnplannedOK'
  BY DEF CampaignInv, UnplannedOK, Conclude, InFaultOf, Phase, faultVars, watchVars, historyVars
<1>6. FaultsOK'  BY ForwardStays DEF FaultsOK, Conclude, AwaitsAudit, faultVars, watchVars, historyVars
<1>7. VerdictOK'
  <2>1. ASSUME Gates  PROVE unplanned = {} /\ ~faultOpen
    BY <1>c, <2>1 DEF Gates, CampaignInv, UnplannedOK, TaskOK, PhasesOK, LastPhases, Closing, NoTask
  <2> QED BY <1>k, <2>1 DEF Conclude, VerdictOK, Gates, CampaignInv, faultVars, watchVars, historyVars
<1> QED BY <1>1, <1>2, <1>3, <1>4, <1>5, <1>6, <1>7 DEF CampaignInv, CampaignTypeOK

\* A campaign that passed is not complete when a signal came that it does not tell of.
LEMMA CompleteKeeps ==
  ASSUME CampaignInv, Complete
  PROVE  CampaignInv'
<1>1. WorldTypes' /\ TaskTypes' /\ WatchTypes'
  BY DEF CampaignInv, WorldTypes, TaskTypes, WatchTypes, Complete, CampaignTypeOK, faultVars, watchVars,
      historyVars
<1>2. BaselinesOK' /\ SeenOK'
  BY DEF CampaignInv, BaselinesOK, SeenOK, Complete, Captured, Blameless, faultVars, watchVars,
      historyVars
<1>3. ControlTypes'
  BY DEF CampaignInv, ControlTypes, Complete, CampaignTypeOK, To, Controller, Phases, faultVars
<1>4. PhasesOK'
  BY DEF CampaignInv, PhasesOK, Complete, Phase, To, Closing, LastPhases, faultVars, watchVars
<1>5. TaskOK'  BY DEF CampaignInv, TaskOK, Complete, To, faultVars, watchVars, historyVars
<1>6. ExpectedOK'  BY DEF CampaignInv, ExpectedOK, Complete, LastRead, To, watchVars
<1>7. UnplannedOK'
  BY DEF CampaignInv, UnplannedOK, Complete, InFaultOf, Phase, To, faultVars, watchVars, historyVars
<1>8. FaultsOK'  BY ForwardStays DEF FaultsOK, Complete, AwaitsAudit, faultVars, watchVars, historyVars
<1>9. VerdictOK'  BY DEF CampaignInv, VerdictOK, Complete, To, faultVars, watchVars, historyVars
<1> QED BY <1>1, <1>2, <1>3, <1>4, <1>5, <1>6, <1>7, <1>8, <1>9 DEF CampaignInv, CampaignTypeOK

\* Nothing has happened when the campaign starts.
LEMMA CampaignStarts ==
  ASSUME CampaignInit
  PROVE  CampaignInv
<1>1. CampaignTypeOK
  <2>1. WorldTypes /\ ControlTypes
    <3>1. campaign \in Controller  BY DEF CampaignInit, Controller, Phases
    <3>2. chain \in Seq(DOMAIN Schedule)  BY DEF CampaignInit
    <3>3. WorldTypes  BY DEF CampaignInit, WorldTypes
    <3>4. armed \in BOOLEAN  BY DEF CampaignInit
    <3>5. due \in Nat \ {0}  BY DEF CampaignInit
    <3>6. ControlTypes  BY ONLY <3>1, <3>2, <3>4, <3>5 DEF ControlTypes
    <3> QED BY <3>3, <3>6
  <2>2. TaskTypes /\ WatchTypes
    BY DEF CampaignInit, TaskTypes, WatchTypes, Unknown, NoFault
  <2> QED BY <2>1, <2>2 DEF CampaignTypeOK
<1>2. ~Captured  BY DEF CampaignInit, Captured, Unknown
<1>3. PhasesOK /\ BaselinesOK /\ TaskOK
  BY <1>2, CampaignConstants
  DEF CampaignInit, PhasesOK, BaselinesOK, TaskOK, Closing, LastPhases, NoTask, Underway
<1>4. ExpectedOK /\ SeenOK /\ UnplannedOK /\ VerdictOK
  BY <1>2 DEF CampaignInit, ExpectedOK, SeenOK, UnplannedOK, VerdictOK, NoRound, Unknown
<1>5. FaultsOK
  <2> SUFFICES ASSUME NEW s \in Service  PROVE Forward(s)  BY DEF FaultsOK
  <2>1. Passed(outcome, s) = {}  BY CampaignConstants DEF CampaignInit, Passed, Faults
  <2>2. Cardinality(Passed(outcome, s)) = 0  BY <2>1, FS_EmptySet
  <2>3. ~AwaitsAudit(s)  BY DEF CampaignInit, AwaitsAudit, NoTask
  <2>4. expected[s] = 0 /\ baseline[s] = 0  BY DEF CampaignInit, Unknown
  <2> QED BY <2>2, <2>3, <2>4 DEF Forward
<1> QED BY <1>1, <1>3, <1>4, <1>5 DEF CampaignInv

\* Every step of a campaign keeps it.
LEMMA CampaignMoves ==
  ASSUME CampaignInv, [CampaignNext]_campaignVars
  PROVE  CampaignInv'
<1>1. CASE UNCHANGED campaignVars
  <2>1. CampaignTypeOK' /\ PhasesOK' /\ BaselinesOK' /\ TaskOK'
    BY <1>1 DEF CampaignInv, CampaignTypeOK, WorldTypes, ControlTypes, TaskTypes, WatchTypes, PhasesOK,
      BaselinesOK, TaskOK, Captured, campaignVars, faultVars, watchVars, historyVars
  <2>2. ExpectedOK' /\ SeenOK' /\ UnplannedOK' /\ VerdictOK'
    BY <1>1 DEF CampaignInv, ExpectedOK, SeenOK, UnplannedOK, VerdictOK, Captured, Blameless, Disturbs,
      LastRead, Phase, StillToFind, InFaultOf, campaignVars, faultVars, watchVars, historyVars
  <2>3. FaultsOK'
    BY <1>1, ForwardStays DEF AwaitsAudit, campaignVars, faultVars, watchVars, historyVars
  <2> QED BY <2>1, <2>2, <2>3 DEF CampaignInv
<1>2. CASE \E s \in Service : Restarts(s)  BY <1>2, RestartsKeeps
<1>3. CASE LoadExits \/ Signals \/ TimerFires \/ MonitorTicks
  BY <1>3, LoadExitsKeeps, SignalsKeeps, TimerFiresKeeps, MonitorTicksKeeps
<1>4. CASE TaskStep
  BY <1>4, QueueMaintenanceKeeps, RunProbesKeeps, ReadBeforeKeeps, OpenFaultKeeps, FaultActionKeeps,
     ReadAfterKeeps, CloseFaultKeeps, WaitAuditKeeps, MaintenanceFailsKeeps
  DEF TaskStep
<1>5. CASE CheckStep  BY <1>5, ObserveKeeps, JudgeGenerationKeeps DEF CheckStep
<1>6. CASE PhaseStep
  BY <1>6, StartupKeeps, WaitForWorkloadRunningKeeps, CaptureGenerationBaselinesKeeps, ScheduleTasksKeeps,
     LoadFinishedKeeps, SettleKeeps, CollectEvidenceKeeps, ConcludeKeeps, CompleteKeeps
  DEF PhaseStep
<1> QED BY <1>1, <1>2, <1>3, <1>4, <1>5, <1>6 DEF CampaignNext

\* CampaignTellsTruth: a container is blamed with reason, and a campaign that passed ran its whole
\* schedule, saw each fault restart its container, and watched no container restart by itself.
THEOREM CampaignsAreJudged == CampaignSpec => []CampaignTellsTruth
<1>1. CampaignInv => CampaignTellsTruth
  <2> SUFFICES ASSUME CampaignInv  PROVE CampaignTellsTruth  OBVIOUS
  <2>1. ASSUME campaign.result = "PASSED", NEW s \in Service
        PROVE  expected[s] >= baseline[s] + Cardinality(Faults(s))
    <3>1. Passed(outcome, s) = Faults(s)
      BY <2>1, CampaignConstants DEF CampaignInv, VerdictOK, Passed, Faults
    <3>2. expected[s] \in Nat /\ baseline[s] \in Nat /\ Cardinality(Faults(s)) \in Nat
      BY <3>1, PassedFacts DEF CampaignInv, CampaignTypeOK, TaskTypes, WatchTypes
    <3> QED BY <3>1, <3>2 DEF CampaignInv, FaultsOK, Forward
  <2>2. campaign.phase \in {"checking", "judging", "summarized", "complete"} => task = NoTask /\ chain = <<>>
    BY DEF CampaignInv, PhasesOK, LastPhases, Closing
  <2> QED BY <2>1, <2>2 DEF CampaignTellsTruth, CampaignInv, VerdictOK, Phase
<1> QED BY <1>1, CampaignStarts, CampaignMoves, PTL DEF CampaignSpec

(***************************************************************************)
(* The file provider's durability, for any number of callers and writes:   *)
(* the store file is always whole, an acknowledged write is always in it,  *)
(* and the provider implements DurableStore.                               *)
(***************************************************************************)

(***************************************************************************)
(* The inductive invariant.  AckedIsDurable alone is not inductive: when a *)
(* batch ends, what its callers wait for must be known to be in the file,  *)
(* so the invariant follows each of them from the queue into a snapshot    *)
(* and from the snapshot into the file.                                    *)
(***************************************************************************)
Quiet ==
  /\ store = 0 /\ batch = NoBatch /\ ~dirty
  /\ \A c \in Caller : calls[c].phase \in {"idle", "loading"}

\* Before the load is done nothing has touched the inner store.
OpeningInv ==
  /\ loading # "done" => Quiet
  /\ loading \in {"createWrite", "createRename"} => disk.file = Absent
  /\ loading = "createRename" => disk.tmp = 0
  /\ loading = "done" => disk.file \in Version /\ disk.file <= store

\* A snapshot lies between the file and the store; it is renamed once it is whole.
BatchInv ==
  /\ batch.stage \in {"write", "rename"} =>
       FileVersion <= batch.snapshot /\ batch.snapshot <= store
  /\ batch.stage = "rename" => disk.tmp = batch.snapshot

\* What a caller waits for is in the file, in the snapshot being written, or will be in
\* the next one.
NeedCovered(c) ==
  /\ batch.stage # "none"
  /\ \/ calls[c].needs <= FileVersion
     \/ dirty
     \/ batch.stage \in {"write", "rename"} /\ calls[c].needs <= batch.snapshot

CallInv ==
  \A c \in Caller :
    /\ calls[c].phase \in {"applied", "waiting"} => calls[c].needs <= store
    /\ calls[c].phase = "waiting" => NeedCovered(c)

FileInv ==
  /\ TypeOK /\ FileIsWhole /\ AckedIsDurable
  /\ OpeningInv /\ BatchInv /\ CallInv

\* Versions are numbers, and an empty store has one.
LEMMA VersionNat == Version \subseteq Nat /\ 0 \in Version
BY ConstantsAssumption DEF Version

\* What a restart would load is a version, whatever the file holds.
LEMMA FileVersionType == TypeOK => FileVersion \in Version
BY VersionNat DEF TypeOK, FileVersion

\* A process that never loaded, on a machine without the file, satisfies the invariant.
LEMMA FileInvInit == Init => FileInv
<1> SUFFICES ASSUME Init PROVE FileInv
  OBVIOUS
<1>1. TypeOK
  BY VersionNat DEF Init, TypeOK, NoBatch, IdleCall, Image, Loading, Batch, Call
<1>2. FileVersion = 0
  BY ConstantsAssumption DEF Init, FileVersion
<1>3. FileIsWhole /\ AckedIsDurable
  BY <1>2, ConstantsAssumption DEF Init, FileIsWhole, AckedIsDurable
<1>4. Quiet
  BY DEF Init, Quiet, IdleCall
<1>5. OpeningInv
  BY <1>4 DEF Init, OpeningInv
<1>6. BatchInv /\ CallInv
  BY <1>4 DEF BatchInv, CallInv, Quiet, NoBatch
<1> QED BY <1>1, <1>3, <1>5, <1>6 DEF FileInv

(***************************************************************************)
(* Steps of the load.                                                      *)
(***************************************************************************)
LEMMA LoadFailsInv ==
  ASSUME FileInv, NEW from \in Loading \ {"done"}, NEW to \in Loading \ {"done", "createWrite", "createRename"},
         LoadFails(from, to)
  PROVE  FileInv'
<1>1. TypeOK'
  BY VersionNat DEF FileInv, LoadFails, LoadStep, Answered, TypeOK, IdleCall, Call
<1>2. FileVersion' = FileVersion
  BY DEF LoadFails, FileVersion
<1>3. Quiet'
  BY DEF FileInv, OpeningInv, Quiet, LoadFails, LoadStep, Answered, IdleCall, NoBatch, TypeOK
<1>4. FileIsWhole' /\ AckedIsDurable' /\ OpeningInv'
  BY <1>2, <1>3 DEF FileInv, FileIsWhole, AckedIsDurable, OpeningInv, LoadFails, LoadStep
<1>5. BatchInv' /\ CallInv'
  BY <1>3 DEF BatchInv, CallInv, Quiet, NoBatch
<1> QED BY <1>1, <1>4, <1>5 DEF FileInv

\* Every step of load() keeps the invariant: its own persist cannot overlap a batch.
LEMMA OpeningInvStep == ASSUME FileInv, LoadSteps PROVE FileInv'
<1>1. CASE MkdirLands \/ AccessLands
  <2>1. TypeOK' /\ FileVersion' = FileVersion
    BY <1>1 DEF FileInv, TypeOK, MkdirLands, AccessLands, LoadStep, Loading, FileVersion
  <2>2. Quiet'
    BY <1>1 DEF FileInv, OpeningInv, Quiet, MkdirLands, AccessLands, LoadStep, NoBatch
  <2>3. FileIsWhole' /\ AckedIsDurable' /\ OpeningInv'
    BY <1>1, <2>1, <2>2
       DEF FileInv, FileIsWhole, AckedIsDurable, OpeningInv, MkdirLands, AccessLands, LoadStep
  <2>4. BatchInv' /\ CallInv'
    BY <2>2 DEF BatchInv, CallInv, Quiet, NoBatch
  <2> QED BY <2>1, <2>3, <2>4 DEF FileInv
<1>2. CASE ReadLands
  <2>1. TypeOK' /\ FileVersion' = FileVersion
    BY <1>2 DEF FileInv, TypeOK, ReadLands, LoadStep, Loading, FileVersion, Loaded
  <2>2. Quiet
    BY <1>2 DEF FileInv, OpeningInv, ReadLands, LoadStep
  <2>3. FileIsWhole' /\ AckedIsDurable'
    BY <1>2, <2>1 DEF FileInv, FileIsWhole, AckedIsDurable, ReadLands
  <2>4. OpeningInv'
    <3>1. disk'.file \in Version /\ disk'.file <= store' /\ loading' = "done"
      <4>0. disk.file \in Version
        BY <1>2 DEF ReadLands
      <4>1. disk.file \in Nat
        BY <4>0, VersionNat
      <4>2. disk.file <= disk.file
        BY <4>1
      <4> QED BY <1>2, <4>0, <4>2 DEF ReadLands, LoadStep, Loaded
    <3> QED BY <3>1 DEF OpeningInv
  <2>5. BatchInv' /\ CallInv'
    BY <1>2, <2>2 DEF BatchInv, CallInv, Quiet, ReadLands, NoBatch
  <2> QED BY <2>1, <2>3, <2>4, <2>5 DEF FileInv
<1>3. CASE ReadMissing \/ CreateWritten
  <2>1. Quiet /\ store = 0 /\ disk.file = Absent
    BY <1>3 DEF FileInv, OpeningInv, Quiet, ReadMissing, CreateWritten, LoadStep
  <2>2. disk' \in [file: Image, tmp: Image] /\ disk'.file = disk.file
    BY <1>3, <2>1, VersionNat
       DEF FileInv, TypeOK, ReadMissing, CreateWritten, WriteBegins, WriteEnds, Image
  <2>3. TypeOK' /\ FileVersion' = FileVersion
    BY <1>3, <2>2 DEF FileInv, TypeOK, ReadMissing, CreateWritten, LoadStep, Loading, FileVersion
  <2>4. Quiet'
    BY <1>3, <2>1 DEF Quiet, ReadMissing, CreateWritten, NoBatch
  <2>5. FileIsWhole' /\ AckedIsDurable'
    BY <1>3, <2>2, <2>3 DEF FileInv, FileIsWhole, AckedIsDurable, ReadMissing, CreateWritten
  <2>6. OpeningInv'
    BY <1>3, <2>1, <2>2, <2>4
       DEF FileInv, TypeOK, OpeningInv, ReadMissing, CreateWritten, LoadStep, WriteEnds
  <2>7. BatchInv' /\ CallInv'
    BY <2>4 DEF BatchInv, CallInv, Quiet, NoBatch
  <2> QED BY <2>3, <2>5, <2>6, <2>7 DEF FileInv
<1>4. CASE CreateRenamed
  <2>1. Quiet /\ disk.file = Absent /\ disk.tmp = 0
    BY <1>4 DEF FileInv, OpeningInv, CreateRenamed, LoadStep
  <2>2. disk' = [file |-> 0, tmp |-> Absent]
    BY <1>4, <2>1 DEF CreateRenamed, Renamed
  <2>3. FileVersion' = 0 /\ FileVersion = 0
    BY <2>1, <2>2, VersionNat, ConstantsAssumption DEF FileVersion
  <2>4. TypeOK'
    BY <1>4, <2>2, VersionNat DEF FileInv, TypeOK, CreateRenamed, LoadStep, Loading, Image
  <2>5. FileIsWhole' /\ AckedIsDurable'
    BY <1>4, <2>2, <2>3, VersionNat, ConstantsAssumption
       DEF FileInv, FileIsWhole, AckedIsDurable, CreateRenamed
  <2>6. OpeningInv'
    BY <1>4, <2>1, <2>2, VersionNat DEF OpeningInv, CreateRenamed, LoadStep, Quiet
  <2>7. BatchInv' /\ CallInv'
    BY <1>4, <2>1 DEF BatchInv, CallInv, Quiet, CreateRenamed, NoBatch
  <2> QED BY <2>4, <2>5, <2>6, <2>7 DEF FileInv
<1>5. CASE MkdirFails \/ AccessFails \/ ReadFails \/ CreateFails
  BY <1>5, LoadFailsInv DEF MkdirFails, AccessFails, ReadFails, CreateFails, Loading
<1> QED BY <1>1, <1>2, <1>3, <1>4, <1>5 DEF LoadSteps

(***************************************************************************)
(* Steps of the batch.                                                     *)
(***************************************************************************)
\* A batch runs only over a loaded store.
LEMMA BatchLoaded == ASSUME FileInv, batch.stage # "none" PROVE loading = "done"
BY DEF FileInv, OpeningInv, Quiet, NoBatch

\* Every step of queuePersist()'s loop keeps the invariant.
LEMMA BatchInvStep == ASSUME FileInv, BatchSteps PROVE FileInv'
<1>0. /\ TypeOK /\ store \in Nat /\ FileVersion \in Nat /\ batch.snapshot \in Nat
      /\ \A c \in Caller : calls[c] \in Call /\ calls[c].needs \in Nat
  BY VersionNat, FileVersionType DEF FileInv, TypeOK, Batch, Call
<1>1. CASE SnapshotTaken
  <2>1. loading = "done" /\ disk.file \in Version /\ disk.file <= store
    BY <1>1, BatchLoaded DEF SnapshotTaken, FileInv, OpeningInv
  <2>2. disk' \in [file: Image, tmp: Image] /\ disk'.file = disk.file
    BY <1>0, <1>1 DEF SnapshotTaken, WriteBegins, TypeOK, Image
  <2>3. TypeOK'
    BY <1>0, <1>1, <2>2 DEF SnapshotTaken, TypeOK, Batch
  <2>4. FileVersion' = FileVersion /\ FileVersion = disk.file
    BY <2>1, <2>2 DEF FileVersion
  <2>5. FileIsWhole' /\ AckedIsDurable' /\ OpeningInv'
    BY <1>1, <2>1, <2>2, <2>4 DEF SnapshotTaken, FileInv, FileIsWhole, AckedIsDurable, OpeningInv
  <2>6. BatchInv'
    BY <1>0, <1>1, <2>1, <2>4 DEF SnapshotTaken, BatchInv
  <2>7. CallInv'
    BY <1>0, <1>1, <2>4 DEF SnapshotTaken, FileInv, CallInv, NeedCovered
  <2> QED BY <2>3, <2>5, <2>6, <2>7 DEF FileInv
<1>2. CASE SnapshotWritten
  <2>1. loading = "done" /\ disk.file \in Version /\ disk.file <= store
    BY <1>2, BatchLoaded DEF SnapshotWritten, FileInv, OpeningInv
  <2>2. /\ disk' \in [file: Image, tmp: Image]
        /\ disk'.file = disk.file /\ disk'.tmp = batch.snapshot
    BY <1>0, <1>2 DEF SnapshotWritten, WriteEnds, TypeOK, Image, Batch
  <2>3. /\ batch' \in Batch /\ batch'.stage = "rename"
        /\ batch'.snapshot = batch.snapshot
    BY <1>0, <1>2 DEF SnapshotWritten, TypeOK, Batch
  <2>4. TypeOK'
    BY <1>0, <1>2, <2>2, <2>3 DEF SnapshotWritten, TypeOK
  <2>5. FileVersion' = FileVersion
    BY <2>2 DEF FileVersion
  <2>6. FileIsWhole' /\ AckedIsDurable' /\ OpeningInv'
    BY <1>2, <2>1, <2>2, <2>5 DEF SnapshotWritten, FileInv, FileIsWhole, AckedIsDurable, OpeningInv
  <2>7. BatchInv'
    BY <1>2, <2>2, <2>3, <2>5 DEF SnapshotWritten, FileInv, BatchInv
  <2>8. CallInv'
    BY <1>0, <1>2, <2>3, <2>5 DEF SnapshotWritten, FileInv, CallInv, NeedCovered
  <2> QED BY <2>4, <2>6, <2>7, <2>8 DEF FileInv
<1>3. CASE SnapshotRenamed
  <2>1. loading = "done" /\ disk.file \in Version /\ disk.file <= store
    BY <1>3, BatchLoaded DEF SnapshotRenamed, FileInv, OpeningInv
  <2>2. /\ disk' = [file |-> batch.snapshot, tmp |-> Absent]
        /\ batch.snapshot \in Version /\ batch.snapshot <= store
        /\ FileVersion <= batch.snapshot
    BY <1>0, <1>3 DEF SnapshotRenamed, Renamed, FileInv, BatchInv, TypeOK, Batch
  <2>3. /\ batch' \in Batch /\ batch'.stage = "check" /\ batch'.snapshot = batch.snapshot
    BY <1>0, <1>3 DEF SnapshotRenamed, TypeOK, Batch
  <2>4. TypeOK'
    BY <1>0, <1>3, <2>2, <2>3 DEF SnapshotRenamed, TypeOK, Image
  <2>5. FileVersion' = batch.snapshot
    BY <2>2 DEF FileVersion
  <2>6. FileIsWhole' /\ AckedIsDurable' /\ OpeningInv'
    BY <1>0, <1>3, <2>1, <2>2, <2>5, VersionNat, ConstantsAssumption
       DEF SnapshotRenamed, FileInv, FileIsWhole, AckedIsDurable, OpeningInv, TypeOK
  <2>7. BatchInv'
    BY <2>3 DEF BatchInv
  <2>8. CallInv'
    BY <1>0, <1>3, <2>2, <2>3, <2>5 DEF SnapshotRenamed, FileInv, CallInv, NeedCovered
  <2> QED BY <2>4, <2>6, <2>7, <2>8 DEF FileInv
<1>4. CASE PersistFails
  <2>1. loading = "done"
    BY <1>4, BatchLoaded DEF PersistFails
  <2>2. FileVersion' = FileVersion /\ batch'.stage = "none"
    BY <1>4 DEF PersistFails, FileVersion, NoBatch
  <2>3. TypeOK'
    BY <1>0, <1>4, VersionNat DEF PersistFails, TypeOK, NoBatch, Batch, Answered, IdleCall, Call
  <2>4. FileIsWhole' /\ AckedIsDurable' /\ OpeningInv' /\ BatchInv'
    BY <1>4, <2>1, <2>2 DEF PersistFails, FileInv, FileIsWhole, AckedIsDurable, OpeningInv, BatchInv
  <2>5. CallInv'
    BY <1>4 DEF PersistFails, FileInv, CallInv, Answered, IdleCall, TypeOK
  <2> QED BY <2>3, <2>4, <2>5 DEF FileInv
<1>5. CASE BatchEnds
  <2>1. loading = "done"
    BY <1>5, BatchLoaded DEF BatchEnds, BatchMayEnd
  <2>2. FileVersion' = FileVersion /\ batch'.stage = "none"
    BY <1>5 DEF BatchEnds, FileVersion, NoBatch
  <2>3. acked' \in Version /\ acked' <= FileVersion
    BY <1>0, <1>5 DEF BatchEnds, BatchMayEnd, LatestNeed, In, FileInv, AckedIsDurable, CallInv, NeedCovered
  <2>4. TypeOK'
    BY <1>0, <1>5, <2>3, VersionNat
       DEF BatchEnds, TypeOK, NoBatch, Batch, Answered, IdleCall, Call
  <2>5. FileIsWhole' /\ AckedIsDurable' /\ OpeningInv' /\ BatchInv'
    BY <1>5, <2>1, <2>2, <2>3 DEF BatchEnds, FileInv, FileIsWhole, AckedIsDurable, OpeningInv, BatchInv
  <2>6. CallInv'
    BY <1>5 DEF BatchEnds, FileInv, CallInv, Answered, IdleCall, TypeOK
  <2> QED BY <2>4, <2>5, <2>6 DEF FileInv
<1> QED BY <1>1, <1>2, <1>3, <1>4, <1>5 DEF BatchSteps

(***************************************************************************)
(* Steps of a caller, and the crash.                                       *)
(***************************************************************************)
LEMMA CallInvStep == ASSUME FileInv, NEW c \in Caller, CallSteps(c) PROVE FileInv'
<1>0. /\ TypeOK /\ store \in Nat /\ FileVersion \in Nat /\ batch.snapshot \in Nat
      /\ \A d \in Caller : calls[d] \in Call /\ calls[d].needs \in Nat
  BY VersionNat, FileVersionType DEF FileInv, TypeOK, Batch, Call
<1>1. FileVersion' = FileVersion /\ UNCHANGED <<disk, acked>>
  BY DEF CallSteps, Begin, Apply, Reject, QueuePersist, Flush, FileVersion
<1>2. FileIsWhole' /\ AckedIsDurable'
  BY <1>1 DEF FileInv, FileIsWhole, AckedIsDurable
<1>3. CASE Begin(c)
  <2>1. TypeOK'
    BY <1>0, <1>3, VersionNat DEF Begin, TypeOK, Loading, Call
  <2>2. OpeningInv'
    <3>1. Quiet => Quiet'
      BY <1>0, <1>3 DEF Begin, Quiet, TypeOK, NoBatch
    <3>2. loading' \in {loading, "mkdir"} /\ (loading' = "mkdir" => loading # "done")
      BY <1>3 DEF Begin
    <3> QED BY <1>1, <1>3, <3>1, <3>2 DEF Begin, FileInv, OpeningInv
  <2>3. BatchInv'
    BY <1>1, <1>3 DEF Begin, FileInv, BatchInv
  <2>4. CallInv'
    BY <1>0, <1>1, <1>3 DEF Begin, FileInv, CallInv, NeedCovered, TypeOK
  <2> QED BY <1>2, <2>1, <2>2, <2>3, <2>4 DEF FileInv
<1>4. CASE Apply(c)
  <2>1. store' = store + 1 /\ store' \in Version
    BY <1>0, <1>4, ConstantsAssumption DEF Apply, TypeOK, Version
  <2>2. TypeOK'
    BY <1>0, <1>4, <2>1 DEF Apply, TypeOK, Call
  <2>3. OpeningInv'
    <3>1. disk.file \in Version /\ disk.file \in Nat /\ disk.file <= store
      BY <1>4, VersionNat DEF Apply, FileInv, OpeningInv
    <3>2. disk.file <= store + 1
      BY <1>0, <3>1
    <3>3. loading' = "done" /\ disk'.file = disk.file
      BY <1>1, <1>4 DEF Apply
    <3> QED BY <2>1, <3>1, <3>2, <3>3 DEF OpeningInv
  <2>4. BatchInv'
    BY <1>0, <1>1, <1>4, <2>1 DEF Apply, FileInv, BatchInv
  <2>5. CallInv'
    BY <1>0, <1>1, <1>4, <2>1 DEF Apply, FileInv, CallInv, NeedCovered, TypeOK
  <2> QED BY <1>2, <2>2, <2>3, <2>4, <2>5 DEF FileInv
<1>5. CASE Reject(c)
  <2>1. TypeOK'
    BY <1>0, <1>5, VersionNat DEF Reject, TypeOK, Call, IdleCall
  <2>2. OpeningInv' /\ BatchInv'
    BY <1>1, <1>5 DEF Reject, FileInv, OpeningInv, BatchInv
  <2>3. CallInv'
    BY <1>0, <1>1, <1>5 DEF Reject, FileInv, CallInv, NeedCovered, TypeOK, IdleCall
  <2> QED BY <1>2, <2>1, <2>2, <2>3 DEF FileInv
<1>6. CASE QueuePersist(c)
  <2>1. loading = "done"
    BY <1>6 DEF QueuePersist, FileInv, OpeningInv, Quiet
  <2>2. /\ batch' \in Batch /\ batch'.snapshot = batch.snapshot /\ batch'.stage # "none"
        /\ batch'.stage \in {"write", "rename"} => batch'.stage = batch.stage
    BY <1>0, <1>6 DEF QueuePersist, Joined, TypeOK, Batch
  <2>3. TypeOK'
    BY <1>0, <1>6, <2>2 DEF QueuePersist, TypeOK, Call
  <2>4. OpeningInv'
    BY <1>6, <2>1 DEF QueuePersist, FileInv, OpeningInv
  <2>5. BatchInv'
    BY <1>1, <1>6, <2>2 DEF QueuePersist, FileInv, BatchInv
  <2>6. CallInv'
    BY <1>0, <1>6, <2>2 DEF QueuePersist, FileInv, CallInv, NeedCovered, TypeOK, Call
  <2> QED BY <1>2, <2>3, <2>4, <2>5, <2>6 DEF FileInv
<1>7. CASE Flush(c)
  <2>1. PICK w \in Caller : /\ calls[w].phase = "waiting"
                            /\ calls' = [calls EXCEPT ![c] = [phase |-> "waiting",
                                                              needs |-> calls[w].needs]]
    BY <1>7 DEF Flush, In
  <2>2. loading = "done"
    BY <1>7, BatchLoaded DEF Flush
  <2>3. TypeOK'
    BY <1>0, <1>7, <2>1 DEF Flush, TypeOK, Call
  <2>4. OpeningInv' /\ BatchInv'
    BY <1>1, <1>7, <2>2 DEF Flush, FileInv, OpeningInv, BatchInv
  <2>5. CallInv'
    BY <1>0, <1>1, <1>7, <2>1 DEF Flush, FileInv, CallInv, NeedCovered, TypeOK
  <2> QED BY <1>2, <2>3, <2>4, <2>5 DEF FileInv
<1> QED BY <1>3, <1>4, <1>5, <1>6, <1>7 DEF CallSteps

\* A crash keeps the invariant: it forgets memory and leaves the disk alone.
LEMMA CrashInv == ASSUME FileInv, Crash PROVE FileInv'
<1>1. FileVersion' = FileVersion
  BY DEF Crash, FileVersion
<1>2. TypeOK'
  BY VersionNat DEF FileInv, Crash, TypeOK, NoBatch, Batch, Loading, IdleCall, Call
<1>3. Quiet'
  BY DEF Crash, Quiet, NoBatch, IdleCall
<1>4. FileIsWhole' /\ AckedIsDurable' /\ OpeningInv'
  BY <1>1, <1>3 DEF FileInv, Crash, FileIsWhole, AckedIsDurable, OpeningInv
<1>5. BatchInv' /\ CallInv'
  BY <1>3 DEF BatchInv, CallInv, Quiet, NoBatch
<1> QED BY <1>2, <1>4, <1>5 DEF FileInv

\* Every step of the provider keeps the invariant.
LEMMA FileInvStep == FileInv /\ [Next]_vars => FileInv'
<1> SUFFICES ASSUME FileInv, [Next]_vars PROVE FileInv'
  OBVIOUS
<1>1. CASE UNCHANGED vars
  BY <1>1 DEF vars, FileInv, TypeOK, FileIsWhole, AckedIsDurable, OpeningInv, BatchInv, CallInv,
              Quiet, NeedCovered, FileVersion
<1> QED BY <1>1, OpeningInvStep, BatchInvStep, CallInvStep, CrashInv DEF Next

\* The invariant holds in every reachable state.
LEMMA FileInvHolds == Spec => []FileInv
BY FileInvInit, FileInvStep, PTL DEF Spec

\* A write whose caller was told it is stored is in the file from then on, through
\* coalesced batches, failed writes, crashes and restarts.
THEOREM AckedWritesSurvive == Spec => []AckedIsDurable
<1>1. FileInv => AckedIsDurable
  BY DEF FileInv
<1> QED BY <1>1, FileInvHolds, PTL

\* The store file is never partly written, so a restart never finds an unreadable store.
THEOREM StoreFileIsWhole == Spec => []FileIsWhole
<1>1. FileInv => FileIsWhole
  BY DEF FileInv
<1> QED BY <1>1, FileInvHolds, PTL

(***************************************************************************)
(* Refinement: every step of the provider is a step of DurableStore or     *)
(* changes nothing it speaks of.                                           *)
(***************************************************************************)
Held == IF loading = "done" THEN store ELSE FileVersion

\* The provider starts where DurableStore starts.
LEMMA DurableInit == Init => Durable!Init
BY ConstantsAssumption, VersionNat DEF Init, Durable!Init, FileVersion

\* A step of the provider is a write, a persist, an acknowledgement, a restart or nothing.
LEMMA DurableStep == FileInv /\ [Next]_vars => [Durable!Next]_<<Held, FileVersion, acked>>
<1> SUFFICES ASSUME FileInv, [Next]_vars
             PROVE  [Durable!Next]_<<Held, FileVersion, acked>>
  OBVIOUS
<1>0. /\ TypeOK /\ store \in Nat /\ acked \in Nat
      /\ FileVersion \in Nat /\ batch.snapshot \in Nat
  BY VersionNat, FileVersionType DEF FileInv, TypeOK, Batch
<1>1. CASE LoadSteps
  <2>1. CASE CreateRenamed
    BY <2>1, VersionNat, ConstantsAssumption
       DEF CreateRenamed, LoadStep, Renamed, FileInv, OpeningInv, Quiet, Held, FileVersion
  <2>2. CASE ReadLands
    BY <2>2 DEF ReadLands, LoadStep, Loaded, Held, FileVersion
  <2>3. CASE LoadSteps /\ ~CreateRenamed /\ ~ReadLands
    <3>1. loading # "done" /\ loading' # "done" /\ UNCHANGED acked
      BY <2>3 DEF LoadSteps, MkdirLands, MkdirFails, AccessLands, AccessFails, ReadMissing,
                  ReadFails, CreateWritten, CreateFails, LoadFails, LoadStep
    <3>2. disk'.file = disk.file
      BY <1>0, <2>3 DEF LoadSteps, MkdirLands, MkdirFails, AccessLands, AccessFails,
                  ReadMissing, ReadFails, CreateWritten, CreateFails, LoadFails, LoadStep,
                  WriteBegins, WriteEnds, TypeOK
    <3> QED BY <3>1, <3>2 DEF Held, FileVersion
  <2> QED BY <1>1, <2>1, <2>2, <2>3
<1>2. CASE BatchSteps
  <2>0. loading = "done" /\ UNCHANGED <<loading, store>>
    BY <1>2, BatchLoaded
       DEF BatchSteps, SnapshotTaken, SnapshotWritten, SnapshotRenamed, PersistFails,
           BatchEnds, BatchMayEnd
  <2>1. CASE SnapshotTaken \/ SnapshotWritten
    <3>1. disk'.file = disk.file
      BY <1>0, <2>1 DEF SnapshotTaken, SnapshotWritten, WriteBegins, WriteEnds, TypeOK
    <3> QED BY <2>0, <2>1, <3>1 DEF SnapshotTaken, SnapshotWritten, Held, FileVersion
  <2>2. CASE SnapshotRenamed
    <3>1. /\ FileVersion' = batch.snapshot
          /\ FileVersion <= batch.snapshot /\ batch.snapshot <= store
      BY <1>0, <2>2 DEF SnapshotRenamed, Renamed, FileInv, BatchInv, FileVersion, TypeOK, Batch
    <3>2. Durable!Persist
      BY <1>0, <2>0, <2>2, <3>1 DEF Durable!Persist, SnapshotRenamed
    <3> QED BY <3>2 DEF Durable!Next
  <2>3. CASE PersistFails
    BY <2>0, <2>3 DEF PersistFails, Held, FileVersion
  <2>4. CASE BatchEnds
    <3>1. acked <= acked' /\ acked' \in Nat
      BY <1>0, <2>4, VersionNat DEF BatchEnds, LatestNeed
    <3>2. FileVersion' = FileVersion
      BY <2>4 DEF BatchEnds, FileVersion
    <3>3. acked' <= FileVersion
      BY <1>2, <3>2, BatchInvStep DEF FileInv, AckedIsDurable
    <3>4. Durable!Acknowledge
      BY <1>0, <2>0, <3>1, <3>2, <3>3 DEF Durable!Acknowledge
    <3> QED BY <3>4 DEF Durable!Next
  <2> QED BY <1>2, <2>1, <2>2, <2>3, <2>4 DEF BatchSteps
<1>3. CASE Crash
  <2>1. Durable!Restart
    BY <1>3 DEF Crash, Durable!Restart, FileVersion
  <2> QED BY <2>1 DEF Durable!Next
<1>4. ASSUME NEW c \in Caller, CallSteps(c)
      PROVE  [Durable!Next]_<<Held, FileVersion, acked>>
  <2>1. CASE Apply(c)
    <3>1. Durable!Write
      BY <2>1 DEF Apply, Durable!Write, FileVersion
    <3> QED BY <3>1 DEF Durable!Next
  <2>2. CASE Begin(c)
    BY <2>2 DEF Begin, Held, FileVersion
  <2>3. CASE Reject(c) \/ QueuePersist(c) \/ Flush(c)
    BY <2>3 DEF Reject, QueuePersist, Flush, Held, FileVersion
  <2> QED BY <1>4, <2>1, <2>2, <2>3 DEF CallSteps
<1>5. CASE UNCHANGED vars
  BY <1>5 DEF vars, Held, FileVersion
<1> QED BY <1>1, <1>2, <1>3, <1>4, <1>5 DEF Next

\* The file provider implements DurableStore: what it acknowledges survives, and what a
\* restart brings back is a state the store has been in.
THEOREM FileProviderIsDurable == Spec => ImplementsDurableStore
BY DurableInit, DurableStep, FileInvHolds, PTL DEF Spec, ImplementsDurableStore, Durable!Spec, Held
=============================================================================
