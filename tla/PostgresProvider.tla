-------------------------- MODULE PostgresProvider --------------------------
(***************************************************************************)
(* The Postgres provider's writes (src/providers/postgres-provider.ts): the *)
(* statements of concurrent READ COMMITTED transactions over one table,    *)
(* from any number of processes.                                           *)
(*                                                                         *)
(* An action is one statement.  A statement that reads sees what is        *)
(* committed and its own transaction's rows; one that writes or locks a    *)
(* row waits for the transaction that has it and then looks at the row     *)
(* again.  A unique index makes an insert wait for any transaction that    *)
(* has written a row with the same key.  now() is the time the transaction *)
(* began.                                                                  *)
(*                                                                         *)
(* All rows have one owner: a call whose scope or ownership guard does not *)
(* match changes nothing.  hideExpiredOnRead and embedOnIngest have their  *)
(* default, true.                                                          *)
(***************************************************************************)
EXTENDS ExactStore

CONSTANTS
  Session,   \* connections that may have a call in progress
  Op,        \* operations of this instance
  Rank,      \* [Id -> Nat]: the order of ids as strings
  Batches,   \* batches ingest() may be given: functions from ids to candidates
  MaxTime    \* bound on the clock

VARIABLES
  calls,   \* the call each session has in progress
  own,     \* rows written by each session's open transaction
  locked   \* rows it has locked, the written ones included

tvars == <<rows, now, calls, own, locked>>

ASSUME ProviderConstants ==
  /\ Batches \subseteq [Id -> Row \cup {None}]
  /\ MaxTime \in Nat

MaxAttempts == 3

NoRows == [i \in Id |-> None]

(***************************************************************************)
(* Calls.  `at` is the statement to run next.                              *)
(***************************************************************************)
Stage == {"begin", "archive", "lock", "insert", "write", "touch", "sweep", "commit"}

Idle == [op |-> "idle"]

Call == [op: {"observe", "correct", "ingest", "feedback", "compact"},
         id: Id \cup {None},      \* the row a correction or a feedback names
         batch: Rows,             \* ingest(): candidates by id; compact(): what is due
         rec: Row \cup {None},    \* the candidate or replacement
         todo: SUBSET Id,         \* rows still to write, or to sweep
         at: Stage, start: Nat, attempt: 1 .. MaxAttempts]

RowsTypeOK ==
  /\ rows \in Rows
  /\ now \in Nat
  /\ calls \in [Session -> Call \cup {Idle}]
  /\ own \in [Session -> Rows]
  /\ locked \in [Session -> SUBSET Id]

At(s, stage) == calls[s].op # "idle" /\ calls[s].at = stage

NewRow(t, d, at) ==
  [content |-> t, decay |-> d, createdAt |-> at, seenAt |-> at, status |-> "active",
   by |-> None, history |-> {}, vector |-> None]

NewCall(op) ==
  [op |-> op, id |-> None, batch |-> NoRows, rec |-> None, todo |-> {}, at |-> "begin",
   start |-> now, attempt |-> 1]

(***************************************************************************)
(* What a statement sees, and whom it waits for.                           *)
(***************************************************************************)
View(s) == [i \in Id |-> IF own[s][i] # None THEN own[s][i] ELSE rows[i]]

Others(s) == Session \ {s}
LockersOf(s, i) == {t \in Others(s) : i \in locked[t]}

NoWriters(s, k) == {}  \* mutant: no unique index
\* An index entry of an open transaction: the row's old key as well as its new one.
WritersOf(s, k) ==
  {t \in Others(s) : \E i \in Id : own[t][i] # None /\ (HasKey(rows[i], k) \/ HasKey(own[t][i], k))}

Holder(s, k) == {i \in Id : HasKey(View(s)[i], k)}

\* ON CONFLICT DO UPDATE also locks the row it finds.
IgnoresPending(s, k) == {}  \* mutant: an arbiter that sees committed rows only
Arbiters(s, k) == WritersOf(s, k) \cup UNION {LockersOf(s, i) : i \in Holder(s, k)}

\* archiveExpiredExactDuplicates(): rows in the way of the incoming ones, not their own.
Incoming(s) ==
  IF calls[s].op = "ingest"
  THEN {Key(calls[s].batch[i]) : i \in {j \in Id : Active(calls[s].batch[j])}}
  ELSE {Key(calls[s].rec)}

ExpiredDuplicates(s) ==
  {i \in Id : \E k \in Incoming(s) : /\ HasKey(View(s)[i], k)
                                     /\ Expired(View(s)[i], calls[s].start)
                                     /\ calls[s].batch[i] = None}

FirstOfAny(S) == S  \* mutant: the batch is written in the caller's order
First(S) == {i \in S : \A j \in S : Rank[i] <= Rank[j]}

\* The row a statement over several is at: the one it has locked, or the next.
NextRows(s) ==
  LET first == First(calls[s].todo) IN
  IF first \cap locked[s] = {} THEN first ELSE first \cap locked[s]

\* An upsert waits for its id first, and then for its key.
RowWaitsFor(s, i) ==
  IF i \notin locked[s] THEN LockersOf(s, i)
  ELSE IF Active(calls[s].batch[i]) THEN WritersOf(s, Key(calls[s].batch[i])) ELSE {}

\* SELECT ... FOR UPDATE of the memory to correct.
Correctable(s) ==
  LET r == View(s)[calls[s].id] IN Active(r) /\ ~Expired(r, calls[s].start)

WaitsFor(s) ==
  CASE At(s, "archive") -> UNION {LockersOf(s, i) : i \in ExpiredDuplicates(s)}
    [] At(s, "lock") -> IF Correctable(s) THEN LockersOf(s, calls[s].id) ELSE {}
    [] At(s, "insert") -> Arbiters(s, Key(calls[s].rec))
    [] At(s, "write") -> UNION {RowWaitsFor(s, i) : i \in NextRows(s)}
    [] At(s, "touch") -> LockersOf(s, calls[s].id)
    [] At(s, "sweep") -> UNION {LockersOf(s, i) : i \in NextRows(s)}
    [] OTHER -> {}

(***************************************************************************)
(* Calls begin; the embedder ran before the transaction, or failed.        *)
(***************************************************************************)
Starts(s, call) ==
  /\ calls[s].op = "idle" /\ call.op \in Op
  /\ calls' = [calls EXCEPT ![s] = call]
  /\ UNCHANGED <<rows, now, own, locked>>

Observe(s, t, d) == Starts(s, [NewCall("observe") EXCEPT !.rec = NewRow(t, d, now)])

\* The service built the replacement from the memory it read, in this locus.
Correct(s, i, t, d) ==
  Starts(s, [NewCall("correct") EXCEPT !.id = i, !.rec = [NewRow(t, d, now) EXCEPT !.history = {i}]])

Ingest(s, b) ==
  LET dated == [i \in Id |-> IF b[i] = None THEN None
                             ELSE [b[i] EXCEPT !.createdAt = now, !.seenAt = now]] IN
  Starts(s, [NewCall("ingest") EXCEPT !.batch = dated, !.todo = {i \in Id : b[i] # None}])

Feedback(s, i) == Starts(s, [NewCall("feedback") EXCEPT !.id = i])
Compact(s) == Starts(s, NewCall("compact"))

Runs(s, stage) ==
  /\ At(s, stage) /\ WaitsFor(s) = {}
  /\ UNCHANGED now

\* The same for one row of a statement over several.
RunsRow(s, stage, i) ==
  /\ At(s, stage) /\ i \in NextRows(s)
  /\ (IF stage = "write" THEN RowWaitsFor(s, i) ELSE LockersOf(s, i)) = {}
  /\ UNCHANGED now

Goes(s, stage) == calls' = [calls EXCEPT ![s].at = stage]

Locks(s, S) == locked' = [locked EXCEPT ![s] = @ \cup S]

Writes(s, i, r) == own' = [own EXCEPT ![s][i] = r]

Ends(s) ==
  /\ own' = [own EXCEPT ![s] = NoRows]
  /\ locked' = [locked EXCEPT ![s] = {}]

KeepsLocks(s) == own' = [own EXCEPT ![s] = NoRows] /\ UNCHANGED locked  \* mutant: no ROLLBACK
RollsBack(s) == Ends(s)

\* The call is answered without a commit: an error, or null.
GivesUp(s) == calls' = [calls EXCEPT ![s] = Idle] /\ RollsBack(s) /\ UNCHANGED rows

Due ==
  [i \in Id |-> IF \/ rows[i] # None /\ rows[i].status = "superseded"
                   \/ Active(rows[i]) /\ Expired(rows[i], now)
                THEN rows[i] ELSE None]

Begin(s) ==
  /\ At(s, "begin")
  /\ LET op == calls[s].op IN calls' = [calls EXCEPT
          ![s].at = CASE op \in {"observe", "ingest"} -> "archive"
                      [] op = "correct" -> "lock"
                      [] op = "feedback" -> "touch"
                      [] OTHER -> "sweep",
          ![s].batch = IF op = "compact" THEN Due ELSE @,
          ![s].todo = IF op = "compact" THEN {i \in Id : Due[i] # None} ELSE @,
          ![s].start = now]
  /\ UNCHANGED <<rows, now, own, locked>>

(***************************************************************************)
(* Statements.                                                             *)
(***************************************************************************)
Archive(s) ==
  LET targets == ExpiredDuplicates(s) IN
  /\ Runs(s, "archive")
  /\ own' = [own EXCEPT ![s] = [i \in Id |-> IF i \in targets
                                             THEN [View(s)[i] EXCEPT !.status = "archived"]
                                             ELSE @[i]]]
  /\ Locks(s, targets)
  /\ Goes(s, IF calls[s].op = "ingest" THEN "write" ELSE "insert")
  /\ UNCHANGED rows

LockPrevious(s) ==
  /\ Runs(s, "lock")
  /\ IF Correctable(s) /\ Key(View(s)[calls[s].id]) # Key(calls[s].rec)
     THEN /\ Locks(s, {calls[s].id})
          /\ Goes(s, "archive")
          /\ UNCHANGED <<rows, own>>
     ELSE GivesUp(s)

Later(a, b) == IF a < b THEN b ELSE a

\* ON CONFLICT DO UPDATE: the row the key belongs to, after the incoming one.
Reinforced(old, r) == [old EXCEPT !.seenAt = Later(@, r.seenAt)]
ReplacedHistory(old, r) ==  \* mutant: the incoming metadata wins
  [Reinforced(old, r) EXCEPT !.decay = r.decay, !.history = r.history]
Replaced(old, r) ==
  [Reinforced(old, r) EXCEPT !.decay = r.decay, !.history = @ \cup r.history]

\* A fresh uuid: no row, committed or not, has it.
Fresh(i) == rows[i] = None /\ \A t \in Session : i \notin locked[t]

EmbedsWinner(old, r, merged) ==  \* mutant: the candidate's vector, whoever won
  [merged EXCEPT !.vector = r.content]
EmbedsCreated(old, r, merged) ==
  IF old = None THEN [merged EXCEPT !.vector = r.content] ELSE merged

\* INSERT ... ON CONFLICT DO UPDATE of r, which `saved` takes in.
Saves(s, r, saved) ==
  LET holder == Holder(s, Key(r)) IN IF holder = {} THEN Fresh(saved) ELSE saved \in holder

Saved(s, r, saved) ==
  LET old    == View(s)[saved]
      merged == IF calls[s].op = "observe" THEN Reinforced(old, r) ELSE Replaced(old, r)
  IN EmbedsCreated(old, r, IF old = None THEN r ELSE merged)

InsertOrReinforce(s, saved) ==
  LET r == calls[s].rec IN
  /\ Runs(s, "insert") /\ calls[s].op = "observe"
  /\ Saves(s, r, saved)
  /\ own' = [own EXCEPT ![s][saved] = Saved(s, r, saved)]
  /\ Locks(s, {saved})
  /\ Goes(s, "commit")
  /\ UNCHANGED rows

\* The insert, and the update of the memory it replaces, which is locked already.
InsertReplacement(s, saved) ==
  LET r == calls[s].rec
      i == calls[s].id
  IN
  /\ Runs(s, "insert") /\ calls[s].op = "correct"
  /\ Saves(s, r, saved)
  /\ own' = [own EXCEPT ![s][saved] = Saved(s, r, saved),
                        ![s][i] = [View(s)[i] EXCEPT !.status = "superseded", !.by = saved]]
  /\ Locks(s, {saved})
  /\ Goes(s, "commit")
  /\ UNCHANGED rows

\* upsertChunk(), one row: its id is locked or inserted, then its key is checked.
LockId(s, i) ==
  /\ RunsRow(s, "write", i) /\ i \notin locked[s]
  /\ Locks(s, {i})
  /\ UNCHANGED <<rows, calls, own>>

Upserted(old, r) ==
  IF old = None THEN [r EXCEPT !.vector = r.content]
  ELSE [r EXCEPT !.createdAt = IF old.createdAt < @ THEN old.createdAt ELSE @,
                 !.vector = r.content]

\* A key another row has is MemoryDedupeConflictError.
Upsert(s, i) ==
  LET r == calls[s].batch[i] IN
  /\ RunsRow(s, "write", i) /\ i \in locked[s]
  /\ IF Active(r) /\ Holder(s, Key(r)) \ {i} # {}
     THEN GivesUp(s)
     ELSE /\ own' = [own EXCEPT ![s][i] = Upserted(View(s)[i], r)]
          /\ calls' = [calls EXCEPT ![s].todo = @ \ {i},
                                    ![s].at = IF calls[s].todo = {i} THEN "commit" ELSE @]
          /\ UNCHANGED <<rows, locked>>

\* applyFeedback(), one statement: last_seen_at is when it began, not when it got the row.
Touch(s) ==
  /\ Runs(s, "touch")
  /\ rows' = IF Correctable(s) THEN [rows EXCEPT ![calls[s].id].seenAt = calls[s].start] ELSE rows
  /\ calls' = [calls EXCEPT ![s] = Idle]
  /\ UNCHANGED <<own, locked>>

\* retire(), one statement that does not look at the clock.
Retire(i, status) ==
  /\ Active(rows[i])
  /\ \A t \in Session : i \notin locked[t]
  /\ rows' = [rows EXCEPT ![i].status = status]
  /\ UNCHANGED <<now, calls, own, locked>>

\* compact(), one statement.  The rows that are due are those its snapshot showed: the
\* update waits for a locked one and then only asks whether the id is still in that list.
\* For the superseded ones it asks for the status again.
Sweep(s, i) ==
  /\ RunsRow(s, "sweep", i)
  /\ IF calls[s].batch[i].status = "superseded" => rows[i].status = "superseded"
     THEN /\ own' = [own EXCEPT ![s][i] = [rows[i] EXCEPT !.status = "archived"]]
          /\ Locks(s, {i})
     ELSE UNCHANGED <<own, locked>>
  /\ calls' = [calls EXCEPT ![s].todo = @ \ {i}]
  /\ UNCHANGED rows

Swept(s) == At(s, "sweep") /\ calls[s].todo = {}

Commit(s) ==
  /\ At(s, "commit") \/ Swept(s)
  /\ rows' = View(s)
  /\ calls' = [calls EXCEPT ![s] = Idle]
  /\ Ends(s)
  /\ UNCHANGED now

(***************************************************************************)
(* Failures.                                                               *)
(***************************************************************************)

\* Sessions that wait for one another; Postgres aborts one of them.
Deadlocked(s) ==
  \E C \in SUBSET Session :
    /\ s \in C
    /\ \A t \in C : WaitsFor(t) \cap C # {} /\ \E u \in C : t \in WaitsFor(u)

RetriesOn(s) == calls[s].op # "compact"  \* mutant: attempts are not counted
Retries(s) == calls[s].op # "compact" /\ calls[s].attempt < MaxAttempts

Again(c) ==
  [c EXCEPT !.at = "begin", !.attempt = @ + 1, !.todo = {i \in Id : c.batch[i] # None}]

DeadlockBroken(s) ==
  /\ Deadlocked(s)
  /\ calls' = [calls EXCEPT ![s] = IF Retries(s) THEN Again(calls[s]) ELSE Idle]
  /\ RollsBack(s)
  /\ UNCHANGED <<rows, now>>

\* The embedder, the connection or the server fails.  A COMMIT that took effect although
\* its caller was told of an error is a Commit: replies are not kept.
CallFails(s) == calls[s].op # "idle" /\ GivesUp(s) /\ UNCHANGED now

\* The bound on ids: an insert that finds none left fails.
IdsUsedUp(s) ==
  /\ Runs(s, "insert")
  /\ \A i \in Id : ~Saves(s, calls[s].rec, i)
  /\ GivesUp(s)

(***************************************************************************)
(* Specification.                                                          *)
(***************************************************************************)
Init ==
  /\ StoreInit
  /\ calls = [s \in Session |-> Idle]
  /\ own = [s \in Session |-> NoRows]
  /\ locked = [s \in Session |-> {}]

NewCalls(s) ==
  \/ \E t \in Content, d \in DecayKind :
       Observe(s, t, d) \/ \E i \in Id : Active(rows[i]) /\ Correct(s, i, t, d)
  \/ \E b \in Batches : Ingest(s, b)
  \/ \E i \in Id : rows[i] # None /\ Feedback(s, i)
  \/ Compact(s)

Statements(s) ==
  \/ Begin(s) \/ Archive(s) \/ LockPrevious(s) \/ Touch(s) \/ Commit(s)
  \/ IdsUsedUp(s)
  \/ \E i \in Id : InsertOrReinforce(s, i) \/ InsertReplacement(s, i)
                   \/ LockId(s, i) \/ Upsert(s, i) \/ Sweep(s, i)

Tick ==
  /\ now < MaxTime /\ now' = now + 1
  /\ UNCHANGED <<rows, calls, own, locked>>

RetireSteps ==
  "retire" \in Op /\ \E i \in Id, status \in {"superseded", "archived"} : Retire(i, status)

Steps ==
  \/ RetireSteps
  \/ \E s \in Session :
       NewCalls(s) \/ Statements(s) \/ DeadlockBroken(s) \/ CallFails(s)

Next == Tick \/ Steps

Spec == Init /\ [][Next]_tvars

\* A row or a key that is released again and again reaches everyone who waits for it, for
\* Postgres queues them, and it looks for deadlocks.
FairSpec ==
  /\ Spec
  /\ \A s \in Session : SF_tvars(Statements(s)) /\ WF_tvars(DeadlockBroken(s))

\* No call takes longer than a memory lives, from when its candidates are dated.
Since(c) ==
  CASE c.op = "ingest" -> {c.batch[i].createdAt : i \in {j \in Id : c.batch[j] # None}}
    [] c.rec # None -> {c.rec.createdAt}
    [] OTHER -> {c.start}

Prompt ==
  \A s \in Session : calls[s].op # "idle" => \A t \in Since(calls[s]) : now' <= t + TTL

PromptTick == Tick /\ Prompt

PromptSpec == Init /\ [][PromptTick \/ Steps]_tvars

(***************************************************************************)
(* Properties.                                                             *)
(***************************************************************************)

\* What transactions decide over several statements is still true when they commit: each
\* commit is one step of ExactStore.
ImplementsExactStore == StoreSpec

\* Following supersededBy from any memory ends, in one that was not superseded, and each
\* replacement's history names what it replaced: two corrections of each other's memory
\* cannot retire both, and one of two corrections of the same memory comes too late.
SupersededFrom(i) == {j \in Id : rows[j] # None /\ rows[j].by = i}

CorrectionsForm ==
  /\ \A S \in (SUBSET Id) \ {{}} : \E i \in S : SupersededFrom(i) \cap S = {}
  /\ \A i, j \in Id : rows[j] # None /\ i \in rows[j].history <=> i \in SupersededFrom(j)

\* Batches that share ids never wait for one another's rows in a circle: each locks its
\* rows in the order of their ids.  (They may for their keys.)
AwaitsRow(s) == At(s, "write") /\ NextRows(s) \cap locked[s] = {}

BatchesLockInOrder ==
  \A C \in (SUBSET Session) \ {{}} :
    (\A s \in C : AwaitsRow(s)) => \E s \in C : WaitsFor(s) \cap C = {}

\* Every call is answered, deadlocks included.
EveryCallAnswered == \A s \in Session : calls[s].op # "idle" ~> calls[s].op = "idle"

\* What a sweep archives is due: expired by now, or superseded.
SweepsOnlyDue ==
  [][\A s \in Session : Swept(s) /\ calls'[s].op = "idle" /\ rows' # rows => Sweeps]_tvars
=============================================================================
