----------------------- MODULE PostgresProvider_proofs -----------------------
(***************************************************************************)
(* One active row per key, for any number of connections, rows and texts.  *)
(*                                                                         *)
(* The unique index alone does not say it: an insert sees only committed   *)
(* rows and its own.  The invariant says why that is enough.  No two       *)
(* transactions have a row locked, what a transaction wrote it has locked, *)
(* what two of them wrote has different keys, and each sees a table with   *)
(* one active row per key - the table it would leave if it committed now.  *)
(***************************************************************************)
EXTENDS PostgresLifetimes, FiniteSetTheorems, TLAPS

SameKey(a, b) == Active(a) /\ Active(b) /\ Key(a) = Key(b)

LocksDisjoint == \A s, t \in Session : s # t => locked[s] \cap locked[t] = {}

OwnLocked == \A s \in Session, i \in Id : own[s][i] # None => i \in locked[s]

ViewKeys == \A s \in Session, i, j \in Id : SameKey(View(s)[i], View(s)[j]) => i = j

PendingKeys ==
  \A s, t \in Session, i, j \in Id : s # t => ~SameKey(own[s][i], own[t][j])

Table == LocksDisjoint /\ OwnLocked /\ ViewKeys /\ PendingKeys /\ OneActivePerKey

\* What a call in progress relies on.
CallOK(s) ==
  LET c == calls[s] IN
  /\ c.op \in {"observe", "correct"} => c.rec # None
  /\ c.op \in {"correct", "feedback"} => c.id # None
  /\ c.op \in {"ingest", "compact"} => \A i \in c.todo : c.batch[i] # None
  /\ c.op = "compact" => \A i \in c.todo : rows[i] # None
  /\ c.op = "correct" /\ c.at \in {"archive", "insert"} =>
       c.id \in locked[s] /\ View(s)[c.id] # None
  /\ c.op # "idle" =>
       /\ c.at = "lock" => c.op = "correct"
       /\ c.at = "write" => c.op = "ingest"
       /\ c.at = "touch" => c.op = "feedback"
       /\ c.at = "sweep" => c.op = "compact"
       /\ c.at = "insert" => c.op \in {"observe", "correct"}
       /\ c.at = "archive" => c.op \in {"observe", "correct", "ingest"}
  /\ (c.op # "idle" => c.at \in {"begin", "touch"}) => \A i \in Id : own[s][i] = None

CallsOK == \A s \in Session : CallOK(s)

Inv == RowsTypeOK /\ Table /\ CallsOK

(***************************************************************************)
(* Rows.                                                                   *)
(***************************************************************************)

\* A row is a row whatever of its status, link, dates or vector is replaced.
LEMMA RowChanges ==
  ASSUME NEW r \in Row
  PROVE  /\ \A x \in {"active", "superseded", "archived"} : [r EXCEPT !.status = x] \in Row
         /\ \A i \in Id : [r EXCEPT !.status = "superseded", !.by = i] \in Row
         /\ \A n \in Nat : [r EXCEPT !.seenAt = n] \in Row
         /\ \A v \in Content : [r EXCEPT !.vector = v] \in Row
         /\ r # None
         /\ ~Active([r EXCEPT !.status = "archived"])
         /\ \A i \in Id : ~Active([r EXCEPT !.status = "superseded", !.by = i])
BY StoreConstants DEF Row, Active

\* Each session sees rows.
LEMMA ViewType ==
  ASSUME RowsTypeOK, NEW s \in Session
  PROVE  /\ View(s) \in Rows
         /\ \A i \in Id : View(s)[i] # None => View(s)[i] \in Row
BY DEF View, RowsTypeOK, Rows

(***************************************************************************)
(* The table.                                                              *)
(***************************************************************************)

\* A transaction that ends without a commit takes its writes and locks with it.
LEMMA TableEnds ==
  ASSUME RowsTypeOK, Table, NEW s \in Session, Ends(s), rows' = rows
  PROVE  Table'
<1>1. own' = [own EXCEPT ![s] = NoRows] /\ locked' = [locked EXCEPT ![s] = {}]
  BY DEF Ends
<1>2. \A t \in Session : own'[t] = IF t = s THEN NoRows ELSE own[t]
  BY <1>1 DEF RowsTypeOK
<1>3. \A t \in Session : locked'[t] = IF t = s THEN {} ELSE locked[t]
  BY <1>1 DEF RowsTypeOK
<1>4. \A i \in Id : ~Active(NoRows[i]) /\ NoRows[i] = None
  BY DEF NoRows, Active
<1>5. LocksDisjoint' /\ OwnLocked' /\ PendingKeys' /\ OneActivePerKey'
  BY <1>2, <1>3, <1>4 DEF Table, LocksDisjoint, OwnLocked, PendingKeys, OneActivePerKey, SameKey
<1>6. ViewKeys'
  <2> SUFFICES ASSUME NEW t \in Session, NEW i \in Id, NEW j \in Id,
                      SameKey(View(t)[i], View(t)[j])'
               PROVE  i = j
    BY DEF ViewKeys
  <2>1. CASE t = s
    <3>1. View(t)[i]' = rows[i] /\ View(t)[j]' = rows[j]
      BY <2>1, <1>2, <1>4 DEF View
    <3> QED BY <3>1 DEF SameKey, OneActivePerKey, Table, Active, Key
  <2>2. CASE t # s
    <3>1. View(t)[i]' = View(t)[i] /\ View(t)[j]' = View(t)[j]
      BY <2>2, <1>2 DEF View
    <3> QED BY <3>1 DEF SameKey, ViewKeys, Table, Active, Key
  <2> QED BY <2>1, <2>2
<1> QED BY <1>5, <1>6 DEF Table

\* A transaction may lock rows nobody has locked, and write rows it has locked, provided
\* that what it writes anew takes no key of another's writes and none it sees taken.
LEMMA TableWrites ==
  ASSUME RowsTypeOK, Table, NEW s \in Session, NEW o \in Rows, NEW L \in SUBSET Id,
         rows' = rows,
         own' = [own EXCEPT ![s] = o],
         locked' = [locked EXCEPT ![s] = L],
         \A t \in Session : t # s => L \cap locked[t] = {},
         \A i \in Id : o[i] # None => i \in L,
         \A i \in Id : Active(o[i]) => \/ o[i] = own[s][i]
                                       \/ \A t \in Session, j \in Id :
                                            t # s => ~SameKey(o[i], own[t][j]),
         \A i, j \in Id : SameKey(IF o[i] # None THEN o[i] ELSE rows[i],
                                  IF o[j] # None THEN o[j] ELSE rows[j]) => i = j
  PROVE  Table'
<1>1. \A t \in Session : own'[t] = IF t = s THEN o ELSE own[t]
  BY DEF RowsTypeOK
<1>2. \A t \in Session : locked'[t] = IF t = s THEN L ELSE locked[t]
  BY DEF RowsTypeOK
<1>3. LocksDisjoint'
  BY <1>2 DEF Table, LocksDisjoint
<1>4. OwnLocked'
  BY <1>1, <1>2 DEF Table, OwnLocked
<1>5. OneActivePerKey'
  BY DEF Table, OneActivePerKey
<1>6. PendingKeys'
  <2> SUFFICES ASSUME NEW t \in Session, NEW u \in Session, NEW i \in Id, NEW j \in Id,
                      t # u, SameKey(own[t][i], own[u][j])'
               PROVE  FALSE
    BY DEF PendingKeys
  <2>1. SameKey(own'[t][i], own'[u][j])
    BY DEF SameKey, Active, Key
  <2>2. CASE t = s
    BY <2>1, <2>2, <1>1 DEF SameKey, PendingKeys, Table
  <2>3. CASE u = s
    BY <2>1, <2>3, <1>1 DEF SameKey, PendingKeys, Table
  <2>4. CASE t # s /\ u # s
    BY <2>1, <2>4, <1>1 DEF PendingKeys, Table
  <2> QED BY <2>2, <2>3, <2>4
<1>7. ViewKeys'
  <2> SUFFICES ASSUME NEW t \in Session, NEW i \in Id, NEW j \in Id,
                      SameKey(View(t)[i], View(t)[j])'
               PROVE  i = j
    BY DEF ViewKeys
  <2>1. CASE t = s
    <3>1. /\ View(t)[i]' = IF o[i] # None THEN o[i] ELSE rows[i]
          /\ View(t)[j]' = IF o[j] # None THEN o[j] ELSE rows[j]
      BY <2>1, <1>1 DEF View
    <3> QED BY <3>1 DEF SameKey, Active, Key
  <2>2. CASE t # s
    <3>1. View(t)[i]' = View(t)[i] /\ View(t)[j]' = View(t)[j]
      BY <2>2, <1>1 DEF View
    <3> QED BY <3>1 DEF SameKey, ViewKeys, Table, Active, Key
  <2> QED BY <2>1, <2>2
<1> QED BY <1>3, <1>4, <1>5, <1>6, <1>7 DEF Table

\* A commit publishes the table its session sees.
LEMMA TableCommits ==
  ASSUME RowsTypeOK, Table, NEW s \in Session, rows' = View(s), Ends(s)
  PROVE  Table'
<1>1. own' = [own EXCEPT ![s] = NoRows] /\ locked' = [locked EXCEPT ![s] = {}]
  BY DEF Ends
<1>2. \A t \in Session : own'[t] = IF t = s THEN NoRows ELSE own[t]
  BY <1>1 DEF RowsTypeOK
<1>3. \A t \in Session : locked'[t] = IF t = s THEN {} ELSE locked[t]
  BY <1>1 DEF RowsTypeOK
<1>4. \A i \in Id : ~Active(NoRows[i]) /\ NoRows[i] = None
  BY DEF NoRows, Active
<1>5. LocksDisjoint' /\ OwnLocked' /\ PendingKeys'
  BY <1>2, <1>3, <1>4 DEF Table, LocksDisjoint, OwnLocked, PendingKeys, SameKey
<1>6. OneActivePerKey'
  BY DEF Table, OneActivePerKey, ViewKeys, SameKey, Active, Key
<1>7. ViewKeys'
  <2> SUFFICES ASSUME NEW t \in Session, NEW i \in Id, NEW j \in Id,
                      SameKey(View(t)[i], View(t)[j])'
               PROVE  i = j
    BY DEF ViewKeys
  <2> DEFINE seen(k) == IF t # s /\ own[t][k] # None THEN own[t][k] ELSE View(s)[k]
  <2>1. View(t)[i]' = seen(i) /\ View(t)[j]' = seen(j)
    BY <1>2, <1>4 DEF View
  <2>2. SameKey(seen(i), seen(j))
    BY <2>1 DEF SameKey, Active, Key
  <2>3. CASE t = s
    BY <2>2, <2>3 DEF ViewKeys, Table
  <2>4. ASSUME t # s, NEW k \in Id, NEW m \in Id, own[t][k] # None, SameKey(own[t][k], seen(m))
        PROVE  k = m
    <3>1. CASE own[t][m] # None
      <4>1. View(t)[k] = own[t][k] /\ View(t)[m] = own[t][m]
        BY <2>4, <3>1 DEF View
      <4> QED BY <4>1, <2>4, <3>1 DEF ViewKeys, Table
    <3>2. CASE own[t][m] = None /\ own[s][m] # None
      <4>1. seen(m) = own[s][m]
        BY <3>2 DEF View
      <4> QED BY <4>1, <2>4 DEF PendingKeys, Table
    <3>3. CASE own[t][m] = None /\ own[s][m] = None
      <4>1. seen(m) = rows[m] /\ View(t)[m] = rows[m] /\ View(t)[k] = own[t][k]
        BY <2>4, <3>3 DEF View
      <4> QED BY <4>1, <2>4 DEF ViewKeys, Table
    <3> QED BY <3>1, <3>2, <3>3
  <2>5. CASE t # s /\ own[t][i] # None
    <3>1. SameKey(own[t][i], seen(j))
      BY <2>2, <2>5
    <3> QED BY <2>4, <2>5, <3>1
  <2>6. CASE t # s /\ own[t][j] # None
    <3>1. SameKey(own[t][j], seen(i))
      BY <2>2, <2>6 DEF SameKey
    <3> QED BY <2>4, <2>6, <3>1
  <2>7. CASE t # s /\ own[t][i] = None /\ own[t][j] = None
    BY <2>2, <2>7 DEF ViewKeys, Table
  <2> QED BY <2>3, <2>5, <2>6, <2>7
<1> QED BY <1>5, <1>6, <1>7 DEF Table

\* A row that changes in place without gaining a key disturbs nothing, provided that no
\* transaction has written it.
LEMMA TableTouched ==
  ASSUME RowsTypeOK, Table, NEW i \in Id, NEW r \in Row,
         rows' = [rows EXCEPT ![i] = r], UNCHANGED <<own, locked>>,
         Active(r) => Active(rows[i]) /\ Key(r) = Key(rows[i])
  PROVE  Table'
<1>1. \A k \in Id : Active(rows'[k]) => Active(rows[k]) /\ Key(rows'[k]) = Key(rows[k])
  BY DEF RowsTypeOK, Rows
<1>2. \A t \in Session, k \in Id :
        Active(View(t)[k]') => Active(View(t)[k]) /\ Key(View(t)[k]') = Key(View(t)[k])
  BY <1>1 DEF View
<1>3. ViewKeys'
  <2> SUFFICES ASSUME NEW t \in Session, NEW k \in Id, NEW m \in Id,
                      SameKey(View(t)[k], View(t)[m])'
               PROVE  k = m
    BY DEF ViewKeys
  <2>1. SameKey(View(t)[k]', View(t)[m]')
    BY DEF SameKey, Active, Key
  <2> QED BY <2>1, <1>2 DEF SameKey, ViewKeys, Table
<1>4. OneActivePerKey'
  BY <1>1 DEF OneActivePerKey, Table, Active, Key
<1>5. LocksDisjoint' /\ OwnLocked' /\ PendingKeys'
  BY DEF Table, LocksDisjoint, OwnLocked, PendingKeys, SameKey, Active, Key
<1> QED BY <1>3, <1>4, <1>5 DEF Table

(***************************************************************************)
(* Calls.                                                                  *)
(***************************************************************************)

\* A call in progress is a record with the fields of a call.
LEMMA InProgress ==
  ASSUME RowsTypeOK, NEW s \in Session, calls[s].op # "idle"
  PROVE  calls[s] \in Call
BY DEF RowsTypeOK, Idle

\* A step leaves the calls of the other sessions as they were: rows never disappear.
LEMMA OtherCalls ==
  ASSUME RowsTypeOK, CallsOK, NEW t \in Session,
         calls'[t] = calls[t], own'[t] = own[t], locked'[t] = locked[t],
         \A i \in Id : rows[i] # None => rows'[i] # None
  PROVE  CallOK(t)'
<1>1. CallOK(t)
  BY DEF CallsOK
<1>2. \A i \in Id : View(t)[i] # None => View(t)[i]' # None
  BY DEF View
<1>3. calls[t] \in Call \/ calls[t] = Idle
  BY DEF RowsTypeOK
<1>4. CASE calls[t] = Idle
  BY <1>1, <1>4 DEF CallOK, Idle
<1>5. CASE calls[t] \in Call
  <2>1. calls[t].id = None \/ calls[t].id \in Id
    BY <1>5 DEF Call
  <2>2. calls[t].todo \subseteq Id
    BY <1>5 DEF Call
  <2>3. calls[t].op = "correct" => calls[t].id \in Id
    BY <1>1, <2>1 DEF CallOK
  <2> QED BY <1>1, <1>2, <2>2, <2>3 DEF CallOK
<1> QED BY <1>3, <1>4, <1>5

\* What remains to be shown of a step of session s that takes its call to c.
LEMMA CallMoves ==
  ASSUME Inv, NEW s \in Session, NEW c \in Call \cup {Idle},
         calls' = [calls EXCEPT ![s] = c], CallOK(s)', Table', now' = now,
         rows' \in Rows, own' \in [Session -> Rows], locked' \in [Session -> SUBSET Id],
         \A t \in Session : t # s => own'[t] = own[t] /\ locked'[t] = locked[t],
         \A i \in Id : rows[i] # None => rows'[i] # None
  PROVE  Inv'
<1>1. calls' \in [Session -> Call \cup {Idle}] /\ now' \in Nat
  BY DEF Inv, RowsTypeOK
<1>2. \A t \in Session : t # s => CallOK(t)'
  <2> TAKE t \in Session
  <2> HAVE t # s
  <2>1. calls'[t] = calls[t]
    BY DEF Inv, RowsTypeOK
  <2> QED BY <2>1, OtherCalls DEF Inv
<1>3. CallsOK'
  BY <1>2 DEF CallsOK
<1> QED BY <1>1, <1>3 DEF Inv, RowsTypeOK

\* A call that ends without a commit.
LEMMA GivesUpInv ==
  ASSUME Inv, NEW s \in Session, GivesUp(s), now' = now
  PROVE  Inv'
<1>1. /\ calls' = [calls EXCEPT ![s] = Idle] /\ rows' = rows
      /\ own' = [own EXCEPT ![s] = NoRows] /\ locked' = [locked EXCEPT ![s] = {}]
      /\ Ends(s)
  BY DEF GivesUp, RollsBack, Ends
<1>2. NoRows \in Rows
  BY DEF NoRows, Rows
<1>3. own' \in [Session -> Rows] /\ locked' \in [Session -> SUBSET Id] /\ rows' \in Rows
  BY <1>1, <1>2 DEF Inv, RowsTypeOK
<1>4. Table'
  BY <1>1, TableEnds DEF Inv
<1>5. calls'[s] = Idle /\ own'[s] = NoRows
  BY <1>1 DEF Inv, RowsTypeOK
<1>6. CallOK(s)'
  BY <1>5 DEF CallOK, Idle, NoRows
<1>7. \A t \in Session : t # s => own'[t] = own[t] /\ locked'[t] = locked[t]
  BY <1>1 DEF Inv, RowsTypeOK
<1> QED BY <1>1, <1>3, <1>4, <1>6, <1>7, CallMoves

\* The invariant does not depend on the clock.
LEMMA TableKept ==
  ASSUME Table, UNCHANGED <<rows, own, locked>>
  PROVE  Table'
BY DEF Table, LocksDisjoint, OwnLocked, ViewKeys, PendingKeys, OneActivePerKey, SameKey, View,
       Active, Key

\* A call begins with a candidate, a batch or an id, and has touched nothing.
LEMMA StartsInv ==
  ASSUME Inv, NEW s \in Session, NEW c \in Call, Starts(s, c), c.at = "begin",
         c.op \in {"observe", "correct"} => c.rec # None,
         c.op \in {"correct", "feedback"} => c.id # None,
         \A i \in c.todo : c.batch[i] # None,
         c.op = "compact" => c.todo = {}
  PROVE  Inv'
<1>1. calls' = [calls EXCEPT ![s] = c] /\ UNCHANGED <<rows, now, own, locked>>
  BY DEF Starts
<1>2. calls'[s] = c
  BY <1>1 DEF Inv, RowsTypeOK
<1>3. CallOK(s)
  BY DEF Inv, CallsOK
<1>4. \A i \in Id : own[s][i] = None
  BY <1>3 DEF CallOK, Starts
<1>5. CallOK(s)'
  BY <1>1, <1>2, <1>4 DEF CallOK
<1>6. Table'
  BY <1>1, TableKept DEF Inv
<1> QED BY <1>1, <1>5, <1>6, CallMoves DEF Inv, RowsTypeOK

\* Every new call keeps the invariant.
LEMMA NewCallsInv ==
  ASSUME Inv, NEW s \in Session, NewCalls(s)
  PROVE  Inv'
<1>1. \A op \in {"observe", "correct", "ingest", "feedback", "compact"} : NewCall(op) \in Call
  BY DEF NewCall, Call, Stage, NoRows, Rows, Inv, RowsTypeOK, MaxAttempts
<1>2. \A t \in Content, d \in DecayKind : NewRow(t, d, now) \in Row
  BY DEF NewRow, Row, Inv, RowsTypeOK
<1>3. ASSUME NEW t \in Content, NEW d \in DecayKind, Observe(s, t, d) PROVE Inv'
  <2> DEFINE c == [NewCall("observe") EXCEPT !.rec = NewRow(t, d, now)]
  <2>1. c \in Call
    BY <1>1, <1>2 DEF Call
  <2>2. c.rec # None /\ c.at = "begin" /\ c.todo = {} /\ c.op = "observe"
    BY <1>2, StoreConstants DEF NewCall
  <2>3. Starts(s, c)
    BY <1>3 DEF Observe
  <2> HIDE DEF c
  <2> QED BY <2>1, <2>2, <2>3, StartsInv
<1>4. ASSUME NEW i \in Id, NEW t \in Content, NEW d \in DecayKind, Correct(s, i, t, d) PROVE Inv'
  <2> DEFINE r == [NewRow(t, d, now) EXCEPT !.history = {i}]
             c == [NewCall("correct") EXCEPT !.id = i, !.rec = r]
  <2>1. r \in Row
    BY <1>2 DEF Row
  <2> HIDE DEF r
  <2>2. c \in Call
    BY <1>1, <2>1 DEF Call
  <2>3. c.rec # None /\ c.id # None /\ c.at = "begin" /\ c.todo = {} /\ c.op = "correct"
    BY <2>1, StoreConstants DEF NewCall
  <2>4. Starts(s, c)
    BY <1>4 DEF Correct, r
  <2> HIDE DEF c
  <2> QED BY <2>2, <2>3, <2>4, StartsInv
<1>5. ASSUME NEW b \in Batches, Ingest(s, b) PROVE Inv'
  <2> DEFINE dated == [i \in Id |-> IF b[i] = None THEN None
                                   ELSE [b[i] EXCEPT !.createdAt = now, !.seenAt = now]]
             c == [NewCall("ingest") EXCEPT !.batch = dated, !.todo = {i \in Id : b[i] # None}]
  <2>1. b \in [Id -> Row \cup {None}]
    BY ProviderConstants
  <2>2. \A i \in Id : b[i] # None => [b[i] EXCEPT !.createdAt = now, !.seenAt = now] \in Row
    <3> TAKE i \in Id
    <3> HAVE b[i] # None
    <3>1. b[i] \in Row
      BY <2>1
    <3> QED BY <3>1 DEF Row, Inv, RowsTypeOK
  <2>3. dated \in Rows /\ \A i \in Id : b[i] # None => dated[i] # None
    BY <2>2, StoreConstants DEF Rows
  <2> HIDE DEF dated
  <2>4. c \in Call
    BY <1>1, <2>3 DEF Call
  <2>5. c.at = "begin" /\ c.op = "ingest" /\ \A i \in c.todo : c.batch[i] # None
    BY <2>3 DEF NewCall
  <2>6. Starts(s, c)
    BY <1>5 DEF Ingest, dated
  <2> HIDE DEF c
  <2> QED BY <2>4, <2>5, <2>6, StartsInv
<1>6. ASSUME NEW i \in Id, Feedback(s, i) PROVE Inv'
  <2> DEFINE c == [NewCall("feedback") EXCEPT !.id = i]
  <2>1. c \in Call
    BY <1>1 DEF Call
  <2>2. c.id # None /\ c.at = "begin" /\ c.todo = {} /\ c.op = "feedback"
    BY StoreConstants DEF NewCall
  <2>3. Starts(s, c)
    BY <1>6 DEF Feedback
  <2> HIDE DEF c
  <2> QED BY <2>1, <2>2, <2>3, StartsInv
<1>7. ASSUME Compact(s) PROVE Inv'
  <2>1. /\ NewCall("compact").at = "begin" /\ NewCall("compact").todo = {}
        /\ NewCall("compact").op = "compact"
    BY DEF NewCall
  <2> QED BY <1>1, <1>7, <2>1, StartsInv DEF Compact
<1> QED BY <1>3, <1>4, <1>5, <1>6, <1>7 DEF NewCalls

(***************************************************************************)
(* Statements.                                                             *)
(***************************************************************************)

\* What remains to be shown of a statement of session s that writes o and locks L.
LEMMA WritesInv ==
  ASSUME Inv, NEW s \in Session, NEW o \in Rows, NEW L \in SUBSET Id, NEW c \in Call,
         UNCHANGED <<rows, now>>,
         own' = [own EXCEPT ![s] = o],
         locked' = [locked EXCEPT ![s] = L],
         calls' = [calls EXCEPT ![s] = c],
         CallOK(s)',
         \A t \in Session : t # s => L \cap locked[t] = {},
         \A i \in Id : o[i] # None => i \in L,
         \A i \in Id : Active(o[i]) => \/ o[i] = own[s][i]
                                       \/ \A t \in Session, j \in Id :
                                            t # s => ~SameKey(o[i], own[t][j]),
         \A i, j \in Id : SameKey(IF o[i] # None THEN o[i] ELSE rows[i],
                                  IF o[j] # None THEN o[j] ELSE rows[j]) => i = j
  PROVE  Inv'
<1>1. Table'
  BY TableWrites DEF Inv
<1>2. own' \in [Session -> Rows] /\ locked' \in [Session -> SUBSET Id] /\ rows' \in Rows
  BY DEF Inv, RowsTypeOK
<1>3. \A t \in Session : t # s => own'[t] = own[t] /\ locked'[t] = locked[t]
  BY DEF Inv, RowsTypeOK
<1> QED BY <1>1, <1>2, <1>3, CallMoves

\* What a session has locked nobody else has, and stays so when it locks what is free.
LEMMA Locking ==
  ASSUME Inv, NEW s \in Session, NEW S \in SUBSET Id, \A i \in S : LockersOf(s, i) = {}
  PROVE  \A t \in Session : t # s => (locked[s] \cup S) \cap locked[t] = {}
<1> SUFFICES ASSUME NEW t \in Session, t # s, NEW i \in (locked[s] \cup S) \cap locked[t]
             PROVE  FALSE
  OBVIOUS
<1>1. i \notin locked[s]
  BY DEF Inv, Table, LocksDisjoint
<1>2. t \in LockersOf(s, i)
  BY DEF LockersOf, Others
<1> QED BY <1>1, <1>2

\* A session that only locks rows, without writing any.
LEMMA LocksInv ==
  ASSUME Inv, NEW s \in Session, NEW S \in SUBSET Id, NEW c \in Call,
         UNCHANGED <<rows, own, now>>, Locks(s, S),
         calls' = [calls EXCEPT ![s] = c], CallOK(s)',
         \A i \in S : LockersOf(s, i) = {}
  PROVE  Inv'
<1>1. own' = [own EXCEPT ![s] = own[s]] /\ own[s] \in Rows
  BY DEF Inv, RowsTypeOK
<1>2. locked' = [locked EXCEPT ![s] = locked[s] \cup S] /\ locked[s] \in SUBSET Id
  BY DEF Locks, Inv, RowsTypeOK
<1>3. \A i \in Id : own[s][i] # None => i \in locked[s] \cup S
  BY DEF Inv, Table, OwnLocked
<1>4. \A i, j \in Id : SameKey(IF own[s][i] # None THEN own[s][i] ELSE rows[i],
                               IF own[s][j] # None THEN own[s][j] ELSE rows[j]) => i = j
  BY DEF Inv, Table, ViewKeys, View
<1>5. \A t \in Session : t # s => (locked[s] \cup S) \cap locked[t] = {}
  BY Locking
<1> QED BY <1>1, <1>2, <1>3, <1>4, <1>5, WritesInv

\* BEGIN: the first statement follows from the operation.
LEMMA BeginInv ==
  ASSUME Inv, NEW s \in Session, Begin(s)
  PROVE  Inv'
<1> DEFINE op == calls[s].op
           c == [calls[s] EXCEPT
                   !.at = CASE op \in {"observe", "ingest"} -> "archive"
                            [] op = "correct" -> "lock"
                            [] op = "feedback" -> "touch"
                            [] OTHER -> "sweep",
                   !.batch = IF op = "compact" THEN Due ELSE @,
                   !.todo = IF op = "compact" THEN {i \in Id : Due[i] # None} ELSE @,
                   !.start = now]
<1>1. calls[s] \in Call /\ calls[s].at = "begin" /\ op # "idle"
  BY InProgress DEF Begin, At, Inv
<1>2. Due \in Rows /\ \A i \in Id : Due[i] # None => rows[i] # None
  BY StoreConstants DEF Due, Rows, Inv, RowsTypeOK, Active
<1>3. c \in Call
  BY <1>1, <1>2 DEF Call, Stage, Inv, RowsTypeOK
<1>4. calls' = [calls EXCEPT ![s] = c] /\ UNCHANGED <<rows, now, own, locked>>
  BY <1>1 DEF Begin, Inv, RowsTypeOK
<1>5. CallOK(s) /\ calls'[s] = c
  BY <1>4 DEF Inv, CallsOK, RowsTypeOK
<1>6. /\ c.op = op /\ c.rec = calls[s].rec /\ c.id = calls[s].id
      /\ c.at = CASE op \in {"observe", "ingest"} -> "archive"
                  [] op = "correct" -> "lock"
                  [] op = "feedback" -> "touch"
                  [] OTHER -> "sweep"
      /\ c.batch = IF op = "compact" THEN Due ELSE calls[s].batch
      /\ c.todo = IF op = "compact" THEN {i \in Id : Due[i] # None} ELSE calls[s].todo
  BY <1>1 DEF Call
<1>7. op \in {"observe", "correct", "ingest", "feedback", "compact"}
  BY <1>1 DEF Call
<1> HIDE DEF c, op
<1>8. CallOK(s)'
  <2>1. op = calls[s].op
    BY DEF op
  <2> QED BY <1>1, <1>2, <1>4, <1>5, <1>6, <1>7, <2>1 DEF CallOK
<1>9. Table'
  BY <1>4, TableKept DEF Inv
<1> QED BY <1>3, <1>4, <1>8, <1>9, CallMoves DEF Inv, RowsTypeOK

\* A call that goes on to another statement, its other fields unchanged.
LEMMA GoesType ==
  ASSUME Inv, NEW s \in Session, calls[s].op # "idle", NEW stage \in Stage
  PROVE  /\ [calls[s] EXCEPT !.at = stage] \in Call
         /\ [calls[s] EXCEPT !.at = stage].at = stage
         /\ \A S \in SUBSET Id : [calls[s] EXCEPT !.at = stage, !.todo = S] \in Call
BY InProgress DEF Call, Inv

\* archiveExpiredExactDuplicates(): a row that leaves the active ones takes no key.
LEMMA ArchiveInv ==
  ASSUME Inv, NEW s \in Session, Archive(s)
  PROVE  Inv'
<1> DEFINE T == ExpiredDuplicates(s)
           o == [i \in Id |-> IF i \in T THEN [View(s)[i] EXCEPT !.status = "archived"]
                              ELSE own[s][i]]
           L == locked[s] \cup T
           next == IF calls[s].op = "ingest" THEN "write" ELSE "insert"
           c == [calls[s] EXCEPT !.at = next]
<1>1. At(s, "archive") /\ WaitsFor(s) = {}
  BY DEF Archive, Runs
<1>2. T \in SUBSET Id /\ \A i \in T : View(s)[i] \in Row
  <2>1. \A i \in T : i \in Id /\ View(s)[i] # None
    BY DEF ExpiredDuplicates, HasKey, Active
  <2> QED BY <2>1, ViewType DEF Inv
<1>3. \A i \in T : LockersOf(s, i) = {}
  BY <1>1 DEF WaitsFor, At
<1>4. own[s] \in Rows /\ locked[s] \in SUBSET Id
  BY DEF Inv, RowsTypeOK
<1>5. o \in Rows
  BY <1>2, <1>4, RowChanges DEF Rows
<1>6. /\ own' = [own EXCEPT ![s] = o] /\ locked' = [locked EXCEPT ![s] = L]
      /\ calls' = [calls EXCEPT ![s] = c] /\ UNCHANGED <<rows, now>>
  BY DEF Archive, Locks, Goes, Runs, Inv, RowsTypeOK
<1>7. \A i \in Id : Active(o[i]) => i \notin T /\ o[i] = own[s][i]
  BY <1>2, RowChanges
<1>8. \A i \in Id : o[i] # None => i \in L
  BY DEF Inv, Table, OwnLocked
<1>9. \A i \in Id : Active(IF o[i] # None THEN o[i] ELSE rows[i]) =>
        (IF o[i] # None THEN o[i] ELSE rows[i]) = View(s)[i]
  <2> SUFFICES ASSUME NEW i \in Id, Active(IF o[i] # None THEN o[i] ELSE rows[i])
               PROVE  (IF o[i] # None THEN o[i] ELSE rows[i]) = View(s)[i]
    OBVIOUS
  <2>1. CASE i \in T
    <3>1. o[i] # None /\ ~Active(o[i])
      BY <2>1, <1>2, RowChanges
    <3> QED BY <3>1
  <2>2. CASE i \notin T
    BY <2>2 DEF View
  <2> QED BY <2>1, <2>2
<1>10. \A i, j \in Id : SameKey(IF o[i] # None THEN o[i] ELSE rows[i],
                                IF o[j] # None THEN o[j] ELSE rows[j]) => i = j
  <2> HIDE DEF o
  <2> QED BY <1>9 DEF SameKey, Inv, Table, ViewKeys
<1>11. \A t \in Session : t # s => L \cap locked[t] = {}
  BY <1>2, <1>3, Locking
<1>12. c \in Call /\ calls'[s] = c /\ c.at = next
  <2>1. next \in Stage /\ calls[s].op # "idle"
    BY <1>1 DEF Stage, At
  <2> QED BY <2>1, <1>6, GoesType DEF Inv, RowsTypeOK
<1>13. CallOK(s)'
  <2>1. CallOK(s) /\ calls[s] \in Call /\ calls[s].at = "archive" /\ calls[s].op # "idle"
    BY <1>1, InProgress DEF Inv, CallsOK, At
  <2>2. /\ c.op = calls[s].op /\ c.rec = calls[s].rec /\ c.id = calls[s].id
        /\ c.batch = calls[s].batch /\ c.todo = calls[s].todo
    BY <2>1 DEF Call
  <2>3. locked'[s] = L /\ own'[s] = o
    BY <1>6 DEF Inv, RowsTypeOK
  <2>4. \A i \in Id : View(s)[i] # None => View(s)[i]' # None
    <3>1. \A i \in Id : View(s)[i]' = IF o[i] # None THEN o[i] ELSE rows[i]
      BY <2>3, <1>6 DEF View
    <3>2. \A i \in Id : i \in T => o[i] # None
      BY <1>2, RowChanges
    <3>3. \A i \in Id : i \notin T => (IF o[i] # None THEN o[i] ELSE rows[i]) = View(s)[i]
      BY DEF View
    <3> HIDE DEF o, T
    <3> QED BY <3>1, <3>2, <3>3
  <2>5. calls[s].id \in Id \cup {None}
    BY <2>1 DEF Call
  <2>6. calls[s].op \in {"observe", "correct", "ingest"}
    <3>1. calls[s].op \in {"observe", "correct", "ingest", "feedback", "compact"}
      BY <2>1 DEF Call
    <3> QED BY <2>1, <3>1 DEF CallOK
  <2> HIDE DEF c, o, T
  <2> QED BY <2>1, <2>2, <2>3, <2>4, <2>5, <2>6, <1>6, <1>12 DEF CallOK
<1> HIDE DEF c, o, T
<1>14. \A i \in Id : Active(o[i]) => \/ o[i] = own[s][i]
                                     \/ \A t \in Session, j \in Id :
                                          t # s => ~SameKey(o[i], own[t][j])
  BY <1>7
<1>15. L \in SUBSET Id
  BY <1>2, <1>4
<1> HIDE DEF L
<1> QED BY <1>5, <1>6, <1>8, <1>10, <1>11, <1>12, <1>13, <1>14, <1>15, WritesInv

\* SELECT ... FOR UPDATE locks the memory that a correction replaces, or ends the call.
LEMMA LockPreviousInv ==
  ASSUME Inv, NEW s \in Session, LockPrevious(s)
  PROVE  Inv'
<1> DEFINE c == [calls[s] EXCEPT !.at = "archive"]
<1>1. At(s, "lock") /\ WaitsFor(s) = {} /\ now' = now
  BY DEF LockPrevious, Runs
<1>2. CASE GivesUp(s)
  BY <1>1, <1>2, GivesUpInv
<1>3. CASE ~GivesUp(s)
  <2>1. CallOK(s) /\ calls[s] \in Call /\ calls[s].op # "idle" /\ calls[s].at = "lock"
    BY <1>1, InProgress DEF At, Inv, CallsOK
  <2>2. calls[s].op = "correct" /\ calls[s].id \in Id
    BY <2>1 DEF CallOK, Call
  <2>3. PICK i \in Id : i = calls[s].id
    BY <2>2
  <2>4. /\ Correctable(s) /\ Locks(s, {i}) /\ calls' = [calls EXCEPT ![s] = c]
        /\ UNCHANGED <<rows, own, now>>
    BY <1>1, <1>3, <2>3 DEF LockPrevious, Goes, Inv, RowsTypeOK
  <2>5. LockersOf(s, i) = {}
    BY <1>1, <2>3, <2>4 DEF WaitsFor, At
  <2>6. c \in Call /\ c.at = "archive" /\ calls'[s] = c
    BY <2>1, <2>4, GoesType DEF Stage, Inv, RowsTypeOK
  <2>7. c.op = "correct" /\ c.id = i /\ c.rec = calls[s].rec
    BY <2>1, <2>2, <2>3 DEF Call
  <2>8. i \in locked'[s] /\ View(s)[i]' # None
    BY <2>3, <2>4 DEF Locks, Correctable, Active, View, Inv, RowsTypeOK
  <2>9. CallOK(s)'
    <3>1. calls[s].rec # None
      BY <2>1, <2>2 DEF CallOK
    <3>2. /\ calls'[s].op = "correct" /\ calls'[s].at = "archive" /\ calls'[s].id = i
          /\ calls'[s].rec # None
      BY <2>6, <2>7, <3>1
    <3>3. i # None
      BY StoreConstants
    <3> QED BY <2>8, <3>2, <3>3 DEF CallOK
  <2> HIDE DEF c
  <2> QED BY <2>4, <2>5, <2>6, <2>9, LocksInv
<1> QED BY <1>2, <1>3

\* The key of a row is free once no other transaction has written a row with it.
LEMMA KeyFree ==
  ASSUME NEW s \in Session, NEW k, WritersOf(s, k) = {}, NEW r, Key(r) = k
  PROVE  \A t \in Session, j \in Id : t # s => ~SameKey(r, own[t][j])
<1> SUFFICES ASSUME NEW t \in Session, NEW j \in Id, t # s, SameKey(r, own[t][j])
             PROVE  FALSE
  OBVIOUS
<1>1. own[t][j] # None /\ HasKey(own[t][j], k)
  BY DEF SameKey, HasKey, Active
<1>2. t \in WritersOf(s, k)
  BY <1>1 DEF WritersOf, Others
<1> QED BY <1>2

\* What an INSERT ... ON CONFLICT saves: a row with the candidate's key, which nobody else
\* has locked, and which holds the key alone among the rows the session sees.
LEMMA SavedRow ==
  ASSUME Inv, NEW s \in Session, At(s, "insert"), WaitsFor(s) = {}, NEW saved \in Id,
         Saves(s, calls[s].rec, saved)
  PROVE  /\ Saved(s, calls[s].rec, saved) \in Row
         /\ Key(Saved(s, calls[s].rec, saved)) = Key(calls[s].rec)
         /\ LockersOf(s, saved) = {}
         /\ WritersOf(s, Key(calls[s].rec)) = {}
         /\ \A j \in Id : HasKey(View(s)[j], Key(calls[s].rec)) => j = saved
<1> DEFINE r == calls[s].rec
           k == Key(r)
           old == View(s)[saved]
<1>1. r \in Row
  <2>1. CallOK(s) /\ calls[s] \in Call /\ calls[s].op # "idle" /\ calls[s].at = "insert"
    BY InProgress DEF At, Inv, CallsOK
  <2>2. r # None
    BY <2>1 DEF CallOK
  <2> QED BY <2>1, <2>2 DEF Call
<1>2. WritersOf(s, k) = {} /\ \A i \in Holder(s, k) : LockersOf(s, i) = {}
  BY DEF WaitsFor, At, Arbiters
<1>3. \A j \in Id : HasKey(View(s)[j], k) => j \in Holder(s, k)
  BY DEF Holder
<1>4. \A i, j \in Holder(s, k) : i = j
  BY DEF Holder, HasKey, Inv, Table, ViewKeys, SameKey
<1>5. CASE Holder(s, k) = {}
  <2>1. Fresh(saved)
    BY <1>5 DEF Saves
  <2>2. LockersOf(s, saved) = {}
    BY <2>1 DEF Fresh, LockersOf, Others
  <2>3. own[s][saved] = None
    BY <2>1 DEF Fresh, Inv, Table, OwnLocked
  <2>4. old = None
    BY <2>1, <2>3 DEF Fresh, View
  <2>5. Saved(s, r, saved) = [r EXCEPT !.vector = r.content]
    BY <2>4 DEF Saved, EmbedsCreated
  <2>6. [r EXCEPT !.vector = r.content] \in Row /\ Key([r EXCEPT !.vector = r.content]) = k
    BY <1>1 DEF Row, Key
  <2> QED BY <1>2, <1>3, <1>5, <2>2, <2>5, <2>6
<1>6. CASE Holder(s, k) # {}
  <2>1. saved \in Holder(s, k)
    BY <1>6 DEF Saves
  <2>2. old \in Row /\ Key(old) = k /\ old # None
    BY <2>1, ViewType DEF Holder, HasKey, Active, Inv
  <2>3. Saved(s, r, saved) \in {Reinforced(old, r), Replaced(old, r)}
    BY <2>2 DEF Saved, EmbedsCreated
  <2>4. Reinforced(old, r) \in Row /\ Key(Reinforced(old, r)) = k
    BY <1>1, <2>2 DEF Reinforced, Later, Row, Key
  <2>5. Replaced(old, r) \in Row /\ Key(Replaced(old, r)) = k
    BY <1>1, <2>2 DEF Replaced, Reinforced, Later, Row, Key
  <2> QED BY <1>2, <1>3, <1>4, <2>1, <2>3, <2>4, <2>5
<1> QED BY <1>5, <1>6

\* The steps of an insert: `saved` gets its row, and rows already locked may go out.
Inserting(s, saved, o) ==
  /\ At(s, "insert") /\ WaitsFor(s) = {} /\ Saves(s, calls[s].rec, saved)
  /\ own' = [own EXCEPT ![s] = o]
  /\ \A j \in Id : \/ j \in locked[s] /\ o[j] # None /\ ~Active(o[j])
                   \/ j = saved /\ o[j] = Saved(s, calls[s].rec, saved)
                   \/ j # saved /\ o[j] = own[s][j]
  /\ Locks(s, {saved}) /\ Goes(s, "commit") /\ UNCHANGED <<rows, now>>

\* Such an insert keeps the invariant.
LEMMA InsertsInv ==
  ASSUME Inv, NEW s \in Session, NEW saved \in Id, NEW o \in Rows, Inserting(s, saved, o)
  PROVE  Inv'
<1> USE DEF Inserting
<1> DEFINE r == calls[s].rec
           k == Key(r)
           v == Saved(s, r, saved)
           L == locked[s] \cup {saved}
           c == [calls[s] EXCEPT !.at = "commit"]
           seen(j) == IF o[j] # None THEN o[j] ELSE rows[j]
<1>1. /\ v \in Row /\ Key(v) = k /\ LockersOf(s, saved) = {} /\ WritersOf(s, k) = {}
      /\ \A j \in Id : HasKey(View(s)[j], k) => j = saved
  BY SavedRow
<1>2. CallOK(s) /\ calls[s] \in Call /\ calls[s].op # "idle" /\ calls[s].at = "insert"
  BY InProgress DEF At, Inv, CallsOK
<1>3. c \in Call /\ c.at = "commit" /\ calls' = [calls EXCEPT ![s] = c] /\ calls'[s] = c
  BY <1>2, GoesType DEF Goes, Stage, Inv, RowsTypeOK
<1>4. CallOK(s)'
  <2>1. c.op = calls[s].op /\ c.rec = calls[s].rec /\ c.id = calls[s].id
    BY <1>2 DEF Call
  <2>2. c.op \in {"observe", "correct"}
    BY <1>2, <2>1 DEF CallOK
  <2> HIDE DEF c
  <2> QED BY <1>2, <1>3, <2>1, <2>2 DEF CallOK
<1>5. L \in SUBSET Id /\ locked' = [locked EXCEPT ![s] = L]
  BY DEF Locks, Inv, RowsTypeOK
<1>6. \A t \in Session : t # s => L \cap locked[t] = {}
  BY <1>1, Locking
<1> HIDE DEF v, c
<1>7. v # None
  BY <1>1, StoreConstants
<1>8. \A i \in Id : o[i] # None => i \in L
  BY DEF Inv, Table, OwnLocked, v
<1>9. \A i \in Id : Active(o[i]) => \/ o[i] = own[s][i]
                                    \/ \A t \in Session, j \in Id :
                                         t # s => ~SameKey(o[i], own[t][j])
  BY <1>1, KeyFree DEF v
<1>10. \A i, j \in Id : SameKey(seen(i), seen(j)) => i = j
  <2>1. \A i \in Id : Active(seen(i)) =>
          (i = saved /\ seen(i) = v) \/ (i # saved /\ seen(i) = View(s)[i])
    BY <1>7 DEF View, v
  <2> SUFFICES ASSUME NEW i \in Id, NEW j \in Id, SameKey(seen(i), seen(j)) PROVE i = j
    OBVIOUS
  <2> HIDE DEF seen
  <2>2. CASE i = saved
    BY <1>1, <2>1, <2>2 DEF SameKey, HasKey
  <2>3. CASE j = saved
    BY <1>1, <2>1, <2>3 DEF SameKey, HasKey
  <2>4. CASE i # saved /\ j # saved
    BY <2>1, <2>4 DEF SameKey, Inv, Table, ViewKeys
  <2> QED BY <2>2, <2>3, <2>4
<1> HIDE DEF L
<1> QED BY <1>3, <1>4, <1>5, <1>6, <1>8, <1>9, <1>10, WritesInv

\* An observation saves its candidate, or reinforces the row that has its text.
LEMMA InsertOrReinforceInv ==
  ASSUME Inv, NEW s \in Session, NEW saved \in Id, InsertOrReinforce(s, saved)
  PROVE  Inv'
<1> DEFINE v == Saved(s, calls[s].rec, saved)
           o == [own[s] EXCEPT ![saved] = v]
<1>1. /\ At(s, "insert") /\ WaitsFor(s) = {} /\ Saves(s, calls[s].rec, saved)
      /\ own' = [own EXCEPT ![s][saved] = v] /\ Locks(s, {saved}) /\ Goes(s, "commit")
      /\ UNCHANGED <<rows, now>>
  BY DEF InsertOrReinforce, Runs
<1>2. v \in Row
  BY <1>1, SavedRow
<1> HIDE DEF v
<1>3. o \in Rows /\ own' = [own EXCEPT ![s] = o]
  BY <1>1, <1>2 DEF Rows, Inv, RowsTypeOK
<1>4. \A j \in Id : (j = saved /\ o[j] = v) \/ (j # saved /\ o[j] = own[s][j])
  BY DEF Rows, Inv, RowsTypeOK
<1> HIDE DEF o
<1>5. \A j \in Id : \/ j \in locked[s] /\ o[j] # None /\ ~Active(o[j])
                    \/ j = saved /\ o[j] = Saved(s, calls[s].rec, saved)
                    \/ j # saved /\ o[j] = own[s][j]
  BY <1>4 DEF v
<1>6. Inserting(s, saved, o)
  BY <1>1, <1>3, <1>5 DEF Inserting
<1> QED BY <1>3, <1>6, InsertsInv

\* A correction also retires the memory it replaces, which it has locked.
LEMMA InsertReplacementInv ==
  ASSUME Inv, NEW s \in Session, NEW saved \in Id, InsertReplacement(s, saved)
  PROVE  Inv'
<1> DEFINE v == Saved(s, calls[s].rec, saved)
           i == calls[s].id
           gone == [View(s)[i] EXCEPT !.status = "superseded", !.by = saved]
           o == [[own[s] EXCEPT ![saved] = v] EXCEPT ![i] = gone]
<1>1. /\ At(s, "insert") /\ WaitsFor(s) = {} /\ Saves(s, calls[s].rec, saved)
      /\ calls[s].op = "correct"
      /\ own' = [own EXCEPT ![s][saved] = v, ![s][i] = gone]
      /\ Locks(s, {saved}) /\ Goes(s, "commit") /\ UNCHANGED <<rows, now>>
  BY DEF InsertReplacement, Runs
<1>2. v \in Row
  BY <1>1, SavedRow
<1>3. CallOK(s) /\ calls[s] \in Call /\ calls[s].at = "insert"
  BY <1>1, InProgress DEF At, Inv, CallsOK
<1>4. i \in locked[s] /\ i \in Id /\ View(s)[i] \in Row
  BY <1>1, <1>3, ViewType DEF CallOK, Call, Inv
<1>5. gone \in Row /\ ~Active(gone) /\ gone # None
  BY <1>4, RowChanges, StoreConstants
<1> HIDE DEF v, i, gone
<1>6. o \in Rows /\ own' = [own EXCEPT ![s] = o]
  BY <1>1, <1>2, <1>4, <1>5 DEF Rows, Inv, RowsTypeOK
<1>7. \A j \in Id : o[j] = IF j = i THEN gone ELSE IF j = saved THEN v ELSE own[s][j]
  BY DEF Rows, Inv, RowsTypeOK
<1> HIDE DEF o
<1>8. \A j \in Id : \/ j \in locked[s] /\ o[j] # None /\ ~Active(o[j])
                    \/ j = saved /\ o[j] = Saved(s, calls[s].rec, saved)
                    \/ j # saved /\ o[j] = own[s][j]
  BY <1>4, <1>5, <1>7 DEF v
<1>9. Inserting(s, saved, o)
  BY <1>1, <1>6, <1>8 DEF Inserting
<1> QED BY <1>6, <1>9, InsertsInv

\* A row of a statement over several: it is there, and what becomes of the call.
LEMMA NextRow ==
  ASSUME Inv, NEW s \in Session, NEW i \in NextRows(s),
         At(s, "write") \/ At(s, "sweep")
  PROVE  /\ i \in Id /\ CallOK(s) /\ calls[s] \in Call /\ calls[s].op # "idle"
         /\ calls[s].batch[i] \in Row
         /\ calls[s].op \in {"ingest", "compact"}
         /\ At(s, "write") => calls[s].op = "ingest"
         /\ At(s, "sweep") => calls[s].op = "compact" /\ rows[i] \in Row
<1>1. CallOK(s) /\ calls[s] \in Call /\ calls[s].op # "idle"
  BY InProgress DEF At, Inv, CallsOK
<1>2. i \in calls[s].todo /\ i \in Id
  BY <1>1 DEF NextRows, First, Call
<1>3. calls[s].batch[i] \in Row \cup {None} /\ rows[i] \in Row \cup {None}
  BY <1>1, <1>2 DEF Call, Rows, Inv, RowsTypeOK
<1>4. /\ At(s, "write") => calls[s].op = "ingest"
      /\ At(s, "sweep") => calls[s].op = "compact"
  BY <1>1 DEF At, CallOK
<1>5. calls[s].op \in {"ingest", "compact"}
  BY <1>4
<1>6. calls[s].batch[i] # None /\ (calls[s].op = "compact" => rows[i] # None)
  BY <1>1, <1>2, <1>5 DEF CallOK
<1> QED BY <1>1, <1>2, <1>3, <1>4, <1>5, <1>6

\* The call of a statement over several goes on without the row, or ends its statement.
LEMMA RowDone ==
  ASSUME Inv, NEW s \in Session, NEW i \in NextRows(s),
         At(s, "write") \/ At(s, "sweep"),
         NEW stage \in Stage, stage \in {calls[s].at, "commit"}, rows' = rows,
         calls'[s] = [calls[s] EXCEPT !.todo = @ \ {i}, !.at = stage]
  PROVE  [calls[s] EXCEPT !.todo = @ \ {i}, !.at = stage] \in Call /\ CallOK(s)'
<1> DEFINE c == [calls[s] EXCEPT !.todo = @ \ {i}, !.at = stage]
<1>1. CallOK(s) /\ calls[s] \in Call /\ calls[s].op \in {"ingest", "compact"}
  BY NextRow
<1>2. calls[s].at \in {"write", "sweep"}
  BY DEF At
<1>3. c \in Call
  BY <1>1 DEF Call
<1>4. /\ c.op = calls[s].op /\ c.rec = calls[s].rec /\ c.id = calls[s].id
      /\ c.batch = calls[s].batch /\ c.todo \subseteq calls[s].todo /\ c.at = stage
  BY <1>1 DEF Call
<1>5. CallOK(s)'
  <2> HIDE DEF c
  <2>1. calls'[s] = c
    BY DEF c
  <2> QED BY <1>1, <1>2, <1>4, <2>1 DEF CallOK
<1> QED BY <1>3, <1>5

\* A batch locks its next row.
LEMMA LockIdInv ==
  ASSUME Inv, NEW s \in Session, NEW i \in Id, LockId(s, i)
  PROVE  Inv'
<1>1. /\ At(s, "write") /\ i \in NextRows(s) /\ LockersOf(s, i) = {}
      /\ Locks(s, {i}) /\ UNCHANGED <<rows, calls, own, now>>
  BY DEF LockId, RunsRow, RowWaitsFor
<1>2. CallOK(s) /\ calls[s] \in Call /\ calls[s].op # "idle" /\ calls[s].at = "write"
  BY <1>1, InProgress DEF At, Inv, CallsOK
<1>3. calls' = [calls EXCEPT ![s] = calls[s]]
  BY <1>1 DEF Inv, RowsTypeOK
<1>4. calls[s].op = "ingest"
  BY <1>2 DEF CallOK
<1>5. CallOK(s)'
  BY <1>1, <1>2, <1>4 DEF CallOK
<1>6. {i} \in SUBSET Id /\ \A j \in {i} : LockersOf(s, j) = {}
  BY <1>1
<1> DEFINE c == calls[s]
<1>7. c \in Call /\ calls' = [calls EXCEPT ![s] = c]
  BY <1>2, <1>3
<1> HIDE DEF c
<1> QED BY <1>1, <1>5, <1>6, <1>7, LocksInv

\* And writes it, unless another row the session sees has its key.
LEMMA UpsertInv ==
  ASSUME Inv, NEW s \in Session, NEW i \in Id, Upsert(s, i)
  PROVE  Inv'
<1>1. At(s, "write") /\ i \in NextRows(s) /\ i \in locked[s] /\ now' = now
  BY DEF Upsert, RunsRow
<1>2. CASE GivesUp(s)
  BY <1>1, <1>2, GivesUpInv
<1>3. CASE ~GivesUp(s)
  <2> DEFINE r == calls[s].batch[i]
             v == Upserted(View(s)[i], r)
             o == [own[s] EXCEPT ![i] = v]
             stage == IF calls[s].todo = {i} THEN "commit" ELSE calls[s].at
             c == [calls[s] EXCEPT !.todo = @ \ {i}, !.at = stage]
             seen(j) == IF o[j] # None THEN o[j] ELSE rows[j]
  <2>1. calls[s] \in Call /\ r \in Row
    BY <1>1, NextRow
  <2>2. /\ Active(r) => Holder(s, Key(r)) \ {i} = {} /\ WritersOf(s, Key(r)) = {}
        /\ own' = [own EXCEPT ![s][i] = v]
        /\ calls' = [calls EXCEPT ![s].todo = @ \ {i}, ![s].at = stage]
        /\ UNCHANGED <<rows, locked>>
    BY <1>1, <1>3 DEF Upsert, RunsRow, RowWaitsFor
  <2>3. View(s)[i] \in Row \cup {None}
    BY ViewType DEF Inv
  <2>4. v \in Row /\ Key(v) = Key(r) /\ (Active(v) => Active(r))
    <3>1. CASE View(s)[i] = None
      BY <2>1, <3>1, StoreConstants DEF Upserted, Row, Key, Active
    <3>2. CASE View(s)[i] # None
      BY <2>1, <2>3, <3>2, StoreConstants DEF Upserted, Row, Key, Active
    <3> QED BY <3>1, <3>2
  <2>5. calls' = [calls EXCEPT ![s] = c] /\ calls'[s] = c
    BY <2>2 DEF Inv, RowsTypeOK
  <2>6. stage \in Stage /\ stage \in {calls[s].at, "commit"}
    BY <2>1 DEF Call, Stage
  <2> HIDE DEF stage, v, r
  <2>7. c \in Call /\ CallOK(s)'
    BY <1>1, <2>2, <2>5, <2>6, RowDone
  <2> HIDE DEF c
  <2>8. o \in Rows /\ own' = [own EXCEPT ![s] = o]
    BY <2>2, <2>4 DEF Rows, Inv, RowsTypeOK
  <2>9. \A j \in Id : o[j] = IF j = i THEN v ELSE own[s][j]
    BY DEF Rows, Inv, RowsTypeOK
  <2> HIDE DEF o
  <2>10. \A j \in Id : o[j] # None => j \in locked[s]
    BY <1>1, <2>9 DEF Inv, Table, OwnLocked
  <2>11. \A j \in Id : Active(o[j]) => \/ o[j] = own[s][j]
                                       \/ \A t \in Session, k \in Id :
                                            t # s => ~SameKey(o[j], own[t][k])
    BY <2>2, <2>4, <2>9, KeyFree
  <2>12. \A j, k \in Id : SameKey(seen(j), seen(k)) => j = k
    <3>1. \A j \in Id : seen(j) = IF j = i THEN v ELSE View(s)[j]
      BY <2>4, <2>9, StoreConstants DEF View
    <3>2. Active(v) => \A j \in Id : HasKey(View(s)[j], Key(v)) => j = i
      BY <2>2, <2>4 DEF Holder
    <3> HIDE DEF seen
    <3> SUFFICES ASSUME NEW j \in Id, NEW k \in Id, SameKey(seen(j), seen(k)) PROVE j = k
      OBVIOUS
    <3>3. CASE j = i
      BY <3>1, <3>2, <3>3 DEF SameKey, HasKey
    <3>4. CASE k = i
      BY <3>1, <3>2, <3>4 DEF SameKey, HasKey
    <3>5. CASE j # i /\ k # i
      BY <3>1, <3>5 DEF SameKey, Inv, Table, ViewKeys
    <3> QED BY <3>3, <3>4, <3>5
  <2>13. /\ locked' = [locked EXCEPT ![s] = locked[s]] /\ locked[s] \in SUBSET Id
         /\ UNCHANGED <<rows, now>>
         /\ \A t \in Session : t # s => locked[s] \cap locked[t] = {}
    BY <1>1, <2>2 DEF Inv, RowsTypeOK, Table, LocksDisjoint
  <2> QED BY <2>5, <2>7, <2>8, <2>10, <2>11, <2>12, <2>13, WritesInv
<1> QED BY <1>2, <1>3

\* A sweep archives a row, or passes it over.
LEMMA SweepInv ==
  ASSUME Inv, NEW s \in Session, NEW i \in Id, Sweep(s, i)
  PROVE  Inv'
<1> DEFINE c == [calls[s] EXCEPT !.todo = @ \ {i}, !.at = "sweep"]
           gone == [rows[i] EXCEPT !.status = "archived"]
           o == [own[s] EXCEPT ![i] = gone]
           L == locked[s] \cup {i}
           seen(j) == IF o[j] # None THEN o[j] ELSE rows[j]
<1>1. /\ At(s, "sweep") /\ i \in NextRows(s) /\ LockersOf(s, i) = {} /\ now' = now
      /\ rows' = rows /\ calls' = [calls EXCEPT ![s].todo = @ \ {i}]
      /\ \/ own' = [own EXCEPT ![s][i] = gone] /\ Locks(s, {i})
         \/ UNCHANGED <<own, locked>>
  BY DEF Sweep, RunsRow
<1>2. calls[s] \in Call /\ rows[i] \in Row /\ calls[s].at = "sweep"
  BY <1>1, NextRow DEF At
<1>3. calls' = [calls EXCEPT ![s] = c] /\ calls'[s] = c
  BY <1>1, <1>2 DEF Inv, RowsTypeOK, Call
<1>4. c \in Call /\ CallOK(s)'
  <2>1. "sweep" \in Stage /\ "sweep" \in {calls[s].at, "commit"}
    BY <1>2 DEF Stage
  <2> QED BY <1>1, <1>3, <2>1, RowDone
<1> HIDE DEF c
<1>5. CASE UNCHANGED <<own, locked>>
  <2>1. Locks(s, {})
    BY <1>5 DEF Locks, Inv, RowsTypeOK
  <2> QED BY <1>1, <1>3, <1>4, <1>5, <2>1, LocksInv
<1>6. CASE own' = [own EXCEPT ![s][i] = gone] /\ Locks(s, {i})
  <2>1. gone \in Row /\ ~Active(gone) /\ gone # None
    BY <1>2, RowChanges, StoreConstants
  <2> HIDE DEF gone
  <2>2. o \in Rows /\ own' = [own EXCEPT ![s] = o]
    BY <1>6, <2>1 DEF Rows, Inv, RowsTypeOK
  <2>3. \A j \in Id : o[j] = IF j = i THEN gone ELSE own[s][j]
    BY DEF Rows, Inv, RowsTypeOK
  <2> HIDE DEF o
  <2>4. L \in SUBSET Id /\ locked' = [locked EXCEPT ![s] = L]
    BY <1>6 DEF Locks, Inv, RowsTypeOK
  <2>5. \A t \in Session : t # s => L \cap locked[t] = {}
    BY <1>1, Locking
  <2>6. \A j \in Id : o[j] # None => j \in L
    BY <2>3 DEF Inv, Table, OwnLocked
  <2>7. \A j \in Id : Active(o[j]) => \/ o[j] = own[s][j]
                                      \/ \A t \in Session, k \in Id :
                                           t # s => ~SameKey(o[j], own[t][k])
    BY <2>1, <2>3
  <2>8. \A j \in Id : Active(seen(j)) => seen(j) = View(s)[j]
    BY <2>1, <2>3 DEF View
  <2>9. \A j, k \in Id : SameKey(seen(j), seen(k)) => j = k
    <3> HIDE DEF seen
    <3> QED BY <2>8 DEF SameKey, Inv, Table, ViewKeys
  <2>10. UNCHANGED <<rows, now>>
    BY <1>1
  <2> HIDE DEF L
  <2> QED BY <1>3, <1>4, <2>10, <2>2, <2>4, <2>5, <2>6, <2>7, <2>9, WritesInv
<1> QED BY <1>1, <1>5, <1>6

\* Feedback touches a row in place, in one statement.
LEMMA TouchInv ==
  ASSUME Inv, NEW s \in Session, Touch(s)
  PROVE  Inv'
<1>1. /\ At(s, "touch") /\ now' = now /\ calls' = [calls EXCEPT ![s] = Idle]
      /\ UNCHANGED <<own, locked>>
  BY DEF Touch, Runs
<1>2. CallOK(s) /\ calls[s] \in Call /\ calls[s].op # "idle" /\ calls[s].at = "touch"
  BY <1>1, InProgress DEF At, Inv, CallsOK
<1>3. calls[s].id \in Id /\ \A i \in Id : own[s][i] = None
  BY <1>2 DEF CallOK, Call
<1>4. calls'[s] = Idle /\ CallOK(s)'
  BY <1>1, <1>3 DEF CallOK, Idle, Inv, RowsTypeOK
<1>5. rows' \in Rows /\ Table' /\ \A i \in Id : rows[i] # None => rows'[i] # None
  <2>1. CASE rows' = rows
    BY <1>1, <2>1, TableKept DEF Inv, RowsTypeOK
  <2>2. CASE rows' # rows
    <3>1. PICK i \in Id : i = calls[s].id
      BY <1>3
    <3> DEFINE r == [rows[i] EXCEPT !.seenAt = calls[s].start]
    <3>2. rows' = [rows EXCEPT ![i] = r] /\ Active(View(s)[i])
      BY <2>2, <3>1 DEF Touch, Correctable, Inv, RowsTypeOK, Rows
    <3>3. rows[i] \in Row
      BY <1>3, <3>2 DEF View, Active, Inv, RowsTypeOK, Rows
    <3>4. r \in Row /\ r # None
      BY <1>2, <3>3, RowChanges DEF Call
    <3>5. Active(r) => Active(rows[i]) /\ Key(r) = Key(rows[i])
      BY <3>3, StoreConstants DEF Active, Key, Row
    <3> HIDE DEF r
    <3>6. Table'
      BY <1>1, <3>2, <3>4, <3>5, TableTouched DEF Inv
    <3> QED BY <3>2, <3>4, <3>6 DEF Inv, RowsTypeOK, Rows
  <2> QED BY <2>1, <2>2
<1>6. own' \in [Session -> Rows] /\ locked' \in [Session -> SUBSET Id]
  BY <1>1 DEF Inv, RowsTypeOK
<1> QED BY <1>1, <1>4, <1>5, <1>6, CallMoves

\* A step of no call keeps every call as it was.
LEMMA CallsKept ==
  ASSUME Inv, UNCHANGED <<calls, own, locked>>, \A i \in Id : rows[i] # None => rows'[i] # None
  PROVE  CallsOK'
<1> SUFFICES ASSUME NEW t \in Session PROVE CallOK(t)'
  BY DEF CallsOK
<1> QED BY OtherCalls DEF Inv

\* So does retirement, which only takes a key away.
LEMMA RetireInv ==
  ASSUME Inv, NEW i \in Id, NEW status \in {"superseded", "archived"}, Retire(i, status)
  PROVE  Inv'
<1> DEFINE r == [rows[i] EXCEPT !.status = status]
<1>1. /\ Active(rows[i]) /\ rows' = [rows EXCEPT ![i].status = status]
      /\ UNCHANGED <<now, calls, own, locked>>
  BY DEF Retire
<1>2. rows[i] \in Row
  BY <1>1 DEF Active, Inv, RowsTypeOK, Rows
<1>3. r \in Row /\ r # None /\ ~Active(r)
  <2>1. r \in Row /\ r # None
    BY <1>2, RowChanges, StoreConstants
  <2>2. r.status = status
    BY <1>2 DEF Row
  <2> QED BY <2>1, <2>2 DEF Active
<1>4. rows' = [rows EXCEPT ![i] = r]
  BY <1>1 DEF Inv, RowsTypeOK, Rows
<1> HIDE DEF r
<1>5. Table'
  BY <1>1, <1>3, <1>4, TableTouched DEF Inv
<1>6. rows' \in Rows /\ \A k \in Id : rows[k] # None => rows'[k] # None
  BY <1>3, <1>4 DEF Inv, RowsTypeOK, Rows
<1>7. CallsOK'
  BY <1>1, <1>6, CallsKept
<1> QED BY <1>1, <1>5, <1>6, <1>7 DEF Inv, RowsTypeOK

\* And the clock.
LEMMA TickInv ==
  ASSUME Inv, Tick
  PROVE  Inv'
<1>1. now' = now + 1 /\ UNCHANGED <<rows, calls, own, locked>>
  BY DEF Tick
<1>2. Table' /\ CallsOK'
  BY <1>1, TableKept, CallsKept DEF Inv
<1> QED BY <1>1, <1>2 DEF Inv, RowsTypeOK

\* A commit publishes what its session wrote, and its locks go.
LEMMA CommitInv ==
  ASSUME Inv, NEW s \in Session, Commit(s)
  PROVE  Inv'
<1>1. /\ rows' = View(s) /\ calls' = [calls EXCEPT ![s] = Idle] /\ Ends(s) /\ now' = now
      /\ own' = [own EXCEPT ![s] = NoRows] /\ locked' = [locked EXCEPT ![s] = {}]
  BY DEF Commit, Ends
<1>2. Table'
  BY <1>1, TableCommits DEF Inv
<1>3. NoRows \in Rows
  BY DEF NoRows, Rows
<1>4. rows' \in Rows /\ own' \in [Session -> Rows] /\ locked' \in [Session -> SUBSET Id]
  BY <1>1, <1>3, ViewType DEF Inv, RowsTypeOK
<1>5. calls'[s] = Idle /\ own'[s] = NoRows
  BY <1>1 DEF Inv, RowsTypeOK
<1>6. CallOK(s)'
  BY <1>5 DEF CallOK, Idle, NoRows
<1>7. \A t \in Session : t # s => own'[t] = own[t] /\ locked'[t] = locked[t]
  BY <1>1 DEF Inv, RowsTypeOK
<1>8. \A i \in Id : rows[i] # None => rows'[i] # None
  BY <1>1 DEF View
<1> QED BY <1>1, <1>2, <1>4, <1>6, <1>7, <1>8, CallMoves

\* The victim of a deadlock begins again with all its rows to write, or fails.
LEMMA DeadlockBrokenInv ==
  ASSUME Inv, NEW s \in Session, DeadlockBroken(s)
  PROVE  Inv'
<1> DEFINE again == Again(calls[s])
<1>1. /\ calls' = [calls EXCEPT ![s] = IF Retries(s) THEN again ELSE Idle]
      /\ UNCHANGED <<rows, now>> /\ RollsBack(s)
  BY DEF DeadlockBroken, Inv, RowsTypeOK
<1>2. CASE ~Retries(s)
  <2>1. GivesUp(s) /\ now' = now
    BY <1>1, <1>2 DEF GivesUp
  <2> QED BY <2>1, GivesUpInv
<1>3. CASE Retries(s)
  <2>1. own' = [own EXCEPT ![s] = NoRows] /\ locked' = [locked EXCEPT ![s] = {}] /\ Ends(s)
    BY <1>1 DEF RollsBack, Ends
  <2>2. calls[s].op # "idle"
    <3>1. WaitsFor(s) # {}
      BY DEF DeadlockBroken, Deadlocked
    <3> QED BY <3>1 DEF WaitsFor, At
  <2>3. CallOK(s) /\ calls[s] \in Call
    BY <2>2, InProgress DEF Inv, CallsOK
  <2>4. again \in Call
    <3>1. calls[s].attempt + 1 \in 1 .. MaxAttempts
      BY <1>3, <2>3 DEF Call, Retries, MaxAttempts
    <3> QED BY <2>3, <3>1 DEF Again, Call, Stage
  <2>5. /\ again.op = calls[s].op /\ again.rec = calls[s].rec /\ again.id = calls[s].id
        /\ again.batch = calls[s].batch /\ again.at = "begin"
        /\ again.todo = {i \in Id : calls[s].batch[i] # None}
    BY <2>3 DEF Again, Call
  <2> HIDE DEF again
  <2>6. calls' = [calls EXCEPT ![s] = again] /\ calls'[s] = again /\ own'[s] = NoRows
    BY <1>1, <1>3, <2>1 DEF Inv, RowsTypeOK
  <2>7. CallOK(s)'
    BY <1>3, <2>2, <2>3, <2>5, <2>6 DEF CallOK, NoRows, Retries
  <2>8. Table'
    BY <1>1, <2>1, TableEnds DEF Inv
  <2>9. NoRows \in Rows
    BY DEF NoRows, Rows
  <2>10. /\ rows' \in Rows /\ own' \in [Session -> Rows] /\ locked' \in [Session -> SUBSET Id]
         /\ \A t \in Session : t # s => own'[t] = own[t] /\ locked'[t] = locked[t]
    BY <1>1, <2>1, <2>9 DEF Inv, RowsTypeOK
  <2> QED BY <1>1, <2>4, <2>6, <2>7, <2>8, <2>10, CallMoves
<1> QED BY <1>2, <1>3

(***************************************************************************)
(* The specification.                                                      *)
(***************************************************************************)

\* No call is in progress at first, and the table is empty.
LEMMA InitInv == Init => Inv
<1> SUFFICES ASSUME Init PROVE Inv
  OBVIOUS
<1>1. /\ rows = [i \in Id |-> None] /\ now = 0 /\ calls = [s \in Session |-> Idle]
      /\ own = [s \in Session |-> NoRows] /\ locked = [s \in Session |-> {}]
  BY DEF Init, StoreInit
<1>2. RowsTypeOK
  BY <1>1 DEF RowsTypeOK, Rows, NoRows
<1>3. Table
  BY <1>1 DEF Table, LocksDisjoint, OwnLocked, ViewKeys, PendingKeys, OneActivePerKey,
              SameKey, View, NoRows, Active
<1>4. CallsOK
  BY <1>1 DEF CallsOK, CallOK, Idle, NoRows
<1> QED BY <1>2, <1>3, <1>4 DEF Inv

\* Every statement keeps the invariant.
LEMMA StatementsInv ==
  ASSUME Inv, NEW s \in Session, Statements(s)
  PROVE  Inv'
<1>1. ASSUME IdsUsedUp(s) PROVE Inv'
  <2>1. GivesUp(s) /\ now' = now
    BY <1>1 DEF IdsUsedUp, Runs
  <2> QED BY <2>1, GivesUpInv
<1> QED BY <1>1, BeginInv, ArchiveInv, LockPreviousInv, TouchInv, CommitInv,
           InsertOrReinforceInv, InsertReplacementInv, LockIdInv, UpsertInv, SweepInv
        DEF Statements

\* And so does every step.
LEMMA NextInv == Inv /\ [Next]_tvars => Inv'
<1> SUFFICES ASSUME Inv, [Next]_tvars PROVE Inv'
  OBVIOUS
<1>1. CASE Tick
  BY <1>1, TickInv
<1>2. CASE RetireSteps
  BY <1>2, RetireInv DEF RetireSteps
<1>3. ASSUME NEW s \in Session, NewCalls(s) PROVE Inv'
  BY <1>3, NewCallsInv
<1>4. ASSUME NEW s \in Session, Statements(s) PROVE Inv'
  BY <1>4, StatementsInv
<1>5. ASSUME NEW s \in Session, DeadlockBroken(s) PROVE Inv'
  BY <1>5, DeadlockBrokenInv
<1>6. ASSUME NEW s \in Session, CallFails(s) PROVE Inv'
  BY <1>6, GivesUpInv DEF CallFails
<1>7. CASE UNCHANGED tvars
  <2>1. UNCHANGED <<rows, now, calls, own, locked>>
    BY <1>7 DEF tvars
  <2>2. Table' /\ CallsOK'
    BY <2>1, TableKept, CallsKept DEF Inv
  <2> QED BY <2>1, <2>2 DEF Inv, RowsTypeOK
<1> QED BY <1>1, <1>2, <1>3, <1>4, <1>5, <1>6, <1>7 DEF Next, Steps

\* The invariant holds in every behaviour.
THEOREM Invariance == Spec => []Inv
BY InitInv, NextInv, PTL DEF Spec

\* Rows, calls, written rows and locks keep their types, whatever statements interleave.
THEOREM RowsTypeCorrect == Spec => []RowsTypeOK
<1>1. Inv => RowsTypeOK
  BY DEF Inv
<1> QED BY <1>1, Invariance, PTL

\* However the statements of any number of processes interleave, wait, deadlock and fail,
\* no committed table has two active memories with one text in one locus.
THEOREM KeysStayUnique == Spec => []OneActivePerKey
<1>1. Inv => OneActivePerKey
  BY DEF Inv, Table
<1> QED BY <1>1, Invariance, PTL

(***************************************************************************)
(* Transactions are steps of ExactStore.                                   *)
(*                                                                         *)
(* What a transaction has written so far is told as a story about the      *)
(* committed rows it found: c is its call, o what it has written, recs the *)
(* table and t the time.  A row it wrote it has locked, so nobody changes  *)
(* the row the story is about, and the commit does what it says.  Batches  *)
(* are not of this kind: one may write any number of rows.                 *)
(***************************************************************************)
ArchivedDuplicate(c, r, x) ==
  HasKey(r, Key(c.rec)) /\ Expired(r, c.start) /\ x = [r EXCEPT !.status = "archived"]

TookKey(c, r, x) ==
  /\ Active(x) /\ Key(x) = Key(c.rec) /\ x.by = None
  /\ x.history = History(r) \cup c.rec.history
  /\ \/ r = None
     \/ /\ Active(r) /\ r.by = None
        /\ x.content = r.content /\ x.vector = r.vector /\ x.createdAt = r.createdAt
        /\ x.seenAt >= r.seenAt
        /\ c.op = "observe" => x.decay = r.decay

LeftTo(c, r, x, j) ==
  /\ c.id # j /\ Active(r) /\ r.by = None /\ Key(r) # Key(c.rec)
  /\ x = [r EXCEPT !.status = "superseded", !.by = j]

Untouched(o) == \A j \in Id : o[j] = None

Inserted(c, o, recs) ==
  \E j \in Id :
    /\ o[j] # None /\ TookKey(c, recs[j], o[j])
    /\ c.op = "correct" => c.id \in Id /\ o[c.id] # None /\ LeftTo(c, recs[c.id], o[c.id], j)
    /\ \A i \in Id : \/ i = j
                     \/ c.op = "correct" /\ i = c.id
                     \/ o[i] = None
                     \/ ArchivedDuplicate(c, recs[i], o[i])

\* A candidate, and what has become of it.
CandidateStory(c, o, recs) ==
  /\ Active(c.rec) /\ c.rec.by = None
  /\ c.rec.history = IF c.op = "correct" THEN {c.id} ELSE {}
  /\ c.at \in {"begin", "lock", "archive"} => Untouched(o)
  /\ c.op = "correct" /\ c.at \in {"archive", "insert"} =>
       /\ c.id \in Id /\ o[c.id] = None
       /\ Active(recs[c.id]) /\ Key(recs[c.id]) # Key(c.rec)
  /\ c.at = "insert" => \A j \in Id : o[j] = None \/ ArchivedDuplicate(c, recs[j], o[j])
  /\ c.at = "commit" => Inserted(c, o, recs)

Story(c, o, recs, t) ==
  /\ c.op # "ingest"
  /\ c.op # "idle" => c.op \in Op /\ c.start <= t
  /\ c.op \in {"observe", "correct"} => CandidateStory(c, o, recs)
  /\ c.op \in {"feedback", "idle"} => Untouched(o)
  /\ c.op = "compact" =>
       \A j \in Id : o[j] # None => recs[j] # None /\ o[j] = [recs[j] EXCEPT !.status = "archived"]
  /\ c.op # "idle" /\ c.at = "commit" => c.op \in {"observe", "correct"}

ActiveUnlinked == \A i \in Id : Active(rows[i]) => rows[i].by = None

StoryInv == ActiveUnlinked /\ \A s \in Session : Story(calls[s], own[s], rows, now)

NoBatches == "ingest" \notin Op

\* The story of a transaction stays true while nobody changes the rows it is about.
LEMMA StoryFrame ==
  ASSUME NEW c, NEW o, NEW recs, NEW recs2, NEW t \in Nat, NEW t2 \in Nat, t <= t2,
         c.op # "idle" => c.start \in Nat,
         Story(c, o, recs, t),
         \A j \in Id : o[j] # None => recs2[j] = recs[j],
         c.op = "correct" /\ c.at \in {"archive", "insert"} => recs2[c.id] = recs[c.id]
  PROVE  Story(c, o, recs2, t2)
<1>1. c.op # "idle" => c.op \in Op /\ c.start <= t2
  BY DEF Story
<1>2. Inserted(c, o, recs) => Inserted(c, o, recs2)
  <2> SUFFICES ASSUME Inserted(c, o, recs) PROVE Inserted(c, o, recs2)
    OBVIOUS
  <2>1. PICK j \in Id :
          /\ o[j] # None /\ TookKey(c, recs[j], o[j])
          /\ c.op = "correct" => c.id \in Id /\ o[c.id] # None /\ LeftTo(c, recs[c.id], o[c.id], j)
          /\ \A i \in Id : \/ i = j
                           \/ c.op = "correct" /\ i = c.id
                           \/ o[i] = None
                           \/ ArchivedDuplicate(c, recs[i], o[i])
    BY DEF Inserted
  <2>2. /\ o[j] # None /\ TookKey(c, recs2[j], o[j])
        /\ c.op = "correct" => c.id \in Id /\ o[c.id] # None /\ LeftTo(c, recs2[c.id], o[c.id], j)
    BY <2>1
  <2>3. \A i \in Id : \/ i = j
                      \/ c.op = "correct" /\ i = c.id
                      \/ o[i] = None
                      \/ ArchivedDuplicate(c, recs2[i], o[i])
    BY <2>1
  <2> QED BY <2>2, <2>3 DEF Inserted
<1>3. CandidateStory(c, o, recs) => CandidateStory(c, o, recs2)
  <2> SUFFICES ASSUME CandidateStory(c, o, recs) PROVE CandidateStory(c, o, recs2)
    OBVIOUS
  <2>1. c.at = "insert" => \A j \in Id : o[j] = None \/ ArchivedDuplicate(c, recs2[j], o[j])
    <3> SUFFICES ASSUME c.at = "insert", NEW j \in Id, o[j] # None
                 PROVE  ArchivedDuplicate(c, recs2[j], o[j])
      OBVIOUS
    <3>1. ArchivedDuplicate(c, recs[j], o[j])
      BY DEF CandidateStory
    <3> QED BY <3>1
  <2> QED BY <1>2, <2>1 DEF CandidateStory
<1>4. c.op = "compact" =>
        \A j \in Id : o[j] # None => recs2[j] # None /\ o[j] = [recs2[j] EXCEPT !.status = "archived"]
  <2> SUFFICES ASSUME c.op = "compact", NEW j \in Id, o[j] # None
               PROVE  recs2[j] # None /\ o[j] = [recs2[j] EXCEPT !.status = "archived"]
    OBVIOUS
  <2>1. recs[j] # None /\ o[j] = [recs[j] EXCEPT !.status = "archived"]
    BY DEF Story
  <2> QED BY <2>1
<1> QED BY <1>1, <1>3, <1>4 DEF Story

\* What remains to be shown of a step: the story of its own session, whose call becomes c.
LEMMA StoryMoves ==
  ASSUME Inv, StoryInv, NEW s \in Session, NEW c, calls' = [calls EXCEPT ![s] = c], now' = now,
         \A t \in Session : t # s => own'[t] = own[t],
         \A t \in Session, j \in Id : t # s /\ rows'[j] # rows[j] => j \notin locked[t],
         Story(c, own'[s], rows', now), ActiveUnlinked'
  PROVE  StoryInv'
<1> SUFFICES ASSUME NEW t \in Session PROVE Story(calls'[t], own'[t], rows', now)
  BY DEF StoryInv
<1>1. CASE t = s
  BY <1>1 DEF Inv, RowsTypeOK
<1>2. CASE t # s
  <2>1. calls'[t] = calls[t] /\ own'[t] = own[t] /\ Story(calls[t], own[t], rows, now) /\ CallOK(t)
    BY <1>2 DEF Inv, RowsTypeOK, StoryInv, CallsOK
  <2>2. \A j \in Id : own[t][j] # None => rows'[j] = rows[j]
    BY <1>2 DEF Inv, Table, OwnLocked
  <2>3. calls[t].op = "correct" /\ calls[t].at \in {"archive", "insert"} =>
          rows'[calls[t].id] = rows[calls[t].id]
    <3> SUFFICES ASSUME calls[t].op = "correct", calls[t].at \in {"archive", "insert"}
                 PROVE  rows'[calls[t].id] = rows[calls[t].id]
      OBVIOUS
    <3>1. calls[t].id \in locked[t]
      BY <2>1 DEF CallOK
    <3>2. calls[t].id \in Id
      BY <3>1 DEF Inv, RowsTypeOK
    <3> QED BY <1>2, <3>1, <3>2
  <2>4. now \in Nat /\ now <= now /\ (calls[t].op # "idle" => calls[t].start \in Nat)
    BY InProgress DEF Inv, RowsTypeOK, Call
  <2> HIDE DEF Inv
  <2> QED BY <2>1, <2>2, <2>3, <2>4, StoryFrame
<1> QED BY <1>1, <1>2

\* The same for a step that commits nothing.
LEMMA StoryWrites ==
  ASSUME Inv, StoryInv, NEW s \in Session, NEW c, calls' = [calls EXCEPT ![s] = c],
         UNCHANGED <<rows, now>>, \A t \in Session : t # s => own'[t] = own[t],
         Story(c, own'[s], rows, now)
  PROVE  StoryInv'
<1>1. ActiveUnlinked'
  BY DEF StoryInv, ActiveUnlinked, Active
<1>2. Story(c, own'[s], rows', now) /\ \A j \in Id : rows'[j] = rows[j]
  OBVIOUS
<1> QED BY <1>1, <1>2, StoryMoves

\* The row of an id that a session has not written is the committed one.
LEMMA ViewUnwritten ==
  ASSUME Inv, NEW s \in Session, NEW i \in Id
  PROVE  /\ own[s][i] = None => View(s)[i] = rows[i]
         /\ own[s][i] # None => View(s)[i] = own[s][i] /\ i \in locked[s]
         /\ rows[i] \in Row \cup {None}
BY DEF View, Inv, RowsTypeOK, Rows, Table, OwnLocked

\* Calls that begin have written nothing, and correct a memory by a candidate of theirs.
LEMMA NewCallsStory ==
  ASSUME Inv, StoryInv, NoBatches, NEW s \in Session, NewCalls(s)
  PROVE  StoryInv'
<1>1. ASSUME NEW c, Starts(s, c), c.op # "ingest", c.start = now, c.at = "begin",
             c.op \in {"observe", "correct"} =>
               /\ Active(c.rec) /\ c.rec.by = None
               /\ c.rec.history = IF c.op = "correct" THEN {c.id} ELSE {}
      PROVE  StoryInv'
  <2>1. /\ calls[s].op = "idle" /\ c.op \in Op /\ calls' = [calls EXCEPT ![s] = c]
        /\ UNCHANGED <<rows, now, own, locked>>
    BY <1>1 DEF Starts
  <2>2. CallOK(s) /\ now \in Nat
    BY DEF Inv, CallsOK, RowsTypeOK
  <2>3. Untouched(own[s]) /\ Untouched(own'[s])
    BY <2>1, <2>2 DEF CallOK, Untouched
  <2>4. Story(c, own'[s], rows, now)
    BY <1>1, <2>1, <2>2, <2>3 DEF Story, CandidateStory, Untouched
  <2> QED BY <2>1, <2>4, StoryWrites
<1>2. \A t \in Content, d \in DecayKind :
        /\ NewRow(t, d, now) \in Row /\ Active(NewRow(t, d, now))
        /\ NewRow(t, d, now).by = None /\ NewRow(t, d, now).history = {}
  <2> TAKE t \in Content, d \in DecayKind
  <2>1. NewRow(t, d, now) \in Row
    BY DEF NewRow, Row, Inv, RowsTypeOK
  <2>2. NewRow(t, d, now) # None
    BY <2>1, StoreConstants
  <2> QED BY <2>1, <2>2 DEF NewRow, Active
<1>3. \A op \in {"observe", "correct", "ingest", "feedback", "compact"} :
        NewCall(op).op = op /\ NewCall(op).start = now /\ NewCall(op).at = "begin"
  BY DEF NewCall
<1>4. ASSUME NEW t \in Content, NEW d \in DecayKind, Observe(s, t, d) PROVE StoryInv'
  <2> DEFINE c == [NewCall("observe") EXCEPT !.rec = NewRow(t, d, now)]
  <2>1. c.op = "observe" /\ c.start = now /\ c.at = "begin" /\ c.rec = NewRow(t, d, now)
    BY DEF NewCall
  <2>2. Starts(s, c)
    BY <1>4 DEF Observe
  <2> HIDE DEF c
  <2> QED BY <1>1, <1>2, <2>1, <2>2
<1>5. ASSUME NEW i \in Id, NEW t \in Content, NEW d \in DecayKind, Correct(s, i, t, d) PROVE StoryInv'
  <2> DEFINE r == [NewRow(t, d, now) EXCEPT !.history = {i}]
             c == [NewCall("correct") EXCEPT !.id = i, !.rec = r]
  <2>1. r \in Row /\ r.status = "active" /\ r.by = None /\ r.history = {i}
    BY <1>2 DEF Row, Active
  <2>2. Active(r)
    BY <2>1, StoreConstants DEF Active
  <2> HIDE DEF r
  <2>3. c.op = "correct" /\ c.start = now /\ c.at = "begin" /\ c.rec = r /\ c.id = i
    BY DEF NewCall
  <2>4. Starts(s, c)
    BY <1>5 DEF Correct, r
  <2> HIDE DEF c
  <2> QED BY <1>1, <2>1, <2>2, <2>3, <2>4
<1>6. ASSUME NEW b \in Batches, Ingest(s, b) PROVE FALSE
  <2> DEFINE dated == [i \in Id |-> IF b[i] = None THEN None
                                   ELSE [b[i] EXCEPT !.createdAt = now, !.seenAt = now]]
             c == [NewCall("ingest") EXCEPT !.batch = dated, !.todo = {i \in Id : b[i] # None}]
  <2>1. c.op = "ingest"
    BY DEF NewCall
  <2>2. Starts(s, c)
    BY <1>6 DEF Ingest
  <2> HIDE DEF c
  <2> QED BY <2>1, <2>2 DEF Starts, NoBatches
<1>7. ASSUME NEW i \in Id, Feedback(s, i) PROVE StoryInv'
  <2> DEFINE c == [NewCall("feedback") EXCEPT !.id = i]
  <2>1. c.op = "feedback" /\ c.start = now /\ c.at = "begin"
    BY DEF NewCall
  <2>2. Starts(s, c)
    BY <1>7 DEF Feedback
  <2> HIDE DEF c
  <2> QED BY <1>1, <2>1, <2>2
<1>8. ASSUME Compact(s) PROVE StoryInv'
  BY <1>1, <1>3, <1>8 DEF Compact
<1> QED BY <1>4, <1>5, <1>6, <1>7, <1>8 DEF NewCalls

\* A call that ends without a commit leaves no trace.
LEMMA GivesUpStory ==
  ASSUME Inv, StoryInv, NEW s \in Session, GivesUp(s), now' = now
  PROVE  StoryInv'
<1>1. /\ calls' = [calls EXCEPT ![s] = Idle] /\ rows' = rows /\ now' = now
      /\ own' = [own EXCEPT ![s] = NoRows]
  BY DEF GivesUp, RollsBack, Ends
<1>2. own'[s] = NoRows /\ \A t \in Session : t # s => own'[t] = own[t]
  BY <1>1 DEF Inv, RowsTypeOK
<1>3. Story(Idle, own'[s], rows, now)
  BY <1>2 DEF Story, Idle, Untouched, NoRows
<1> QED BY <1>1, <1>2, <1>3, StoryWrites

\* What the story of a call says at its statement.
LEMMA StoryOf ==
  ASSUME Inv, StoryInv, NEW s \in Session, calls[s].op # "idle"
  PROVE  /\ calls[s] \in Call /\ CallOK(s) /\ Story(calls[s], own[s], rows, now)
         /\ calls[s].op \in {"observe", "correct", "feedback", "compact"}
         /\ calls[s].start \in Nat /\ now \in Nat
         /\ own[s] \in Rows /\ rows \in Rows
<1>1. calls[s] \in Call /\ CallOK(s) /\ Story(calls[s], own[s], rows, now)
  BY InProgress DEF Inv, CallsOK, StoryInv
<1> QED BY <1>1 DEF Story, Call, Inv, RowsTypeOK

\* BEGIN.
LEMMA BeginStory ==
  ASSUME Inv, StoryInv, NEW s \in Session, Begin(s)
  PROVE  StoryInv'
<1> DEFINE op == calls[s].op
           c == [calls[s] EXCEPT
                   !.at = CASE op \in {"observe", "ingest"} -> "archive"
                            [] op = "correct" -> "lock"
                            [] op = "feedback" -> "touch"
                            [] OTHER -> "sweep",
                   !.batch = IF op = "compact" THEN Due ELSE @,
                   !.todo = IF op = "compact" THEN {i \in Id : Due[i] # None} ELSE @,
                   !.start = now]
<1>1. calls[s].op # "idle" /\ calls[s].at = "begin"
  BY DEF Begin, At
<1>2. calls[s] \in Call /\ CallOK(s) /\ Story(calls[s], own[s], rows, now) /\ now \in Nat
  BY <1>1, StoryOf
<1>3. Untouched(own[s])
  BY <1>1, <1>2 DEF CallOK, Untouched
<1>4. calls' = [calls EXCEPT ![s] = c] /\ UNCHANGED <<rows, now, own>>
  BY <1>2 DEF Begin, Inv, RowsTypeOK
<1>5. /\ c.op = calls[s].op /\ c.rec = calls[s].rec /\ c.id = calls[s].id /\ c.start = now
      /\ c.at # "commit" /\ c.at # "insert" /\ (calls[s].op = "correct" => c.at = "lock")
  BY <1>2 DEF Call
<1> HIDE DEF c, op
<1>6. Story(c, own[s], rows, now)
  BY <1>1, <1>2, <1>3, <1>5 DEF Story, CandidateStory, Untouched
<1> QED BY <1>4, <1>6, StoryWrites

\* The duplicates a transaction archives are committed rows that hold its key and expired.
LEMMA ArchiveStory ==
  ASSUME Inv, StoryInv, NEW s \in Session, Archive(s)
  PROVE  StoryInv'
<1> DEFINE T == ExpiredDuplicates(s)
           o == [i \in Id |-> IF i \in T THEN [View(s)[i] EXCEPT !.status = "archived"]
                              ELSE own[s][i]]
           c == [calls[s] EXCEPT !.at = "insert"]
<1>1. calls[s].op # "idle" /\ calls[s].at = "archive" /\ UNCHANGED <<rows, now>>
  BY DEF Archive, Runs, At
<1>2. calls[s] \in Call /\ CallOK(s) /\ Story(calls[s], own[s], rows, now) /\ now \in Nat
  BY <1>1, StoryOf
<1>3. calls[s].op \in {"observe", "correct"} /\ CandidateStory(calls[s], own[s], rows)
  BY <1>1, <1>2, StoryOf DEF CallOK, Story
<1>4. \A i \in Id : own[s][i] = None /\ View(s)[i] = rows[i]
  BY <1>1, <1>3, ViewUnwritten DEF CandidateStory, Untouched
<1>5. calls' = [calls EXCEPT ![s] = c] /\ own' = [own EXCEPT ![s] = o]
  BY <1>3 DEF Archive, Goes, Inv, RowsTypeOK
<1>6. own'[s] = o /\ \A t \in Session : t # s => own'[t] = own[t]
  BY <1>5 DEF Inv, RowsTypeOK
<1>7. /\ c.op = calls[s].op /\ c.rec = calls[s].rec /\ c.id = calls[s].id
      /\ c.start = calls[s].start /\ c.at = "insert"
  BY <1>2 DEF Call
<1>8. \A i \in T : HasKey(rows[i], Key(calls[s].rec)) /\ Expired(rows[i], calls[s].start)
  BY <1>3, <1>4 DEF ExpiredDuplicates, Incoming
<1>9. \A i \in Id : o[i] = None \/ ArchivedDuplicate(c, rows[i], o[i])
  <2> TAKE i \in Id
  <2>1. CASE i \in T
    <3>1. o[i] = [rows[i] EXCEPT !.status = "archived"]
      BY <1>4, <2>1
    <3> HIDE DEF c, o, T
    <3> QED BY <1>7, <1>8, <2>1, <3>1 DEF ArchivedDuplicate
  <2>2. CASE i \notin T
    BY <1>4, <2>2
  <2> QED BY <2>1, <2>2
<1>10. calls[s].op = "correct" =>
         /\ calls[s].id \in Id /\ Active(rows[calls[s].id])
         /\ Key(rows[calls[s].id]) # Key(calls[s].rec)
  BY <1>1, <1>3 DEF CandidateStory
<1>11. calls[s].op = "correct" => calls[s].id \notin T
  BY <1>8, <1>10 DEF HasKey
<1>12. calls[s].op = "correct" => o[calls[s].id] = None
  BY <1>4, <1>10, <1>11
<1> HIDE DEF c, o, T
<1>13. Story(c, own'[s], rows, now)
  BY <1>2, <1>3, <1>6, <1>7, <1>9, <1>10, <1>12 DEF Story, CandidateStory
<1> QED BY <1>1, <1>5, <1>6, <1>13, StoryWrites

\* SELECT ... FOR UPDATE finds the memory active and of another text.
LEMMA LockPreviousStory ==
  ASSUME Inv, StoryInv, NEW s \in Session, LockPrevious(s)
  PROVE  StoryInv'
<1> DEFINE c == [calls[s] EXCEPT !.at = "archive"]
<1>1. calls[s].op # "idle" /\ calls[s].at = "lock" /\ now' = now
  BY DEF LockPrevious, Runs, At
<1>2. CASE GivesUp(s)
  BY <1>1, <1>2, GivesUpStory
<1>3. CASE ~GivesUp(s)
  <2>1. calls[s] \in Call /\ CallOK(s) /\ Story(calls[s], own[s], rows, now) /\ now \in Nat
    BY <1>1, StoryOf
  <2>2. calls[s].op = "correct" /\ calls[s].id \in Id
    BY <1>1, <2>1 DEF CallOK, Call
  <2>3. CandidateStory(calls[s], own[s], rows)
    BY <2>1, <2>2 DEF Story
  <2>4. Untouched(own[s])
    BY <1>1, <2>3 DEF CandidateStory
  <2>5. View(s)[calls[s].id] = rows[calls[s].id] /\ own[s][calls[s].id] = None
    BY <2>2, <2>4, ViewUnwritten DEF Untouched
  <2>6. /\ Correctable(s) /\ Key(View(s)[calls[s].id]) # Key(calls[s].rec)
        /\ calls' = [calls EXCEPT ![s] = c] /\ UNCHANGED <<rows, own, now>>
    BY <1>1, <1>3 DEF LockPrevious, Goes, Inv, RowsTypeOK
  <2>7. /\ c.op = calls[s].op /\ c.rec = calls[s].rec /\ c.id = calls[s].id
        /\ c.start = calls[s].start /\ c.at = "archive"
    BY <2>1 DEF Call
  <2>8. Active(rows[calls[s].id]) /\ Key(rows[calls[s].id]) # Key(calls[s].rec)
    BY <2>5, <2>6 DEF Correctable
  <2> HIDE DEF c
  <2>9. Story(c, own[s], rows, now)
    BY <2>1, <2>2, <2>3, <2>4, <2>5, <2>7, <2>8 DEF Story, CandidateStory
  <2> QED BY <2>6, <2>9, StoryWrites
<1> QED BY <1>2, <1>3

\* A reinforced row, and a replaced one: its text, dates and link, its history.
LEMMA Merges ==
  ASSUME NEW old \in Row, NEW r \in Row
  PROVE  /\ \A x \in {Reinforced(old, r), Replaced(old, r)} :
              /\ x \in Row /\ x.status = old.status /\ x.by = old.by /\ x.content = old.content
              /\ x.vector = old.vector /\ x.createdAt = old.createdAt
              /\ x.seenAt >= old.seenAt /\ x.seenAt >= r.seenAt
         /\ Reinforced(old, r).history = old.history /\ Reinforced(old, r).decay = old.decay
         /\ Replaced(old, r).history = old.history \cup r.history
<1>1. /\ Later(old.seenAt, r.seenAt) \in Nat
      /\ Later(old.seenAt, r.seenAt) >= old.seenAt /\ Later(old.seenAt, r.seenAt) >= r.seenAt
  BY DEF Later, Row
<1>2. /\ Reinforced(old, r) \in Row /\ Reinforced(old, r).seenAt = Later(old.seenAt, r.seenAt)
      /\ Reinforced(old, r).status = old.status /\ Reinforced(old, r).by = old.by
      /\ Reinforced(old, r).content = old.content /\ Reinforced(old, r).vector = old.vector
      /\ Reinforced(old, r).createdAt = old.createdAt
      /\ Reinforced(old, r).history = old.history /\ Reinforced(old, r).decay = old.decay
  BY <1>1 DEF Reinforced, Row
<1> DEFINE x == Reinforced(old, r)
<1>3. Replaced(old, r) = [x EXCEPT !.decay = r.decay, !.history = @ \cup r.history]
  BY DEF Replaced
<1> HIDE DEF x
<1>4. x \in Row
  BY <1>2 DEF x
<1>5. /\ Replaced(old, r) \in Row /\ Replaced(old, r).seenAt = x.seenAt
      /\ Replaced(old, r).status = x.status /\ Replaced(old, r).by = x.by
      /\ Replaced(old, r).content = x.content /\ Replaced(old, r).vector = x.vector
      /\ Replaced(old, r).createdAt = x.createdAt
      /\ Replaced(old, r).history = x.history \cup r.history
  BY <1>3, <1>4 DEF Row
<1> QED BY <1>1, <1>2, <1>5 DEF x

\* An insert creates its row, or takes in the row that has the key, which it had not written.
LEMMA SavedStory ==
  ASSUME Inv, StoryInv, NEW s \in Session, At(s, "insert"), WaitsFor(s) = {}, NEW saved \in Id,
         Saves(s, calls[s].rec, saved)
  PROVE  /\ TookKey(calls[s], rows[saved], Saved(s, calls[s].rec, saved))
         /\ calls[s].op = "correct" => saved # calls[s].id
<1> DEFINE c == calls[s]
           r == c.rec
           k == Key(r)
           v == Saved(s, r, saved)
<1>1. c \in Call /\ CallOK(s) /\ c.op # "idle" /\ c.at = "insert" /\ CandidateStory(c, own[s], rows)
  BY StoryOf DEF At, CallOK, Story
<1>2. c.op \in {"observe", "correct"} /\ r \in Row /\ r # None
  BY <1>1 DEF CallOK, Call
<1>3. v \in Row /\ Key(v) = k
  BY SavedRow
<1>4. CASE Holder(s, k) = {}
  <2>1. Fresh(saved)
    BY <1>4 DEF Saves
  <2>2. rows[saved] = None /\ View(s)[saved] = None
    BY <2>1, ViewUnwritten DEF Fresh
  <2>3. v = [r EXCEPT !.vector = r.content]
    BY <2>2 DEF Saved, EmbedsCreated
  <2>4. v.status = r.status /\ v.by = r.by /\ v.history = r.history
    BY <1>2, <2>3 DEF Row
  <2>5. r.status = "active" /\ r.by = None
    BY <1>1 DEF CandidateStory, Active
  <2>6. v # None
    BY <1>3, StoreConstants
  <2> HIDE DEF v, r, c
  <2>7. TookKey(c, rows[saved], v)
    BY <1>3, <2>2, <2>4, <2>5, <2>6 DEF TookKey, Active, History, r
  <2>8. c.op = "correct" => saved # c.id
    BY <1>1, <2>2 DEF CandidateStory, Active
  <2> QED BY <2>7, <2>8 DEF c, r, v
<1>5. CASE Holder(s, k) # {}
  <2> DEFINE old == rows[saved]
  <2>1. HasKey(View(s)[saved], k)
    BY <1>5 DEF Saves, Holder
  <2>2. own[s][saved] = None
    <3> SUFFICES ASSUME own[s][saved] # None PROVE FALSE
      OBVIOUS
    <3>1. own[s][saved] = [rows[saved] EXCEPT !.status = "archived"] /\ Active(rows[saved])
      BY <1>1 DEF CandidateStory, ArchivedDuplicate, HasKey
    <3>2. rows[saved] \in Row
      BY <3>1, ViewUnwritten DEF Active
    <3>3. ~Active(own[s][saved])
      BY <3>1, <3>2, RowChanges
    <3> QED BY <2>1, <3>3, ViewUnwritten DEF HasKey
  <2>3. View(s)[saved] = old /\ HasKey(old, k)
    BY <2>1, <2>2, ViewUnwritten
  <2>4. old \in Row /\ old # None /\ old.status = "active" /\ old.by = None
    BY <2>3, ViewUnwritten DEF HasKey, Active, StoryInv, ActiveUnlinked
  <2>5. v = IF c.op = "observe" THEN Reinforced(old, r) ELSE Replaced(old, r)
    BY <2>3, <2>4 DEF Saved, EmbedsCreated
  <2>6. r.history = IF c.op = "correct" THEN {c.id} ELSE {}
    BY <1>1, <1>2 DEF CandidateStory
  <2>7. v # None
    BY <1>3, StoreConstants
  <2>8. /\ v.status = old.status /\ v.by = old.by /\ v.content = old.content
        /\ v.vector = old.vector /\ v.createdAt = old.createdAt /\ v.seenAt >= old.seenAt
        /\ c.op = "observe" => v.decay = old.decay
        /\ v.history = old.history \cup r.history
    <3> HIDE DEF v, r, c, old
    <3>1. CASE c.op = "observe"
      BY <1>2, <2>4, <2>5, <2>6, <3>1, Merges
    <3>2. CASE c.op # "observe"
      BY <1>2, <2>4, <2>5, <3>2, Merges
    <3> QED BY <3>1, <3>2
  <2>9. c.op = "correct" => saved # c.id
    BY <1>1, <2>3 DEF CandidateStory, HasKey
  <2> HIDE DEF v, r, c, old
  <2>10. TookKey(c, old, v)
    BY <1>3, <2>4, <2>7, <2>8 DEF TookKey, Active, History, k, r
  <2> QED BY <2>9, <2>10 DEF c, r, v, old
<1> QED BY <1>4, <1>5

\* An observation's insert.
LEMMA InsertOrReinforceStory ==
  ASSUME Inv, StoryInv, NEW s \in Session, NEW saved \in Id, InsertOrReinforce(s, saved)
  PROVE  StoryInv'
<1> DEFINE v == Saved(s, calls[s].rec, saved)
           c == [calls[s] EXCEPT !.at = "commit"]
<1>1. /\ At(s, "insert") /\ WaitsFor(s) = {} /\ Saves(s, calls[s].rec, saved)
      /\ calls[s].op = "observe" /\ own' = [own EXCEPT ![s][saved] = v] /\ Goes(s, "commit")
      /\ UNCHANGED <<rows, now>>
  BY DEF InsertOrReinforce, Runs
<1>2. TookKey(calls[s], rows[saved], v)
  BY <1>1, SavedStory
<1>3. v # None
  <2>1. v \in Row
    BY <1>1, SavedRow
  <2> QED BY <2>1, StoreConstants
<1> HIDE DEF v
<1>4. /\ calls[s] \in Call /\ CandidateStory(calls[s], own[s], rows) /\ calls[s].at = "insert"
      /\ calls[s].op \in Op /\ calls[s].start <= now
  BY <1>1, StoryOf DEF At, Story
<1>5. calls' = [calls EXCEPT ![s] = c]
  BY <1>1 DEF Goes, Inv, RowsTypeOK
<1>6. /\ c.op = "observe" /\ c.rec = calls[s].rec /\ c.id = calls[s].id
      /\ c.start = calls[s].start /\ c.at = "commit"
  BY <1>1, <1>4 DEF Call
<1> HIDE DEF c
<1>7. \A t \in Session : t # s => own'[t] = own[t]
  BY <1>1 DEF Inv, RowsTypeOK
<1>8. \A j \in Id : own'[s][j] = IF j = saved THEN v ELSE own[s][j]
  BY <1>1 DEF Inv, RowsTypeOK, Rows
<1>9. TookKey(c, rows[saved], v)
  BY <1>1, <1>2, <1>6 DEF TookKey
<1>10. \A j \in Id : own[s][j] = None \/ ArchivedDuplicate(c, rows[j], own[s][j])
  BY <1>4, <1>6 DEF CandidateStory, ArchivedDuplicate
<1>11. Inserted(c, own'[s], rows)
  BY <1>3, <1>6, <1>8, <1>9, <1>10 DEF Inserted
<1>12. Story(c, own'[s], rows, now)
  BY <1>1, <1>4, <1>6, <1>11 DEF Story, CandidateStory
<1> QED BY <1>1, <1>5, <1>7, <1>12, StoryWrites

\* A correction's.
LEMMA InsertReplacementStory ==
  ASSUME Inv, StoryInv, NEW s \in Session, NEW saved \in Id, InsertReplacement(s, saved)
  PROVE  StoryInv'
<1> DEFINE v == Saved(s, calls[s].rec, saved)
           c == [calls[s] EXCEPT !.at = "commit"]
           i == calls[s].id
           gone == [rows[i] EXCEPT !.status = "superseded", !.by = saved]
<1>1. /\ At(s, "insert") /\ WaitsFor(s) = {} /\ Saves(s, calls[s].rec, saved)
      /\ calls[s].op = "correct" /\ Goes(s, "commit") /\ UNCHANGED <<rows, now>>
      /\ own' = [own EXCEPT ![s][saved] = v,
                            ![s][i] = [View(s)[i] EXCEPT !.status = "superseded", !.by = saved]]
  BY DEF InsertReplacement, Runs
<1>2. TookKey(calls[s], rows[saved], v) /\ saved # i
  BY <1>1, SavedStory
<1>3. v # None
  <2>1. v \in Row
    BY <1>1, SavedRow
  <2> QED BY <2>1, StoreConstants
<1>4. /\ calls[s] \in Call /\ CandidateStory(calls[s], own[s], rows) /\ calls[s].at = "insert"
      /\ calls[s].op \in Op /\ calls[s].start <= now
  BY <1>1, StoryOf DEF At, Story
<1>5. i \in Id /\ own[s][i] = None /\ Active(rows[i]) /\ Key(rows[i]) # Key(calls[s].rec)
  BY <1>1, <1>4 DEF CandidateStory
<1>6. View(s)[i] = rows[i] /\ rows[i].by = None /\ rows[i] \in Row
  BY <1>5, ViewUnwritten DEF StoryInv, ActiveUnlinked, Active
<1>7. gone # None
  BY <1>6, RowChanges, StoreConstants
<1>8. own' = [own EXCEPT ![s][saved] = v, ![s][i] = gone]
  BY <1>1, <1>6
<1>9. calls' = [calls EXCEPT ![s] = c]
  BY <1>1 DEF Goes, Inv, RowsTypeOK
<1>10. /\ c.op = "correct" /\ c.rec = calls[s].rec /\ c.id = i
       /\ c.start = calls[s].start /\ c.at = "commit"
  BY <1>1, <1>4 DEF Call
<1>11. LeftTo(c, rows[i], gone, saved)
  <2> HIDE DEF c, i
  <2> QED BY <1>2, <1>5, <1>6, <1>10 DEF LeftTo
<1> HIDE DEF v, c, i, gone
<1>12. \A t \in Session : t # s => own'[t] = own[t]
  BY <1>8 DEF Inv, RowsTypeOK
<1>13. \A j \in Id : own'[s][j] = IF j = i THEN gone ELSE IF j = saved THEN v ELSE own[s][j]
  BY <1>5, <1>8 DEF Inv, RowsTypeOK, Rows
<1>14. TookKey(c, rows[saved], v)
  BY <1>1, <1>2, <1>10 DEF TookKey
<1>15. \A j \in Id : own[s][j] = None \/ ArchivedDuplicate(c, rows[j], own[s][j])
  BY <1>4, <1>10 DEF CandidateStory, ArchivedDuplicate
<1>16. Inserted(c, own'[s], rows)
  <2>1. /\ own'[s][saved] # None /\ TookKey(c, rows[saved], own'[s][saved])
        /\ c.id \in Id /\ own'[s][c.id] # None /\ LeftTo(c, rows[c.id], own'[s][c.id], saved)
    BY <1>2, <1>3, <1>5, <1>7, <1>10, <1>11, <1>13, <1>14
  <2>2. \A j \in Id : \/ j = saved
                      \/ c.op = "correct" /\ j = c.id
                      \/ own'[s][j] = None
                      \/ ArchivedDuplicate(c, rows[j], own'[s][j])
    BY <1>10, <1>13, <1>15
  <2> QED BY <2>1, <2>2 DEF Inserted
<1>17. Story(c, own'[s], rows, now)
  BY <1>1, <1>4, <1>10, <1>16 DEF Story, CandidateStory, i
<1> QED BY <1>1, <1>9, <1>12, <1>17, StoryWrites

\* Feedback writes in one statement, on an active row that nobody else has locked: it is a
\* step of the table.
LEMMA TouchStory ==
  ASSUME Inv, StoryInv, NEW s \in Session, Touch(s)
  PROVE  /\ StoryInv'
         /\ rows' = rows \/ Feedbacks
         /\ now' = now
<1>1. /\ calls[s].op # "idle" /\ calls[s].at = "touch" /\ WaitsFor(s) = {} /\ now' = now
      /\ calls' = [calls EXCEPT ![s] = Idle] /\ UNCHANGED <<own, locked>>
  BY DEF Touch, Runs, At
<1>2. calls[s] \in Call /\ CallOK(s) /\ calls[s].start <= now /\ calls[s].start \in Nat
  BY <1>1, StoryOf DEF Story
<1>3. calls[s].id \in Id /\ Untouched(own[s])
  BY <1>1, <1>2 DEF CallOK, Call, Untouched
<1>4. PICK i \in Id : i = calls[s].id
  BY <1>3
<1>5. View(s)[i] = rows[i]
  BY <1>3, ViewUnwritten DEF Untouched
<1>6. Story(Idle, own'[s], rows', now)
  BY <1>1, <1>3 DEF Story, Idle
<1>7. \A t \in Session : t # s => own'[t] = own[t]
  BY <1>1
<1>8. CASE rows' = rows
  BY <1>1, <1>6, <1>7, <1>8, StoryWrites
<1>9. CASE rows' # rows
  <2>1. Active(rows[i]) /\ rows' = [rows EXCEPT ![i].seenAt = calls[s].start]
    BY <1>4, <1>5, <1>9 DEF Touch, Correctable
  <2>2. rows[i] \in Row
    BY <2>1, ViewUnwritten DEF Active
  <2> DEFINE r == [rows[i] EXCEPT !.seenAt = calls[s].start]
  <2>3. r.by = rows[i].by
    BY <2>2 DEF Row
  <2> HIDE DEF r
  <2>4. \A j \in Id : rows'[j] = IF j = i THEN r ELSE rows[j]
    BY <2>1 DEF r, Inv, RowsTypeOK, Rows
  <2>5. ActiveUnlinked'
    BY <2>1, <2>3, <2>4 DEF StoryInv, ActiveUnlinked, Active
  <2>6. \A t \in Session, j \in Id : t # s /\ rows'[j] # rows[j] => j \notin locked[t]
    <3>1. LockersOf(s, i) = {}
      BY <1>1, <1>4 DEF WaitsFor, At
    <3> QED BY <2>4, <3>1 DEF LockersOf, Others
  <2>7. Feedbacks
    <3>1. calls[s].start \in 0 .. now
      BY <1>2, StoryOf, <1>1
    <3> QED BY <2>1, <3>1 DEF Feedbacks
  <2>8. StoryInv'
    BY <1>1, <1>6, <1>7, <2>5, <2>6, StoryMoves
  <2> QED BY <1>1, <2>7, <2>8
<1> QED BY <1>1, <1>8, <1>9

\* A sweep writes archived copies of committed rows.
LEMMA SweepStory ==
  ASSUME Inv, StoryInv, NEW s \in Session, NEW i \in Id, Sweep(s, i)
  PROVE  StoryInv'
<1> DEFINE c == [calls[s] EXCEPT !.todo = @ \ {i}]
           gone == [rows[i] EXCEPT !.status = "archived"]
<1>1. /\ At(s, "sweep") /\ i \in NextRows(s) /\ UNCHANGED <<rows, now>>
      /\ calls' = [calls EXCEPT ![s].todo = @ \ {i}]
      /\ own' = [own EXCEPT ![s][i] = gone] \/ UNCHANGED own
  BY DEF Sweep, RunsRow
<1>2. rows[i] \in Row /\ calls[s].op = "compact" /\ calls[s].op # "idle"
  BY <1>1, NextRow
<1>3. calls[s] \in Call /\ Story(calls[s], own[s], rows, now)
  BY <1>2, StoryOf
<1>4. calls' = [calls EXCEPT ![s] = c]
  BY <1>1, <1>3 DEF Inv, RowsTypeOK
<1>5. c.op = "compact" /\ c.start = calls[s].start /\ c.at = "sweep"
  BY <1>1, <1>2, <1>3 DEF Call, At
<1>6. rows[i] # None
  BY <1>2, StoreConstants
<1> HIDE DEF c, gone
<1>7. \A t \in Session : t # s => own'[t] = own[t]
  BY <1>1 DEF Inv, RowsTypeOK
<1>8. \A j \in Id : own'[s][j] = own[s][j] \/ (j = i /\ own'[s][j] = gone)
  BY <1>1 DEF Inv, RowsTypeOK, Rows
<1>9. \A j \in Id : own'[s][j] # None =>
        rows[j] # None /\ own'[s][j] = [rows[j] EXCEPT !.status = "archived"]
  <2> SUFFICES ASSUME NEW j \in Id, own'[s][j] # None
               PROVE  rows[j] # None /\ own'[s][j] = [rows[j] EXCEPT !.status = "archived"]
    OBVIOUS
  <2>1. CASE own'[s][j] = own[s][j]
    BY <1>2, <1>3, <2>1 DEF Story
  <2>2. CASE own'[s][j] # own[s][j]
    BY <1>6, <1>8, <2>2 DEF gone
  <2> QED BY <2>1, <2>2
<1>10. Story(c, own'[s], rows, now)
  BY <1>2, <1>3, <1>5, <1>9 DEF Story
<1> QED BY <1>1, <1>4, <1>7, <1>10, StoryWrites

\* A step of the table that archives rows, due or not.
Archives ==
  \A i \in Id : rows'[i] # rows[i] => rows[i] # None /\ rows'[i] = [rows[i] EXCEPT !.status = "archived"]

\* What a transaction wrote and took is what Takes() promises of the row it publishes.
LEMMA TakenRow ==
  ASSUME Inv, NEW s \in Session, rows' = View(s), NEW c \in Call, NEW j \in Id,
         own[s][j] # None, TookKey(c, rows[j], own[s][j])
  PROVE  /\ Takes(j) /\ rows'[j] = own[s][j] /\ Key(rows'[j]) = Key(c.rec)
         /\ rows'[j].history = History(rows[j]) \cup c.rec.history
         /\ rows'[j].by = None /\ (rows[j] # None /\ c.op = "observe" => rows'[j].decay = rows[j].decay)
<1>1. rows'[j] = own[s][j] /\ Active(own[s][j])
  BY DEF View, TookKey
<1>2. Creates(j) \/ Reuses(j)
  BY <1>1 DEF TookKey, Creates, Reuses
<1>3. \A i \in Id \ {j} : ~HasKey(rows'[i], Key(rows'[j]))
  <2> SUFFICES ASSUME NEW i \in Id \ {j}, HasKey(rows'[i], Key(rows'[j])) PROVE FALSE
    OBVIOUS
  <2>1. SameKey(View(s)[i], View(s)[j])
    BY <1>1 DEF SameKey, HasKey
  <2> QED BY <2>1 DEF Inv, Table, ViewKeys
<1> QED BY <1>1, <1>2, <1>3 DEF Takes, TookKey

\* Each commit is one step of ExactStore, or archives rows.
LEMMA CommitStory ==
  ASSUME Inv, StoryInv, NEW s \in Session, Commit(s)
  PROVE  /\ calls[s].op = "observe" => Observes
         /\ calls[s].op = "correct" => Corrects
         /\ calls[s].op \notin {"observe", "correct"} => calls[s].op = "compact" /\ Archives
         /\ StoryInv' /\ now' = now
<1> DEFINE c == calls[s]
<1>1. /\ c.op # "idle" /\ rows' = View(s) /\ calls' = [calls EXCEPT ![s] = Idle] /\ now' = now
      /\ own' = [own EXCEPT ![s] = NoRows] /\ (c.at = "commit" \/ c.at = "sweep")
  BY DEF Commit, Swept, Ends, At
<1>2. c \in Call /\ CallOK(s) /\ Story(c, own[s], rows, now) /\ c.start \in Nat /\ now \in Nat
  BY <1>1, StoryOf
<1>3. (c.op \in {"observe", "correct"} /\ c.at = "commit") \/ c.op = "compact"
  BY <1>1, <1>2 DEF CallOK, Story
<1>4. \A i \in Id : rows'[i] = IF own[s][i] # None THEN own[s][i] ELSE rows[i]
  BY <1>1 DEF View
<1>5. \A i \in Id : rows[i] # None => rows[i] \in Row
  BY ViewUnwritten
<1>6. ASSUME c.op \in {"observe", "correct"}
      PROVE  /\ c.op = "observe" => Observes
             /\ c.op = "correct" => Corrects
             /\ ActiveUnlinked'
  <2>1. CandidateStory(c, own[s], rows) /\ Inserted(c, own[s], rows)
    BY <1>2, <1>3, <1>6 DEF Story, CandidateStory
  <2>2. PICK j \in Id :
          /\ own[s][j] # None /\ TookKey(c, rows[j], own[s][j])
          /\ c.op = "correct" =>
               c.id \in Id /\ own[s][c.id] # None /\ LeftTo(c, rows[c.id], own[s][c.id], j)
          /\ \A i \in Id : \/ i = j
                           \/ c.op = "correct" /\ i = c.id
                           \/ own[s][i] = None
                           \/ ArchivedDuplicate(c, rows[i], own[s][i])
    BY <2>1 DEF Inserted
  <2>3. /\ Takes(j) /\ rows'[j] = own[s][j] /\ Key(rows'[j]) = Key(c.rec)
        /\ rows'[j].history = History(rows[j]) \cup c.rec.history
        /\ rows'[j].by = None /\ (rows[j] # None /\ c.op = "observe" => rows'[j].decay = rows[j].decay)
    BY <1>1, <1>2, <2>2, TakenRow
  <2>4. c.rec.history = IF c.op = "correct" THEN {c.id} ELSE {}
    BY <1>6, <2>1 DEF CandidateStory
  <2>5. ASSUME NEW i \in Id, ArchivedDuplicate(c, rows[i], own[s][i]), own[s][i] # None
        PROVE  ArchivesExpired(i, Key(c.rec)) /\ ~Active(rows'[i])
    <3>1. HasKey(rows[i], Key(c.rec)) /\ Expired(rows[i], c.start)
          /\ rows'[i] = [rows[i] EXCEPT !.status = "archived"]
      BY <1>4, <2>5 DEF ArchivedDuplicate
    <3>2. rows[i] \in Row
      BY <1>5, <3>1 DEF HasKey, Active
    <3>3. Expired(rows[i], now)
      BY <1>1, <1>2, <3>1, <3>2, StoreConstants DEF Expired, Anchor, Row, Story
    <3> QED BY <3>1, <3>2, <3>3, RowChanges DEF ArchivesExpired
  <2>6. \A i \in Id : \/ i = j
                      \/ c.op = "correct" /\ i = c.id
                      \/ rows'[i] = rows[i]
                      \/ ArchivesExpired(i, Key(c.rec)) /\ ~Active(rows'[i])
    BY <1>4, <2>2, <2>5
  <2>7. CASE c.op = "observe"
    <3>1. OnlyChanges({j}, Key(rows'[j]))
      BY <2>3, <2>6, <2>7 DEF OnlyChanges
    <3>2. Observes
      BY <2>3, <2>4, <2>7, <3>1 DEF Observes
    <3>3. ActiveUnlinked'
      BY <2>3, <2>6, <2>7 DEF StoryInv, ActiveUnlinked, Active
    <3> QED BY <2>7, <3>2, <3>3
  <2>8. CASE c.op = "correct"
    <3>1. PICK i \in Id : i = c.id
      BY <2>2, <2>8
    <3>2. LeftTo(c, rows[i], rows'[i], j)
      BY <1>4, <2>2, <2>8, <3>1
    <3>3. /\ i # j /\ Active(rows[i]) /\ Key(rows[i]) # Key(rows'[j])
          /\ rows'[i] = [rows[i] EXCEPT !.status = "superseded", !.by = j]
      BY <2>3, <3>1, <3>2 DEF LeftTo
    <3>4. OnlyChanges({i, j}, Key(rows'[j]))
      BY <2>3, <2>6, <3>1 DEF OnlyChanges
    <3>5. rows'[j].history = {i} \cup History(rows[j])
      BY <2>3, <2>4, <2>8, <3>1
    <3>6. Corrects
      BY <2>3, <3>3, <3>4, <3>5 DEF Corrects
    <3>7. ~Active(rows'[i])
      <4>1. rows[i] \in Row
        BY <1>5, <3>3 DEF Active
      <4> QED BY <3>3, <4>1, RowChanges
    <3>8. ActiveUnlinked'
      BY <2>3, <2>6, <3>1, <3>7 DEF StoryInv, ActiveUnlinked, Active
    <3> QED BY <2>8, <3>6, <3>8
  <2> QED BY <1>6, <2>7, <2>8
<1>7. ASSUME c.op = "compact"
      PROVE  Archives /\ ActiveUnlinked'
  <2>1. \A i \in Id : own[s][i] # None =>
          rows[i] # None /\ own[s][i] = [rows[i] EXCEPT !.status = "archived"]
    BY <1>2, <1>7 DEF Story
  <2>2. Archives
    BY <1>4, <2>1 DEF Archives
  <2>3. \A i \in Id : rows'[i] = rows[i] \/ ~Active(rows'[i])
    <3> SUFFICES ASSUME NEW i \in Id, own[s][i] # None PROVE ~Active(rows'[i])
      BY <1>4
    <3>1. rows[i] \in Row /\ rows'[i] = [rows[i] EXCEPT !.status = "archived"]
      BY <1>4, <1>5, <2>1
    <3> QED BY <3>1, RowChanges
  <2> QED BY <2>2, <2>3 DEF StoryInv, ActiveUnlinked, Active
<1>8. StoryInv'
  <2>1. own'[s] = NoRows /\ \A t \in Session : t # s => own'[t] = own[t]
    BY <1>1 DEF Inv, RowsTypeOK
  <2>2. Story(Idle, own'[s], rows', now)
    BY <2>1 DEF Story, Idle, Untouched, NoRows
  <2>3. \A t \in Session, j \in Id : t # s /\ rows'[j] # rows[j] => j \notin locked[t]
    BY <1>4 DEF Inv, Table, OwnLocked, LocksDisjoint
  <2>4. ActiveUnlinked'
    BY <1>3, <1>6, <1>7
  <2> QED BY <1>1, <2>1, <2>2, <2>3, <2>4, StoryMoves
<1> QED BY <1>1, <1>3, <1>6, <1>7, <1>8

\* The victim of a deadlock begins again with what it was given, or fails.
LEMMA DeadlockBrokenStory ==
  ASSUME Inv, StoryInv, NEW s \in Session, DeadlockBroken(s)
  PROVE  StoryInv'
<1> DEFINE again == Again(calls[s])
<1>1. /\ calls' = [calls EXCEPT ![s] = IF Retries(s) THEN again ELSE Idle]
      /\ UNCHANGED <<rows, now>> /\ RollsBack(s)
  BY DEF DeadlockBroken, Inv, RowsTypeOK
<1>2. CASE ~Retries(s)
  <2>1. GivesUp(s) /\ now' = now
    BY <1>1, <1>2 DEF GivesUp
  <2> QED BY <2>1, GivesUpStory
<1>3. CASE Retries(s)
  <2>1. calls[s].op # "idle"
    <3>1. WaitsFor(s) # {}
      BY DEF DeadlockBroken, Deadlocked
    <3> QED BY <3>1 DEF WaitsFor, At
  <2>2. calls[s] \in Call /\ Story(calls[s], own[s], rows, now)
    BY <2>1, StoryOf
  <2>3. /\ again.op = calls[s].op /\ again.rec = calls[s].rec /\ again.id = calls[s].id
        /\ again.start = calls[s].start /\ again.at = "begin"
    BY <2>2 DEF Again, Call
  <2> HIDE DEF again
  <2>4. calls' = [calls EXCEPT ![s] = again]
    BY <1>1, <1>3
  <2>5. own'[s] = NoRows /\ \A t \in Session : t # s => own'[t] = own[t]
    BY <1>1 DEF RollsBack, Ends, Inv, RowsTypeOK
  <2>6. Story(again, own'[s], rows, now)
    BY <1>3, <2>1, <2>2, <2>3, <2>5 DEF Story, CandidateStory, Untouched, NoRows, Retries
  <2> QED BY <1>1, <2>4, <2>5, <2>6, StoryWrites
<1> QED BY <1>2, <1>3

\* Retirement is a step of the table on a row that no transaction has locked.
LEMMA RetireStory ==
  ASSUME Inv, StoryInv, NEW i \in Id, NEW status \in {"superseded", "archived"}, Retire(i, status)
  PROVE  StoryInv' /\ Retires /\ now' = now
<1>1. /\ Active(rows[i]) /\ rows' = [rows EXCEPT ![i].status = status]
      /\ UNCHANGED <<now, calls, own, locked>> /\ \A t \in Session : i \notin locked[t]
  BY DEF Retire
<1>2. rows[i] \in Row
  BY <1>1, ViewUnwritten DEF Active, Inv, RowsTypeOK, Rows
<1>3. \A j \in Id : rows'[j] = IF j = i THEN [rows[i] EXCEPT !.status = status] ELSE rows[j]
  BY <1>1 DEF Inv, RowsTypeOK, Rows
<1>4. rows'[i].status # "active"
  BY <1>2, <1>3 DEF Row
<1>5. ActiveUnlinked'
  BY <1>3, <1>4 DEF StoryInv, ActiveUnlinked, Active
<1>6. Retires
  BY <1>1 DEF Retires
<1>7. ASSUME NEW t \in Session PROVE Story(calls[t], own[t], rows', now)
  <2>1. Story(calls[t], own[t], rows, now) /\ CallOK(t) /\ now \in Nat /\ now <= now
    BY DEF StoryInv, Inv, CallsOK, RowsTypeOK
  <2>2. \A j \in Id : own[t][j] # None => rows'[j] = rows[j]
    BY <1>1, <1>3 DEF Inv, Table, OwnLocked
  <2>3. calls[t].op = "correct" /\ calls[t].at \in {"archive", "insert"} =>
          rows'[calls[t].id] = rows[calls[t].id]
    <3> SUFFICES ASSUME calls[t].op = "correct", calls[t].at \in {"archive", "insert"}
                 PROVE  rows'[calls[t].id] = rows[calls[t].id]
      OBVIOUS
    <3>1. calls[t].id \in locked[t]
      BY <2>1 DEF CallOK
    <3>2. calls[t].id \in Id
      BY <3>1 DEF Inv, RowsTypeOK
    <3> QED BY <1>1, <1>3, <3>1, <3>2
  <2>4. calls[t].op # "idle" => calls[t].start \in Nat
    BY InProgress DEF Inv, Call
  <2> HIDE DEF Inv
  <2> QED BY <2>1, <2>2, <2>3, <2>4, StoryFrame
<1> QED BY <1>1, <1>5, <1>6, <1>7 DEF StoryInv

\* Time only adds to what has expired.
LEMMA TickStory ==
  ASSUME Inv, StoryInv, Tick
  PROVE  StoryInv' /\ TimePasses
<1>1. now' = now + 1 /\ UNCHANGED <<rows, calls, own, locked>> /\ now \in Nat
  BY DEF Tick, Inv, RowsTypeOK
<1>2. ASSUME NEW t \in Session PROVE Story(calls[t], own[t], rows, now + 1)
  <2>1. Story(calls[t], own[t], rows, now) /\ now + 1 \in Nat /\ now <= now + 1
    BY <1>1 DEF StoryInv
  <2>2. calls[t].op # "idle" => calls[t].start \in Nat
    BY InProgress DEF Inv, Call
  <2> HIDE DEF Inv
  <2> QED BY <1>1, <2>1, <2>2, StoryFrame
<1>3. ActiveUnlinked'
  BY <1>1 DEF StoryInv, ActiveUnlinked, Active
<1> QED BY <1>1, <1>2, <1>3 DEF StoryInv, TimePasses

\* A step of the table in which a sweep may archive what is not due.
LooseNext ==
  \/ (Observes \/ Corrects \/ Retires \/ Feedbacks \/ Archives) /\ now' = now
  \/ TimePasses

\* No batch is written where none is given.
LEMMA NoBatchSteps ==
  ASSUME Inv, StoryInv, NEW s \in Session, NEW i \in Id
  PROVE  ~LockId(s, i) /\ ~Upsert(s, i)
<1> SUFFICES ASSUME LockId(s, i) \/ Upsert(s, i) PROVE FALSE
  OBVIOUS
<1>1. calls[s].op # "idle" /\ calls[s].at = "write"
  BY DEF LockId, Upsert, RunsRow, At
<1>2. CallOK(s) /\ Story(calls[s], own[s], rows, now)
  BY <1>1, StoryOf
<1> QED BY <1>1, <1>2 DEF CallOK, Story

\* Every statement keeps the stories, and what it commits is a step of the table.
LEMMA StatementsStory ==
  ASSUME Inv, StoryInv, NEW s \in Session, Statements(s)
  PROVE  /\ StoryInv' /\ (LooseNext \/ UNCHANGED <<rows, now>>)
         /\ "compact" \notin Op => StoreNext \/ UNCHANGED <<rows, now>>
<1>1. CASE Begin(s)
  BY <1>1, BeginStory DEF Begin
<1>2. CASE Archive(s)
  BY <1>2, ArchiveStory DEF Archive, Runs
<1>3. CASE LockPrevious(s)
  BY <1>3, LockPreviousStory DEF LockPrevious, Runs, GivesUp
<1>4. CASE Touch(s)
  BY <1>4, TouchStory DEF LooseNext, StoreNext
<1>5. CASE Commit(s)
  <2>1. calls[s].op \in Op
    BY <1>5, StoryOf DEF Commit, Swept, At, Story
  <2> QED BY <1>5, <2>1, CommitStory DEF LooseNext, StoreNext
<1>6. CASE IdsUsedUp(s)
  BY <1>6, GivesUpStory DEF IdsUsedUp, Runs, GivesUp
<1>7. ASSUME NEW i \in Id, InsertOrReinforce(s, i)
      PROVE  StoryInv' /\ UNCHANGED <<rows, now>>
  BY <1>7, InsertOrReinforceStory DEF InsertOrReinforce, Runs
<1>8. ASSUME NEW i \in Id, InsertReplacement(s, i)
      PROVE  StoryInv' /\ UNCHANGED <<rows, now>>
  BY <1>8, InsertReplacementStory DEF InsertReplacement, Runs
<1>9. ASSUME NEW i \in Id, Sweep(s, i)
      PROVE  StoryInv' /\ UNCHANGED <<rows, now>>
  BY <1>9, SweepStory DEF Sweep, RunsRow
<1> QED BY <1>1, <1>2, <1>3, <1>4, <1>5, <1>6, <1>7, <1>8, <1>9, NoBatchSteps DEF Statements

\* And so does every step.
LEMMA NextStory ==
  ASSUME Inv, StoryInv, NoBatches, [Next]_tvars
  PROVE  /\ StoryInv' /\ [LooseNext]_<<rows, now>>
         /\ "compact" \notin Op => [StoreNext]_<<rows, now>>
<1>1. CASE Tick
  BY <1>1, TickStory DEF LooseNext, StoreNext
<1>2. CASE RetireSteps
  BY <1>2, RetireStory DEF RetireSteps, LooseNext, StoreNext
<1>3. ASSUME NEW s \in Session, NewCalls(s) PROVE StoryInv' /\ UNCHANGED <<rows, now>>
  <2>1. UNCHANGED <<rows, now>>
    BY <1>3 DEF NewCalls, Observe, Correct, Ingest, Feedback, Compact, Starts
  <2> QED BY <1>3, <2>1, NewCallsStory
<1>4. ASSUME NEW s \in Session, DeadlockBroken(s) PROVE StoryInv' /\ UNCHANGED <<rows, now>>
  BY <1>4, DeadlockBrokenStory DEF DeadlockBroken
<1>5. ASSUME NEW s \in Session, CallFails(s) PROVE StoryInv' /\ UNCHANGED <<rows, now>>
  BY <1>5, GivesUpStory DEF CallFails, GivesUp
<1>6. CASE UNCHANGED tvars
  <2>1. UNCHANGED <<rows, now, calls, own, locked>>
    BY <1>6 DEF tvars
  <2>2. ActiveUnlinked'
    BY <2>1 DEF StoryInv, ActiveUnlinked, Active
  <2>3. \A s \in Session : Story(calls'[s], own'[s], rows', now')
    BY <2>1 DEF StoryInv
  <2> QED BY <2>1, <2>2, <2>3 DEF StoryInv
<1> QED BY <1>1, <1>2, <1>3, <1>4, <1>5, <1>6, StatementsStory DEF Next, Steps

\* Nothing has been written at first.
LEMMA InitStory == Init => StoryInv
BY DEF Init, StoreInit, StoryInv, ActiveUnlinked, Active, Story, Idle, Untouched, NoRows

\* What transactions decide over several statements is still true when they commit: whatever
\* the number of processes, rows and texts, and however their statements interleave, wait for
\* one another, deadlock and fail, each observation, correction, retirement and feedback is
\* one step of ExactStore.
THEOREM CommitsAreAtomic ==
  ASSUME NoBatches, "compact" \notin Op
  PROVE  Spec => ImplementsExactStore
<1>1. Init => StoreInit
  BY DEF Init
<1>2. Inv /\ StoryInv /\ [Next]_tvars => StoryInv' /\ [StoreNext]_<<rows, now>>
  BY NextStory
<1> QED BY <1>1, <1>2, InitStory, Invariance, PTL DEF Spec, ImplementsExactStore, StoreSpec

(***************************************************************************)
(* Corrections keep their form.  A correction adds one link, from an       *)
(* active memory to one that is active and has no link, so it closes no    *)
(* circle; nothing else changes a link or a history.                       *)
(***************************************************************************)
By(r) == IF r = None THEN None ELSE r.by

\* Of any set of rows one is not the replacement of another, and histories are links.
Leads(recs) == \A S \in (SUBSET Id) \ {{}} : \E i \in S : \A j \in S : By(recs[j]) # i
Told(recs) == \A i, j \in Id : i \in History(recs[j]) <=> By(recs[i]) = j

\* The form of a table is these two.
LEMMA FormOf ==
  ASSUME NEW recs
  PROVE  Leads(recs) /\ Told(recs) <=>
           /\ \A S \in (SUBSET Id) \ {{}} :
                \E i \in S : {j \in Id : recs[j] # None /\ recs[j].by = i} \cap S = {}
           /\ \A i, j \in Id : recs[j] # None /\ i \in recs[j].history
                                 <=> i \in {k \in Id : recs[k] # None /\ recs[k].by = j}
<1> DEFINE From(i) == {j \in Id : recs[j] # None /\ recs[j].by = i}
<1>1. \A i, j \in Id : j \in From(i) <=> By(recs[j]) = i
  BY StoreConstants DEF By
<1> HIDE DEF From
<1>2. (\A S \in (SUBSET Id) \ {{}} : \E i \in S : From(i) \cap S = {}) <=> Leads(recs)
  <2>1. \A S \in (SUBSET Id) \ {{}} : \A i \in S :
          From(i) \cap S = {} <=> \A j \in S : By(recs[j]) # i
    BY <1>1
  <2> QED BY <2>1 DEF Leads
<1>3. (\A i, j \in Id : recs[j] # None /\ i \in recs[j].history <=> i \in From(j)) <=> Told(recs)
  BY <1>1 DEF Told, History
<1> QED BY <1>2, <1>3 DEF From

\* So is that of the committed one.
LEMMA FormOfRows == CorrectionsForm <=> Leads(rows) /\ Told(rows)
BY FormOf DEF CorrectionsForm, SupersededFrom

\* What a change of its status, link or dates does to the links of a row.
LEMMA LinkChanges ==
  ASSUME NEW r \in Row
  PROVE  /\ \A x \in {"active", "superseded", "archived"} :
              /\ By([r EXCEPT !.status = x]) = By(r)
              /\ History([r EXCEPT !.status = x]) = History(r)
         /\ \A n \in Nat : /\ By([r EXCEPT !.seenAt = n]) = By(r)
                           /\ History([r EXCEPT !.seenAt = n]) = History(r)
         /\ \A i \in Id : /\ By([r EXCEPT !.status = "superseded", !.by = i]) = i
                          /\ History([r EXCEPT !.status = "superseded", !.by = i]) = History(r)
<1>1. r # None
  BY StoreConstants
<1>2. ASSUME NEW x \in {"active", "superseded", "archived"}
      PROVE  /\ By([r EXCEPT !.status = x]) = By(r)
             /\ History([r EXCEPT !.status = x]) = History(r)
  <2> DEFINE r2 == [r EXCEPT !.status = x]
  <2>1. r2 \in Row /\ r2.by = r.by /\ r2.history = r.history
    BY DEF Row
  <2> HIDE DEF r2
  <2>2. By(r2) = By(r) /\ History(r2) = History(r)
    BY <1>1, <2>1, StoreConstants DEF By, History
  <2> QED BY <2>2 DEF r2
<1>3. ASSUME NEW n \in Nat
      PROVE  /\ By([r EXCEPT !.seenAt = n]) = By(r)
             /\ History([r EXCEPT !.seenAt = n]) = History(r)
  <2> DEFINE r2 == [r EXCEPT !.seenAt = n]
  <2>1. r2 \in Row /\ r2.by = r.by /\ r2.history = r.history
    BY DEF Row
  <2> HIDE DEF r2
  <2>2. By(r2) = By(r) /\ History(r2) = History(r)
    BY <1>1, <2>1, StoreConstants DEF By, History
  <2> QED BY <2>2 DEF r2
<1>4. ASSUME NEW i \in Id
      PROVE  /\ By([r EXCEPT !.status = "superseded", !.by = i]) = i
             /\ History([r EXCEPT !.status = "superseded", !.by = i]) = History(r)
  <2> DEFINE r2 == [r EXCEPT !.status = "superseded", !.by = i]
  <2>1. r2 \in Row /\ r2.by = i /\ r2.history = r.history
    BY DEF Row
  <2> HIDE DEF r2
  <2>2. By(r2) = i /\ History(r2) = History(r)
    BY <1>1, <2>1, StoreConstants DEF By, History
  <2> QED BY <2>2 DEF r2
<1> QED BY <1>2, <1>3, <1>4

\* Rows that keep their links and histories keep the form.
LEMMA FormKept ==
  ASSUME NEW recs, NEW recs2, Leads(recs), Told(recs),
         \A i \in Id : By(recs2[i]) = By(recs[i]) /\ History(recs2[i]) = History(recs[i])
  PROVE  Leads(recs2) /\ Told(recs2)
<1>1. Told(recs2)
  BY DEF Told
<1>2. Leads(recs2)
  <2> SUFFICES ASSUME NEW S \in (SUBSET Id) \ {{}}
               PROVE  \E i \in S : \A j \in S : By(recs2[j]) # i
    BY DEF Leads
  <2>1. PICK i \in S : \A j \in S : By(recs[j]) # i
    BY DEF Leads
  <2> QED BY <2>1
<1> QED BY <1>1, <1>2

\* One more link, to a row without one, from a row that had none.
LEMMA FormCorrects ==
  ASSUME NEW recs, NEW recs2, Leads(recs), Told(recs), NEW i \in Id, NEW j \in Id, i # j,
         By(recs[i]) = None, By(recs2[i]) = j, By(recs2[j]) = None, By(recs[j]) = None,
         History(recs2[i]) = History(recs[i]), History(recs2[j]) = {i} \cup History(recs[j]),
         \A k \in Id \ {i, j} : By(recs2[k]) = By(recs[k]) /\ History(recs2[k]) = History(recs[k])
  PROVE  Leads(recs2) /\ Told(recs2)
<1>1. Told(recs2)
  <2> SUFFICES ASSUME NEW k \in Id, NEW m \in Id
               PROVE  k \in History(recs2[m]) <=> By(recs2[k]) = m
    BY DEF Told
  <2>1. k \in History(recs[m]) <=> By(recs[k]) = m
    BY DEF Told
  <2>2. k \in History(recs2[m]) <=> k \in History(recs[m]) \/ (k = i /\ m = j)
    OBVIOUS
  <2>3. None \notin Id
    BY StoreConstants
  <2>4. By(recs2[k]) = m <=> By(recs[k]) = m \/ (k = i /\ m = j)
    BY <2>3
  <2> QED BY <2>1, <2>2, <2>4
<1>2. Leads(recs2)
  <2> SUFFICES ASSUME NEW S \in (SUBSET Id) \ {{}}
               PROVE  \E k \in S : \A m \in S : By(recs2[m]) # k
    BY DEF Leads
  <2>1. \A m \in Id : By(recs2[m]) = By(recs[m]) \/ (m = i /\ By(recs2[m]) = j)
    OBVIOUS
  <2>2. CASE S \ {j} = {}
    <3>1. \A m \in S : m = j /\ By(recs2[m]) = None
      BY <2>2
    <3>2. None \notin Id
      BY StoreConstants
    <3> QED BY <3>1, <3>2
  <2>3. CASE S \ {j} # {}
    <3>1. S \ {j} \in (SUBSET Id) \ {{}}
      BY <2>3
    <3>2. PICK k \in S \ {j} : \A m \in S \ {j} : By(recs[m]) # k
      BY <3>1 DEF Leads
    <3>3. \A m \in S : By(recs2[m]) # k
      <4> TAKE m \in S
      <4>1. CASE m = j
        BY <4>1, StoreConstants
      <4>2. CASE m # j
        BY <2>1, <3>2, <4>2
      <4> QED BY <4>1, <4>2
    <3> QED BY <3>2, <3>3
  <2> QED BY <2>2, <2>3
<1> QED BY <1>1, <1>2

\* What rows do to one another's links, in a step of the table.
LEMMA FormStep ==
  ASSUME Inv, Inv', StoryInv, CorrectionsForm, [LooseNext]_<<rows, now>>
  PROVE  CorrectionsForm'
<1> DEFINE Same(i) == By(rows'[i]) = By(rows[i]) /\ History(rows'[i]) = History(rows[i])
<1>1. Leads(rows) /\ Told(rows)
  BY FormOfRows
<1>2. \A i \in Id : rows[i] \in Row \cup {None}
  BY DEF Inv, RowsTypeOK, Rows
<1>0. Leads(rows') /\ Told(rows') => CorrectionsForm'
  <2> DEFINE recs == rows'
  <2>1. Leads(recs) /\ Told(recs) <=>
           /\ \A S \in (SUBSET Id) \ {{}} :
                \E i \in S : {j \in Id : recs[j] # None /\ recs[j].by = i} \cap S = {}
           /\ \A i, j \in Id : recs[j] # None /\ i \in recs[j].history
                                 <=> i \in {k \in Id : recs[k] # None /\ recs[k].by = j}
    BY FormOf
  <2> QED BY <2>1 DEF CorrectionsForm, SupersededFrom
<1>3. ASSUME NEW i \in Id, rows[i] # None, rows'[i] = [rows[i] EXCEPT !.status = "archived"]
      PROVE  Same(i)
  <2>1. rows[i] \in Row
    BY <1>2, <1>3
  <2> QED BY <1>3, <2>1, LinkChanges
<1>4. \A i \in Id : \A k : ArchivesExpired(i, k) => Same(i)
  BY <1>3 DEF ArchivesExpired, HasKey, Active
<1>5. \A i \in Id : Takes(i) => By(rows'[i]) = None /\ By(rows[i]) = None
  BY DEF Takes, Creates, Reuses, By, StoryInv, ActiveUnlinked, Active
<1>6. (\A i \in Id : Same(i)) => Leads(rows') /\ Told(rows')
  BY <1>1, FormKept
<1>7. CASE Observes
  <2>1. PICK i \in Id :
          Takes(i) /\ rows'[i].history = History(rows[i]) /\ OnlyChanges({i}, Key(rows'[i]))
    BY <1>7 DEF Observes
  <2>2. Same(i)
    BY <1>5, <2>1 DEF Takes, Creates, Reuses, Active, History
  <2>3. \A k \in Id \ {i} : Same(k)
    BY <1>4, <2>1 DEF OnlyChanges
  <2> HIDE DEF Same
  <2>4. \A k \in Id : Same(k)
    BY <2>2, <2>3
  <2> QED BY <1>0, <1>6, <2>4
<1>8. CASE Corrects
  <2>1. PICK i \in Id, j \in Id :
          /\ i # j /\ Active(rows[i]) /\ Takes(j)
          /\ rows'[j].history = {i} \cup History(rows[j])
          /\ rows'[i] = [rows[i] EXCEPT !.status = "superseded", !.by = j]
          /\ OnlyChanges({i, j}, Key(rows'[j]))
    BY <1>8 DEF Corrects
  <2>2. rows[i] \in Row /\ rows[i].by = None /\ rows[i] # None
    BY <1>2, <2>1 DEF Active, StoryInv, ActiveUnlinked
  <2>3. By(rows'[i]) = j /\ History(rows'[i]) = History(rows[i])
    <3> DEFINE r == rows[i]
    <3>1. r \in Row /\ rows'[i] = [r EXCEPT !.status = "superseded", !.by = j]
      BY <2>1, <2>2
    <3> HIDE DEF r
    <3>2. /\ By([r EXCEPT !.status = "superseded", !.by = j]) = j
          /\ History([r EXCEPT !.status = "superseded", !.by = j]) = History(r)
      BY <3>1, LinkChanges
    <3> QED BY <3>1, <3>2 DEF r
  <2>4. By(rows[i]) = None /\ By(rows'[i]) = j /\ History(rows'[i]) = History(rows[i])
    BY <2>2, <2>3 DEF By
  <2>5. By(rows'[j]) = None /\ By(rows[j]) = None
    BY <1>5, <2>1
  <2>6. History(rows'[j]) = {i} \cup History(rows[j])
    BY <2>1 DEF Takes, Creates, Reuses, Active, History
  <2>7. \A k \in Id \ {i, j} : Same(k)
    BY <1>4, <2>1 DEF OnlyChanges
  <2>8. Leads(rows') /\ Told(rows')
    <3> DEFINE recs2 == rows'
    <3>1. Leads(recs2) /\ Told(recs2)
      BY <1>1, <2>1, <2>4, <2>5, <2>6, <2>7, FormCorrects
    <3> QED BY <3>1
  <2> QED BY <1>0, <2>8
<1>9. CASE Retires
  <2>1. PICK i \in Id, status \in {"superseded", "archived"} :
          Active(rows[i]) /\ rows' = [rows EXCEPT ![i].status = status]
    BY <1>9 DEF Retires
  <2>2. rows[i] \in Row
    BY <1>2, <2>1 DEF Active
  <2>3. Same(i)
    <3>1. rows'[i] = [rows[i] EXCEPT !.status = status]
      BY <2>1 DEF Inv, RowsTypeOK, Rows
    <3> QED BY <2>2, <3>1, LinkChanges
  <2>4. \A k \in Id \ {i} : Same(k)
    BY <2>1 DEF Inv, RowsTypeOK, Rows
  <2> HIDE DEF Same
  <2>5. \A k \in Id : Same(k)
    BY <2>3, <2>4
  <2> QED BY <1>0, <1>6, <2>5
<1>10. CASE Feedbacks
  <2>1. PICK i \in Id, t \in 0 .. now : Active(rows[i]) /\ rows' = [rows EXCEPT ![i].seenAt = t]
    BY <1>10 DEF Feedbacks
  <2>2. rows[i] \in Row
    BY <1>2, <2>1 DEF Active
  <2>3. Same(i)
    <3>1. rows'[i] = [rows[i] EXCEPT !.seenAt = t] /\ t \in Nat
      BY <2>1 DEF Inv, RowsTypeOK, Rows
    <3> DEFINE r == rows[i]
    <3>2. r \in Row /\ rows'[i] = [r EXCEPT !.seenAt = t] /\ t \in Nat
      BY <2>2, <3>1
    <3> HIDE DEF r
    <3>3. By([r EXCEPT !.seenAt = t]) = By(r) /\ History([r EXCEPT !.seenAt = t]) = History(r)
      BY <3>2, LinkChanges
    <3> QED BY <3>2, <3>3 DEF r
  <2>4. \A k \in Id \ {i} : Same(k)
    BY <2>1 DEF Inv, RowsTypeOK, Rows
  <2> HIDE DEF Same
  <2>5. \A k \in Id : Same(k)
    BY <2>3, <2>4
  <2> QED BY <1>0, <1>6, <2>5
<1>11. CASE Archives
  <2>1. \A i \in Id : Same(i)
    BY <1>3, <1>11 DEF Archives
  <2> HIDE DEF Same
  <2> QED BY <1>0, <1>6, <2>1
<1>12. CASE rows' = rows
  BY <1>1, <1>12, FormOfRows DEF CorrectionsForm, SupersededFrom
<1> QED BY <1>7, <1>8, <1>9, <1>10, <1>11, <1>12 DEF LooseNext, TimePasses

\* Of any memories that replaced one another one comes last, and each replacement tells what
\* it replaced: two corrections of each other's memory cannot retire both, one of two
\* corrections of the same memory comes too late, and no sweep, feedback or retirement of
\* any other process breaks the chain.
THEOREM CorrectionsKeepForm ==
  ASSUME NoBatches
  PROVE  Spec => []CorrectionsForm
<1>1. Init => CorrectionsForm
  <2> SUFFICES ASSUME Init PROVE CorrectionsForm
    OBVIOUS
  <2>1. \A i \in Id : rows[i] = None
    BY DEF Init, StoreInit
  <2>2. Leads(rows) /\ Told(rows)
    BY <2>1, StoreConstants DEF Leads, Told, By, History
  <2> QED BY <2>2, FormOfRows
<1>2. Inv /\ Inv' /\ StoryInv /\ CorrectionsForm /\ [Next]_tvars => StoryInv' /\ CorrectionsForm'
  BY NextStory, FormStep
<1> QED BY <1>1, <1>2, InitStory, Invariance, PTL DEF Spec

(***************************************************************************)
(* Observations and the clock.  A row that a prompt call creates has not   *)
(* expired when it is committed, and a row it renews lives at least as     *)
(* long as before; so whatever observations, ratings and sweeps commit     *)
(* between the statement that archives the expired rows of a text and the  *)
(* insert, the insert finds no expired row.  A correction or a batch may   *)
(* commit one, with the date it was created: those are the rows of `cut`.  *)
(***************************************************************************)
Recent(c, r) == \E t \in Since(c) : t <= r.seenAt

DatedCall(c) ==
  /\ c.op \in {"observe", "correct"} => c.rec.seenAt = c.rec.createdAt
  /\ c.op \in {"ingest", "feedback", "compact"} => c.rec = None
  /\ c.op = "observe" => c.batch = NoRows
  /\ c.op = "ingest" => \A i \in Id : c.batch[i] # None => c.batch[i].seenAt = c.batch[i].createdAt

\* What an observation relies on, but for the rows in x.
ObservationDiary(c, o, recs, x) ==
  /\ c.at \in {"begin", "archive", "insert"} => \A i \in Id : ~Active(o[i])
  /\ c.at = "insert" =>
       \A i \in Id \ x : o[i] = None /\ HasKey(recs[i], Key(c.rec)) => ~Expired(recs[i], c.start)
  /\ c.at = "commit" =>
       \A i \in Id : recs[i] # None /\ Active(o[i]) =>
         /\ HasKey(recs[i], Key(o[i])) /\ Outlasts(o[i], recs[i])
         /\ i \notin x => ~Expired(recs[i], c.start)

Diary(c, o, recs, t, x) ==
  /\ DatedCall(c)
  /\ c.op # "idle" => c.start <= t /\ \A u \in Since(c) : t <= u + TTL
  /\ \A i \in Id : Active(o[i]) =>
       /\ c.op \in {"observe", "correct", "ingest"} /\ Recent(c, o[i])
       /\ o[i].vector = o[i].content
  /\ \A i \in Id : o[i] # None /\ recs[i] = None => o[i].createdAt \in Since(c)
  /\ c.op = "observe" => ObservationDiary(c, o, recs, x)

DiaryInv == VectorsCurrent /\ \A s \in Session : Diary(calls[s], own[s], rows, now, cut[s])

\* A row seen within its life has not expired, unless it ages from its creation.
LEMMA NotExpired ==
  ASSUME NEW r \in Row, r.decay # "time", NEW t \in Nat, t <= r.seenAt + TTL
  PROVE  ~Expired(r, t)
BY StoreConstants DEF Expired, Anchor, Row

\* A row created and seen within its life has not expired.
LEMMA NewlyVisible ==
  ASSUME NEW r \in Row, NEW t \in Nat, t <= r.seenAt + TTL, t <= r.createdAt + TTL
  PROVE  ~Expired(r, t)
BY StoreConstants DEF Expired, Anchor, Row

\* Nor had it at an earlier time.
LEMMA StillVisible ==
  ASSUME NEW r \in Row, NEW t \in Nat, NEW u \in Nat, u <= t, ~Expired(r, t)
  PROVE  ~Expired(r, u)
BY StoreConstants DEF Expired, Anchor, Row

\* A row that outlasts a visible one is visible.
LEMMA OutlastsVisible ==
  ASSUME NEW old \in Row, NEW new \in Row, Outlasts(new, old), NEW u \in Nat, ~Expired(old, u)
  PROVE  ~Expired(new, u)
<1>1. Anchor(old) \in Nat /\ Anchor(new) \in Nat /\ TTL \in Nat
  BY StoreConstants DEF Anchor, Row
<1> QED BY <1>1 DEF Outlasts, Expired

\* The dates that a call counts from.
LEMMA Dates ==
  ASSUME NEW c \in Call, DatedCall(c), c.op \in {"observe", "correct"} => c.rec # None
  PROVE  /\ Since(c) \subseteq Nat
         /\ c.op \in {"observe", "correct"} => Since(c) = {c.rec.createdAt}
         /\ c.op \in {"feedback", "compact"} => Since(c) = {c.start}
         /\ c.op = "ingest" => \A i \in Id : c.batch[i] # None => c.batch[i].createdAt \in Since(c)
<1>1. \A i \in Id : c.batch[i] # None => c.batch[i].createdAt \in Nat
  BY DEF Call, Rows, Row
<1>2. c.rec # None => c.rec.createdAt \in Nat
  BY DEF Call, Row
<1>3. c.start \in Nat
  BY DEF Call
<1>0. /\ c.op \in {"ingest", "feedback", "compact"} => c.rec = None
      /\ c.op \in {"observe", "correct", "ingest", "feedback", "compact"}
  BY DEF DatedCall, Call
<1>4. CASE c.op = "ingest"
  <2>1. Since(c) = {c.batch[i].createdAt : i \in {j \in Id : c.batch[j] # None}}
    BY <1>0, <1>4 DEF Since
  <2>2. \A u \in Since(c) : u \in Nat
    BY <1>1, <2>1
  <2>3. \A i \in Id : c.batch[i] # None => c.batch[i].createdAt \in Since(c)
    BY <2>1
  <2> QED BY <1>4, <2>2, <2>3
<1>5. CASE c.op \in {"observe", "correct"}
  BY <1>2, <1>5 DEF Since
<1>6. CASE c.op \in {"feedback", "compact"}
  BY <1>0, <1>3, <1>6 DEF Since
<1> QED BY <1>0, <1>4, <1>5, <1>6

\* What a call in progress wrote has not expired, if it ages by its use or is new.
LEMMA RecentVisible ==
  ASSUME NEW c \in Call, DatedCall(c), c.op \in {"observe", "correct"} => c.rec # None,
         NEW r \in Row, NEW t \in Nat,
         \A u \in Since(c) : t <= u + TTL, Recent(c, r),
         r.decay # "time" \/ r.createdAt \in Since(c)
  PROVE  \A u \in 0 .. t : ~Expired(r, u)
<1> SUFFICES ASSUME NEW u \in 0 .. t PROVE ~Expired(r, u)
  OBVIOUS
<1>1. PICK d \in Since(c) : d <= r.seenAt
  BY DEF Recent
<1>2. d \in Nat /\ t <= d + TTL /\ r.seenAt \in Nat /\ TTL \in Nat
  BY <1>1, Dates, StoreConstants DEF Row
<1>3. t <= r.seenAt + TTL /\ u \in Nat /\ u <= t
  BY <1>1, <1>2
<1>4. CASE r.decay # "time"
  BY <1>3, <1>4, NotExpired, StillVisible
<1>5. CASE r.createdAt \in Since(c)
  <2>1. t <= r.createdAt + TTL
    BY <1>5
  <2> QED BY <1>3, <2>1, NewlyVisible, StillVisible
<1> QED BY <1>4, <1>5

\* A row that changes is visible all along, or lives no shorter than before.
Lasts(old, new, t) ==
  \/ \A u \in 0 .. t : ~Expired(new, u)
  \/ HasKey(old, Key(new)) /\ Outlasts(new, old)

\* The diary of a call stays true while other calls change rows it has not locked, and cut
\* short no life but those of the rows in y.
LEMMA DiaryFrame ==
  ASSUME NEW c, NEW o, NEW recs \in Rows, NEW recs2 \in Rows, NEW t \in Nat, NEW x, NEW y,
         Diary(c, o, recs, t, x),
         \A i \in Id : o[i] # None => recs2[i] = recs[i],
         c.op = "observe" /\ c.at \in {"insert", "commit"} =>
           x \subseteq y /\ \A i \in Id \ y :
             recs2[i] # recs[i] /\ Active(recs2[i]) => Lasts(recs[i], recs2[i], t),
         c.op # "idle" => c.start \in Nat
  PROVE  Diary(c, o, recs2, t, y)
<1>1. \A i \in Id : o[i] # None /\ recs2[i] = None => o[i].createdAt \in Since(c)
  BY DEF Diary
<1> SUFFICES ASSUME c.op = "observe" PROVE ObservationDiary(c, o, recs2, y)
  BY <1>1 DEF Diary
<1>2. ObservationDiary(c, o, recs, x) /\ c.start \in 0 .. t
  BY DEF Diary
<1>3. c.at = "insert" =>
        \A i \in Id \ y : o[i] = None /\ HasKey(recs2[i], Key(c.rec)) => ~Expired(recs2[i], c.start)
  <2> SUFFICES ASSUME c.at = "insert", NEW i \in Id \ y, o[i] = None, HasKey(recs2[i], Key(c.rec))
               PROVE  ~Expired(recs2[i], c.start)
    OBVIOUS
  <2>0. i \notin x
    OBVIOUS
  <2>1. CASE recs2[i] = recs[i]
    BY <1>2, <2>0, <2>1 DEF ObservationDiary
  <2>2. CASE recs2[i] # recs[i]
    <3>1. Active(recs2[i]) /\ Key(recs2[i]) = Key(c.rec)
      BY DEF HasKey
    <3>2. Lasts(recs[i], recs2[i], t)
      BY <2>2, <3>1
    <3>3. CASE \A u \in 0 .. t : ~Expired(recs2[i], u)
      BY <1>2, <3>3
    <3>4. CASE HasKey(recs[i], Key(recs2[i])) /\ Outlasts(recs2[i], recs[i])
      <4>1. ~Expired(recs[i], c.start)
        BY <1>2, <2>0, <3>1, <3>4 DEF ObservationDiary
      <4>2. recs[i] \in Row /\ recs2[i] \in Row
        BY <3>1, <3>4 DEF HasKey, Active, Rows
      <4> QED BY <1>2, <3>4, <4>1, <4>2, OutlastsVisible
    <3> QED BY <3>2, <3>3, <3>4 DEF Lasts
  <2> QED BY <2>1, <2>2
<1>4. c.at = "commit" =>
        \A i \in Id : recs2[i] # None /\ Active(o[i]) =>
          /\ HasKey(recs2[i], Key(o[i])) /\ Outlasts(o[i], recs2[i])
          /\ i \notin y => ~Expired(recs2[i], c.start)
  <2> SUFFICES ASSUME c.at = "commit", NEW i \in Id, recs2[i] # None, Active(o[i])
               PROVE  /\ HasKey(recs2[i], Key(o[i])) /\ Outlasts(o[i], recs2[i])
                      /\ i \notin y => ~Expired(recs2[i], c.start)
    OBVIOUS
  <2>1. recs2[i] = recs[i] /\ x \subseteq y
    BY DEF Active
  <2> QED BY <1>2, <2>1 DEF ObservationDiary
<1> QED BY <1>2, <1>3, <1>4 DEF ObservationDiary

\* What remains to be shown of a step: the diary of its own session, whose call becomes c.
LEMMA DiaryMoves ==
  ASSUME Inv, DiaryInv, Remembers, NEW s \in Session, NEW c, calls' = [calls EXCEPT ![s] = c],
         now' = now, rows' \in Rows,
         \A t \in Session : t # s => own'[t] = own[t],
         \A i \in Id : rows'[i] # rows[i] =>
           /\ \A t \in Session : t # s => i \notin locked[t]
           /\ Active(rows'[i]) => Lasts(rows[i], rows'[i], now) \/ CutShort(i),
         Diary(c, own'[s], rows', now, cut[s]), VectorsCurrent'
  PROVE  DiaryInv'
<1> SUFFICES ASSUME NEW t \in Session PROVE Diary(calls'[t], own'[t], rows', now, cut'[t])
  BY DEF DiaryInv
<1>0. calls'[t].op = "observe" /\ calls'[t].at \in {"insert", "commit"} =>
        cut'[t] = cut[t] \cup {i \in Id : CutShort(i)}
  BY DEF Remembers
<1>1. CASE t = s
  <2>1. calls'[t] = c /\ Diary(c, own'[s], rows', now, cut[s])
    BY <1>1 DEF Inv, RowsTypeOK
  <2>2. \A i \in Id : own'[s][i] # None => rows'[i] = rows'[i]
    OBVIOUS
  <2>3. c.op = "observe" => ObservationDiary(c, own'[s], rows', cut[s])
    BY <2>1 DEF Diary
  <2>4. c.op = "observe" => ObservationDiary(c, own'[s], rows', cut'[s])
    BY <1>0, <1>1, <2>1, <2>3 DEF ObservationDiary
  <2> QED BY <1>1, <2>1, <2>4 DEF Diary
<1>2. CASE t # s
  <2>1. calls'[t] = calls[t] /\ own'[t] = own[t] /\ Diary(calls[t], own[t], rows, now, cut[t])
    BY <1>2 DEF Inv, RowsTypeOK, DiaryInv
  <2>2. \A i \in Id : own[t][i] # None => rows'[i] = rows[i]
    BY <1>2 DEF Inv, Table, OwnLocked
  <2>3. now \in Nat /\ (calls[t].op # "idle" => calls[t].start \in Nat) /\ rows \in Rows
    BY InProgress DEF Inv, RowsTypeOK, Call
  <2> HIDE DEF Inv
  <2>4. calls[t].op = "observe" /\ calls[t].at \in {"insert", "commit"} =>
          cut[t] \subseteq cut'[t] /\ \A i \in Id \ cut'[t] :
            rows'[i] # rows[i] /\ Active(rows'[i]) => Lasts(rows[i], rows'[i], now)
    BY <1>0, <2>1
  <2> QED BY <2>1, <2>2, <2>3, <2>4, DiaryFrame
<1> QED BY <1>1, <1>2

\* The same for a step that commits nothing.
LEMMA DiaryWrites ==
  ASSUME Inv, DiaryInv, Remembers, NEW s \in Session, NEW c, calls' = [calls EXCEPT ![s] = c],
         UNCHANGED <<rows, now>>, \A t \in Session : t # s => own'[t] = own[t],
         Diary(c, own'[s], rows, now, cut[s])
  PROVE  DiaryInv'
<1>1. VectorsCurrent'
  BY DEF DiaryInv, VectorsCurrent, Active
<1>2. Diary(c, own'[s], rows', now, cut[s]) /\ \A i \in Id : rows'[i] = rows[i]
  OBVIOUS
<1>3. rows' \in Rows
  BY DEF Inv, RowsTypeOK
<1> QED BY <1>1, <1>2, <1>3, DiaryMoves

\* What the diary of a call says at its statement.
LEMMA DiaryOf ==
  ASSUME Inv, DiaryInv, Remembers, NEW s \in Session, calls[s].op # "idle"
  PROVE  /\ calls[s] \in Call /\ CallOK(s) /\ Diary(calls[s], own[s], rows, now, cut[s])
         /\ calls[s].start \in Nat /\ now \in Nat /\ calls[s].start \in 0 .. now
         /\ calls[s].op \in {"observe", "correct", "ingest", "feedback", "compact"}
         /\ DatedCall(calls[s]) /\ (calls[s].op \in {"observe", "correct"} => calls[s].rec # None)
<1>1. calls[s] \in Call /\ CallOK(s) /\ Diary(calls[s], own[s], rows, now, cut[s])
  BY InProgress DEF Inv, CallsOK, DiaryInv
<1> QED BY <1>1 DEF Diary, Call, Inv, RowsTypeOK, CallOK

\* A call that goes on to another statement counts from the same dates.
LEMMA SinceKept ==
  ASSUME NEW c, NEW c2, c2.op = c.op, c2.rec = c.rec, c2.batch = c.batch, c2.start = c.start
  PROVE  /\ Since(c2) = Since(c) /\ (DatedCall(c) => DatedCall(c2))
         /\ \A r : Recent(c, r) => Recent(c2, r)
<1>1. Since(c2) = Since(c)
  BY DEF Since
<1> QED BY <1>1 DEF DatedCall, Recent

\* Calls that begin count from now.
LEMMA NewCallsDiary ==
  ASSUME Inv, DiaryInv, Remembers, NEW s \in Session, NewCalls(s)
  PROVE  DiaryInv'
<1>0. now \in Nat /\ TTL \in Nat /\ CallOK(s)
  BY StoreConstants DEF Inv, CallsOK, RowsTypeOK
<1>1. ASSUME NEW c, Starts(s, c), c.start = now, c.at = "begin", DatedCall(c),
             \A u \in Since(c) : u = now
      PROVE  DiaryInv'
  <2>1. calls[s].op = "idle" /\ calls' = [calls EXCEPT ![s] = c] /\ UNCHANGED <<rows, now, own>>
    BY <1>1 DEF Starts
  <2>2. \A i \in Id : own[s][i] = None /\ ~Active(own[s][i])
    BY <1>0, <2>1 DEF CallOK, Active
  <2>3. c.start <= now /\ \A u \in Since(c) : now <= u + TTL
    BY <1>0, <1>1
  <2>4. ObservationDiary(c, own'[s], rows, cut[s])
    BY <1>1, <2>1, <2>2 DEF ObservationDiary
  <2>5. Diary(c, own'[s], rows, now, cut[s])
    BY <1>1, <2>1, <2>2, <2>3, <2>4 DEF Diary
  <2> QED BY <2>1, <2>5, DiaryWrites
<1>2. \A op \in {"observe", "correct", "ingest", "feedback", "compact"} :
        /\ NewCall(op).op = op /\ NewCall(op).start = now /\ NewCall(op).at = "begin"
        /\ NewCall(op).rec = None /\ NewCall(op).batch = NoRows
  BY DEF NewCall
<1>3. ASSUME NEW t \in Content, NEW d \in DecayKind, Observe(s, t, d) PROVE DiaryInv'
  <2> DEFINE c == [NewCall("observe") EXCEPT !.rec = NewRow(t, d, now)]
  <2>1. /\ c.op = "observe" /\ c.start = now /\ c.at = "begin" /\ c.rec = NewRow(t, d, now)
        /\ c.batch = NoRows
    BY DEF NewCall
  <2>2. NewRow(t, d, now) \in Row
    BY <1>0 DEF NewRow, Row
  <2>3. c.rec # None /\ c.rec.seenAt = now /\ c.rec.createdAt = now
    BY <2>1, <2>2, StoreConstants DEF NewRow
  <2>4. Starts(s, c)
    BY <1>3 DEF Observe
  <2> HIDE DEF c
  <2>5. DatedCall(c) /\ Since(c) = {now}
    BY <2>1, <2>3 DEF DatedCall, Since
  <2> QED BY <1>1, <2>1, <2>4, <2>5
<1>4. ASSUME NEW i \in Id, NEW t \in Content, NEW d \in DecayKind, Correct(s, i, t, d) PROVE DiaryInv'
  <2> DEFINE r == [NewRow(t, d, now) EXCEPT !.history = {i}]
             c == [NewCall("correct") EXCEPT !.id = i, !.rec = r]
  <2>1. r \in Row /\ r.seenAt = now /\ r.createdAt = now
    BY <1>0 DEF NewRow, Row
  <2> HIDE DEF r
  <2>2. c.op = "correct" /\ c.start = now /\ c.at = "begin" /\ c.rec = r
    BY DEF NewCall
  <2>3. c.rec # None
    BY <2>1, <2>2, StoreConstants
  <2>4. Starts(s, c)
    BY <1>4 DEF Correct, r
  <2> HIDE DEF c
  <2>5. DatedCall(c) /\ Since(c) = {now}
    BY <2>1, <2>2, <2>3 DEF DatedCall, Since
  <2> QED BY <1>1, <2>2, <2>4, <2>5
<1>5. ASSUME NEW b \in Batches, Ingest(s, b) PROVE DiaryInv'
  <2> DEFINE dated == [i \in Id |-> IF b[i] = None THEN None
                                   ELSE [b[i] EXCEPT !.createdAt = now, !.seenAt = now]]
             c == [NewCall("ingest") EXCEPT !.batch = dated, !.todo = {i \in Id : b[i] # None}]
  <2>1. \A i \in Id : dated[i] # None => dated[i].createdAt = now /\ dated[i].seenAt = now
    <3> SUFFICES ASSUME NEW i \in Id, b[i] # None
                 PROVE  LET r == [b[i] EXCEPT !.createdAt = now, !.seenAt = now]
                        IN r.createdAt = now /\ r.seenAt = now
      OBVIOUS
    <3>1. b[i] \in Row
      BY ProviderConstants
    <3> QED BY <3>1 DEF Row
  <2> HIDE DEF dated
  <2>2. c.op = "ingest" /\ c.start = now /\ c.at = "begin" /\ c.rec = None /\ c.batch = dated
    BY DEF NewCall
  <2>3. Starts(s, c)
    BY <1>5 DEF Ingest, dated
  <2> HIDE DEF c
  <2>4. DatedCall(c)
    BY <2>1, <2>2 DEF DatedCall
  <2>5. Since(c) = {c.batch[i].createdAt : i \in {j \in Id : c.batch[j] # None}}
    BY <2>2 DEF Since
  <2>6. \A u \in Since(c) : u = now
    BY <2>1, <2>2, <2>5
  <2> QED BY <1>1, <2>2, <2>3, <2>4, <2>6
<1>6. ASSUME NEW i \in Id, Feedback(s, i) PROVE DiaryInv'
  <2> DEFINE c == [NewCall("feedback") EXCEPT !.id = i]
  <2>1. c.op = "feedback" /\ c.start = now /\ c.at = "begin" /\ c.rec = None
    BY DEF NewCall
  <2>2. Starts(s, c)
    BY <1>6 DEF Feedback
  <2> HIDE DEF c
  <2>3. DatedCall(c) /\ Since(c) = {now}
    BY <2>1 DEF DatedCall, Since
  <2> QED BY <1>1, <2>1, <2>2, <2>3
<1>7. ASSUME Compact(s) PROVE DiaryInv'
  <2>1. DatedCall(NewCall("compact")) /\ Since(NewCall("compact")) = {now}
    BY <1>2 DEF DatedCall, Since
  <2> QED BY <1>1, <1>2, <1>7, <2>1 DEF Compact
<1> QED BY <1>3, <1>4, <1>5, <1>6, <1>7 DEF NewCalls

\* A call that ends without a commit leaves no trace.
LEMMA GivesUpDiary ==
  ASSUME Inv, DiaryInv, Remembers, NEW s \in Session, GivesUp(s), now' = now
  PROVE  DiaryInv'
<1>1. /\ calls' = [calls EXCEPT ![s] = Idle] /\ rows' = rows /\ now' = now
      /\ own' = [own EXCEPT ![s] = NoRows]
  BY DEF GivesUp, RollsBack, Ends
<1>2. own'[s] = NoRows /\ \A t \in Session : t # s => own'[t] = own[t]
  BY <1>1 DEF Inv, RowsTypeOK
<1>3. Diary(Idle, own'[s], rows, now, cut[s])
  BY <1>2 DEF Diary, DatedCall, Idle, NoRows, Active
<1> QED BY <1>1, <1>2, <1>3, DiaryWrites

\* BEGIN.
LEMMA BeginDiary ==
  ASSUME Inv, DiaryInv, Remembers, NEW s \in Session, Begin(s)
  PROVE  DiaryInv'
<1> DEFINE op == calls[s].op
           c == [calls[s] EXCEPT
                   !.at = CASE op \in {"observe", "ingest"} -> "archive"
                            [] op = "correct" -> "lock"
                            [] op = "feedback" -> "touch"
                            [] OTHER -> "sweep",
                   !.batch = IF op = "compact" THEN Due ELSE @,
                   !.todo = IF op = "compact" THEN {i \in Id : Due[i] # None} ELSE @,
                   !.start = now]
<1>1. calls[s].op # "idle" /\ calls[s].at = "begin"
  BY DEF Begin, At
<1>2. /\ calls[s] \in Call /\ CallOK(s) /\ Diary(calls[s], own[s], rows, now, cut[s]) /\ now \in Nat
      /\ DatedCall(calls[s]) /\ (calls[s].op \in {"observe", "correct"} => calls[s].rec # None)
      /\ calls[s].op \in {"observe", "correct", "ingest", "feedback", "compact"}
  BY <1>1, DiaryOf
<1>3. \A i \in Id : own[s][i] = None /\ ~Active(own[s][i])
  BY <1>1, <1>2 DEF CallOK, Active
<1>4. calls' = [calls EXCEPT ![s] = c] /\ UNCHANGED <<rows, now, own>>
  BY <1>2 DEF Begin, Inv, RowsTypeOK
<1>5. /\ c.op = calls[s].op /\ c.rec = calls[s].rec /\ c.start = now
      /\ c.at # "commit" /\ c.at # "insert"
      /\ calls[s].op # "compact" => c.batch = calls[s].batch
  BY <1>2 DEF Call
<1> HIDE DEF c, op
<1>6. DatedCall(c)
  BY <1>2, <1>5 DEF DatedCall
<1>7. \A u \in Since(c) : u \in Since(calls[s]) \/ u = now
  <2>1. CASE calls[s].op \in {"observe", "correct", "ingest"}
    BY <1>2, <1>5, <2>1 DEF Since, DatedCall
  <2>2. CASE calls[s].op \in {"feedback", "compact"}
    BY <1>2, <1>5, <2>2 DEF Since, DatedCall
  <2> QED BY <1>2, <2>1, <2>2
<1>8. \A u \in Since(c) : now <= u + TTL
  BY <1>1, <1>2, <1>7, StoreConstants DEF Diary
<1>9. Diary(c, own[s], rows, now, cut[s])
  BY <1>2, <1>3, <1>5, <1>6, <1>8 DEF Diary, ObservationDiary
<1> QED BY <1>4, <1>9, DiaryWrites

\* A row that only the call sees is one it created.
LEMMA ViewBorn ==
  ASSUME Inv, DiaryInv, NEW s \in Session, NEW i \in Id, rows[i] = None, View(s)[i] # None
  PROVE  own[s][i] = View(s)[i] /\ View(s)[i].createdAt \in Since(calls[s])
<1>1. own[s][i] # None /\ own[s][i] = View(s)[i]
  BY ViewUnwritten
<1> QED BY <1>1 DEF DiaryInv, Diary

\* A call that goes on counts from the same dates: what it writes anew is dated so, and has
\* its own vector.
LEMMA DiaryGoes ==
  ASSUME Inv, DiaryInv, Remembers, NEW s \in Session, calls[s].op # "idle", NEW c,
         c.op = calls[s].op, c.rec = calls[s].rec, c.batch = calls[s].batch, c.start = calls[s].start,
         calls' = [calls EXCEPT ![s] = c], UNCHANGED <<rows, now>>,
         \A t \in Session : t # s => own'[t] = own[t],
         \A i \in Id : Active(own'[s][i]) =>
           \/ own'[s][i] = own[s][i]
           \/ /\ calls[s].op \in {"observe", "correct", "ingest"}
              /\ Recent(calls[s], own'[s][i]) /\ own'[s][i].vector = own'[s][i].content,
         \A i \in Id : own'[s][i] # None /\ rows[i] = None =>
           own'[s][i] = own[s][i] \/ own'[s][i].createdAt \in Since(calls[s]),
         c.op = "observe" => ObservationDiary(c, own'[s], rows, cut[s])
  PROVE  DiaryInv'
<1>1. Diary(calls[s], own[s], rows, now, cut[s])
  BY DiaryOf
<1>2. Since(c) = Since(calls[s]) /\ DatedCall(c)
  BY <1>1, SinceKept DEF Diary
<1>3. \A i \in Id : Active(own'[s][i]) =>
        /\ c.op \in {"observe", "correct", "ingest"}
        /\ Recent(c, own'[s][i]) /\ own'[s][i].vector = own'[s][i].content
  BY <1>1, <1>2 DEF Diary, Recent
<1>4. \A i \in Id : own'[s][i] # None /\ rows[i] = None => own'[s][i].createdAt \in Since(c)
  BY <1>1, <1>2 DEF Diary
<1>5. Diary(c, own'[s], rows, now, cut[s])
  BY <1>1, <1>2, <1>3, <1>4 DEF Diary
<1> QED BY <1>5, DiaryWrites

\* The expired rows of an observation's text are archived: what is left has not expired.
LEMMA ArchiveDiary ==
  ASSUME Inv, DiaryInv, Remembers, NEW s \in Session, Archive(s)
  PROVE  DiaryInv'
<1> DEFINE T == ExpiredDuplicates(s)
           o == [i \in Id |-> IF i \in T THEN [View(s)[i] EXCEPT !.status = "archived"]
                              ELSE own[s][i]]
           c == [calls[s] EXCEPT !.at = IF calls[s].op = "ingest" THEN "write" ELSE "insert"]
<1>1. calls[s].op # "idle" /\ calls[s].at = "archive" /\ UNCHANGED <<rows, now>>
  BY DEF Archive, Runs, At
<1>2. calls[s] \in Call /\ Diary(calls[s], own[s], rows, now, cut[s]) /\ DatedCall(calls[s])
  BY <1>1, DiaryOf
<1>3. calls' = [calls EXCEPT ![s] = c] /\ own' = [own EXCEPT ![s] = o]
  BY DEF Archive, Goes, Inv, RowsTypeOK
<1>4. own'[s] = o /\ \A t \in Session : t # s => own'[t] = own[t]
  BY <1>3 DEF Inv, RowsTypeOK
<1>5. /\ c.op = calls[s].op /\ c.rec = calls[s].rec /\ c.batch = calls[s].batch
      /\ c.start = calls[s].start /\ (c.op = "observe" => c.at = "insert")
  BY <1>2 DEF Call
<1>6. \A i \in T : View(s)[i] \in Row
  <2>1. \A i \in T : i \in Id /\ View(s)[i] # None
    BY DEF ExpiredDuplicates, HasKey, Active
  <2> QED BY <2>1, ViewType DEF Inv
<1>7. \A i \in T : o[i] # None /\ ~Active(o[i])
  <2> TAKE i \in T
  <2>1. i \in Id
    BY DEF ExpiredDuplicates
  <2>2. o[i] = [View(s)[i] EXCEPT !.status = "archived"]
    BY <2>1
  <2>3. View(s)[i] \in Row
    BY <1>6
  <2>4. /\ [View(s)[i] EXCEPT !.status = "archived"] \in Row
        /\ ~Active([View(s)[i] EXCEPT !.status = "archived"])
    BY <2>3, RowChanges
  <2> QED BY <2>2, <2>4, StoreConstants
<1>8. \A i \in Id : i \notin T => o[i] = own[s][i]
  OBVIOUS
<1>9. calls[s].op = "observe" =>
        \A i \in Id : i \notin T /\ own[s][i] = None /\ HasKey(rows[i], Key(calls[s].rec)) =>
          ~Expired(rows[i], calls[s].start)
  <2> SUFFICES ASSUME calls[s].op = "observe", NEW i \in Id, own[s][i] = None,
                      HasKey(rows[i], Key(calls[s].rec)), Expired(rows[i], calls[s].start)
               PROVE  i \in T
    OBVIOUS
  <2>1. calls[s].batch[i] = None /\ View(s)[i] = rows[i]
    BY <1>2, ViewUnwritten DEF DatedCall, NoRows
  <2> QED BY <2>1 DEF ExpiredDuplicates, Incoming
<1>12. \A i \in T : rows[i] = None => o[i].createdAt \in Since(calls[s])
  <2> SUFFICES ASSUME NEW i \in T, rows[i] = None
               PROVE  [View(s)[i] EXCEPT !.status = "archived"].createdAt \in Since(calls[s])
    BY DEF ExpiredDuplicates
  <2>1. i \in Id
    BY DEF ExpiredDuplicates
  <2>2. View(s)[i] \in Row /\ View(s)[i] # None
    BY <1>6, StoreConstants
  <2>3. View(s)[i].createdAt \in Since(calls[s])
    BY <2>1, <2>2, ViewBorn
  <2>4. [View(s)[i] EXCEPT !.status = "archived"].createdAt = View(s)[i].createdAt
    BY <2>2 DEF Row
  <2> QED BY <2>3, <2>4
<1> HIDE DEF c, o, T
<1>10. \A i \in Id : Active(own'[s][i]) => own'[s][i] = own[s][i]
  BY <1>4, <1>7, <1>8
<1>13. \A i \in Id : own'[s][i] # None /\ rows[i] = None =>
         own'[s][i] = own[s][i] \/ own'[s][i].createdAt \in Since(calls[s])
  BY <1>4, <1>8, <1>12
<1>11. c.op = "observe" => ObservationDiary(c, own'[s], rows, cut[s])
  <2> SUFFICES ASSUME c.op = "observe" PROVE ObservationDiary(c, own'[s], rows, cut[s])
    OBVIOUS
  <2>1. \A i \in Id : ~Active(own[s][i])
    BY <1>1, <1>2, <1>5 DEF Diary, ObservationDiary
  <2>2. \A i \in Id : ~Active(own'[s][i])
    BY <1>10, <2>1
  <2>3. \A i \in Id : own'[s][i] = None /\ HasKey(rows[i], Key(c.rec)) => ~Expired(rows[i], c.start)
    BY <1>4, <1>5, <1>7, <1>8, <1>9
  <2> QED BY <1>5, <2>2, <2>3 DEF ObservationDiary
<1> QED BY <1>1, <1>3, <1>4, <1>5, <1>10, <1>11, <1>13, DiaryGoes

\* SELECT ... FOR UPDATE writes nothing.
LEMMA LockPreviousDiary ==
  ASSUME Inv, DiaryInv, Remembers, NEW s \in Session, LockPrevious(s)
  PROVE  DiaryInv'
<1> DEFINE c == [calls[s] EXCEPT !.at = "archive"]
<1>1. calls[s].op # "idle" /\ calls[s].at = "lock" /\ now' = now
  BY DEF LockPrevious, Runs, At
<1>2. CASE GivesUp(s)
  BY <1>1, <1>2, GivesUpDiary
<1>3. CASE ~GivesUp(s)
  <2>1. calls[s] \in Call /\ CallOK(s)
    BY <1>1, DiaryOf
  <2>2. calls[s].op = "correct"
    BY <1>1, <2>1 DEF CallOK
  <2>3. calls' = [calls EXCEPT ![s] = c] /\ UNCHANGED <<rows, own, now>>
    BY <1>1, <1>3 DEF LockPrevious, Goes, Inv, RowsTypeOK
  <2>4. /\ c.op = "correct" /\ c.rec = calls[s].rec /\ c.batch = calls[s].batch
        /\ c.start = calls[s].start
    BY <2>1, <2>2 DEF Call
  <2> HIDE DEF c
  <2> QED BY <1>1, <2>2, <2>3, <2>4, DiaryGoes
<1> QED BY <1>2, <1>3

\* What an insert saves was seen when its candidate was dated, or later, and has its own
\* vector; an observation takes in a row that had not expired, or that was cut short, and
\* leaves it at least the time it had.
LEMMA SavedDiary ==
  ASSUME Inv, DiaryInv, Remembers, NEW s \in Session, At(s, "insert"), WaitsFor(s) = {}, NEW saved \in Id,
         Saves(s, calls[s].rec, saved)
  PROVE  /\ Recent(calls[s], Saved(s, calls[s].rec, saved))
         /\ Saved(s, calls[s].rec, saved).vector = Saved(s, calls[s].rec, saved).content
         /\ rows[saved] = None => Saved(s, calls[s].rec, saved).createdAt \in Since(calls[s])
         /\ calls[s].op = "observe" /\ rows[saved] # None =>
              /\ HasKey(rows[saved], Key(Saved(s, calls[s].rec, saved)))
              /\ Outlasts(Saved(s, calls[s].rec, saved), rows[saved])
              /\ saved \notin cut[s] => ~Expired(rows[saved], calls[s].start)
<1> DEFINE c == calls[s]
           r == c.rec
           k == Key(r)
           v == Saved(s, r, saved)
<1>1. /\ c \in Call /\ CallOK(s) /\ Diary(c, own[s], rows, now, cut[s]) /\ c.at = "insert" /\ c.op # "idle"
      /\ DatedCall(c) /\ (c.op \in {"observe", "correct"} => r # None)
  BY DiaryOf DEF At
<1>2. c.op \in {"observe", "correct"} /\ r \in Row
  BY <1>1 DEF CallOK, Call
<1>3. r.seenAt \in Since(c) /\ r.createdAt \in Since(c)
  <2> HIDE DEF c
  <2>1. Since(c) = {c.rec.createdAt} /\ c.rec.seenAt = c.rec.createdAt
    BY <1>1, <1>2, Dates DEF DatedCall
  <2> QED BY <2>1
<1>4. \A x \in Row : x.seenAt >= r.seenAt => Recent(c, x)
  BY <1>2, <1>3 DEF Recent, Row
<1>5. CASE Holder(s, k) = {}
  <2>1. Fresh(saved)
    BY <1>5 DEF Saves
  <2>2. rows[saved] = None /\ View(s)[saved] = None
    BY <2>1, ViewUnwritten DEF Fresh, Inv, Table, OwnLocked
  <2>3. v = [r EXCEPT !.vector = r.content]
    BY <2>2 DEF Saved, EmbedsCreated
  <2>4. v \in Row /\ v.seenAt = r.seenAt /\ v.vector = v.content /\ v.createdAt = r.createdAt
    BY <1>2, <2>3 DEF Row
  <2>5. v.seenAt >= r.seenAt
    BY <1>2, <2>4 DEF Row
  <2> HIDE DEF v, c
  <2>6. Recent(c, v) /\ v.createdAt \in Since(c)
    BY <1>3, <1>4, <2>4, <2>5
  <2> QED BY <2>2, <2>4, <2>6 DEF c, v
<1>6. CASE Holder(s, k) # {}
  <2> DEFINE old == View(s)[saved]
  <2>1. HasKey(old, k)
    BY <1>6 DEF Saves, Holder
  <2>2. old \in Row /\ old # None /\ Active(old)
    BY <2>1, ViewType DEF HasKey, Active, Inv
  <2>3. old.vector = old.content
    <3>1. CASE own[s][saved] = None
      BY <2>2, <3>1, ViewUnwritten DEF DiaryInv, VectorsCurrent
    <3>2. CASE own[s][saved] # None
      <4>1. old = own[s][saved]
        BY <3>2, ViewUnwritten
      <4> QED BY <1>1, <2>2, <4>1 DEF Diary
    <3> QED BY <3>1, <3>2
  <2>4. v \in {Reinforced(old, r), Replaced(old, r)}
    BY <2>2 DEF Saved, EmbedsCreated
  <2>5. c.op = "observe" =>
          /\ old = rows[saved] /\ v = Reinforced(old, r)
          /\ saved \notin cut[s] => ~Expired(rows[saved], c.start)
    <3> SUFFICES ASSUME c.op = "observe"
                 PROVE  /\ old = rows[saved] /\ v = Reinforced(old, r)
                        /\ saved \notin cut[s] => ~Expired(rows[saved], c.start)
      OBVIOUS
    <3>1. ObservationDiary(c, own[s], rows, cut[s])
      BY <1>1 DEF Diary
    <3>2. ~Active(own[s][saved])
      BY <1>1, <3>1 DEF ObservationDiary
    <3>3. own[s][saved] = None /\ old = rows[saved]
      BY <2>2, <3>2, ViewUnwritten
    <3>4. v = Reinforced(old, r)
      BY <2>2 DEF Saved, EmbedsCreated
    <3> QED BY <1>1, <2>1, <3>1, <3>3, <3>4 DEF ObservationDiary
  <2>8. rows[saved] = None => old.createdAt \in Since(c)
    BY <2>2, ViewBorn
  <2> HIDE DEF v, old, r
  <2>6. /\ v \in Row /\ v.seenAt >= r.seenAt /\ v.vector = v.content
        /\ v.createdAt = old.createdAt /\ v.content = old.content /\ v.seenAt >= old.seenAt
        /\ v = Reinforced(old, r) => v.decay = old.decay
    BY <1>2, <2>2, <2>3, <2>4, Merges
  <2> HIDE DEF c
  <2>7. Recent(c, v) /\ (rows[saved] = None => v.createdAt \in Since(c))
    BY <1>4, <2>6, <2>8
  <2>9. c.op = "observe" => HasKey(rows[saved], Key(v)) /\ Outlasts(v, rows[saved])
    <3> SUFFICES ASSUME c.op = "observe" PROVE HasKey(old, Key(v)) /\ Outlasts(v, old)
      BY <2>5
    <3>1. HasKey(old, Key(v))
      BY <2>2, <2>6 DEF HasKey, Key
    <3>2. v.decay = old.decay
      BY <2>5, <2>6
    <3>3. Anchor(old) <= Anchor(v)
      BY <2>2, <2>6, <3>2 DEF Anchor, Row
    <3> QED BY <3>1, <3>2, <3>3 DEF Outlasts
  <2> QED BY <2>5, <2>6, <2>7, <2>9 DEF c, v, r
<1> QED BY <1>5, <1>6

\* An observation's insert.
LEMMA InsertOrReinforceDiary ==
  ASSUME Inv, DiaryInv, Remembers, NEW s \in Session, NEW saved \in Id, InsertOrReinforce(s, saved)
  PROVE  DiaryInv'
<1> DEFINE v == Saved(s, calls[s].rec, saved)
           c == [calls[s] EXCEPT !.at = "commit"]
<1>1. /\ At(s, "insert") /\ WaitsFor(s) = {} /\ Saves(s, calls[s].rec, saved)
      /\ calls[s].op = "observe" /\ own' = [own EXCEPT ![s][saved] = v] /\ Goes(s, "commit")
      /\ UNCHANGED <<rows, now>>
  BY DEF InsertOrReinforce, Runs
<1>2. /\ Recent(calls[s], v) /\ v.vector = v.content
      /\ rows[saved] = None => v.createdAt \in Since(calls[s])
      /\ rows[saved] # None => /\ HasKey(rows[saved], Key(v)) /\ Outlasts(v, rows[saved])
                               /\ saved \notin cut[s] => ~Expired(rows[saved], calls[s].start)
  BY <1>1, SavedDiary
<1> HIDE DEF v
<1>3. calls[s] \in Call /\ ObservationDiary(calls[s], own[s], rows, cut[s]) /\ calls[s].at = "insert"
  BY <1>1, DiaryOf DEF At, Diary
<1>4. calls' = [calls EXCEPT ![s] = c]
  BY <1>1 DEF Goes, Inv, RowsTypeOK
<1>5. /\ c.op = calls[s].op /\ c.rec = calls[s].rec /\ c.batch = calls[s].batch
      /\ c.start = calls[s].start /\ c.at = "commit"
  BY <1>1, <1>3 DEF Call
<1> HIDE DEF c
<1>6. \A t \in Session : t # s => own'[t] = own[t]
  BY <1>1 DEF Inv, RowsTypeOK
<1>7. \A j \in Id : own'[s][j] = IF j = saved THEN v ELSE own[s][j]
  BY <1>1 DEF Inv, RowsTypeOK, Rows
<1>8. ObservationDiary(c, own'[s], rows, cut[s])
  BY <1>2, <1>3, <1>5, <1>7 DEF ObservationDiary
<1>9. \A j \in Id :
        /\ Active(own'[s][j]) =>
             \/ own'[s][j] = own[s][j]
             \/ Recent(calls[s], own'[s][j]) /\ own'[s][j].vector = own'[s][j].content
        /\ rows[j] = None => own'[s][j] = own[s][j] \/ own'[s][j].createdAt \in Since(calls[s])
  BY <1>2, <1>7
<1> QED BY <1>1, <1>4, <1>5, <1>6, <1>8, <1>9, DiaryGoes

\* A correction's: the memory it replaces goes out.
LEMMA InsertReplacementDiary ==
  ASSUME Inv, DiaryInv, Remembers, NEW s \in Session, NEW saved \in Id, InsertReplacement(s, saved)
  PROVE  DiaryInv'
<1> DEFINE v == Saved(s, calls[s].rec, saved)
           c == [calls[s] EXCEPT !.at = "commit"]
           i == calls[s].id
           gone == [View(s)[i] EXCEPT !.status = "superseded", !.by = saved]
<1>1. /\ At(s, "insert") /\ WaitsFor(s) = {} /\ Saves(s, calls[s].rec, saved)
      /\ calls[s].op = "correct" /\ Goes(s, "commit") /\ UNCHANGED <<rows, now>>
      /\ own' = [own EXCEPT ![s][saved] = v, ![s][i] = gone]
  BY DEF InsertReplacement, Runs
<1>2. /\ Recent(calls[s], v) /\ v.vector = v.content
      /\ rows[saved] = None => v.createdAt \in Since(calls[s])
  BY <1>1, SavedDiary
<1>3. calls[s] \in Call /\ CallOK(s) /\ calls[s].at = "insert"
  BY <1>1, DiaryOf DEF At
<1>4. i \in Id /\ View(s)[i] # None
  BY <1>1, <1>3 DEF CallOK, Call
<1>5. ~Active(gone)
  BY <1>4, ViewType, RowChanges DEF Inv
<1>11. rows[i] = None => gone.createdAt \in Since(calls[s])
  <2>1. View(s)[i] \in Row
    BY <1>4, ViewType DEF Inv
  <2>2. gone.createdAt = View(s)[i].createdAt
    BY <2>1 DEF Row
  <2> QED BY <1>4, <2>2, ViewBorn
<1>6. calls' = [calls EXCEPT ![s] = c]
  BY <1>1 DEF Goes, Inv, RowsTypeOK
<1>7. /\ c.op = calls[s].op /\ c.rec = calls[s].rec /\ c.batch = calls[s].batch
      /\ c.start = calls[s].start
  BY <1>3 DEF Call
<1> HIDE DEF v, c, i, gone
<1>8. \A t \in Session : t # s => own'[t] = own[t]
  BY <1>1 DEF Inv, RowsTypeOK
<1>9. \A j \in Id : own'[s][j] = IF j = i THEN gone ELSE IF j = saved THEN v ELSE own[s][j]
  BY <1>1, <1>4 DEF Inv, RowsTypeOK, Rows
<1>10. \A j \in Id :
         /\ Active(own'[s][j]) =>
              \/ own'[s][j] = own[s][j]
              \/ Recent(calls[s], own'[s][j]) /\ own'[s][j].vector = own'[s][j].content
         /\ rows[j] = None => own'[s][j] = own[s][j] \/ own'[s][j].createdAt \in Since(calls[s])
  BY <1>2, <1>5, <1>9, <1>11
<1> QED BY <1>1, <1>3, <1>6, <1>7, <1>8, <1>10, DiaryGoes DEF At

\* A batch locks a row.
LEMMA LockIdDiary ==
  ASSUME Inv, DiaryInv, Remembers, NEW s \in Session, NEW i \in Id, LockId(s, i)
  PROVE  DiaryInv'
<1> DEFINE c == calls[s]
<1>1. At(s, "write") /\ i \in NextRows(s) /\ UNCHANGED <<rows, calls, own, now>>
  BY DEF LockId, RunsRow
<1>2. calls[s].op = "ingest"
  BY <1>1, NextRow
<1>3. calls' = [calls EXCEPT ![s] = c]
  BY <1>1 DEF Inv, RowsTypeOK
<1>4. c = calls[s]
  OBVIOUS
<1> HIDE DEF c
<1> QED BY <1>1, <1>2, <1>3, <1>4, DiaryGoes

\* And writes it, dated as the batch was, with its own vector.
LEMMA UpsertDiary ==
  ASSUME Inv, DiaryInv, Remembers, NEW s \in Session, NEW i \in Id, Upsert(s, i)
  PROVE  DiaryInv'
<1>1. At(s, "write") /\ i \in NextRows(s) /\ now' = now
  BY DEF Upsert, RunsRow
<1>2. CASE GivesUp(s)
  BY <1>1, <1>2, GivesUpDiary
<1>3. CASE ~GivesUp(s)
  <2> DEFINE r == calls[s].batch[i]
             v == Upserted(View(s)[i], r)
             c == [calls[s] EXCEPT !.todo = @ \ {i},
                                   !.at = IF calls[s].todo = {i} THEN "commit" ELSE calls[s].at]
  <2>1. calls[s] \in Call /\ r \in Row /\ calls[s].op = "ingest"
    BY <1>1, NextRow
  <2>2. calls' = [calls EXCEPT ![s] = c] /\ own' = [own EXCEPT ![s][i] = v] /\ UNCHANGED <<rows, now>>
    BY <1>1, <1>3, <2>1 DEF Upsert, Inv, RowsTypeOK
  <2>3. /\ v.seenAt = r.seenAt /\ v.vector = v.content
        /\ \/ v.createdAt = r.createdAt
           \/ View(s)[i] # None /\ v.createdAt = View(s)[i].createdAt
    <3> DEFINE old == View(s)[i]
    <3>1. CASE old = None
      BY <2>1, <3>1 DEF Upserted, Row
    <3>2. CASE old # None
      BY <2>1, <3>2 DEF Upserted, Row
    <3> QED BY <3>1, <3>2
  <2>4. /\ c.op = calls[s].op /\ c.rec = calls[s].rec /\ c.batch = calls[s].batch
        /\ c.start = calls[s].start
    BY <2>1 DEF Call
  <2> HIDE DEF v, c
  <2>5. r.seenAt \in Since(calls[s]) /\ r.seenAt \in Nat /\ r.createdAt \in Since(calls[s])
    <3>1. DatedCall(calls[s])
      BY <2>1, DiaryOf
    <3>2. r # None
      BY <2>1, StoreConstants
    <3>3. r.seenAt = r.createdAt
      BY <2>1, <3>1, <3>2 DEF DatedCall
    <3>4. r.createdAt \in Since(calls[s])
      BY <2>1, <3>1, <3>2, Dates
    <3> QED BY <2>1, <3>3, <3>4 DEF Row
  <2> HIDE DEF r
  <2>6. Recent(calls[s], v) /\ (rows[i] = None => v.createdAt \in Since(calls[s]))
    BY <2>3, <2>5, ViewBorn DEF Recent
  <2>7. \A t \in Session : t # s => own'[t] = own[t]
    BY <2>2 DEF Inv, RowsTypeOK
  <2>8. \A j \in Id : own'[s][j] = IF j = i THEN v ELSE own[s][j]
    BY <2>2 DEF Inv, RowsTypeOK, Rows
  <2>9. \A j \in Id :
          /\ Active(own'[s][j]) =>
               \/ own'[s][j] = own[s][j]
               \/ Recent(calls[s], own'[s][j]) /\ own'[s][j].vector = own'[s][j].content
          /\ rows[j] = None => own'[s][j] = own[s][j] \/ own'[s][j].createdAt \in Since(calls[s])
    BY <2>3, <2>6, <2>8
  <2> QED BY <2>1, <2>2, <2>4, <2>7, <2>9, DiaryGoes
<1> QED BY <1>2, <1>3

\* A sweep writes archived rows.
LEMMA SweepDiary ==
  ASSUME Inv, DiaryInv, Remembers, NEW s \in Session, NEW i \in Id, Sweep(s, i)
  PROVE  DiaryInv'
<1> DEFINE c == [calls[s] EXCEPT !.todo = @ \ {i}]
           gone == [rows[i] EXCEPT !.status = "archived"]
<1>1. /\ At(s, "sweep") /\ i \in NextRows(s) /\ UNCHANGED <<rows, now>>
      /\ calls' = [calls EXCEPT ![s].todo = @ \ {i}]
      /\ own' = [own EXCEPT ![s][i] = gone] \/ UNCHANGED own
  BY DEF Sweep, RunsRow
<1>2. rows[i] \in Row /\ calls[s].op = "compact" /\ calls[s] \in Call
  BY <1>1, NextRow
<1>3. calls' = [calls EXCEPT ![s] = c]
  BY <1>1 DEF Inv, RowsTypeOK
<1>4. /\ c.op = calls[s].op /\ c.rec = calls[s].rec /\ c.batch = calls[s].batch
      /\ c.start = calls[s].start
  BY <1>2 DEF Call
<1>5. ~Active(gone)
  BY <1>2, RowChanges
<1> HIDE DEF c, gone
<1>6. \A t \in Session : t # s => own'[t] = own[t]
  BY <1>1 DEF Inv, RowsTypeOK
<1>7. \A j \in Id : own'[s][j] = own[s][j] \/ (j = i /\ own'[s][j] = gone)
  BY <1>1 DEF Inv, RowsTypeOK, Rows
<1>8. \A j \in Id : Active(own'[s][j]) \/ rows[j] = None => own'[s][j] = own[s][j]
  BY <1>2, <1>5, <1>7, StoreConstants
<1>9. calls[s].op # "idle" /\ c.op # "observe" /\ UNCHANGED <<rows, now>>
  BY <1>1, <1>2, <1>4
<1> QED BY <1>3, <1>4, <1>6, <1>8, <1>9, DiaryGoes

\* The victim of a deadlock begins again with what it was given, or fails.
LEMMA DeadlockBrokenDiary ==
  ASSUME Inv, DiaryInv, Remembers, NEW s \in Session, DeadlockBroken(s)
  PROVE  DiaryInv'
<1> DEFINE again == Again(calls[s])
<1>1. /\ calls' = [calls EXCEPT ![s] = IF Retries(s) THEN again ELSE Idle]
      /\ UNCHANGED <<rows, now>> /\ RollsBack(s)
  BY DEF DeadlockBroken, Inv, RowsTypeOK
<1>2. CASE ~Retries(s)
  <2>1. GivesUp(s) /\ now' = now
    BY <1>1, <1>2 DEF GivesUp
  <2> QED BY <2>1, GivesUpDiary
<1>3. CASE Retries(s)
  <2>1. calls[s].op # "idle"
    <3>1. WaitsFor(s) # {}
      BY DEF DeadlockBroken, Deadlocked
    <3> QED BY <3>1 DEF WaitsFor, At
  <2>2. calls[s] \in Call
    BY <2>1, DiaryOf
  <2>3. /\ again.op = calls[s].op /\ again.rec = calls[s].rec /\ again.batch = calls[s].batch
        /\ again.start = calls[s].start /\ again.at = "begin"
    BY <2>2 DEF Again, Call
  <2> HIDE DEF again
  <2>4. calls' = [calls EXCEPT ![s] = again]
    BY <1>1, <1>3
  <2>5. own'[s] = NoRows /\ \A t \in Session : t # s => own'[t] = own[t]
    BY <1>1 DEF RollsBack, Ends, Inv, RowsTypeOK
  <2>6. \A i \in Id : ~Active(own'[s][i]) /\ own'[s][i] = None
    BY <2>5 DEF NoRows, Active
  <2>7. ObservationDiary(again, own'[s], rows, cut[s])
    BY <2>3, <2>6 DEF ObservationDiary
  <2> QED BY <1>1, <2>1, <2>3, <2>4, <2>5, <2>6, <2>7, DiaryGoes
<1> QED BY <1>2, <1>3

\* Feedback dates a row with the time its transaction began.
LEMMA TouchDiary ==
  ASSUME Inv, DiaryInv, Remembers, NEW s \in Session, Touch(s)
  PROVE  DiaryInv'
<1>1. /\ calls[s].op # "idle" /\ calls[s].at = "touch" /\ WaitsFor(s) = {} /\ now' = now
      /\ calls' = [calls EXCEPT ![s] = Idle] /\ UNCHANGED <<own, locked>>
  BY DEF Touch, Runs, At
<1>2. /\ calls[s] \in Call /\ CallOK(s) /\ calls[s].start \in Nat /\ now \in Nat
      /\ Diary(calls[s], own[s], rows, now, cut[s]) /\ DatedCall(calls[s])
  BY <1>1, DiaryOf
<1>3. calls[s].op = "feedback" /\ calls[s].id \in Id /\ \A i \in Id : own[s][i] = None
  BY <1>1, <1>2 DEF CallOK, Call
<1>4. PICK i \in Id : i = calls[s].id
  BY <1>3
<1>5. View(s)[i] = rows[i]
  BY <1>3, ViewUnwritten
<1>6. Diary(Idle, own'[s], rows', now, cut[s])
  BY <1>1, <1>3 DEF Diary, DatedCall, Idle, Active
<1>7. \A t \in Session : t # s => own'[t] = own[t]
  BY <1>1
<1>8. CASE rows' = rows
  BY <1>1, <1>6, <1>7, <1>8, DiaryWrites
<1>9. CASE rows' # rows
  <2> DEFINE r == [rows[i] EXCEPT !.seenAt = calls[s].start]
  <2>1. Active(rows[i]) /\ rows' = [rows EXCEPT ![i].seenAt = calls[s].start]
    BY <1>4, <1>5, <1>9 DEF Touch, Correctable
  <2>2. rows[i] \in Row
    BY <2>1, ViewUnwritten DEF Active
  <2>3. /\ r \in Row /\ r.seenAt = calls[s].start /\ r.vector = rows[i].vector
        /\ r.content = rows[i].content /\ r.decay = rows[i].decay /\ r.createdAt = rows[i].createdAt
    BY <1>2, <2>2 DEF Row
  <2> HIDE DEF r
  <2>4. \A j \in Id : rows'[j] = IF j = i THEN r ELSE rows[j]
    BY <2>1 DEF r, Inv, RowsTypeOK, Rows
  <2>5. now <= r.seenAt + TTL
    <3>1. Since(calls[s]) = {calls[s].start}
      BY <1>2, <1>3, Dates
    <3> QED BY <1>2, <1>3, <2>3, <3>1 DEF Diary
  <2>6. Lasts(rows[i], r, now)
    <3>1. CASE r.decay = "time"
      <4>1. HasKey(rows[i], Key(r)) /\ Outlasts(r, rows[i])
        BY <2>1, <2>2, <2>3, <3>1 DEF HasKey, Key, Outlasts, Anchor, Row
      <4> QED BY <4>1 DEF Lasts
    <3>2. CASE r.decay # "time"
      <4>1. \A u \in 0 .. now : ~Expired(r, u)
        <5> TAKE u \in 0 .. now
        <5>1. u \in Nat /\ u <= now
          BY <1>2
        <5> QED BY <1>2, <2>3, <2>5, <3>2, <5>1, NotExpired, StillVisible
      <4> QED BY <4>1 DEF Lasts
    <3> QED BY <3>1, <3>2
  <2>7. VectorsCurrent'
    BY <2>1, <2>3, <2>4 DEF DiaryInv, VectorsCurrent, Active
  <2>8. \A j \in Id : rows'[j] # rows[j] =>
          /\ \A t \in Session : t # s => j \notin locked[t]
          /\ Active(rows'[j]) => Lasts(rows[j], rows'[j], now) \/ CutShort(j)
    <3>1. LockersOf(s, i) = {}
      BY <1>1, <1>4 DEF WaitsFor, At
    <3> QED BY <2>4, <2>6, <3>1 DEF LockersOf, Others
  <2>9. rows' \in Rows
    BY <2>3, <2>4, <2>1 DEF Inv, RowsTypeOK, Rows
  <2> QED BY <1>1, <1>6, <1>7, <2>7, <2>8, <2>9, DiaryMoves
<1> QED BY <1>8, <1>9

\* What a commit publishes is visible, or lives no shorter than before, or is cut short by it.
LEMMA PublishedLasts ==
  ASSUME Inv, DiaryInv, Remembers, NEW s \in Session, Commit(s), NEW i \in Id, Active(own[s][i])
  PROVE  Lasts(rows[i], own[s][i], now) \/ CutShort(i)
<1> DEFINE c == calls[s]
           r == own[s][i]
<1>1. /\ c.op # "idle" /\ (At(s, "commit") \/ At(s, "sweep")) /\ rows' = View(s) /\ calls'[s].op = "idle"
  BY DEF Commit, Swept, At, Inv, RowsTypeOK, Idle
<1>2. /\ c \in Call /\ CallOK(s) /\ Diary(c, own[s], rows, now, cut[s]) /\ DatedCall(c) /\ now \in Nat
      /\ (c.op \in {"observe", "correct"} => c.rec # None)
  BY <1>1, DiaryOf DEF Inv, CallsOK, DiaryInv
<1>3. /\ c.op \in {"observe", "correct", "ingest"} /\ Recent(c, r)
      /\ \A u \in Since(c) : now <= u + TTL
      /\ rows[i] = None => r.createdAt \in Since(c)
  BY <1>1, <1>2 DEF Diary, Active
<1>4. r # None /\ r \in Row /\ rows'[i] = r
  BY <1>1 DEF Active, Inv, RowsTypeOK, Rows, View
<1>5. At(s, "commit")
  BY <1>1, <1>2, <1>3 DEF CallOK, At
<1>6. ASSUME r.decay # "time" \/ r.createdAt \in Since(c) PROVE Lasts(rows[i], r, now)
  <2> HIDE DEF c, r
  <2> QED BY <1>2, <1>3, <1>4, <1>6, RecentVisible DEF Lasts
<1>7. CASE r.decay = "time" /\ rows[i] # None /\ c.op = "observe"
  <2>1. ObservationDiary(c, own[s], rows, cut[s])
    BY <1>2, <1>7 DEF Diary
  <2>2. HasKey(rows[i], Key(r)) /\ Outlasts(r, rows[i])
    BY <1>5, <1>7, <2>1 DEF ObservationDiary, At
  <2> QED BY <2>2 DEF Lasts
<1>8. CASE r.decay = "time" /\ rows[i] # None /\ c.op # "observe"
  <2>1. Republishes(s)
    BY <1>1, <1>3, <1>5, <1>8 DEF Republishes
  <2>2. CASE Expired(r, now)
    BY <1>4, <1>8, <2>1, <2>2 DEF CutShort, Lasts
  <2>3. CASE ~Expired(r, now)
    <3>1. \A u \in 0 .. now : ~Expired(r, u)
      <4> TAKE u \in 0 .. now
      <4>1. u \in Nat /\ u <= now
        BY <1>2
      <4> QED BY <1>2, <1>4, <2>3, <4>1, StillVisible
    <3> QED BY <3>1 DEF Lasts
  <2> QED BY <2>2, <2>3
<1> QED BY <1>3, <1>6, <1>7, <1>8

\* A commit.
LEMMA CommitDiary ==
  ASSUME Inv, DiaryInv, Remembers, NEW s \in Session, Commit(s)
  PROVE  DiaryInv'
<1>1. /\ calls[s].op # "idle" /\ now' = now /\ rows' = View(s)
      /\ calls' = [calls EXCEPT ![s] = Idle] /\ own' = [own EXCEPT ![s] = NoRows]
  BY DEF Commit, Swept, At, Ends
<1>2. Diary(calls[s], own[s], rows, now, cut[s])
  BY <1>1, DiaryOf
<1>3. own'[s] = NoRows /\ \A t \in Session : t # s => own'[t] = own[t]
  BY <1>1 DEF Inv, RowsTypeOK
<1>4. \A i \in Id : rows'[i] = IF own[s][i] # None THEN own[s][i] ELSE rows[i]
  BY <1>1 DEF View
<1>5. ASSUME NEW i \in Id, rows'[i] # rows[i]
      PROVE  /\ \A t \in Session : t # s => i \notin locked[t]
             /\ Active(rows'[i]) => Lasts(rows[i], rows'[i], now) \/ CutShort(i)
  <2>1. own[s][i] # None /\ rows'[i] = own[s][i] /\ i \in locked[s]
    BY <1>4, <1>5 DEF Inv, Table, OwnLocked
  <2>2. \A t \in Session : t # s => i \notin locked[t]
    BY <2>1 DEF Inv, Table, LocksDisjoint
  <2> QED BY <2>1, <2>2, PublishedLasts
<1>6. Diary(Idle, own'[s], rows', now, cut[s])
  BY <1>3 DEF Diary, DatedCall, Idle, NoRows, Active
<1>7. VectorsCurrent'
  BY <1>2, <1>4 DEF DiaryInv, VectorsCurrent, Diary, Active
<1>8. rows' \in Rows
  BY <1>1, ViewType DEF Inv
<1> QED BY <1>1, <1>3, <1>5, <1>6, <1>7, <1>8, DiaryMoves

\* Retirement takes a row out that no transaction has locked.
LEMMA RetireDiary ==
  ASSUME Inv, DiaryInv, Remembers, NEW i \in Id, NEW status \in {"superseded", "archived"},
         Retire(i, status)
  PROVE  DiaryInv'
<1>1. /\ Active(rows[i]) /\ rows' = [rows EXCEPT ![i].status = status]
      /\ UNCHANGED <<now, calls, own, locked>> /\ \A t \in Session : i \notin locked[t]
  BY DEF Retire
<1>2. rows[i] \in Row
  BY <1>1 DEF Active, Inv, RowsTypeOK, Rows
<1>3. \A j \in Id : rows'[j] = IF j = i THEN [rows[i] EXCEPT !.status = status] ELSE rows[j]
  BY <1>1 DEF Inv, RowsTypeOK, Rows
<1>4. ~Active(rows'[i])
  BY <1>2, <1>3 DEF Row, Active
<1>5. VectorsCurrent'
  BY <1>3, <1>4 DEF DiaryInv, VectorsCurrent, Active
<1>6. rows' \in Rows
  BY <1>1, <1>2 DEF Inv, RowsTypeOK, Rows, Row
<1>7. ASSUME NEW t \in Session PROVE Diary(calls[t], own[t], rows', now, cut'[t])
  <2>1. Diary(calls[t], own[t], rows, now, cut[t]) /\ now \in Nat /\ rows \in Rows
    BY DEF DiaryInv, Inv, RowsTypeOK
  <2>2. \A j \in Id : own[t][j] # None => rows'[j] = rows[j]
    BY <1>1, <1>3 DEF Inv, Table, OwnLocked
  <2>3. calls[t].op # "idle" => calls[t].start \in Nat
    BY InProgress DEF Inv, Call
  <2>4. calls[t].op = "observe" /\ calls[t].at \in {"insert", "commit"} => cut[t] \subseteq cut'[t]
    BY <1>1 DEF Remembers
  <2>5. \A j \in Id : ~(rows'[j] # rows[j] /\ Active(rows'[j]))
    BY <1>3, <1>4
  <2> HIDE DEF Inv
  <2> QED BY <1>6, <2>1, <2>2, <2>3, <2>4, <2>5, DiaryFrame
<1> QED BY <1>1, <1>5, <1>7 DEF DiaryInv

\* Time passes while no call takes longer than a memory lives.
LEMMA TickDiary ==
  ASSUME Inv, DiaryInv, Remembers, PromptTick
  PROVE  DiaryInv'
<1>1. now' = now + 1 /\ UNCHANGED <<rows, calls, own, locked>> /\ now \in Nat /\ rows \in Rows
  BY DEF PromptTick, Tick, Inv, RowsTypeOK
<1>2. ASSUME NEW t \in Session PROVE Diary(calls[t], own[t], rows, now + 1, cut'[t])
  <2>1. Diary(calls[t], own[t], rows, now, cut[t])
    BY DEF DiaryInv
  <2>2. calls[t].op # "idle" => calls[t].start \in Nat
    BY InProgress DEF Inv, Call
  <2>3. calls[t].op # "idle" => \A u \in Since(calls[t]) : now + 1 <= u + TTL
    BY <1>1 DEF PromptTick, Prompt
  <2>4. calls[t].op = "observe" /\ calls[t].at \in {"insert", "commit"} => cut[t] \subseteq cut'[t]
    BY <1>1 DEF Remembers
  <2> HIDE DEF Inv
  <2>5. Diary(calls[t], own[t], rows, now, cut'[t])
    BY <1>1, <2>1, <2>2, <2>4, DiaryFrame
  <2> QED BY <1>1, <2>2, <2>3, <2>5 DEF Diary
<1>3. VectorsCurrent'
  BY <1>1 DEF DiaryInv, VectorsCurrent, Active
<1> QED BY <1>1, <1>2, <1>3 DEF DiaryInv

\* Every statement keeps the diaries.
LEMMA StatementsDiary ==
  ASSUME Inv, DiaryInv, Remembers, NEW s \in Session, Statements(s)
  PROVE  DiaryInv'
<1>1. ASSUME IdsUsedUp(s) PROVE DiaryInv'
  <2>1. GivesUp(s) /\ now' = now
    BY <1>1 DEF IdsUsedUp, Runs
  <2> QED BY <2>1, GivesUpDiary
<1> QED BY <1>1, BeginDiary, ArchiveDiary, LockPreviousDiary, TouchDiary, CommitDiary,
           InsertOrReinforceDiary, InsertReplacementDiary, LockIdDiary, UpsertDiary, SweepDiary
        DEF Statements

\* And so does every step, while calls are prompt.
LEMMA NextDiary ==
  ASSUME Inv, DiaryInv, [(PromptTick \/ Steps) /\ Remembers]_lvars
  PROVE  DiaryInv'
<1>1. CASE PromptTick /\ Remembers
  BY <1>1, TickDiary
<1>2. CASE RetireSteps /\ Remembers
  BY <1>2, RetireDiary DEF RetireSteps
<1>3. ASSUME NEW s \in Session, NewCalls(s), Remembers PROVE DiaryInv'
  BY <1>3, NewCallsDiary
<1>4. ASSUME NEW s \in Session, Statements(s), Remembers PROVE DiaryInv'
  BY <1>4, StatementsDiary
<1>5. ASSUME NEW s \in Session, DeadlockBroken(s), Remembers PROVE DiaryInv'
  BY <1>5, DeadlockBrokenDiary
<1>6. ASSUME NEW s \in Session, CallFails(s), Remembers PROVE DiaryInv'
  BY <1>6, GivesUpDiary DEF CallFails
<1>7. CASE UNCHANGED lvars
  <2>1. UNCHANGED <<rows, now, calls, own, locked, cut>>
    BY <1>7 DEF lvars, tvars
  <2>2. VectorsCurrent'
    BY <2>1 DEF DiaryInv, VectorsCurrent, Active
  <2>3. \A s \in Session : Diary(calls'[s], own'[s], rows', now', cut'[s])
    BY <2>1 DEF DiaryInv
  <2> QED BY <2>2, <2>3 DEF DiaryInv
<1> QED BY <1>1, <1>2, <1>3, <1>4, <1>5, <1>6, <1>7 DEF Steps

\* Nothing has been written at first.
LEMMA InitDiary == Init => DiaryInv
BY DEF Init, StoreInit, DiaryInv, VectorsCurrent, Active, Diary, DatedCall, Idle, NoRows

\* While no call takes longer than a memory lives, no observation is answered with a memory
\* that had expired when it was made, whatever other processes commit between its statements
\* and however memories age, unless a correction or a batch cut that memory's life short
\* meanwhile; and every row is searched by its own text.
THEOREM ReusedRowsAreVisible == LifetimeSpec => []RowsCurrent
<1>1. [(PromptTick \/ Steps) /\ Remembers]_lvars => [Next]_tvars
  BY DEF PromptTick, Next, lvars
<1>2. Inv /\ [(PromptTick \/ Steps) /\ Remembers]_lvars => Inv'
  BY <1>1, NextInv
<1>3. Inv /\ DiaryInv /\ [(PromptTick \/ Steps) /\ Remembers]_lvars => DiaryInv'
  BY NextDiary
<1>4. Inv /\ DiaryInv => RowsCurrent
  <2> SUFFICES ASSUME Inv, DiaryInv, NEW s \in Session, NEW i \in Id \ cut[s], At(s, "commit"),
                      calls[s].op = "observe", rows[i] # None, Active(own[s][i])
               PROVE  ~Expired(rows[i], calls[s].start)
    BY DEF DiaryInv, RowsCurrent, ReusesVisible
  <2>1. Diary(calls[s], own[s], rows, now, cut[s])
    BY DEF DiaryInv
  <2> QED BY <2>1 DEF Diary, ObservationDiary, At
<1> QED BY <1>2, <1>3, <1>4, InitInv, InitDiary, PTL DEF LifetimeSpec

(***************************************************************************)
(* Batches lock in order.  What a batch has locked when it writes comes    *)
(* before what it has yet to lock; so of the batches that wait for a row,  *)
(* the one whose row is last waits for none of them.  That is so where no  *)
(* row expires: the statement that archives the expired duplicates of a    *)
(* batch locks them before, in no order.                                   *)
(***************************************************************************)
NothingExpires == DecayKind \subseteq {"none"}

\* Ids are strings, which are ordered.
IdsOrdered == Rank \in [Id -> Nat] /\ \A i, j \in Id : Rank[i] = Rank[j] => i = j

InOrder(c, L) ==
  /\ (c.op = "idle" \/ c.at \in {"begin", "touch"}) => L = {}
  /\ c.op = "ingest" /\ c.at = "archive" => L = {}
  /\ c.op = "ingest" /\ c.at = "write" => \A i \in L, j \in c.todo \ L : Rank[i] < Rank[j]

OrderInv == \A s \in Session : InOrder(calls[s], locked[s])

\* What remains to be shown of a step: the order of its own session.
LEMMA OrderMoves ==
  ASSUME Inv, OrderInv, NEW s \in Session, NEW c, calls' = [calls EXCEPT ![s] = c],
         NEW L, locked' = [locked EXCEPT ![s] = L], InOrder(c, L)
  PROVE  OrderInv'
<1> SUFFICES ASSUME NEW t \in Session PROVE InOrder(calls'[t], locked'[t])
  BY DEF OrderInv, InOrder
<1> QED BY DEF Inv, RowsTypeOK, OrderInv

\* The same for a step that locks nothing and goes to no write.
LEMMA OrderKept ==
  ASSUME Inv, OrderInv, NEW s \in Session, NEW c, calls' = [calls EXCEPT ![s] = c],
         locked' = locked, InOrder(c, locked[s])
  PROVE  OrderInv'
<1> DEFINE L == locked[s]
<1>1. locked' = [locked EXCEPT ![s] = L] /\ InOrder(c, L)
  BY DEF Inv, RowsTypeOK
<1> HIDE DEF L
<1> QED BY <1>1, OrderMoves

\* A call that ends has locked nothing.
LEMMA GivesUpOrder ==
  ASSUME Inv, OrderInv, NEW s \in Session, GivesUp(s)
  PROVE  OrderInv'
<1>1. calls' = [calls EXCEPT ![s] = Idle] /\ locked' = [locked EXCEPT ![s] = {}]
  BY DEF GivesUp, RollsBack, Ends
<1>2. InOrder(Idle, {})
  BY DEF InOrder, Idle
<1> QED BY <1>1, <1>2, OrderMoves

\* A call begins with nothing locked.
LEMMA NewCallsOrder ==
  ASSUME Inv, OrderInv, NEW s \in Session, NewCalls(s)
  PROVE  OrderInv'
<1>1. ASSUME NEW c, Starts(s, c), c.at = "begin" PROVE OrderInv'
  <2>1. calls' = [calls EXCEPT ![s] = c] /\ locked' = locked /\ locked[s] = {}
    BY <1>1 DEF Starts, OrderInv, InOrder
  <2>2. InOrder(c, locked[s])
    BY <1>1, <2>1 DEF InOrder
  <2> QED BY <2>1, <2>2, OrderKept
<1>2. ASSUME NEW t \in Content, NEW d \in DecayKind, Observe(s, t, d) PROVE OrderInv'
  BY <1>1, <1>2 DEF Observe, NewCall
<1>3. ASSUME NEW i \in Id, NEW t \in Content, NEW d \in DecayKind, Correct(s, i, t, d) PROVE OrderInv'
  BY <1>1, <1>3 DEF Correct, NewCall
<1>4. ASSUME NEW b \in Batches, Ingest(s, b) PROVE OrderInv'
  BY <1>1, <1>4 DEF Ingest, NewCall
<1>5. ASSUME NEW i \in Id, Feedback(s, i) PROVE OrderInv'
  BY <1>1, <1>5 DEF Feedback, NewCall
<1>6. ASSUME Compact(s) PROVE OrderInv'
  BY <1>1, <1>6 DEF Compact, NewCall
<1> QED BY <1>2, <1>3, <1>4, <1>5, <1>6 DEF NewCalls

\* BEGIN locks nothing.
LEMMA BeginOrder ==
  ASSUME Inv, OrderInv, NEW s \in Session, Begin(s)
  PROVE  OrderInv'
<1> DEFINE op == calls[s].op
           c == [calls[s] EXCEPT
                   !.at = CASE op \in {"observe", "ingest"} -> "archive"
                            [] op = "correct" -> "lock"
                            [] op = "feedback" -> "touch"
                            [] OTHER -> "sweep",
                   !.batch = IF op = "compact" THEN Due ELSE @,
                   !.todo = IF op = "compact" THEN {i \in Id : Due[i] # None} ELSE @,
                   !.start = now]
<1>1. calls[s] \in Call /\ calls[s].at = "begin" /\ calls[s].op # "idle"
  BY InProgress DEF Begin, At, Inv
<1>2. locked[s] = {} /\ locked' = locked
  BY <1>1 DEF Begin, OrderInv, InOrder
<1>3. calls' = [calls EXCEPT ![s] = c]
  BY <1>1 DEF Begin, Inv, RowsTypeOK
<1>4. InOrder(c, locked[s])
  <2> HIDE DEF c
  <2> QED BY <1>2 DEF InOrder
<1> HIDE DEF c, op
<1> QED BY <1>2, <1>3, <1>4, OrderKept

\* Where nothing expires there is nothing to archive.
LEMMA ArchiveOrder ==
  ASSUME Inv, OrderInv, NothingExpires, NEW s \in Session, Archive(s)
  PROVE  OrderInv'
<1> DEFINE c == [calls[s] EXCEPT !.at = IF calls[s].op = "ingest" THEN "write" ELSE "insert"]
<1>1. calls[s] \in Call /\ calls[s].at = "archive" /\ calls[s].op # "idle"
  BY InProgress DEF Archive, Runs, At, Inv
<1>2. ExpiredDuplicates(s) = {}
  <2> SUFFICES ASSUME NEW i \in ExpiredDuplicates(s) PROVE FALSE
    OBVIOUS
  <2>1. i \in Id /\ View(s)[i] # None /\ Expired(View(s)[i], calls[s].start)
    BY DEF ExpiredDuplicates, HasKey, Active
  <2>2. View(s)[i].decay = "none"
    BY <2>1, ViewType DEF Inv, Row, NothingExpires
  <2> QED BY <2>1, <2>2 DEF Expired
<1>3. locked' = [locked EXCEPT ![s] = locked[s]] /\ calls' = [calls EXCEPT ![s] = c]
  BY <1>2 DEF Archive, Locks, Goes, Inv, RowsTypeOK
<1>4. c.op = calls[s].op /\ c.at = (IF calls[s].op = "ingest" THEN "write" ELSE "insert")
  BY <1>1 DEF Call
<1> HIDE DEF c
<1>5. InOrder(c, locked[s])
  BY <1>1, <1>4 DEF OrderInv, InOrder
<1> QED BY <1>3, <1>5, OrderMoves

\* A correction, an observation and a sweep are no batch.
LEMMA OthersOrder ==
  ASSUME Inv, OrderInv, NEW s \in Session,
         \/ LockPrevious(s)
         \/ \E i \in Id : InsertOrReinforce(s, i) \/ InsertReplacement(s, i) \/ Sweep(s, i)
  PROVE  OrderInv'
<1>1. CASE GivesUp(s)
  BY <1>1, GivesUpOrder
<1>2. CASE ~GivesUp(s)
  <2>1. /\ calls[s].op # "idle" /\ calls[s].at \in {"lock", "insert", "sweep"} /\ calls[s] \in Call
        /\ CallOK(s)
    BY InProgress DEF LockPrevious, InsertOrReinforce, InsertReplacement, Sweep, Runs, RunsRow, At,
                      Inv, CallsOK
  <2>2. calls[s].op \in {"observe", "correct", "compact"}
    BY <2>1 DEF CallOK
  <2>3. ASSUME NEW c, calls' = [calls EXCEPT ![s] = c], c.op = calls[s].op,
               c.at \in {"archive", "commit", "sweep"},
               NEW L \in SUBSET Id, locked' = [locked EXCEPT ![s] = L]
        PROVE  OrderInv'
    <3>1. InOrder(c, L)
      BY <2>2, <2>3 DEF InOrder
    <3> QED BY <2>3, <3>1, OrderMoves
  <2>4. CASE LockPrevious(s)
    <3> DEFINE c == [calls[s] EXCEPT !.at = "archive"]
    <3>1. /\ calls' = [calls EXCEPT ![s] = c]
          /\ locked' = [locked EXCEPT ![s] = locked[s] \cup {calls[s].id}]
      BY <1>2, <2>4 DEF LockPrevious, Goes, Locks, Inv, RowsTypeOK
    <3>2. c.op = calls[s].op /\ c.at = "archive"
      BY <2>1 DEF Call
    <3>3. calls[s].id \in Id /\ locked[s] \cup {calls[s].id} \in SUBSET Id
      BY <2>1, <2>4 DEF CallOK, Call, LockPrevious, Runs, At, Inv, RowsTypeOK
    <3> HIDE DEF c
    <3> QED BY <2>3, <3>1, <3>2, <3>3
  <2>5. ASSUME NEW i \in Id, InsertOrReinforce(s, i) \/ InsertReplacement(s, i) PROVE OrderInv'
    <3> DEFINE c == [calls[s] EXCEPT !.at = "commit"]
    <3>1. calls' = [calls EXCEPT ![s] = c] /\ locked' = [locked EXCEPT ![s] = locked[s] \cup {i}]
      BY <2>5 DEF InsertOrReinforce, InsertReplacement, Goes, Locks, Inv, RowsTypeOK
    <3>2. c.op = calls[s].op /\ c.at = "commit" /\ locked[s] \cup {i} \in SUBSET Id
      BY <2>1 DEF Call, Inv, RowsTypeOK
    <3> HIDE DEF c
    <3> QED BY <2>3, <3>1, <3>2
  <2>6. ASSUME NEW i \in Id, Sweep(s, i) PROVE OrderInv'
    <3> DEFINE c == [calls[s] EXCEPT !.todo = @ \ {i}]
    <3>1. calls' = [calls EXCEPT ![s] = c] /\ calls[s].at = "sweep"
      BY <2>6 DEF Sweep, RunsRow, At, Inv, RowsTypeOK
    <3>2. PICK L \in SUBSET Id : locked' = [locked EXCEPT ![s] = L]
      <4>1. locked[s] \in SUBSET Id /\ locked[s] \cup {i} \in SUBSET Id
        BY DEF Inv, RowsTypeOK
      <4>2. \/ locked' = [locked EXCEPT ![s] = locked[s]]
            \/ locked' = [locked EXCEPT ![s] = locked[s] \cup {i}]
        BY <2>6 DEF Sweep, Locks, Inv, RowsTypeOK
      <4> QED BY <4>1, <4>2
    <3>3. c.op = calls[s].op /\ c.at = "sweep"
      BY <2>1, <3>1 DEF Call
    <3> HIDE DEF c
    <3> QED BY <2>3, <3>1, <3>2, <3>3
  <2> QED BY <2>4, <2>5, <2>6
<1> QED BY <1>1, <1>2

\* A batch locks the first of the rows it has to write.
LEMMA LockIdOrder ==
  ASSUME Inv, OrderInv, IdsOrdered, NEW s \in Session, NEW i \in Id, LockId(s, i)
  PROVE  OrderInv'
<1> DEFINE c == calls[s]
           L == locked[s] \cup {i}
<1>1. At(s, "write") /\ i \in NextRows(s) /\ i \notin locked[s] /\ calls' = calls
  BY DEF LockId, RunsRow
<1>2. locked' = [locked EXCEPT ![s] = L] /\ calls' = [calls EXCEPT ![s] = c]
  BY <1>1 DEF LockId, Locks, Inv, RowsTypeOK
<1>3. c.op = "ingest" /\ c.at = "write" /\ c.todo \subseteq Id
  BY <1>1, NextRow DEF At, Call
<1>4. i \in First(c.todo)
  BY <1>1 DEF NextRows
<1>5. \A j \in c.todo \ L : Rank[i] < Rank[j]
  BY <1>3, <1>4 DEF First, IdsOrdered
<1>6. \A k \in locked[s], j \in c.todo \ L : Rank[k] < Rank[j]
  BY <1>3 DEF OrderInv, InOrder
<1>7. InOrder(c, L)
  BY <1>3, <1>5, <1>6 DEF InOrder
<1> HIDE DEF c, L
<1> QED BY <1>2, <1>7, OrderMoves

\* And goes on to the rows after it.
LEMMA UpsertOrder ==
  ASSUME Inv, OrderInv, NEW s \in Session, NEW i \in Id, Upsert(s, i)
  PROVE  OrderInv'
<1>1. CASE GivesUp(s)
  BY <1>1, GivesUpOrder
<1>2. CASE ~GivesUp(s)
  <2> DEFINE c == [calls[s] EXCEPT !.todo = @ \ {i},
                                   !.at = IF calls[s].todo = {i} THEN "commit" ELSE calls[s].at]
  <2>1. At(s, "write") /\ i \in NextRows(s)
    BY DEF Upsert, RunsRow
  <2>2. calls[s] \in Call /\ calls[s].op = "ingest" /\ calls[s].at = "write"
    BY <2>1, NextRow DEF At
  <2>3. calls' = [calls EXCEPT ![s] = c] /\ locked' = locked
    BY <1>2, <2>2 DEF Upsert, Inv, RowsTypeOK
  <2>4. c.op = "ingest" /\ c.at \in {"write", "commit"} /\ c.todo \subseteq calls[s].todo
    BY <2>2 DEF Call
  <2> HIDE DEF c
  <2>5. InOrder(c, locked[s])
    BY <2>2, <2>4 DEF OrderInv, InOrder
  <2> QED BY <2>3, <2>5, OrderKept
<1> QED BY <1>1, <1>2

\* Feedback has locked nothing, a commit unlocks, and who begins again has nothing locked.
LEMMA EndsOrder ==
  ASSUME Inv, OrderInv, NEW s \in Session, Touch(s) \/ Commit(s) \/ DeadlockBroken(s)
  PROVE  OrderInv'
<1>0. InOrder(Idle, {})
  BY DEF InOrder, Idle
<1>1. CASE Touch(s)
  <2>1. calls' = [calls EXCEPT ![s] = Idle] /\ locked' = locked /\ locked[s] = {}
    BY <1>1 DEF Touch, Runs, At, OrderInv, InOrder
  <2> QED BY <1>0, <2>1, OrderKept
<1>2. CASE Commit(s)
  <2>1. calls' = [calls EXCEPT ![s] = Idle] /\ locked' = [locked EXCEPT ![s] = {}]
    BY <1>2 DEF Commit, Ends
  <2> QED BY <1>0, <2>1, OrderMoves
<1>3. CASE DeadlockBroken(s)
  <2> DEFINE c == IF Retries(s) THEN Again(calls[s]) ELSE Idle
  <2>1. calls' = [calls EXCEPT ![s] = c] /\ locked' = [locked EXCEPT ![s] = {}]
    BY <1>3 DEF DeadlockBroken, RollsBack, Ends
  <2>2. WaitsFor(s) # {}
    BY <1>3 DEF DeadlockBroken, Deadlocked
  <2>3. calls[s] \in Call
    BY <2>2, InProgress DEF WaitsFor, At, Inv
  <2>4. c = Idle \/ c.at = "begin"
    BY <2>3 DEF Again, Call
  <2> HIDE DEF c
  <2>5. InOrder(c, {})
    BY <1>0, <2>4 DEF InOrder
  <2> QED BY <2>1, <2>5, OrderMoves
<1> QED BY <1>1, <1>2, <1>3

\* Every step keeps the order.
LEMMA NextOrder ==
  ASSUME Inv, OrderInv, NothingExpires, IdsOrdered, [Next]_tvars
  PROVE  OrderInv'
<1>1. ASSUME UNCHANGED <<calls, locked>> PROVE OrderInv'
  BY <1>1 DEF OrderInv
<1>2. CASE Tick \/ RetireSteps \/ UNCHANGED tvars
  BY <1>1, <1>2 DEF Tick, RetireSteps, Retire, tvars
<1>3. ASSUME NEW s \in Session, NewCalls(s) PROVE OrderInv'
  BY <1>3, NewCallsOrder
<1>4. ASSUME NEW s \in Session, Statements(s) PROVE OrderInv'
  <2>1. ASSUME IdsUsedUp(s) PROVE OrderInv'
    BY <2>1, GivesUpOrder DEF IdsUsedUp
  <2> QED BY <1>4, <2>1, BeginOrder, ArchiveOrder, OthersOrder, LockIdOrder, UpsertOrder, EndsOrder
          DEF Statements
<1>5. ASSUME NEW s \in Session, DeadlockBroken(s) PROVE OrderInv'
  BY <1>5, EndsOrder
<1>6. ASSUME NEW s \in Session, CallFails(s) PROVE OrderInv'
  BY <1>6, GivesUpOrder DEF CallFails
<1> QED BY <1>2, <1>3, <1>4, <1>5, <1>6 DEF Next, Steps

\* Nothing is locked at first.
LEMMA InitOrder == Init => OrderInv
BY DEF Init, OrderInv, InOrder, Idle

\* Of finitely many sessions that have a number each, one has the highest.
LEMMA Highest ==
  ASSUME IsFiniteSet(Session), NEW C \in SUBSET Session, C # {},
         NEW n, \A s \in C : n[s] \in Nat
  PROVE  \E s \in C : \A t \in C : n[t] <= n[s]
<1> DEFINE Above(s) == {t \in C : n[t] > n[s]}
           All == {Above(s) : s \in C}
           Smaller == StrictSubsetOrdering(Session)
<1>1. IsWellFoundedOn(Smaller, SUBSET Session)
  BY FS_StrictSubsetOrderingWellFounded, FS_FiniteSubsetsOfFinite
<1>2. All \subseteq SUBSET Session /\ All # {}
  OBVIOUS
<1>3. \A s, t \in C : n[t] > n[s] => <<Above(t), Above(s)>> \in Smaller
  <2> SUFFICES ASSUME NEW s \in C, NEW t \in C, n[t] > n[s] PROVE <<Above(t), Above(s)>> \in Smaller
    OBVIOUS
  <2>1. Above(t) \subseteq Above(s)
    OBVIOUS
  <2>2. t \in Above(s) /\ t \notin Above(t)
    OBVIOUS
  <2>3. Above(t) \in SUBSET Session /\ Above(s) \in SUBSET Session /\ Above(t) # Above(s)
    BY <2>2
  <2> HIDE DEF Above
  <2> QED BY <2>1, <2>3 DEF StrictSubsetOrdering
<1>4. \A s \in C : Above(s) \in All
  OBVIOUS
<1>5. \A A \in All : \E s \in C : A = Above(s)
  OBVIOUS
<1> HIDE DEF All, Smaller
<1>6. PICK A \in All : \A B \in All : <<B, A>> \notin Smaller
  BY <1>1, <1>2, WFMin
<1>7. PICK s \in C : A = Above(s)
  BY <1>5
<1>8. \A t \in C : ~(n[t] > n[s])
  BY <1>3, <1>4, <1>6, <1>7
<1> QED BY <1>8

\* Batches that share ids never wait for one another's rows in a circle, however many
\* processes write however many rows: each locks its rows in the order of their ids, so of
\* those that wait for a row, the one whose row is last waits for none of the others.
THEOREM BatchesNeverCircle ==
  ASSUME IsFiniteSet(Session), IdsOrdered, NothingExpires
  PROVE  Spec => []BatchesLockInOrder
<1>1. Inv /\ OrderInv /\ [Next]_tvars => OrderInv'
  BY NextOrder
<1>2. Inv /\ OrderInv => BatchesLockInOrder
  <2> SUFFICES ASSUME Inv, OrderInv, NEW C \in (SUBSET Session) \ {{}}, \A s \in C : AwaitsRow(s)
               PROVE  \E s \in C : WaitsFor(s) \cap C = {}
    BY DEF BatchesLockInOrder
  <2>1. \A s \in C : /\ s \in Session /\ (calls[s].op = "ingest" \/ NextRows(s) = {})
                     /\ calls[s].at = "write" /\ NextRows(s) \cap locked[s] = {}
                     /\ WaitsFor(s) = UNION {LockersOf(s, i) : i \in NextRows(s)}
    <3> TAKE s \in C
    <3>1. At(s, "write") /\ NextRows(s) \cap locked[s] = {} /\ s \in Session
      BY DEF AwaitsRow
    <3>2. WaitsFor(s) = UNION {RowWaitsFor(s, i) : i \in NextRows(s)}
      BY <3>1 DEF WaitsFor, At
    <3>3. \A i \in NextRows(s) : RowWaitsFor(s, i) = LockersOf(s, i)
      BY <3>1 DEF RowWaitsFor
    <3>4. NextRows(s) # {} => calls[s].op = "ingest"
      BY <3>1, NextRow
    <3> QED BY <3>1, <3>2, <3>3, <3>4 DEF At
  <2>2. CASE \E s \in C : NextRows(s) = {}
    BY <2>1, <2>2
  <2>3. CASE \A s \in C : NextRows(s) # {}
    <3> DEFINE n == [s \in C |-> Rank[CHOOSE i \in NextRows(s) : TRUE]]
    <3>1. \A s \in C : NextRows(s) \subseteq First(calls[s].todo) /\ calls[s].todo \subseteq Id
      <4> TAKE s \in C
      <4>1. calls[s] \in Call
        BY InProgress DEF AwaitsRow, At, Inv
      <4> QED BY <4>1 DEF NextRows, Call
    <3>2. \A s \in C : \A i \in NextRows(s) : i \in calls[s].todo /\ n[s] = Rank[i] /\ n[s] \in Nat
      <4> SUFFICES ASSUME NEW s \in C, NEW i \in NextRows(s)
                   PROVE  i \in calls[s].todo /\ n[s] = Rank[i] /\ n[s] \in Nat
        OBVIOUS
      <4> DEFINE k == CHOOSE k \in NextRows(s) : TRUE
      <4>1. k \in NextRows(s) /\ n[s] = Rank[k]
        OBVIOUS
      <4> HIDE DEF n, k
      <4>2. i \in First(calls[s].todo) /\ k \in First(calls[s].todo)
        BY <3>1, <4>1
      <4>3. i \in Id /\ k \in Id /\ i \in calls[s].todo /\ k \in calls[s].todo
        BY <3>1, <4>2 DEF First
      <4>4. Rank[i] <= Rank[k] /\ Rank[k] <= Rank[i]
        BY <4>2, <4>3 DEF First
      <4>5. Rank[i] \in Nat /\ Rank[k] \in Nat
        BY <4>3 DEF IdsOrdered
      <4> QED BY <4>1, <4>3, <4>4, <4>5
    <3> HIDE DEF n
    <3>3. \A s \in C : n[s] \in Nat
      BY <2>3, <3>2
    <3>4. PICK s \in C : \A t \in C : n[t] <= n[s]
      BY <3>3, Highest
    <3>5. WaitsFor(s) \cap C = {}
      <4> SUFFICES ASSUME NEW t \in WaitsFor(s) \cap C PROVE FALSE
        OBVIOUS
      <4>1. PICK i \in NextRows(s) : t \in LockersOf(s, i)
        BY <2>1
      <4>2. i \in locked[t] /\ n[s] = Rank[i]
        BY <3>2, <4>1 DEF LockersOf
      <4>3. PICK j \in NextRows(t) : TRUE
        BY <2>3
      <4>4. j \in calls[t].todo \ locked[t] /\ n[t] = Rank[j]
        BY <2>1, <3>2, <4>3
      <4>5. calls[t].op = "ingest" /\ calls[t].at = "write" /\ t \in Session
        BY <2>1, <2>3
      <4>6. Rank[i] < Rank[j]
        BY <4>2, <4>4, <4>5 DEF OrderInv, InOrder
      <4> QED BY <3>3, <3>4, <4>2, <4>4, <4>6
    <3> QED BY <3>5
  <2> QED BY <2>2, <2>3
<1> QED BY <1>1, <1>2, InitOrder, Invariance, PTL DEF Spec

=============================================================================
