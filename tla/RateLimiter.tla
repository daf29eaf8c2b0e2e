----------------------------- MODULE RateLimiter -----------------------------
(***************************************************************************)
(* createRateLimiter() of src/http.ts: a fixed window per identity in a    *)
(* Map of bounded size.  A request is one synchronous callback.  The Map   *)
(* iterates in insertion order; set() on a key it holds keeps its place.   *)
(***************************************************************************)
EXTENDS Naturals, FiniteSets

CONSTANTS
  Identity,   \* API keys or client addresses
  Limit,      \* limitPerMin; 0 switches the limiter off and is not modelled
  Window,     \* windowMs, in ticks
  Second,     \* ticks of a second, the unit of Retry-After
  SweepEvery, \* requests between sweeps (256)
  Capacity,   \* buckets held at most (10 000)
  MaxTime,    \* bound on the clock
  MaxCount,   \* bound on the requests of one identity in a window
  Absent

VARIABLES
  buckets,    \* identity -> [start, count], or Absent
  older,      \* insertion order of the Map's keys: pairs, the older one first
  sinceSweep, \* requestsSinceSweep
  now,
  admitted,   \* history: requests let through, of the identities never evicted
  retryAt,    \* when a refused identity was told to come back, or Absent
  evicted     \* identities that ever lost a bucket to the capacity

vars == <<buckets, older, sinceSweep, now, admitted, retryAt, evicted>>

Time == 0 .. MaxTime
Bucket == [start: Time, count: Nat]
Admission == [at: Time, start: Time, nth: Nat]

ASSUME ConstantsAssumption ==
  /\ Limit \in Nat \ {0} /\ Window \in Nat \ {0} /\ Second \in Nat \ {0}
  /\ SweepEvery \in Nat \ {0} /\ Capacity \in Nat \ {0} /\ MaxTime \in Nat
  /\ MaxCount \in Nat
  /\ Absent \notin Bucket \cup Nat

TypeOK ==
  /\ buckets \in [Identity -> Bucket \cup {Absent}]
  /\ older \subseteq Identity \X Identity
  /\ sinceSweep \in 0 .. SweepEvery - 1
  /\ now \in Time
  /\ admitted \in [Identity -> SUBSET Admission]
  /\ retryAt \in [Identity -> Nat \cup {Absent}]
  /\ evicted \subseteq Identity

Stale(b) == now - b.start >= Window

(***************************************************************************)
(* The Map.                                                                *)
(***************************************************************************)
Keys(m) == {id \in Identity : m.held[id] # Absent}

Delete(m, ids) ==
  [held |-> [id \in Identity |-> IF id \in ids THEN Absent ELSE m.held[id]],
   older |-> {p \in m.older : p[1] \notin ids /\ p[2] \notin ids}]

Put(m, id, b) ==
  [held |-> [m.held EXCEPT ![id] = b],
   older |-> IF m.held[id] = Absent THEN m.older \cup (Keys(m) \X {id}) ELSE m.older]

\* Every SweepEvery-th request first drops the buckets whose window is over.
Sweep(m) == Delete(m, {id \in Identity : m.held[id] # Absent /\ Stale(m.held[id])})

Swept == IF sinceSweep + 1 >= SweepEvery
         THEN Sweep([held |-> buckets, older |-> older])
         ELSE [held |-> buckets, older |-> older]

FullBeyond(m) == Cardinality(Keys(m)) > Capacity  \* mutant: off by one at the capacity
Full(m) == Cardinality(Keys(m)) >= Capacity

First(m) == {k \in Keys(m) : \A j \in Keys(m) : <<j, k>> \notin m.older}
Evicted(m, id) == IF m.held[id] = Absent /\ Full(m) THEN First(m) ELSE {}

SecondsRoundedDown(ticks) == ticks \div Second  \* mutant: floor for ceil
RetryAfter(ticks) == (ticks + Second - 1) \div Second

(***************************************************************************)
(* One request.                                                            *)
(***************************************************************************)
Opens(m, id) == m.held[id] # Absent => Stale(m.held[id])

Admit(id) ==
  /\ admitted' = [k \in Identity |->
       IF k \in evicted' THEN {}
       ELSE IF k = id
       THEN admitted[k] \cup {[at |-> now, start |-> buckets'[k].start, nth |-> Cardinality(admitted[k]) + 1]}
       ELSE admitted[k]]
  /\ retryAt' = [retryAt EXCEPT ![id] = Absent]

Refuse(id, bucket) ==
  /\ retryAt' = [retryAt EXCEPT ![id] =
                   now + Second * RetryAfter(Window - (now - bucket.start))]
  /\ UNCHANGED admitted

MapIs(m) == buckets' = m.held /\ older' = m.older

\* A first request, or the first after the window: a new window, at the cost of the
\* first key of a full Map.
OpenWindow(id) ==
  LET m == Swept IN
  /\ Opens(m, id)
  /\ MapIs(Put(Delete(m, Evicted(m, id)), id, [start |-> now, count |-> 1]))
  /\ evicted' = evicted \cup Evicted(m, id)
  /\ Admit(id)

CountRequest(id) ==
  LET m == Swept
      counted == [m.held[id] EXCEPT !.count = @ + 1] IN
  /\ ~Opens(m, id)
  /\ m.held[id].count < MaxCount
  /\ MapIs(Put(m, id, counted))
  /\ UNCHANGED evicted
  /\ IF counted.count > Limit THEN Refuse(id, counted) ELSE Admit(id)

Counted(n) == (n + 1) % SweepEvery

Request(id) ==
  /\ sinceSweep' = Counted(sinceSweep)
  /\ OpenWindow(id) \/ CountRequest(id)
  /\ UNCHANGED now

Tick ==
  /\ now < MaxTime
  /\ now' = now + 1
  /\ UNCHANGED <<buckets, older, sinceSweep, admitted, retryAt, evicted>>

Init ==
  /\ buckets = [id \in Identity |-> Absent]
  /\ older = {}
  /\ sinceSweep = 0
  /\ now = 0
  /\ admitted = [id \in Identity |-> {}]
  /\ retryAt = [id \in Identity |-> Absent]
  /\ evicted = {}

Next == Tick \/ \E id \in Identity : Request(id)

Spec == Init /\ [][Next]_vars

(***************************************************************************)
(* Properties.                                                             *)
(***************************************************************************)

\* The Map never outgrows its bound, whoever asks; and an identity that was never evicted
\* gets at most two windows' quota through in any stretch of one window, wherever the sweep
\* and the renewal of its bucket fall.
LimiterBounded ==
  /\ TypeOK
  /\ Cardinality({id \in Identity : buckets[id] # Absent}) <= Capacity
  /\ \A id \in Identity \ evicted, t \in Time :
       Cardinality({a \in admitted[id] : t <= a.at /\ a.at < t + Window}) <= 2 * Limit

\* A request of id was answered in this step.
Asked(id) == buckets'[id] # Absent /\ buckets'[id] # buckets[id]

\* A client that waits as long as Retry-After told it is let through.
RetryAfterHonoured ==
  [][\A id \in Identity :
       Asked(id) /\ retryAt[id] # Absent /\ now >= retryAt[id] => retryAt'[id] = Absent]_vars
=============================================================================
