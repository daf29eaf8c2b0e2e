----------------------------- MODULE DualLayer -----------------------------
(***************************************************************************)
(* src/providers/dual-layer-provider.ts: canonical records, the events     *)
(* that mirror them, the insights extracted from the events, and a cache   *)
(* of answers.  A call awaits only while it extracts: whatever other call  *)
(* runs then is one step.                                                  *)
(*                                                                         *)
(* The owner of a memory is fixed (another's id is refused); a search is   *)
(* named by the space it reads, and finds what is visible in it: scores    *)
(* and limits are left out, and so are update() of an insight, which the   *)
(* service never asks for, and event ids, which no caller is given.        *)
(***************************************************************************)
EXTENDS Integers, Selecting

CONSTANTS
  Memory,
  Space,
  Owner,         \* [Memory -> owner]
  SpaceOf,       \* [owner -> Space]
  TenantWide,    \* owners whose memories the whole tenant sees
  FactsOf,       \* [Memory -> sequence of topics], the sentences its text yields
  Near,          \* pairs of topics the consolidation merges: {t} for each topic t, and more
  SummaryAfter,  \* events of a session that make a summary (5)
  Ingester,      \* calls of ingest() in flight at once
  Timer,         \* the background pass
  MaxEvents      \* bound on the records ingested

ASSUME DualAssumption ==
  /\ Timer \notin Ingester
  /\ \A m \in Memory : FactsOf[m] \in Seq(ToSet(FactsOf[m]))

VARIABLES
  layers,  \* the provider's maps
  queue,   \* processingQueue: ids of events
  jobs,    \* each ingest and the pass: what it still does
  aging,   \* records whose time has run out
  spoilt,  \* history: spaces of an ingest that failed midway
  overtaken  \* history: events forgotten while a job was under way

dualVars == <<layers, queue, jobs, aging, spoilt, overtaken>>

Job == Ingester \cup {Timer}
Resting == [at |-> "resting"]
Uncached == [at |-> "none"]
Cached(c) == c.at = "cached"

\* An event is queued, then processed; an insight is held; what is forgotten is gone.
Kept(x) == x.state # "gone"
Without(s, ids) == [i \in DOMAIN s |-> IF i \in ids THEN [s[i] EXCEPT !.state = "gone"] ELSE s[i]]

EventsOf(ls, m) == {e \in DOMAIN ls.events : Kept(ls.events[e]) /\ ls.events[e].memory = m}
Visible(owner, s) == owner \in TenantWide \/ SpaceOf[owner] = s

\* What a search of s that misses the cache finds: records as they are, insights by id.
Found(ls, s) ==
  {<<"record", m, ls.records[m].revision>> : m \in {x \in Memory :
     ls.records[x].status = "active" /\ Visible(Owner[x], s)}}
  \cup {<<"insight", i, 0>> : i \in {x \in DOMAIN ls.insights :
     Kept(ls.insights[x]) /\ Visible(ls.insights[x].owner, s)}}

(***************************************************************************)
(* Forgetting and invalidating.                                            *)
(***************************************************************************)
\* mutant: a tenant-wide memory invalidates the searches of its own space
OwnSpaceOnly(ls, owners) ==
  [ls EXCEPT !.cache = [s \in Space |->
     IF \E o \in owners : SpaceOf[o] = s THEN Uncached ELSE ls.cache[s]]]
InvalidateCacheForRecords(ls, owners) ==
  [ls EXCEPT !.cache = [s \in Space |->
     IF \E o \in owners : Visible(o, s) THEN Uncached ELSE ls.cache[s]]]

DerivedFrom(ls, es) == {i \in DOMAIN ls.insights : ls.insights[i].from \cap es # {}}
RemoveEvents(ls, es) ==
  [ls EXCEPT !.events = Without(ls.events, es), !.insights = Without(ls.insights, DerivedFrom(ls, es))]

RemoveDerivedForRecords(ls, ms) == RemoveEvents(ls, UNION {EventsOf(ls, m) : m \in ms})

\* Records come to an end, and what was derived from them.
Forget(ls, ms, status) ==
  InvalidateCacheForRecords(
    [RemoveDerivedForRecords(ls, ms) EXCEPT !.records = [m \in Memory |->
       IF m \in ms THEN [ls.records[m] EXCEPT !.status = status] ELSE ls.records[m]]],
    {Owner[m] : m \in ms})

Expired == {m \in aging : layers.records[m].status = "active"}
PruneExpired == Forget(layers, Expired, "archived")

StillQueued(ls) == Among(queue, {e \in DOMAIN ls.events : Kept(ls.events[e])})

\* What forgetting leaves of the queue, and what it did behind the back of a job.
Forgets ==
  LET gone == {e \in DOMAIN layers.events : Kept(layers.events[e]) /\ ~Kept(layers'.events[e])} IN
  /\ queue' = StillQueued(layers')
  /\ overtaken' = IF \A j \in Job : jobs[j].at = "resting" THEN overtaken ELSE overtaken \cup gone

(***************************************************************************)
(* ingest(): the records and their events at once, then the extraction.    *)
(***************************************************************************)
Store(ls, m) ==
  [ls EXCEPT !.records[m] = [status |-> "active", revision |-> 1 - ls.records[m].revision],
             !.events = Append(ls.events, [memory |-> m, state |-> "queued"])]

AllStored(ms) == FoldLeft(Store, layers, ms)
\* One record or two.
Batches == {<<m>> : m \in Memory} \cup {<<m, n>> : m, n \in Memory}
NewEvents(ms) == [n \in DOMAIN ms |-> Len(layers.events) + n]

Ingest(j) ==
  /\ jobs[j].at = "resting"
  /\ \E ms \in Batches :
       /\ Len(layers.events) + Len(ms) <= MaxEvents
       /\ layers' = AllStored(ms)
       /\ jobs' = [jobs EXCEPT ![j] =
            [at |-> "draining", batch |-> queue \o NewEvents(ms), own |-> ToSet(NewEvents(ms))]]
       /\ queue' = <<>>
       /\ aging' = aging \ ToSet(ms)
  /\ UNCHANGED <<spoilt, overtaken>>

\* A record of the batch has the id of somebody else's: those before it are stored.
IngestRefused(j) ==
  /\ jobs[j].at = "resting"
  /\ \E m, taken \in Memory :
       /\ layers.records[taken].status # "absent" /\ Len(layers.events) < MaxEvents
       /\ layers' = AllStored(<<m>>)
       /\ queue' = queue \o NewEvents(<<m>>)
       /\ aging' = aging \ {m}
       /\ spoilt' = spoilt \cup {s \in Space : Cached(layers.cache[s]) /\ Visible(Owner[m], s)}
  /\ UNCHANGED <<jobs, overtaken>>

\* Up to five events, which is more than a run has.
BackgroundPass ==
  /\ jobs[Timer].at = "resting" /\ queue # <<>>
  /\ jobs' = [jobs EXCEPT ![Timer] = [at |-> "draining", batch |-> queue, own |-> {}]]
  /\ queue' = <<>>
  /\ UNCHANGED <<layers, aging, spoilt, overtaken>>

(***************************************************************************)
(* processQueuedEvents(): job j goes through its batch of events.          *)
(***************************************************************************)
Live(e) == layers.events[e].state = "queued"
MemoryOf(e) == layers.events[e].memory
OwnerOf(e) == Owner[MemoryOf(e)]

NextEvent(j) ==
  /\ jobs[j].at = "draining" /\ jobs[j].batch # <<>>
  /\ LET e == Head(jobs[j].batch)
         rest == [at |-> "draining", batch |-> Tail(jobs[j].batch), own |-> jobs[j].own] IN
     jobs' = [jobs EXCEPT ![j] =
       IF Live(e) THEN [at |-> "facts", batch |-> rest.batch, own |-> rest.own, event |-> e] ELSE rest]
  /\ UNCHANGED <<layers, queue, aging, spoilt, overtaken>>

Insight(m, topic, from) == [owner |-> Owner[m], topic |-> topic, from |-> from, state |-> "held"]

ExtractedFacts(e) ==
  LET m == MemoryOf(e) IN
  [n \in DOMAIN FactsOf[m] |-> Insight(m, FactsOf[m][n], {e})]

SessionEvents(e) ==
  {x \in DOMAIN layers.events : Kept(layers.events[x]) /\ OwnerOf(x) = OwnerOf(e)}
SessionSummary(e) ==
  IF Cardinality(SessionEvents(e)) < SummaryAfter THEN <<>>
  ELSE <<Insight(MemoryOf(e), "summary", SessionEvents(e))>>

\* Two strategies one after the other: what one found is stored before the next runs.
ApplyStrategy(j, at, found, next) ==
  /\ jobs[j].at = at
  /\ jobs' = [jobs EXCEPT ![j] =
       [at |-> "storing", batch |-> jobs[j].batch, own |-> jobs[j].own, event |-> jobs[j].event,
        found |-> found, next |-> next]]
  /\ UNCHANGED <<layers, queue, aging, spoilt, overtaken>>

ExtractFacts(j) ==
  /\ jobs[j].at = "facts"
  /\ ApplyStrategy(j, "facts", ExtractedFacts(jobs[j].event), "summary")
CreateSessionSummary(j) ==
  /\ jobs[j].at = "summary"
  /\ ApplyStrategy(j, "summary", SessionSummary(jobs[j].event), "processed")

Similar(a, b) == a.owner = b.owner /\ a.topic = b.topic

\* A new insight, or the events of one that says the same.
WithInsight(held, new) ==
  LET same == {i \in DOMAIN held : Kept(held[i]) /\ Similar(held[i], new)}
      first == CHOOSE i \in same : \A k \in same : i <= k IN
  IF same = {} THEN Append(held, new)
  ELSE [held EXCEPT ![first] = [held[first] EXCEPT !.from = held[first].from \cup new.from]]

StoreInsight(j) ==
  /\ jobs[j].at = "storing" /\ jobs[j].found # <<>>
  /\ LET new == Head(jobs[j].found) IN
     layers' = InvalidateCacheForRecords(
       [layers EXCEPT !.insights = WithInsight(layers.insights, new)], {new.owner})
  /\ jobs' = [jobs EXCEPT ![j] = [jobs[j] EXCEPT !.found = Tail(jobs[j].found)]]
  /\ UNCHANGED <<queue, aging, spoilt, overtaken>>

\* The event is processed; one forgotten meanwhile is gone.
Processed(e) == [layers.events[e] EXCEPT !.state = IF Live(e) THEN "processed" ELSE layers.events[e].state]

StrategyDone(j) ==
  /\ jobs[j].at = "storing" /\ jobs[j].found = <<>>
  /\ LET x == jobs[j] IN
     \/ /\ x.next = "summary"
        /\ jobs' = [jobs EXCEPT ![j] =
             [at |-> "summary", batch |-> x.batch, own |-> x.own, event |-> x.event]]
        /\ UNCHANGED layers
     \/ /\ x.next # "summary"
        /\ jobs' = [jobs EXCEPT ![j] = [at |-> "draining", batch |-> x.batch, own |-> x.own]]
        /\ layers' = [layers EXCEPT !.events = [layers.events EXCEPT ![x.event] = Processed(x.event)]]
  /\ UNCHANGED <<queue, aging, spoilt, overtaken>>

IngestReturns(j) ==
  /\ j # Timer /\ jobs[j].at = "draining" /\ jobs[j].batch = <<>>
  /\ layers' = InvalidateCacheForRecords(layers, {OwnerOf(e) : e \in jobs[j].own})
  /\ jobs' = [jobs EXCEPT ![j] = Resting]
  /\ UNCHANGED <<queue, aging, spoilt, overtaken>>

(***************************************************************************)
(* The pass's second half, group by group.  The groups are taken before    *)
(* the first of them, so a later one may hold insights that are gone.  A   *)
(* group of one is left out, and so is cleanupCache(), which drops what is *)
(* no longer valid.                                                        *)
(***************************************************************************)

\* An insight takes the events of the younger ones near it.
Absorb(g, merge, i) ==
  LET all == merge.insights
      js == {j \in g \ merge.removed : j > i /\ {all[i].topic, all[j].topic} \in Near} IN
  IF i \notin g \ merge.removed THEN merge
  ELSE [removed |-> merge.removed \cup js,
        insights |-> [Without(all, js) EXCEPT ![i] =
          [all[i] EXCEPT !.from = all[i].from \cup UNION {all[j].from : j \in js}]]]

Merged(g) ==
  FoldLeft(LAMBDA merge, i : Absorb(g, merge, i), [removed |-> {}, insights |-> layers.insights],
           [i \in DOMAIN layers.insights |-> i])

DeduplicateAndConsolidate(g, later) ==
  LET merge == Merged(g) IN
  /\ layers' = IF merge.removed = {} THEN layers
               ELSE InvalidateCacheForRecords([layers EXCEPT !.insights = merge.insights],
                                              {layers.insights[i].owner : i \in g})
  /\ jobs' = [jobs EXCEPT ![Timer] = IF later = {} THEN Resting ELSE [at |-> "merging", groups |-> later]]
  /\ UNCHANGED <<queue, aging, spoilt, overtaken>>

InsightGroups ==
  LET held == layers.insights IN
  {g \in {{i \in DOMAIN held : Kept(held[i]) /\ held[i].owner = Owner[m]} : m \in Memory} :
     Cardinality(g) > 1}

Drained == jobs[Timer].at = "draining" /\ jobs[Timer].batch = <<>>

ConsolidateInsights ==
  /\ jobs[Timer].at = "resting" \/ Drained
  /\ \E g \in InsightGroups : DeduplicateAndConsolidate(g, InsightGroups \ {g})

NextGroup ==
  /\ jobs[Timer].at = "merging"
  /\ \E g \in jobs[Timer].groups : DeduplicateAndConsolidate(g, jobs[Timer].groups \ {g})

NothingToConsolidate ==
  /\ Drained /\ InsightGroups = {}
  /\ jobs' = [jobs EXCEPT ![Timer] = Resting]
  /\ UNCHANGED <<layers, queue, aging, spoilt, overtaken>>

(***************************************************************************)
(* The other calls, each of which prunes first.                            *)
(***************************************************************************)
Search(s) ==
  LET p == PruneExpired IN
  /\ layers' = IF Cached(p.cache[s]) THEN p
               ELSE [p EXCEPT !.cache[s] = [at |-> "cached", hits |-> Found(p, s)]]
  /\ Forgets
  /\ spoilt' = IF Cached(p.cache[s]) THEN spoilt ELSE spoilt \ {s}
  /\ UNCHANGED <<jobs, aging>>

\* retire() of a record.
Retire(m) ==
  LET p == PruneExpired IN
  /\ p.records[m].status = "active"
  /\ layers' = Forget(p, {m}, "deleted")
  /\ Forgets
  /\ UNCHANGED <<jobs, aging, spoilt>>

\* retire() of an insight.
RetireInsight(i) ==
  LET p == PruneExpired IN
  /\ Kept(p.insights[i])
  /\ layers' = InvalidateCacheForRecords([p EXCEPT !.insights = Without(p.insights, {i})],
                                         {p.insights[i].owner})
  /\ Forgets
  /\ UNCHANGED <<jobs, aging, spoilt>>

\* update() of a record its caller still finds active: a new object, no new event.
\* Revisions are counted modulo 2.
Update(m) ==
  /\ layers.records[m].status = "active"
  /\ layers' = InvalidateCacheForRecords(
       [layers EXCEPT !.records[m].revision = 1 - layers.records[m].revision], {Owner[m]})
  /\ UNCHANGED <<queue, jobs, aging, spoilt, overtaken>>

\* applyFeedback(): a record's counters change in place, an insight's confidence with it.
ApplyFeedback(owner) ==
  LET p == PruneExpired IN
  /\ \/ \E m \in Memory : p.records[m].status = "active" /\ Owner[m] = owner
     \/ \E i \in DOMAIN p.insights : Kept(p.insights[i]) /\ p.insights[i].owner = owner
  /\ layers' = InvalidateCacheForRecords(p, {owner})
  /\ Forgets
  /\ UNCHANGED <<jobs, aging, spoilt>>

\* compact(): events past their retention go, with what was derived from them, and
\* insights few would trust: one, since more go with more calls.
Compact ==
  LET p == PruneExpired IN
  /\ \E old \in SUBSET {e \in DOMAIN p.events : p.events[e].state = "processed"} :
       \E doubted \in {{}} \cup {{i} : i \in {x \in DOMAIN p.insights : Kept(p.insights[x])}} :
         LET kept == RemoveEvents(p, old) IN
         layers' = [kept EXCEPT !.insights = Without(kept.insights, doubted),
                                !.cache = [s \in Space |-> Uncached]]
  /\ Forgets
  /\ UNCHANGED <<jobs, aging>>
  /\ spoilt' = {}

\* Time: a record's, and an answer's five minutes.
RunsOut(m) ==
  /\ layers.records[m].status = "active" /\ m \notin aging
  /\ aging' = aging \cup {m}
  /\ UNCHANGED <<layers, queue, jobs, spoilt, overtaken>>

CacheAges(s) ==
  /\ Cached(layers.cache[s])
  /\ layers' = [layers EXCEPT !.cache[s] = Uncached]
  /\ spoilt' = spoilt \ {s}
  /\ UNCHANGED <<queue, jobs, aging, overtaken>>

DualInit ==
  /\ layers = [records |-> [m \in Memory |-> [status |-> "absent", revision |-> 0]],
               events |-> <<>>, insights |-> <<>>, cache |-> [s \in Space |-> Uncached]]
  /\ queue = <<>>
  /\ jobs = [j \in Job |-> Resting]
  /\ aging = {}
  /\ spoilt = {}
  /\ overtaken = {}

DualNext ==
  \/ \E j \in Ingester : Ingest(j) \/ IngestRefused(j) \/ IngestReturns(j)
  \/ \E j \in Job : \/ NextEvent(j) \/ ExtractFacts(j) \/ CreateSessionSummary(j)
                   \/ StoreInsight(j) \/ StrategyDone(j)
  \/ BackgroundPass \/ ConsolidateInsights \/ NextGroup \/ NothingToConsolidate
  \/ \E s \in Space : Search(s) \/ CacheAges(s)
  \/ \E m \in Memory : Retire(m) \/ Update(m) \/ RunsOut(m) \/ ApplyFeedback(Owner[m])
  \/ \E i \in DOMAIN layers.insights : RetireInsight(i)
  \/ Compact

DualSpec == DualInit /\ [][DualNext]_dualVars

(***************************************************************************)
(* Properties.                                                             *)
(***************************************************************************)

\* The spaces of the records an ingest has stored and not yet announced.
Unannounced ==
  {s \in Space : \E j \in Ingester :
     jobs[j].at # "resting" /\ \E e \in jobs[j].own : Visible(OwnerOf(e), s)}

\* A cached answer is what a search that missed the cache would find, except that an ingest
\* under way, or one that failed midway, may have added to it; an ingest returns with every
\* event of its own processed or forgotten; and what was derived from an event goes with the
\* record behind it, unless it was being derived, or merged, just then.
ProjectionsCurrent ==
  /\ \A s \in Space :
       LET p == PruneExpired IN
       Cached(p.cache[s]) /\ s \notin Unannounced \cup spoilt => p.cache[s].hits = Found(p, s)
  /\ \A j \in Ingester : jobs[j].at = "draining" /\ jobs[j].batch = <<>> => \A e \in jobs[j].own : ~Live(e)
  /\ \A i \in DOMAIN layers.insights : Kept(layers.insights[i]) =>
       \A e \in layers.insights[i].from \ overtaken :
         layers.records[MemoryOf(e)].status \notin {"deleted", "archived"}
=============================================================================
