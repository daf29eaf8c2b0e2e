# Verification of memory-core

TLA+ models of memory-core, a memory service for agents: HTTP and MCP in front, one
service that decides what an observation becomes, and interchangeable stores behind
it. Paths and line numbers refer to the repository (`src/service.ts` is the file of that
name in it). TLC checks each model on a small instance; TLAPS proves the theorems listed
under *Proofs* for every value of the constants.

## The system

| Part | State it keeps | Operations |
|---|---|---|
| HTTP server (`src/http.ts`, `src/server.ts`) | rate-limit buckets, API-key grants, the shutdown flags and timers | authenticate, authorize, route, limit, boot, shut down |
| Service (`src/service.ts`) | the reranker's cooldown and counters; otherwise none, it drives a provider | ingest, extract, search, build context, get, retire, supersede, feedback, compact |
| Access rules (`src/access.ts`) | none | resolve a space, visibility by filter and by id, dedupe key, ownership |
| In-memory provider (`src/providers/in-memory-provider.ts`, `src/retrieval/bm25.ts`) | records, BM25 index, duplicate index, vectors, the embedder's cooldown, the single-flight backfill | ingest, update, search, findDuplicate, getById, retire, supersede, feedback, compact, restore |
| File provider (`src/providers/file-provider.ts`) | an in-memory provider, the single-flight load, the coalesced persist, `<file>` and `<file>.tmp` | the same, each write awaiting a snapshot on disk |
| Postgres provider (`src/providers/postgres-provider.ts`, `src/migrations/`) | rows, vectors, unique indexes over the dedupe key, the ledger of migrations; in process the vector table's probe and a cooldown | the same, in transactions with row locks and conflict targets; migrate, health |
| Dual-layer provider (deprecated) | records, events, insights derived from them, a cache of answers, a queue | the same, and a background pass |
| Enhanced provider (deprecated) | records with vectors and metadata | the same, each record embedded and scored behind an await |
| Extraction (`src/extraction/`) | none; calls an LLM | group observations, prompt, ground and merge what comes back |
| Retrieval (`src/retrieval/`) | a host's own BM25 index and vectors, the embedder's cache and pipeline | index, remove, search, embed, fuse, rerank, MMR, HTTP with a deadline |
| Client and integrations (`src/client.ts`, `src/integrations/`) | none | typed HTTP client, the tools of an agent, MCP server, adapters |
| Endurance campaign (`bench/framework-compat/`) | an oracle of acknowledged memories; the campaign's schedule, faults, generations | load, audits, planned restarts, framework probes, a verdict |
| LongMemEval (`bench/longmemeval/`) | JSONL files of rows, reports | shard, resume, aggregate, read and judge |

### How they interact

Requests reach the service through Express handlers. A handler is a chain of callbacks:
between two awaits nothing else runs, across an await anything may. The service first
asks the provider for a duplicate and then writes; the provider awaits the embedder
inside its writes and its searches; the file provider adds awaits on the load, on the
shared persist and on the file system. Postgres replaces all of that with
transactions of several processes over one table. Nothing in the service serialises two
requests. Outside, an agent's tool may need several requests for one correction, and the
campaign's controller, the load it starts and the service they disturb tell one another
what goes on through files.

### What is hard

* A write decided on what was read before an await: duplicate lookup, retire against
  reinforcement, ownership checked before an embedding, a tool's read before its write.
* Derived data that must follow the records: three indexes in the in-memory provider,
  the counters of BM25, caches and insights in the dual-layer provider.
* Embeddings, extractions and reranks that come back late, out of order, or never.
* Durability: coalesced snapshots, failed file system calls, a process that dies between
  any two of them, or in the middle of a line.
* Corrections that fail after one of their two writes.
* Concurrent transactions on Postgres: lock order, unique-key conflicts, retries; replicas
  that migrate at once.
* Bounds: the rate limiter's Map, prompt budgets, chunked backfills, deadlines, caches.
* Harnesses that must not blame the service for what they did themselves, nor praise it for
  what they did not see.

`PROJECT.json` lists these at their lines under `hazards`, with the properties that watch
each.

### What makes each part correct

* In-memory provider: the indexes agree with the records; a search answers inside the
  searcher's locus; no two visible exact duplicates; a retired memory stays retired;
  every active record ends with its vector.
* File provider: an acknowledged write survives the process; the file is always whole;
  every call is answered.
* Postgres provider: one active row per dedupe key, whatever transactions interleave; each
  transaction is one step of an abstract store; batches do not deadlock over rows; vectors
  of current text only; a hybrid search that loses a ranker still answers fairly; the
  ledger tells the schema.
* Service: a correction never loses both facts, a failure reports what it left behind,
  what was retired is not revived; the reranker's failure changes no answer but its own.
* Access rules: one notion of "same memory" across dedupe, visibility and ownership; no key
  reaches beyond its grants.
* Extraction and context: nothing observed is lost, nothing unverified is prompted, the
  budgets are respected.
* Dual-layer and enhanced providers: what is derived goes with its record; a cached answer
  is current; an id keeps its owner.
* Rate limiter: bounded memory, bounded bursts, an honest Retry-After.
* Shutdown: an honest exit code, within both timeouts.
* Tools and harnesses: what they report is so.

## Modules

| Module | Models | Lines of the repository |
|---|---|---|
| `InMemoryProvider` | the whole in-memory provider | `providers/in-memory-provider.ts` |
| `MemoryService` | the service's writes, as requests that overlap over it | `service.ts:330-389, 645-770` |
| `DurableStore` | what a persistent provider promises | `providers/file-provider.ts:111-115` |
| `FileProvider` | load, persist, crash | `providers/file-provider.ts` |
| `ExactStore` | what a provider with the two atomic operations promises of its table | `provider.ts:49-101` |
| `PostgresProvider` | the Postgres provider's writes, a statement at a time | `providers/postgres-provider.ts` |
| `PostgresLifetimes` | how long its rows live while calls overlap | `providers/postgres-provider.ts` |
| `PostgresSearch` | its hybrid search: fusion, and the embedder's cooldown | `providers/postgres-provider.ts:717-733, 1337-1475` |
| `Migrations` | `migrate()` and `health()` | `providers/postgres-provider.ts:527-619`, `migrations/` |
| `DualLayer` | the dual-layer provider | `providers/dual-layer-provider.ts` |
| `EnhancedProvider` | the enhanced provider | `providers/enhanced-provider.ts` |
| `MemoryAccess` | visibility by filter, by id, in process and in SQL; dedupe keys | `access.ts`, `providers/postgres-provider.ts` |
| `HttpAccess` | credentials, grants, what each route checks | `http.ts`, `config.ts` |
| `RateLimiter` | `createRateLimiter()` | `http.ts:323-368` |
| `Extraction` | `extractObservations()` and the extractors | `service.ts`, `extraction/` |
| `Context` | `buildContext()` | `service.ts:807-931` |
| `Reranking` | `search()` with a reranker | `service.ts:530-622` |
| `DeadlineHttp` | calls to hosted models, and the client's to this service | `retrieval/http.ts`, `extraction/llm.ts`, `client.ts` |
| `Embedding` | the embedders and their cache | `retrieval/embedder.ts` |
| `HybridRetriever` | a host's own index | `retrieval/index.ts`, `retrieval/bm25.ts` |
| `Retrieval` | the index and the embedder below it, and what the two keep together | `retrieval/` |
| `Selecting` | `Array.prototype.filter`, the loops that do the same, `push(...)`, and a Set's order | `service.ts`, `providers/` |
| `AgentTools` | remember, forget, supersede as tools | `integrations/tools.ts` |
| `Shutdown` | boot, signals, drain, exit | `server.ts` |
| `EnduranceLoad` | the load, its oracle and its audits | `bench/framework-compat/soak.mjs` |
| `Campaign` | the controller of a campaign | `bench/framework-compat/campaign.mjs` |
| `BenchmarkRuns` | resumable runs over files of rows | `bench/longmemeval/` |
| `InMemoryProvider_proofs`, `MemoryService_proofs`, `PostgresProvider_proofs` | theorems about the module of the name | |
| `Server_proofs` | theorems about `MemoryAccess`, `HttpAccess`, `DeadlineHttp`, `RateLimiter`, `Reranking` and `AgentTools` | |
| `Operations_proofs` | theorems about `FileProvider`, `Shutdown`, `Migrations`, `BenchmarkRuns`, `EnduranceLoad` and `Campaign` | |
| `Retrieval_proofs` | theorems about `HybridRetriever`, `EnhancedProvider`, `Context` and `DualLayer` | |
| `Answers_proofs` | theorems about `Embedding` (with `Retrieval`), `PostgresSearch` and `Extraction` | |
| `FoldLemmas` | lemmas about folds over sequences, of any body | |
| `MCInMemoryProvider`, `MCMemoryService`, `MCPostgresProvider`, `MCPostgresLifetimes` | instances of one module each | |
| `MCService`, `MCServer`, `MCDurable` | instances of several modules, see *Runs of several modules* | |

`MemoryService` EXTENDS `InMemoryProvider` and shares its variables, as `PostgresLifetimes` does
with `PostgresProvider`, which EXTENDS `ExactStore`; `HttpAccess` EXTENDS `MemoryAccess`; `FileProvider` reaches `DurableStore`
through an INSTANCE with a refinement mapping.

### InMemoryProvider

`records` is the Map of records; `bm25`, `dupIndex` and `vectors` are the three indexes,
each keyed as in the code. A stored vector is represented by the text it embeds, so that
"stale" is a fact about the state. A text's case variants are distinct contents with one
normalized key (`NormKey`), because the duplicate index compares normalized text and the
vectors compare exact text. Owners are the ownership coordinates of a record, and
`Locus` maps an owner to the visibility key: two applications may share a locus without
being the same owner.

An action is the code between two awaits. `embeds[w]` holds the texts for which write
`w` awaits the embedder; `EmbedLands` is the continuation in `embedRecords()`,
`EmbedFails` its catch block. `backfill` is the background pass, with its remaining ids
and the chunk in flight, and the promise its callers share: there is none (`flight = "free"`), that
of a running pass, or one that is `"settled"` for good. A pass that finds the embedder in its
cooldown, or nothing to embed, ends before its promise is stored, so it cannot clear it
(`in-memory-provider.ts:225-245`). `searches[s]` is a search between taking its lexical candidates
and answering. Expiry is decided on read (`IsVisible`), and `compact()` is the only action
that turns it into a status.

Two next-state relations share these actions. `Spec` is any client of the provider
interface, update with any status included. `ServiceSpec` is the service with requests
that do not overlap between lookup and write: an observation reinforces the duplicate it
finds or is stored, a correction keeps the corrected record's decay policy.

Abstracted: ranking (a search's candidates are a set, those of the vectors any set within the
similarity floor), statistics and metadata other than `supersededBy`, one memory type,
batches of one record.

### MemoryService

`InMemoryProvider!ServiceSpec` lets a request run from lookup to write undisturbed. This
module drops that: `requests[q]` is one HTTP call between two of its awaits, holding the
copy of the record it read, and any two overlap. `atomic`, chosen once, says whether the
provider has `supersedeWithReplacement()`; without it (the file provider, third-party
providers) a correction looks up, writes and retires in three calls. `WriteFails` and
`RetireFails` are rejected promises, and include the file provider's case where the write
took effect in memory and its snapshot failed. `RequestSpec` allows any overlap; `CalmSpec`
writes an observation before anything else happens, so what remains is what corrections do
to each other. A correction answered `not_found` changes nothing and is left out.
`compact()` changes a record's status in the object a lookup may have returned; the model's
copy keeps the old status.

### FileProvider and DurableStore

The inner store is reduced to the number of writes applied to it, since a snapshot always
holds all of them. A file is a version, absent or torn. `loading` follows `load()` one
file system call at a time, with its three endings: done, rejected for good, or reset so
that the next caller retries. `batch` and `dirty` are the loop in `queuePersist()`; all
callers that joined share its end. `Crash` forgets memory and keeps the disk as it is. A
crash is one of the process: the code does not fsync, so a machine crash is outside what
it promises. `DurableStore` states that promise: writes, persists and acknowledgements,
where an acknowledgement never runs ahead of what is durable and a restart resumes from
it. A running store that has not loaded yet maps to the state it would load.

### ExactStore and PostgresProvider

`rows` are the committed rows. A session's transaction keeps what it wrote in `own` and its
row locks in `locked`; `View` is what its statements see. `calls[s].at` is the next
statement, and an action is one statement: it waits (`WaitsFor`) for row locks and, when it
inserts, for any transaction whose index entries have the same key. `now()` is the
transaction's start. A deadlock is a set of sessions waiting for one another; Postgres aborts
one of them, and `withWriteTransaction()` tries three times. `CallFails` covers the
embedder, the connection and the server; a COMMIT that took effect while its caller saw an
error is a `Commit`, since replies are not kept. `IdsUsedUp` is only the bound on ids.
`Touch` is `applyFeedback()`, which sets `last_seen_at` to its own `now()`.

`ExactStore` is the same table with a step per write. The refinement maps the committed
rows to themselves: whatever the sessions interleave, each commit must be one observation,
correction, retirement, feedback or sweep on the rows as they then are. An observation keeps
the history of the row it reinforces, and a correction adds one entry to that of its
replacement (`History`). Batches given by `ingest()` write several rows and are checked apart.

`PostgresLifetimes` is about how long a row lives. Its `LifetimeSpec` lets time pass by
`PromptTick`, so that no call takes longer than a memory lives; without that, a call that stalls for
a whole TTL inserts a row that is expired when it commits, which nobody would call wrong.
`ReusesVisible` says that no observation is answered with an expired memory, whatever the others do,
for memories of every decay kind. Two calls may publish a row whose time is over: a correction that
is merged into a row gives it the lifetime of the memory it corrects, and a batch keeps the date a
row was created. `cut` remembers the rows that was done to after an observation looked for expired
ones and before it commits, and only those are excused.

All rows have one owner and one locus, `hideExpiredOnRead` and `embedOnIngest` have their
default: a guard on scope or owner that does not match makes the statement change
nothing. A Content stands for locus, memory type and text together.

### PostgresSearch

The search is one statement over one snapshot, so `HybridHits` is a function of each ranker's
order of the rows, their priors and the query's limits, and its property is stated of every query
of the constant `Queries`. Scores are exact integers (multiplied by one positive number), the
reciprocal ranks and the normalisation by the rankers that found something as in the SQL. Around
it is a machine: `vectorPromise` is the shared look-up of the vector table, `vectorDisabledUntil`
the cooldown of a failing embedder, `finding[f]` a search between its awaits.

### Migrations

`replicas[r]` goes through the files one statement at a time; the advisory lock serialises
them. A file commits together with its own ledger row, whose checksum `migrate()` pins
afterwards in a second transaction: `ledger[v]` is absent, unpinned or a checksum, `schema[v]`
what was applied. `Die` may happen anywhere. The property compares the schema a replica serves with
the replica's own files; `orphans`, a history variable, names the files it excuses, whose applier
(an older binary, or a process that died) left before it pinned them. `HealthOk` is what `health()` answers.

### DualLayer

`layers` holds the provider's maps: a record's status and a revision counted modulo 2, the
events that mirror the records, the insights with the events they were derived from, and
per space a cached answer. `jobs[j]` is an ingest, or the background pass, between two
awaits; `queue` the events not yet taken. `Found` is what a search that misses the cache
finds, so "the cache is current" compares it with what is cached. A pass over the insights of a
group is a fold, as the code's loop is. `aging` are records whose
time has run out and that nothing has pruned yet. Two history variables name what the
property excuses: `spoilt`, the spaces of an ingest that failed midway, and `overtaken`, the
events forgotten while a job was under way (see *Findings*).

### EnhancedProvider

`entries` is the Map, `inserted` its insertion order (a search walks it one await at a
time), `batches[b]` an ingest between the check of its owners and its last record,
`scoring[s]` a search with the entries left to score. `firstOwner` and `contested` are
history: who had an id first, and ids that were free when two batches were checked.

### MemoryAccess and HttpAccess

Pure rules: both modules define operators on records, filters, scopes, grants and
credentials, one per function or SQL fragment of the code. A Name may be padded with
blanks or be blank, and `Trim` is the code's `trim()`. `HttpAccess` builds grants from the
credentials `config.ts` accepts, and has one operator per route for what is checked before
the service is called; retirement and correction also read the record first. What the rules are
asked about are constants: the `Memories` stored (`Stored`, in the form the service gives them), the
filters and id scopes asked with, the credentials `Configured`, the batches sent. The machine around
the rules is small: `accessed` is the memory that a read or a write looks at, `granted` the grant
`Authenticate` found for the request in hand (`res.locals.memoryCoreAuthGrant`).

### Extraction and Context

Also pure: one operator takes a request and answers what the service would, and the property is
about the request in hand (`extracting`, `prompted`), any of the constants `Extractions` and
`ContextRequests`. In
`Extraction` a text is the set of its words, a model's fact cites turns by number and has
words; grounding counts those of them that the model was shown with the batch: the own words
of its turns and of its look-back, those of a turn's label (its role, the numbers of its date), and
the group's names (its actor, its thread). So the code accepts a fact made of an actor's name and
one word somebody said, and the property says no more than that half the words of a fact were to be
read with a batch of the turns it cites. Batches, their look-back, the
three failure modes of the extractor and the service's fallback are as in the code. In `Context` a
memory is a line of some length; headers, titles and separators have lengths too.

### Reranking

`searching[s]` is a search waiting for the provider, or for the reranker. The reranker may answer
any rows: unknown ids, duplicates, scores that are not numbers. `Recognized` is the set of
positions the code's loop counts, `AboveGate` those it may put out, and the answer takes them in
order (`Nth`) up to the limit. `settled` remembers which outcome came last, for the property about
the cooldown.

### DeadlineHttp

`posts[c]` is a call with its attempt, its deadline, and how often it got an empty
completion. One loop serves `postJson()`, the chat client (which may lose JSON mode for all
calls) and `MemoryCoreClient`, whose first attempt is its last. A timer fires no later than
due.

### Embedding and HybridRetriever

A vector is the text it was made from. In `Embedding`, `pipeline` is the one promise all
callers share, `embeds[c]` a call with the texts still to embed, `cached` the Map in its
order, and `lost` remembers what was evicted since a call began. In `HybridRetriever`,
`postings`, `docs` and `totalLength` are BM25's counters, `indexers` the calls of `index()`
that await the embedder, `raced` the documents that changed meanwhile.

### AgentTools

`uses[a]` is an agent's call of a tool between two requests to a service that may be older
than the tool. `service` says whether it corrects in one transaction, in several calls (a provider
without the atomic operation) or not at all, whether it has the read and the status route, and
whether it extracts, so that an ingest may store what it was given rewritten, split or not at all.
A correction may end `replaced`, `not_found`, `identical`, `raced` (another took the memory before
the transaction), or with a replacement stored and the memory not retired: `partial` when another
had retired it, `failed` when the retirement failed, of which the reply says so. Any request may
fail, before or after it took effect. `u.result` is what the agent is told.

### RateLimiter

The Map is a function (`buckets`) and the order its keys were inserted in (`older`, pairs with the
older key first, so that the first key in the code's iteration is the one with none older);
`set()` on a present key keeps the place. `admitted[id]` is a set of tokens, one for each request
let through, numbered and marked with its tick and its window; `retryAt` is the last
Retry-After. Both are history variables for the properties. Time passes in ticks;
`Window`, `Second`, `SweepEvery` and `Capacity` stand for 60 s, 1 s, 256 and 10 000.

### Shutdown

`process`, `closing` and the two timers follow `shutdown()`, `finishShutdown()` and the
callback of `server.close()`; `inFlight[r]` is a request, which a closed connection cuts.
Signals may repeat, the store's close may hang or fail.

### EnduranceLoad, Campaign, BenchmarkRuns

These model the harnesses, with the service as an environment that may lose a memory
(`ServiceLoses`), a container that may restart by itself (`Restarts`), an endpoint that may fail.
`EnduranceLoad`: `oracle` is what the harness believes, `flying` the operations that lease an
entry, `audits` the chain of audits that pause the load. `Campaign`: `chain` and `task` are the
serialised maintenance, `planned` and `expected` what the monitor must know to tell a planned
restart from another, `monitor` a round of checks between its awaits. `BenchmarkRuns`: `files` are
the rows that can be read back and whether the last line is torn, `workers` and `slots` the
processes and the calls that add to them, `reportA` and `reportB` what the two modes concluded,
and from which commit. A process starts in three moments: it imports its modules, takes the head it
will stamp its rows with (`git rev-parse`) and looks whether the worktree is clean (`git status`).
Between any two of them the checkout may be edited, stashed or committed (`Moves`), and the code it
then runs is a `Mixture` of which nothing is claimed.

## Runs

| Run | Question | Bounds |
|---|---|---|
| `provider` | do the indexes follow the records, and searches stay in their locus, through any interleaving of writes, embeddings, searches, sweeps and restores? has a settled store whose embedder never failed every vector? | 2 ids, 2 texts of one key, 2 owners, one write and one search in flight |
| `provider_service` | one visible copy per key, retirement final, when the service drives the store? | 3 ids, 2 owners of one locus, 2 texts, permanent and decaying records, clock 0..1 |
| `service` | what do overlapping corrections and failures leave behind, with and without the atomic operation? what does a soak conclude of the service it loads? | 3 ids, 2 texts, 2 requests; below |
| `postgres_store` | does each transaction commit as one step of `ExactStore`? do corrections keep their form? | 2 sessions, 3 ids, 2 texts, clock 0..1 |
| `postgres_rows` | one active row per text with its own vector; is an expired row ever reused, whichever way rows age? | one session that observes, one that observes, corrects, rewrites in batches, rates and sweeps, 2 ids, 3 texts, two of one key, TTL 1, clock 0..2 |
| `postgres_live` | do batches deadlock over their rows? is every call answered, other deadlocks included? | 2 sessions, 2 ids, 2 texts |
| `server` | what surrounds the stores: 14 parts, each with its property | below |
| `durable` | what outlives a request: the file store (and its refinement of `DurableStore`), the process, migrations, a resumed benchmark | below |
| `backfill_spent`, `correction_visible`, `service_revived`, `postgres_sweep` | four statements of the repository that do not hold | as the runs above |

### Runs of several modules

`MCService`, `MCServer` and `MCDurable` check several modules in one run each. The modules share
no state, so composing them would only multiply their state spaces and show nothing. Instead a
variable `part`, chosen initially and never changed, names the one module a behaviour exercises:
the others stand still, and the state spaces are added. A module that stands still stays in an
initial state, which its properties must hold of too. What the modules of pure rules are asked
about (`Memories`, `Configured`, `ContextRequests`, `Extractions`, `Queries`) are constants: TLC
takes the samples of `MCServer`, and the proofs are for any.

| Part | Property | Bounds |
|---|---|---|
| `writes` | `LinksLead`, `RepliesTellWrites`, `CorrectionsChain` | 3 ids, 2 texts, 2 requests |
| `load` | `LoadTellsTruth` | 2 memories, 2 operations in flight, one fault, one loss |
| `limiter` | `LimiterBounded`, `RetryAfterHonoured` | 3 identities, 2 buckets, limit 1, window 3, sweep every 2 requests, clock 0..4 |
| `breaker` | `RerankingHolds` | 2 searches in flight, 3 in all, 3 hits, top 2, cooldown 2, clock 0..3 |
| `http` | `CallsEndWell` | 2 calls, one retry, one empty completion, timeout 2, delays 1 and 2, clock 0..3 |
| `dual` | `ProjectionsCurrent` | 2 memories, one tenant-wide, 2 events, one ingest beside the pass |
| `retriever`, `embedding` | `RetrievalHolds` | 2 documents, 2 terms, 2 calls of `index()`; 2 callers, 4 texts, batches of 2, a cache of 2 |
| `tools` | `ToolsTellTruth` | 2 agents, 2 texts, 3 ids, a service of every age and provider, with and without extraction |
| `campaign` | `CampaignTellsTruth` | 2 containers, one scheduled restart and one probe, one restart nobody planned, one signal |
| `postgres` | `HybridSearchHolds` | 2 searches in flight, 3 in all, cooldown 2; all rankings of 3 rows, 3 priors, 2 thresholds, 2 limits |
| `enhanced` | `EnhancedHolds` | 2 ids, 2 owners, 2 batches, one search, 3 writes |
| `access` | `OneLocus` | 2 tenants, apps and actors, 4 spaces, every scope; all filters and id scopes over them |
| `grants` | `GrantsConfine` | 2 keys, every kind of credential over the same names |
| `context` | `ContextHolds` | 3 hits and profile entries, lengths around the budgets |
| `extraction` | `ExtractionKeeps` | 3 turns in 2 groups, batches of 2, every kind of reply |
| `file` | `FileIsWhole`, `AckedIsDurable`, `ImplementsDurableStore`, `EveryCallAnswered` | 3 callers, 5 writes, any failure and any crash |
| `process` | `ExitIsHonest`, `ProcessExits` | 2 requests, timeouts 2 and 1 |
| `migrations` | `LedgerTellsSchema` | 2 replicas, one with an edited file, 3 files, 2 boots each |
| `benchmark` | `ReportsTellTruth`, `RerunsConverge` | 2 questions, 2 shards, 2 commits, one mishap (a stash of the edits is one), Mode A beside Mode B only on the last commit and while nothing has failed (`OneCommand`) |

Two records are the least at which a duplicate, a correction or a chunked sweep exists,
and the third lets a correction reuse a duplicate while another record has the key. A clock
of one tick past the TTL separates visible, expired and renewed records. Three callers
are the least for one to write, one to join the batch and one to arrive after its
snapshot. In `postgres_rows` the process that observes does so with a memory of the default decay
policy; everything that can end a row's life is done by the other. The limiter's instance is the least in which its Map is full, a bucket is renewed
in place, and a sweep falls inside a window. Two searches, ingests, agents, replicas or
containers are the least that overlap; a cooldown of two ticks can be entered, renewed and
left within the clock; the cache of two is smaller than one call. What a mutated definition does to
each property (`mutants`) shows that its case happens within the bounds.

Deadlock is not checked: the stores stop when their bounds are reached, and a server with no
request does nothing.

### Fairness

Liveness is checked under fairness that the code or its platform gives:

* `FileFairness`: weak fairness of the load's and the batch's file system calls, which settle
  one way or the other, and of the continuation of a call whose load is done. The liveness of
  calls is checked for a bounded number of writes: an endless stream of new writers may
  keep `while (this.dirty)` going, which the code does not prevent.
* `PostgresProvider!FairSpec`: strong fairness of each session's next statement, because
  Postgres queues the waiters of a lock, and weak fairness of deadlock detection, a timer of
  the server.
* `ShutdownFairness`: time passes, timers fire, and an emptied server calls back. Requests
  need not be answered and the store's close need not return: both timeouts are what
  makes the process end.
* The benchmark: whoever runs it commits the edits and runs the commands again, and calls to
  the endpoint have deadlines. Mishaps are bounded, so a rerun eventually meets none. Mode A's steps
  are strongly fair, because under the bound `OneCommand` it waits for a Mode B that comes and
  goes; `ReportsAreTrue` is proved without that bound.

Requests, failures, crashes and signals are never fair. All other parts are checked for
safety only.

## Findings

* `backfill_spent`: the single flight of the background pass is never released by a pass that had
  nothing to do, as that of a new store has, or that met the embedder's cooldown. Records written
  while the embedder fails then stay without vectors, although the pass is there to fill them in.
* `correction_visible`: a correction that reuses a duplicate imposes the corrected fact's
  shorter retention, counted from the duplicate's creation.
* `service_revived`: an observation that found a duplicate before it was retired writes it
  back as active.
* `postgres_sweep`: `compact()` waits for the observation that renews an expired memory and then
  archives it, because its UPDATE rechecks only the id. `PromptTick` makes the race an
  everyday one, not that of a stalled connection.

Met while modelling, and left without a run of their own, because no text of the repository
promises otherwise or because the property names and excuses them:

* Stores. Of two stored records with one key, retiring the one written last hides the other
  from the in-memory `findDuplicate()` (`in-memory-provider.ts:165`). A memory retired during a
  search's await is in its answer (`in-memory-provider.ts:348`). When `mkdir` or the first
  persist of a missing store fails, `loading` stays a rejected promise and every later call
  of that process fails (`file-provider.ts:59`). On Postgres, feedback that waited for a later
  observation moves `last_seen_at` back to its own `now()` (`postgres-provider.ts:1273`). There a
  merged correction or a batch may also commit a row that has expired already, which an
  observation that waited for it then answers with (`cut`).
* Service. On the portable path, an observation or correction writes back its copy of a
  duplicate's `supersessionHistory` and loses an entry added meanwhile (`service.ts:367`), and two
  corrections of each other's memories that overlap retire both; the documents call that
  path non-atomic. `ingest()` answers created records before updated ones, although the
  comment at `service.ts:398-400` speaks of request order. Reinforcing a duplicate keeps its old
  `source`, so a text first stored unverified stays out of prompts after an extraction that
  succeeded. `extractionFallback = "drop"` also drops windows whose extractor threw.
* Context. If the first exact hit is too long for the budget, a later, shorter exact hit may
  be starved by broader matches (`service.ts:847`).
* Migrations. A process that dies between a migration's COMMIT and the pinning of its checksum
  lets the next one pin the checksum of its own file, whatever was applied (`orphans`). Migration 003 may expire the winner of
  a fold that decays with time.
* Cooldowns. A rerank, or on Postgres a query's embedding, that began before a failure and
  succeeds after it ends the cooldown the failure began.
* Retrieval. `CachedEmbedder` may evict a text of the very call that is about to read it back, and
  answers zeros (`embedder.ts:366-368`; `lost`). A document removed or indexed again while
  `index()` awaits keeps the vector of its old text (`raced`). With `maxRetries = 0` an endpoint
  without JSON mode fails its first call.
* Deprecated providers. A record retired or expired while an ingest extracts leaves an
  insight derived from it (`dual-layer-provider.ts:710`; `overtaken`); the awaits there are
  microtasks. An ingest that throws midway leaves its stored part hidden behind a valid cached answer
  for up to five minutes (`spoilt`). The enhanced provider checks an id's owner before its
  embedding and sets the record after it, so that two batches of a free id both pass (`contested`);
  and a search may answer a record retired while it scored.
* Tools. Against an old service that cannot be read, a correction with an unchanged text
  retires the memory in favour of itself; with an extractor it is retired in favour of the first of
  the texts that were stored instead, or of nothing; two agents' corrections A to B and B to A may
  retire both. Over a provider without the atomic operation a correction may leave both the memory
  and its replacement active, which its reply says.
* Endurance load. An archive that was carried out but never answered leaves the oracle's entry active,
  so that a later read reports a loss (`unanswered`). An isolation probe that meets a planned
  fault stops the run (`soak.mjs:517`), an error inside a fault's window judged after it
  counts as unexpected, and a final audit whose drain times out ends without a summary.
* Campaign. A generation read before or during a planned fault and judged after it is recorded as a
  violation (`campaign.mjs:717-738`; `excused`); a restart nobody planned inside a planned fault of
  the same container cannot be told from it; a signal during the write of
  `campaign.complete.json` leaves a campaign that passed.
* LongMemEval. A row appended next to a torn last line is lost with it, so that recovery takes one
  more rerun than the comment in `modeA-worker.ts` suggests. What a process loads, the head it stamps
  and the worktree it finds clean are three moments, so a commit or a stash in between stamps a row
  with a commit that is not its code, although `provenance.ts:41-48` and the bench's README promise
  that commit and code agree (`Mixture`; the property names this case and excuses it).

## Proofs

* `InMemoryProvider_proofs`: `TypeCorrect`; `IndexesFollowRecords`; `SearchesStayInLocus`.
  `Consistent` states the three index properties of any four maps, so one lemma about
  indexing one record serves `index()` and, applied twice, `supersedeWithReplacement()`.
  It is inductive together with the types. Searches need one more fact: no step moves a
  stored record to another owner, so candidates chosen before the await are of the same
  locus after it. `NoVectorIsMissing`: while the embedder has not failed, an active record without
  a vector has a call in flight that holds its present text, or the background pass has yet to
  come to it (`Covered`).

  `DuplicatesAreFound`, `RetirementLasts`. That every visible memory is found by its key is not
  inductive: the index names one holder of a key. `Served` adds the order of the holders: of two
  active memories with one key, one had expired before the other was created (`Succession`), so at
  most the latest is visible, and that is the one the index names. A reloaded snapshot must have
  that order (`SnapshotsServed`), which is not an assumption on the code: `PersistedIsServed`
  proves it of every store the service drove, hence of what such a store persists.
* `MemoryService_proofs`: `LinksAlwaysLead`, `RepliesAreHonest`, `ChainsHold`. A link is written by a
  request that read its memory awaits ago; `RequestSound` says what such a request may still rely
  on: a copy has the owner and the text of the stored record (`CopyHolds`), a correction's candidate
  has its memory's owner and another text (`CorrectsOther`), and what it is about to retire and
  what it saved are two stored memories of one locus. All of it survives other requests because no
  write removes a record or changes its owner or text (`Kept`). Snapshots must have links of that form
  (`SnapshotsLinked`), which the invariant says of the records a store persists. `ChainsHold` is
  about the provider with the atomic operation, the in-process one, which reloads nothing
  (`Snapshots = {}`), and about `CalmSpec`: an observation that overlaps a correction is the finding
  `service_revived`. A new link goes from a memory that was active to one that is, and an active
  memory has no link; so the chains still end (`Acyclic`).
* `PostgresProvider_proofs`: `RowsTypeCorrect`, `KeysStayUnique`. That no committed table has
  two active rows with one key is not inductive, and the unique index alone does not give
  it: an insert sees only committed rows and its own. `Inv` adds why that is enough. No
  two sessions have a row locked (`LocksDisjoint`); what a session wrote it has locked
  (`OwnLocked`); what two sessions wrote has different keys (`PendingKeys`, from the waits in
  `WritersOf`); and the table each session sees, which is the one it would leave if it
  committed now, has one active row per key (`ViewKeys`). `CallsOK` says what a call in
  progress relies on: a correction that archives or inserts still has its memory
  locked, a batch has a candidate for each row it has to write, and a call that waits for
  its first row has written nothing. The lemmas `TableWrites`, `TableCommits`, `TableEnds` and
  `TableTouched` prove the first half for the four things a step can do to the table, so each
  statement only has to say which it does.

  `CommitsAreAtomic` is the refinement. `StoryInv` tells what each session's pending rows are
  relative to the committed ones (`Story`): nothing; expired duplicates archived for an observation,
  and the row that takes the key (`TookKey`); or a correction's, with the memory it leaves
  (`LeftTo`). A row a session wrote it has locked, so the story survives every COMMIT of the others,
  and its own COMMIT is the step of `ExactStore` it tells. Batches are left out (`NoBatches`:
  several rows are several steps), and so is `compact` (`"compact" \notin Op`): its race with a
  renewal is the finding `postgres_sweep`, and no step of `ExactStore` does what it does then.

  `CorrectionsKeepForm`: a committed chain and a pending correction together have no circle, since
  the memory a correction retires has no link yet and its replacement is active.

  `ReusedRowsAreVisible`, for every decay kind: `DiaryInv` dates rows and calls. A pending active
  row was seen within a memory's life before the call that wrote it can commit (`Recent`), so what
  another process commits between the statement that archives the expired rows of a text and the
  insert has not expired, unless it is a correction's or a batch's row that lost its life by that
  very commit. Those are in `cut`.

  `BatchesNeverCircle`: what a batch has locked when it writes comes before what it has yet to lock
  (`OrderInv`); of batches that wait, the one whose row is last then waits for none of the others.
  This needs ids that are ordered (`IdsOrdered`), finitely many sessions, and nothing that expires:
  the statement that archives the expired duplicates of a batch locks them in no order, which the
  code leaves to its retries.
* `Operations_proofs`: `ExitsAreHonest`: only an emptied server can end with code 0, for the timer
  that gives the drain up ends with 1 and the first caller of `finishShutdown()` decides
  (`ShutdownInv`). `LedgersTellSchemas`: the advisory lock is held by exactly those that work
  (`LockHeld`), so what a replica read of the ledger is still true when it acts on it, and a
  pinned row never changes, so what it verified stays so after it let the lock go (`Progress`).
  The schema is what the ledger says, since a pinned file that is no orphan was applied with the
  pinned text (`Traced`, of every file in `AllTraced`).

  `ReportsAreTrue`: until the checkout moves, a process that starts has loaded the checkout's code,
  and its head if it is clean (`Honest`); when it moves, all that are starting hold a `Mixture`. So
  what a process is told after its last look at the worktree (`Told`) is its code or a mixture, and
  each row it writes is of that kind (`SoundRow`), whatever is checked out by then. `BenchmarkInv`
  says all this of both modes.

  `LoadIsJudged`: leases exclude each other (`LeasesOK`), so a memory that is acknowledged and not
  to be found is lost, archived by a call that got no answer, or being archived by the one operation
  that leases it (`KnownOK`). The queue holds at most one audit, and a second one only after the first
  (`QueueOK`); whatever was lost when a fault ended or the last audit began is still to be verified by
  the audit under way, or that audit has failed already (`MissingOK`).

  `CampaignsAreJudged`: a container that nobody disturbs or has reason to blame runs what the
  monitor expects of it, until the last check has read it (`ExpectedOK`, with `Disturbs` for the
  fault under way and `Blameless` for what was excused); what the monitor has read and not yet
  judged is the same (`SeenOK`); a container that restarted by itself is ahead of what is expected
  of it until that check finds it (`UnplannedOK`, `StillToFind`); and each fault that passed, but
  for the one that awaits its audit, brought the expectation forward by one (`FaultsOK`). What the
  phases leave to do (`PhasesOK`) says that nothing but the check is under way when it judges.

  `AckedWritesSurvive`, `StoreFileIsWhole`, `FileProviderIsDurable`. The
  inductive invariant relates three things the properties do not mention: a batch
  exists only once the load is done (so the two users of `<file>.tmp` never overlap); the
  temporary file is what the stage of the batch says; and a caller that waits is covered by
  the snapshot being written or by `dirty`.
* `Server_proofs`: `CallsAreInTime`: a call in flight has not passed its deadline, sleeps only to
  a moment before it with an attempt left, and its empty answers pay for its later deadlines
  (`InTime`). `WaitIsOver`: who was refused was told to come back when its window is over
  (`Waits`). `LimiterIsBounded`: the Map's insertion order is one, so a full Map has a first key
  to evict (`MapInv`); and the windows an identity was let through in do not overlap, with at most
  `Limit` tokens each (`Quota`), so that a stretch of one window meets at most two (`TwoWindows`).
  `ToolsAreTruthful`: what a call has learnt of the service is so after every step of the others,
  because a stored text never changes and what is retired stays as it is (`Keeps`); so a memory that
  was active when a correction read it and is not when it retires it was retired by another.
  `RerankingIsHonest`: a step moves one search, so the searches in a state grow or shrink by that
  one (`BreakerMoves`); and the n-th of a finite set of positions exists and is one (`NthIs`), so
  an answer holds each of its candidates once (`OutputIs`).

  `EveryProviderAgrees`, `EveryHitIsReachable`, `KeysAreIndexes`,
  `DuplicatesHaveOneAudience`, for any names; together `PolicyIsOne`. Two facts carry them:
  what is trimmed twice is trimmed (`TrimmedType`), and a stored record's space is never blank
  (`StoredSpace`), without which the SQL's comparison with NULL and the code's with `undefined`
  part ways. Each scope is a case of its own.

  `KeysStoreWithinGrants`, `KeysFindWithinGrants`, `KeysReachWithinGrants`, `EachKeyHasOneKind`,
  for any grants, credentials and batches; together, for the grants that an application builds of
  its credentials, `GrantsAreConfining`. They rest on `PrincipalsSpace`: the space a principal's
  request resolves to is the one its grant names.
* `Retrieval_proofs`: `RetrieverKeepsCurrent`: each counter of the index is a sum over the
  documents it holds, so that a call moves it by one document's share (`RetrieverInv`); a document
  that changes while a call of `index()` awaits is noted at once.

  `EnhancedKeeps`: a batch notes which ids were free when it was checked, and nothing held is ever
  dropped (`FreeIsNoted`), so that an id another batch took meanwhile is among them. The Map's order
  only ever grows at its end and names each id once (`MapInOrder`), so a walk over it meets a
  record once whatever is set meanwhile; and its answer is what it scored, in two groups, cut
  (`Walks`, in `WalksInv`).

  `PromptsAreClean`, `EvidenceComesFirst`, for any request: what the loop over the hits has chosen
  after n of them (`ChosenWell`) is within both budgets, names nothing twice, and leaves out only
  what its budgets do not let in; the profile's two nested loops add entries of other memories
  within what is left. `ContextIsHonest` is both, of the requests that are asked about.

  `ProjectionsStayCurrent`: `DualInv` says of the maps that a record is active as long as an event
  mirrors it, and that an insight rests on events it knows of, of its owner's active records
  unless one was overtaken (`KnownEvent`, `InsightsRest`); it says the same of the insights a job
  has found and not yet stored (`JobsRest`); and each valid cached answer is what a search finds,
  but in the spaces that are unannounced or spoilt (`Fresh`). All calls that forget do so in one
  way (`Shrinks`): events and insights only end, insights with any event they rest on, and with
  every memory that ends the caches that saw it. A merge only moves events between insights of one
  owner.
* `Answers_proofs`: `RetrievalIsCurrent` adds to `RetrieverKeepsCurrent` what the embedder
  answers. A cache maps a text to its own vector whatever is put into it (`CacheWell`), and a call
  that waits has of each text its vector, a place for it, or a note that its entry was evicted
  (`CallWell`, in `EmbedInv`). `toVectors()` undoes any order the API answers in, because a
  numbering that increases and leaves no place out is the places themselves (`IncreasingIs`).

  `FusionIsFair`: the rows of a set have one ranking by score and age (`RankingExists`,
  `RankedIs`), so what the statement leaves out comes after all it answers (`FirstRows`). A row
  that no ranker and no prior puts behind another scores no less, since a share shrinks with the
  rank (`Divides`, `ScoreGrows`); and with one ranker its first row has the greatest relevance
  there is (`LoneBest`). `SearchesDegrade`, with it: who embeds has found the table
  (`DegradingInv`).

  `ExtractionIsHonest`: a filter of numbers that rise rises (`RisingIs`), so a turn's place in its
  window is the number of its group's turns before it (`PositionIs`), and its batch starts at the
  multiple of the batch size before that (`ChunkIs`). What an extractor returns is a turn as it
  came or words grounded in a batch that cited turns are of (`IsFact`); what is made of either, an
  entry that tells so (`IsEntry`). Of a window something is stored, of a batch that failed each
  turn (`WindowYields`).
* `FoldLemmas` makes most of the last two modules possible. `FoldLeft` of the community modules chooses a
  function of sets of positions. No induction theorem can be instantiated here, but that each
  non-empty set of sets of a finite set has a least one follows from the well-foundedness of the
  strict subset order (`MinimalSet`, from the library's `WFMin`): a solution of the fold's
  recursion exists, two agree wherever both are defined, and the fold of n + 1 elements is its
  body after the fold of n. The module's constant `Op` is the body; each loop of the code
  instantiates it (`Selecting`, `Context`, `DualLayer`, `Embedding`, `PostgresSearch`).
* Assumptions: the constants have their types and the model values standing for "nothing" are no
  data (`ConstantsAssumption`, `StoreConstants`, `HttpConstants`, `BreakerConstants`,
  `ToolsConstants`, `ShutdownConstants`, `MigrationsConstants`, `BenchmarkConstants`,
  `LoadConstants`, `CampaignConstants`, `RetrieverAssumption`, `ContextAssumption`,
  `DualAssumption`, `EmbeddingAssumption`, `WeightsPositive`); batches map ids to candidates
  (`ProviderConstants`); `Trim` is idempotent and leaves no blank name (`NamesAssumption`); the
  profile's sections differ from each other. Searches that overlap are finitely many where they
  are counted (`RerankingIsHonest`). TLC evaluates the named assumptions on every run. What the
  pure rules are asked about has its type (`QuestionsAssumption`, `CredentialsAssumption`,
  `RequestsAssumption`, `QueriesAssumption`, `ExtractionAssumption`): records as they are stored,
  filters, credentials, hits each once and with lengths, rankings that name no row twice, replies
  whose facts cite numbers and have finitely many words.

tlapm 1.4.5 tells its SMT solver, of any value at all, that its domain is `1 .. n` exactly if its
length is `n`, which is too much of a function whose domain is `0 .. n`. Every module was
therefore also proved from nothing with that axiom weakened to one direction (a value of domain `1
.. n` has length `n`): no proof rests on the other.

Every invariant and every action property that a run checks is stated by a theorem. Only
model-checked are the three liveness properties (`EveryCallAnswered`, `ProcessExits`,
`RerunsConverge`), since the prover has no ENABLED, and the parts of the four statements that do
not hold.

## Not modelled

* What is numeric or text: hashing embedder, cosine similarity, BM25's formula, in-process
  fusion and MMR (`retrieval/fusion.ts`, `mmr.ts`, `tokenize.ts`), the enhanced provider's
  scores and entity extraction, prompt wording, sanitizing, dates. A model keeps who is
  found before whom where that is all a property needs.
* What the migration files do to rows already there: the backfill of spaces and the folding of
  duplicates are data conversions, tested as such.
* Request schemas, and what each method of the client or each MCP tool sends: one call, no
  state. `recall`, `build_context` and `feedback` of the tools likewise.
* Configuration parsing and the factory, but for the rules of credentials.
* The other benchmarks, the dataset's generator, examples and the text interface: scripts
  that run once over data.
* Crashes of the machine (nothing is fsynced) and of Postgres itself, whose recovery it
  promises.

## What is left

* Refinement of an abstract store by `InMemoryProvider!ServiceSpec`, so that the two providers are
  shown to keep one promise.
