-------------------------- MODULE InMemoryProvider --------------------------
(***************************************************************************)
(* The in-process store behind the default and the file provider           *)
(* (src/providers/in-memory-provider.ts): one map of records and three     *)
(* indexes that must follow it - the BM25 index, the exact-duplicate index *)
(* and the vectors, which an asynchronous embedder fills in after the      *)
(* write that asked for them.                                              *)
(*                                                                         *)
(* JavaScript runs one callback at a time, so an action is the code        *)
(* between two awaits.  Embedding, the background backfill and the query   *)
(* embedding of search() are the awaits: each is a call in flight whose    *)
(* second half runs against whatever the store has become.                 *)
(***************************************************************************)
EXTENDS Naturals, FiniteSets

CONSTANTS
  Id,          \* record ids
  Owner,       \* ownership coordinates (tenant, space, app, actor, thread, scope)
  Locus,       \* [Owner -> visibility locus]: several owners may share one
  Content,     \* indexed text of a record; one memoryType per instance
  NormKey,     \* [Content -> normalized text]: texts that differ in case share one
  Writer,      \* writes that may be in flight at once
  Searcher,    \* searches that may be in flight at once
  DecayKind,   \* subset of {"none", "time", "inactivity"}
  TTL,         \* lifetime of a decaying record, in ticks
  MaxTime,     \* bound on the clock
  ChunkSize,   \* BACKFILL_CHUNK
  HasEmbedder, \* whether an embedder is configured
  Snapshots,   \* stores a restore() may load
  None

VARIABLES
  records,   \* Map id -> record
  bm25,      \* text indexed for each id, or None
  dupIndex,  \* Map dedupe key -> id
  vectors,   \* text whose embedding is stored for each id, or None
  embeds,    \* texts each write awaits the embedder for; NoTexts when it awaits nothing
  searches,  \* searches in flight
  backfill,  \* the background embedding pass, and the promise its callers share
  degraded,  \* whether the embedder is in the cooldown of a failure, was once, or never
  now

vars == <<records, bm25, dupIndex, vectors, embeds, searches, backfill, degraded, now>>

(***************************************************************************)
(* Types.                                                                  *)
(***************************************************************************)
Status == {"active", "superseded", "archived"}

Record == [content: Content, owner: Owner, status: Status, createdAt: Nat,
           lastSeenAt: Nat, decay: DecayKind, supersededBy: Id \cup {None}]

DupKey(r) == <<Locus[r.owner], NormKey[r.content]>>
DupKeys == {<<Locus[o], NormKey[c]>> : o \in Owner, c \in Content}

Texts == [Id -> Content \cup {None}]
NoTexts == [i \in Id |-> None]

Idle == [op |-> "idle"]
Searching == [op: {"search"}, owner: Owner, lexical: SUBSET Id, since: Nat,
              hybrid: BOOLEAN]
Answered == [op: {"answer"}, owner: Owner, hits: [Id -> Record \cup {None}]]
Search == {Idle} \cup Searching \cup Answered

\* this.backfilling: null, the promise of a running pass, or one that is spent for good.
Flight == {"free", "running", "settled"}
Backfill == [flight: Flight, todo: SUBSET Id, texts: Texts]
NoBackfill == [flight |-> "free", todo |-> {}, texts |-> NoTexts]

\* embedderDisabledUntil and embedderWarned.
Outage == {"never", "now", "once"}

ASSUME ConstantsAssumption ==
  /\ None \notin Id \cup Content \cup Record
  /\ DecayKind \subseteq {"none", "time", "inactivity"}
  /\ TTL \in Nat /\ MaxTime \in Nat /\ ChunkSize \in Nat
  /\ HasEmbedder \in BOOLEAN
  /\ Snapshots \subseteq [Id -> Record \cup {None}]

TypeOK ==
  /\ records \in [Id -> Record \cup {None}]
  /\ bm25 \in Texts
  /\ dupIndex \in [DupKeys -> Id \cup {None}]
  /\ vectors \in Texts
  /\ embeds \in [Writer -> Texts]
  /\ searches \in [Searcher -> Search]
  /\ backfill \in Backfill
  /\ degraded \in Outage
  /\ now \in Nat

(***************************************************************************)
(* Expiry and visibility are decided on read: only compact() changes a     *)
(* status.                                                                 *)
(***************************************************************************)
Anchor(r) == IF r.decay = "time" THEN r.createdAt ELSE r.lastSeenAt
Expired(r, t) == r.decay # "none" /\ t > Anchor(r) + TTL
IsActive(recs, i) == recs[i] # None /\ recs[i].status = "active"
IsVisible(recs, i, t) == IsActive(recs, i) /\ ~Expired(recs[i], t)
InLocus(recs, i, o) == Locus[recs[i].owner] = Locus[o]

FindDuplicate(k) ==
  IF dupIndex[k] # None /\ IsVisible(records, dupIndex[k], now)
  THEN dupIndex[k] ELSE None

(***************************************************************************)
(* index(): what one record write does to the three indexes.  It throws,   *)
(* leaving everything as it was, when the id belongs to another owner.     *)
(***************************************************************************)
MayIndexAnyOwner(i, r) == TRUE  \* mutant: no owner check
MayIndex(i, r) == records[i] # None => records[i].owner = r.owner

\* Two records can share a key while the index holds one id: only its owner drops it.
OwnsEntryUnchecked(dup, k, i) == TRUE  \* mutant: the unguarded delete
OwnsEntry(dup, k, i) == dup[k] = i

Unindexed(dup, i, old) ==
  [k \in DOMAIN dup |->
     IF old # None /\ k = DupKey(old) /\ OwnsEntry(dup, k, i) THEN None ELSE dup[k]]

IndexedDup(dup, i, old, r) ==
  IF r.status = "active"
  THEN [Unindexed(dup, i, old) EXCEPT ![DupKey(r)] = i]
  ELSE Unindexed(dup, i, old)

IndexedTextNormalized(b, i, r) ==  \* mutant: the normalized text is indexed
  [b EXCEPT ![i] = IF r.status = "active" THEN NormKey[r.content] ELSE None]

IndexedText(b, i, r) ==
  [b EXCEPT ![i] = IF r.status = "active" THEN r.content ELSE None]

KeepsVectorAlways(old, r) == r.status = "active"  \* mutant: new text, old vector
KeepsVector(old, r) ==
  r.status = "active" /\ (old = None \/ old.content = r.content)

IndexedVectors(v, i, old, r) ==
  IF KeepsVector(old, r) THEN v ELSE [v EXCEPT ![i] = None]

Index(i, r) ==
  /\ MayIndex(i, r)
  /\ records' = [records EXCEPT ![i] = r]
  /\ bm25' = IndexedText(bm25, i, r)
  /\ dupIndex' = IndexedDup(dupIndex, i, records[i], r)
  /\ vectors' = IndexedVectors(vectors, i, records[i], r)

(***************************************************************************)
(* embedRecords(): captures the text the store holds, awaits the embedder, *)
(* and lands a vector only where the text is still the captured one.       *)
(***************************************************************************)
EmbedderUsable == HasEmbedder /\ degraded # "now"

Pending(recs, vecs, ids) ==
  [i \in Id |-> IF i \in ids /\ IsActive(recs, i) /\ vecs[i] = None
                THEN recs[i].content ELSE None]

StillPresent(texts, i) == texts[i] # None /\ IsActive(records, i)  \* mutant: text not compared
StillCaptured(texts, i) ==
  texts[i] # None /\ IsActive(records, i) /\ records[i].content = texts[i]

Landed(texts) ==
  [i \in Id |-> IF StillCaptured(texts, i) THEN texts[i] ELSE vectors[i]]

AwaitEmbedding(w, texts) ==
  embeds' = IF EmbedderUsable THEN [embeds EXCEPT ![w] = texts] ELSE embeds

EmbedLands(w) ==
  /\ embeds[w] # NoTexts
  /\ vectors' = Landed(embeds[w])
  /\ embeds' = [embeds EXCEPT ![w] = NoTexts]
  /\ UNCHANGED <<records, bm25, dupIndex, searches, backfill, degraded, now>>

\* degrade(): the failure is swallowed and the embedder is left alone for a while.
EmbedFails(w) ==
  /\ embeds[w] # NoTexts
  /\ degraded' = "now"
  /\ embeds' = [embeds EXCEPT ![w] = NoTexts]
  /\ UNCHANGED <<records, bm25, dupIndex, vectors, searches, backfill, now>>

CooldownElapses ==
  /\ degraded = "now"
  /\ degraded' = "once"
  /\ UNCHANGED <<records, bm25, dupIndex, vectors, embeds, searches, backfill, now>>

(***************************************************************************)
(* Writes.                                                                 *)
(***************************************************************************)
FreshRecord(o, t, d) ==
  [content |-> t, owner |-> o, status |-> "active", createdAt |-> now,
   lastSeenAt |-> now, decay |-> d, supersededBy |-> None]

Ingest(w, i, o, t, d) ==
  /\ embeds[w] = NoTexts
  /\ records[i] = None
  /\ Index(i, FreshRecord(o, t, d))
  /\ AwaitEmbedding(w, Pending(records', vectors', {i}))
  /\ UNCHANGED <<searches, backfill, degraded, now>>

\* A rewrite of a stored id: its creation time stays, everything else is the caller's.
Rewritten(i, o, t, s) ==
  [records[i] EXCEPT !.owner = o, !.content = t, !.status = s, !.lastSeenAt = now]

Update(w, i, o, t, s) ==
  /\ embeds[w] = NoTexts
  /\ records[i] # None
  /\ Index(i, Rewritten(i, o, t, s))
  /\ AwaitEmbedding(w, Pending(records', vectors', {i}))
  /\ UNCHANGED <<searches, backfill, degraded, now>>

Retire(i, o, s) ==
  /\ IsVisible(records, i, now)
  /\ InLocus(records, i, o)
  /\ Index(i, [records[i] EXCEPT !.status = s])
  /\ UNCHANGED <<embeds, searches, backfill, degraded, now>>

(***************************************************************************)
(* supersedeWithReplacement(): an exact visible duplicate of the new text  *)
(* is reused and takes over the replacement's decay policy; otherwise the  *)
(* replacement is stored under its own id.                                 *)
(***************************************************************************)
Reused(d, r) ==
  [records[d] EXCEPT !.lastSeenAt = r.lastSeenAt, !.decay = r.decay]

Superseded(i, by) ==
  [records[i] EXCEPT !.status = "superseded", !.supersededBy = by]

NeverSame(a, b) == FALSE  \* mutant: a correction may say the same again
SameText(a, b) == NormKey[a] = NormKey[b]

ReplacesAny(new) == TRUE  \* mutant: no id collision check
IdFree(new) == records[new] = None

SupersedesWith(w, i, o, new, r) ==
  /\ embeds[w] = NoTexts
  /\ IsVisible(records, i, now)
  /\ InLocus(records, i, o)
  /\ Locus[r.owner] = Locus[records[i].owner]
  /\ ~SameText(r.content, records[i].content)
  /\ LET dup   == FindDuplicate(DupKey(r))
         saved == IF dup # None THEN dup ELSE new
         kept  == IF dup # None THEN Reused(dup, r) ELSE r
         gone  == Superseded(i, saved)
     IN /\ records' = [records EXCEPT ![saved] = kept, ![i] = gone]
        /\ bm25' = IndexedText(IndexedText(bm25, saved, kept), i, gone)
        /\ dupIndex' = IndexedDup(IndexedDup(dupIndex, saved, records[saved], kept),
                                  i, records[i], gone)
        /\ vectors' = IndexedVectors(IndexedVectors(vectors, saved, records[saved], kept),
                                     i, records[i], gone)
        /\ AwaitEmbedding(w, Pending(records', vectors', {saved}))
  /\ UNCHANGED <<searches, backfill, degraded, now>>

Supersede(w, i, o, new, r) == IdFree(new) /\ SupersedesWith(w, i, o, new, r)

ApplyFeedback(i, o) ==
  /\ IsVisible(records, i, now)
  /\ InLocus(records, i, o)
  /\ records' = [records EXCEPT ![i].lastSeenAt = now]
  /\ UNCHANGED <<bm25, dupIndex, vectors, embeds, searches, backfill, degraded, now>>

\* compact(): the one sweep that turns expiry into a status.
Compactable(i) ==
  /\ records[i] # None
  /\ \/ records[i].status = "superseded"
     \/ records[i].status = "active" /\ Expired(records[i], now)

Compact ==
  /\ records' = [i \in Id |-> IF Compactable(i)
                              THEN [records[i] EXCEPT !.status = "archived"]
                              ELSE records[i]]
  /\ bm25' = [i \in Id |-> IF Compactable(i) THEN None ELSE bm25[i]]
  /\ vectors' = [i \in Id |-> IF Compactable(i) THEN None ELSE vectors[i]]
  /\ dupIndex' = [k \in DupKeys |->
                    IF \E i \in Id : /\ Compactable(i)
                                   /\ DupKey(records[i]) = k
                                   /\ OwnsEntry(dupIndex, k, i)
                    THEN None ELSE dupIndex[k]]
  /\ UNCHANGED <<embeds, searches, backfill, degraded, now>>

(***************************************************************************)
(* backfillEmbeddings(): one pass over the active records without a        *)
(* vector, a chunk at a time.  A second caller joins the running pass.  A  *)
(* pass with nothing to do ends before its promise is stored, so clearing  *)
(* the promise comes first: it stays, and every later call is answered by  *)
(* it at once.                                                             *)
(***************************************************************************)
Chunk(ids) == {s \in SUBSET ids : s # {} /\ Cardinality(s) <= ChunkSize}

OneChunk(ids, s) == {}  \* mutant: the pass stops after its first chunk
Rest(ids, s) == ids \ s

StartBackfill(recs, vecs) ==
  LET pending == {i \in Id : IsActive(recs, i) /\ vecs[i] = None}
  IN CASE backfill.flight # "free" -> backfill' = backfill
       [] backfill.flight = "free" /\ (~EmbedderUsable \/ pending = {}) ->
            backfill' = [NoBackfill EXCEPT !.flight = "settled"]
       [] OTHER ->
            \E s \in Chunk(pending) :
              backfill' = [flight |-> "running", todo |-> Rest(pending, s),
                           texts |-> Pending(recs, vecs, s)]

\* restore(): FileProvider.load() hands a snapshot, in the order its records were
\* created, to a store nobody has used yet: every other call awaits the load.  Of two
\* records with one key the last one indexed holds it.
Holders(recs, k) == {i \in Id : IsActive(recs, i) /\ DupKey(recs[i]) = k}
Newest(recs, ids) == {i \in ids : \A j \in ids : recs[j].createdAt <= recs[i].createdAt}

RestoredDup(recs) ==
  {d \in [DupKeys -> Id \cup {None}] : \A k \in DupKeys :
     IF Holders(recs, k) = {} THEN d[k] = None
                              ELSE d[k] \in Newest(recs, Holders(recs, k))}

Restore(snapshot) ==
  /\ \A i \in Id : records[i] = None
  /\ backfill.flight = "free"
  /\ \A i \in Id : snapshot[i] # None => snapshot[i].lastSeenAt <= now
  /\ records' = snapshot
  /\ bm25' = [i \in Id |-> IF IsActive(snapshot, i) THEN snapshot[i].content ELSE None]
  /\ dupIndex' \in RestoredDup(snapshot)
  /\ StartBackfill(snapshot, vectors)
  /\ UNCHANGED <<vectors, embeds, searches, degraded, now>>

AwaitEmbeddings ==
  /\ backfill.flight = "free"
  /\ StartBackfill(records, vectors)
  /\ UNCHANGED <<records, bm25, dupIndex, vectors, embeds, searches, degraded, now>>

BackfillLands ==
  /\ backfill.texts # NoTexts
  /\ vectors' = Landed(backfill.texts)
  /\ backfill' = [backfill EXCEPT !.texts = NoTexts]
  /\ UNCHANGED <<records, bm25, dupIndex, embeds, searches, degraded, now>>

BackfillFails ==
  /\ backfill.texts # NoTexts
  /\ degraded' = "now"
  /\ backfill' = [backfill EXCEPT !.texts = NoTexts]
  /\ UNCHANGED <<records, bm25, dupIndex, vectors, embeds, searches, now>>

\* The sweep resumes with its next chunk, or stops: done, or the embedder tripped.
BackfillNext ==
  /\ backfill.flight = "running" /\ backfill.texts = NoTexts
  /\ IF ~EmbedderUsable \/ backfill.todo = {}
     THEN backfill' = NoBackfill
     ELSE \E s \in Chunk(backfill.todo) :
            backfill' = [backfill EXCEPT !.todo = Rest(@, s),
                                         !.texts = Pending(records, vectors, s)]
  /\ UNCHANGED <<records, bm25, dupIndex, vectors, embeds, searches, degraded, now>>

(***************************************************************************)
(* search(): the lexical candidates are taken before the query is          *)
(* embedded, the vector candidates and the records themselves after it.    *)
(***************************************************************************)
SearchStarts(s, o, q) ==
  /\ searches[s] = Idle
  /\ searches' = [searches EXCEPT ![s] =
       [op |-> "search", owner |-> o, since |-> now,
        hybrid |-> EmbedderUsable /\ vectors # NoTexts,
        lexical |-> {i \in Id : /\ bm25[i] # None /\ NormKey[bm25[i]] = q
                              /\ IsVisible(records, i, now)
                              /\ InLocus(records, i, o)}]]
  /\ UNCHANGED <<records, bm25, dupIndex, vectors, embeds, backfill, degraded, now>>

VectorCandidates(s, near) ==
  {i \in Id : /\ vectors[i] \in near
              /\ IsVisible(records, i, searches[s].since)
              /\ InLocus(records, i, searches[s].owner)}

Hits(ids) == [i \in Id |-> IF i \in ids THEN records[i] ELSE None]

\* near: the texts within the similarity floor of the query; none without an embedder.
SearchAnswers(s, near) ==
  /\ searches[s].op = "search"
  /\ near = {} \/ searches[s].hybrid
  /\ searches' = [searches EXCEPT ![s] =
       [op |-> "answer", owner |-> searches[s].owner,
        hits |-> Hits(searches[s].lexical \cup VectorCandidates(s, near))]]
  /\ UNCHANGED <<records, bm25, dupIndex, vectors, embeds, backfill, degraded, now>>

SearchDegrades(s) ==
  /\ searches[s].op = "search"
  /\ searches[s].hybrid
  /\ degraded' = "now"
  /\ searches' = [searches EXCEPT ![s] =
       [op |-> "answer", owner |-> searches[s].owner, hits |-> Hits(searches[s].lexical)]]
  /\ UNCHANGED <<records, bm25, dupIndex, vectors, embeds, backfill, now>>

SearchReturned(s) ==
  /\ searches[s].op = "answer"
  /\ searches' = [searches EXCEPT ![s] = Idle]
  /\ UNCHANGED <<records, bm25, dupIndex, vectors, embeds, backfill, degraded, now>>

Tick ==
  /\ now < MaxTime
  /\ now' = now + 1
  /\ UNCHANGED <<records, bm25, dupIndex, vectors, embeds, searches, backfill, degraded>>

(***************************************************************************)
(* Specifications.  Spec: any client of the provider interface.            *)
(***************************************************************************)
Init ==
  /\ records = [i \in Id |-> None]
  /\ bm25 = NoTexts
  /\ dupIndex = [k \in DupKeys |-> None]
  /\ vectors = NoTexts
  /\ embeds = [w \in Writer |-> NoTexts]
  /\ searches = [s \in Searcher |-> Idle]
  /\ backfill = NoBackfill
  /\ degraded = "never"
  /\ now = 0

EmbedSteps(w) == EmbedLands(w) \/ EmbedFails(w)

SearchSteps(s) ==
  \/ \E o \in Owner, t \in Content : SearchStarts(s, o, NormKey[t])
  \/ \E near \in SUBSET Content : SearchAnswers(s, near)
  \/ SearchDegrades(s)
  \/ SearchReturned(s)

StoreSteps ==
  \/ \E i \in Id, o \in Owner, s \in Status \ {"active"} : Retire(i, o, s)
  \/ \E i \in Id, o \in Owner : ApplyFeedback(i, o)
  \/ Compact
  \/ \E snapshot \in Snapshots : Restore(snapshot)
  \/ AwaitEmbeddings
  \/ BackfillLands
  \/ BackfillFails
  \/ BackfillNext
  \/ CooldownElapses
  \/ Tick

ProviderWrites(w) ==
  \/ \E i \in Id, o \in Owner, t \in Content, d \in DecayKind : Ingest(w, i, o, t, d)
  \/ \E i \in Id, o \in Owner, t \in Content, s \in Status : Update(w, i, o, t, s)
  \/ \E i, new \in Id, o, p \in Owner, t \in Content, d \in DecayKind :
       Supersede(w, i, o, new, FreshRecord(p, t, d))

Next ==
  \/ \E w \in Writer : EmbedSteps(w) \/ ProviderWrites(w)
  \/ \E s \in Searcher : SearchSteps(s)
  \/ StoreSteps

Spec == Init /\ [][Next]_vars

(***************************************************************************)
(* ServiceSpec: the store as MemoryCoreService drives it when no two of    *)
(* its requests overlap between findDuplicate() and the write it decides.  *)
(***************************************************************************)
Reinforce(w, dup) ==
  Update(w, dup, records[dup].owner, records[dup].content, "active")

Observe(w, i, o, t, d) ==
  LET dup == FindDuplicate(<<Locus[o], NormKey[t]>>)
  IN IF dup # None THEN Reinforce(w, dup) ELSE Ingest(w, i, o, t, d)

Correct(w, i, o, new, t) ==
  /\ records[i] # None
  /\ Supersede(w, i, o, new, FreshRecord(records[i].owner, t, records[i].decay))

ServiceWrites(w) ==
  \/ \E i \in Id, o \in Owner, t \in Content, d \in DecayKind : Observe(w, i, o, t, d)
  \/ \E i, new \in Id, o \in Owner, t \in Content : Correct(w, i, o, new, t)

ServiceNext ==
  \/ \E w \in Writer : EmbedSteps(w) \/ ServiceWrites(w)
  \/ \E s \in Searcher : SearchSteps(s)
  \/ StoreSteps

ServiceSpec == Init /\ [][ServiceNext]_vars

(***************************************************************************)
(* Properties.                                                             *)
(***************************************************************************)

\* The BM25 index holds exactly the active records, each under its current text: a
\* retired, archived or rewritten record leaves no posting behind.
LexicalIndexExact ==
  \A i \in Id : bm25[i] = IF IsActive(records, i) THEN records[i].content ELSE None

\* However long the embedder takes, a stored vector is the embedding of the text its
\* record holds now, and only active records have one.
NoStaleVector ==
  \A i \in Id : vectors[i] # None =>
    IsActive(records, i) /\ records[i].content = vectors[i]

\* An entry of the duplicate index leads to an active record that has that very key.
DupIndexSound ==
  \A k \in DupKeys : dupIndex[k] # None =>
    IsActive(records, dupIndex[k]) /\ DupKey(records[dupIndex[k]]) = k

\* The three indexes follow the records.
IndexesExact == LexicalIndexExact /\ NoStaleVector /\ DupIndexSound

\* A search started before a rewrite answers after it without a record of another
\* visibility locus: candidates chosen before the await are read again after it.
SearchStaysInLocus ==
  \A s \in Searcher : searches[s].op = "answer" =>
    \A i \in Id : searches[s].hits[i] # None =>
      Locus[searches[s].hits[i].owner] = Locus[searches[s].owner]

\* Driven by the service one request at a time, the store never holds two visible
\* records with one dedupe key, and the index leads to each of them - through expiry,
\* corrections that reuse a duplicate, retirement and compaction.
DedupeFindsEveryVisible ==
  \A i \in Id : IsVisible(records, i, now) => FindDuplicate(DupKey(records[i])) = i

\* A memory that left the active set never returns to it.
RetirementIsFinal ==
  [][\A i \in Id : records[i] # None /\ records[i].status # "active"
                    => records'[i].status # "active"]_vars

\* A correction leaves the corrected fact readable: the record that supersededBy names
\* is visible at the moment the correction commits.
CorrectionIsVisible ==
  [][\A i \in Id : records[i] # None /\ records'[i].supersededBy # records[i].supersededBy
        => IsVisible(records', records'[i].supersededBy, now')]_vars

Settled == \A w \in Writer : embeds[w] = NoTexts

\* As long as the embedder has never failed, no active record is left without a vector
\* once every write and the background pass have settled: whoever discards a vector, or
\* lands too late to store one, leaves another call in flight that will.
EmbeddingsComplete ==
  degraded = "never" /\ HasEmbedder /\ backfill.flight # "running" /\ Settled
    => \A i \in Id : IsActive(records, i) => vectors[i] = records[i].content

\* A call for the background pass that is answered at once, while the embedder can be used
\* and no write is embedding, finds every active record with a vector.
BackfillEmbedsEveryRecord ==
  backfill.flight = "settled" /\ EmbedderUsable /\ Settled
    => \A i \in Id : IsActive(records, i) => vectors[i] # None
=============================================================================
