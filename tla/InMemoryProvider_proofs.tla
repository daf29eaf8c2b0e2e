----------------------- MODULE InMemoryProvider_proofs -----------------------
(***************************************************************************)
(* Type correctness of InMemoryProvider, and the agreement of its three    *)
(* indexes with the records, for every set of ids, owners and texts and    *)
(* however many writes and searches are in flight.                         *)
(***************************************************************************)
EXTENDS InMemoryProvider, TLAPS

Records == [Id -> Record \cup {None}]
Dups == [DupKeys -> Id \cup {None}]

(***************************************************************************)
(* Types of the helpers.                                                   *)
(***************************************************************************)

\* The dedupe key of a record is one of the keys of the duplicate index.
LEMMA DupKeyType == ASSUME NEW r \in Record PROVE DupKey(r) \in DupKeys
BY DEF DupKey, DupKeys, Record

\* Reading the texts to embed yields a text or nothing for each id.
LEMMA PendingType ==
  ASSUME NEW recs \in Records, NEW vecs, NEW ids
  PROVE  Pending(recs, vecs, ids) \in Texts
BY DEF Pending, IsActive, Records, Record, Texts

\* A vector landing leaves a text or nothing for each id.
LEMMA LandedType ==
  ASSUME TypeOK, NEW texts \in Texts
  PROVE  Landed(texts) \in Texts
BY DEF Landed, Texts, TypeOK

\* A write that awaits nothing has a well-typed map of texts.
LEMMA NoTextsType == NoTexts \in Texts
BY DEF NoTexts, Texts

\* Indexing one record of any id keeps the four maps of the store well typed.
LEMMA IndexedType ==
  ASSUME NEW recs \in Records, NEW b \in Texts, NEW dup \in Dups, NEW vec \in Texts,
         NEW i \in Id, NEW r \in Record
  PROVE  /\ [recs EXCEPT ![i] = r] \in Records
         /\ IndexedText(b, i, r) \in Texts
         /\ IndexedDup(dup, i, recs[i], r) \in Dups
         /\ IndexedVectors(vec, i, recs[i], r) \in Texts
<1>1. [recs EXCEPT ![i] = r] \in Records
  BY DEF Records
<1>2. IndexedText(b, i, r) \in Texts
  BY DEF IndexedText, Texts, Record
<1>3. Unindexed(dup, i, recs[i]) \in Dups
  BY DEF Unindexed, Dups
<1>4. IndexedDup(dup, i, recs[i], r) \in Dups
  BY <1>3, DupKeyType DEF IndexedDup, Dups
<1>5. IndexedVectors(vec, i, recs[i], r) \in Texts
  BY DEF IndexedVectors, Texts
<1> QED BY <1>1, <1>2, <1>4, <1>5

\* index() keeps the store well typed.
LEMMA IndexType ==
  ASSUME TypeOK, NEW i \in Id, NEW r \in Record, Index(i, r)
  PROVE  /\ records' \in Records /\ bm25' \in Texts
         /\ dupIndex' \in Dups /\ vectors' \in Texts
BY IndexedType DEF Index, TypeOK, Records, Dups

\* Starting to await the embedder keeps the writes in flight well typed.
LEMMA AwaitType ==
  ASSUME TypeOK, NEW w \in Writer, NEW texts \in Texts, AwaitEmbedding(w, texts)
  PROVE  embeds' \in [Writer -> Texts]
BY DEF AwaitEmbedding, TypeOK

\* The background pass only ever holds ids, and texts of records.
LEMMA StartBackfillType ==
  ASSUME TypeOK, NEW recs \in Records, NEW vecs, StartBackfill(recs, vecs)
  PROVE  backfill' \in Backfill
<1>1. CASE backfill' = backfill
  BY <1>1 DEF TypeOK
<1>2. CASE backfill' = [NoBackfill EXCEPT !.flight = "settled"]
  BY <1>2, NoTextsType DEF NoBackfill, Backfill, Flight
<1>3. CASE \E ids, s \in SUBSET Id :
             backfill' = [flight |-> "running", todo |-> Rest(ids, s),
                          texts |-> Pending(recs, vecs, s)]
  BY <1>3, PendingType DEF Backfill, Flight, Rest
<1>4. backfill.flight # "free" \/ backfill.flight = "free"
  OBVIOUS
<1> QED BY <1>1, <1>2, <1>3, <1>4 DEF StartBackfill, Chunk

(***************************************************************************)
(* Type correctness.                                                       *)
(***************************************************************************)
LEMMA TypeInit == Init => TypeOK
<1> SUFFICES ASSUME Init PROVE TypeOK
  OBVIOUS
<1>1. backfill \in Backfill
  BY NoTextsType DEF Init, NoBackfill, Backfill, Flight
<1>2. searches \in [Searcher -> Search]
  BY DEF Init, Search
<1>3. embeds \in [Writer -> Texts]
  BY NoTextsType DEF Init
<1> QED BY <1>1, <1>2, <1>3, NoTextsType DEF Init, TypeOK, Outage

\* A correction keeps the types, whether it reuses a duplicate or stores its replacement.
LEMMA SupersedesType ==
  ASSUME TypeOK, NEW w \in Writer, NEW i \in Id, NEW o \in Owner, NEW new \in Id,
         NEW r \in Record, SupersedesWith(w, i, o, new, r)
  PROVE  TypeOK'
<1> DEFINE dup == FindDuplicate(DupKey(r))
           saved == IF dup # None THEN dup ELSE new
           kept == IF dup # None THEN Reused(dup, r) ELSE r
           gone == Superseded(i, saved)
<1>1. saved \in Id /\ dup \in Id \cup {None}
  BY DupKeyType DEF FindDuplicate, TypeOK, IsVisible, IsActive
<1>2. kept \in Record
  <2>1. CASE dup # None
    <3>1. records[dup] \in Record
      BY <2>1, <1>1 DEF FindDuplicate, IsVisible, IsActive, TypeOK
    <3> QED BY <2>1, <3>1 DEF Reused, Record
  <2>2. CASE dup = None
    BY <2>2
  <2> QED BY <2>1, <2>2
<1>3. gone \in Record
  <2>1. records[i] \in Record
    BY DEF SupersedesWith, IsVisible, IsActive, TypeOK
  <2> QED BY <2>1, <1>1 DEF Superseded, Record, Status
<1> DEFINE b1 == IndexedText(bm25, saved, kept)
           d1 == IndexedDup(dupIndex, saved, records[saved], kept)
           v1 == IndexedVectors(vectors, saved, records[saved], kept)
<1>4. b1 \in Texts /\ d1 \in Dups /\ v1 \in Texts
  BY <1>1, <1>2, IndexedType DEF TypeOK, Records, Dups
<1>5. /\ IndexedText(b1, i, gone) \in Texts
      /\ IndexedDup(d1, i, records[i], gone) \in Dups
      /\ IndexedVectors(v1, i, records[i], gone) \in Texts
  <2> HIDE DEF b1, d1, v1, gone
  <2> QED BY <1>3, <1>4, IndexedType DEF TypeOK, Records
<1>6. /\ records' = [records EXCEPT ![saved] = kept, ![i] = gone]
      /\ bm25' = IndexedText(b1, i, gone)
      /\ dupIndex' = IndexedDup(d1, i, records[i], gone)
      /\ vectors' = IndexedVectors(v1, i, records[i], gone)
      /\ AwaitEmbedding(w, Pending(records', vectors', {saved}))
      /\ UNCHANGED <<searches, backfill, degraded, now>>
  BY DEF SupersedesWith
<1> HIDE DEF b1, d1, v1, gone, kept, saved, dup
<1>7. records' \in Records
  BY <1>6, <1>1, <1>2, <1>3 DEF TypeOK, Records
<1>8. embeds' \in [Writer -> Texts]
  BY <1>6, <1>7, PendingType, AwaitType
<1> QED BY <1>5, <1>6, <1>7, <1>8 DEF TypeOK, Records, Dups

\* Every write of the provider interface keeps the types.
LEMMA TypeWrites ==
  ASSUME TypeOK, NEW w \in Writer, ProviderWrites(w)
  PROVE  TypeOK'
<1>1. CASE \E i \in Id, o \in Owner, t \in Content, d \in DecayKind : Ingest(w, i, o, t, d)
  <2>1. PICK i \in Id, o \in Owner, t \in Content, d \in DecayKind : Ingest(w, i, o, t, d)
    BY <1>1
  <2>2. FreshRecord(o, t, d) \in Record
    BY DEF FreshRecord, Record, Status, TypeOK
  <2>3. /\ records' \in Records /\ bm25' \in Texts
        /\ dupIndex' \in Dups /\ vectors' \in Texts
    BY <2>1, <2>2, IndexType DEF Ingest
  <2>4. embeds' \in [Writer -> Texts]
    <3>1. Pending(records', vectors', {i}) \in Texts
      BY <2>3, PendingType
    <3> QED BY <2>1, <3>1, AwaitType DEF Ingest
  <2> QED BY <2>1, <2>3, <2>4 DEF Ingest, TypeOK, Records, Dups
<1>2. CASE \E i \in Id, o \in Owner, t \in Content, s \in Status : Update(w, i, o, t, s)
  <2>1. PICK i \in Id, o \in Owner, t \in Content, s \in Status : Update(w, i, o, t, s)
    BY <1>2
  <2>2. Rewritten(i, o, t, s) \in Record
    BY <2>1 DEF Update, Rewritten, Record, TypeOK
  <2>3. /\ records' \in Records /\ bm25' \in Texts
        /\ dupIndex' \in Dups /\ vectors' \in Texts
    BY <2>1, <2>2, IndexType DEF Update
  <2>4. embeds' \in [Writer -> Texts]
    <3>1. Pending(records', vectors', {i}) \in Texts
      BY <2>3, PendingType
    <3> QED BY <2>1, <3>1, AwaitType DEF Update
  <2> QED BY <2>1, <2>3, <2>4 DEF Update, TypeOK, Records, Dups
<1>3. CASE \E i, new \in Id, o, p \in Owner, t \in Content, d \in DecayKind :
             Supersede(w, i, o, new, FreshRecord(p, t, d))
  <2>1. PICK i \in Id, new \in Id, o \in Owner, p \in Owner, t \in Content, d \in DecayKind :
          Supersede(w, i, o, new, FreshRecord(p, t, d))
    BY <1>3
  <2>2. FreshRecord(p, t, d) \in Record
    BY DEF FreshRecord, Record, Status, TypeOK
  <2> QED BY <2>1, <2>2, SupersedesType DEF Supersede
<1> QED BY <1>1, <1>2, <1>3 DEF ProviderWrites

\* The return of an embedding call keeps the types, whether it lands or fails.
LEMMA TypeEmbeds ==
  ASSUME TypeOK, NEW w \in Writer, EmbedSteps(w)
  PROVE  TypeOK'
<1>1. CASE EmbedLands(w)
  BY <1>1, LandedType, NoTextsType DEF EmbedLands, TypeOK
<1>2. CASE EmbedFails(w)
  BY <1>2, NoTextsType DEF EmbedFails, TypeOK, Outage
<1> QED BY <1>1, <1>2 DEF EmbedSteps

\* The records a search answers with are the stored ones, or nothing.
LEMMA AnswerType ==
  ASSUME TypeOK, NEW o \in Owner, NEW ids
  PROVE  [op |-> "answer", owner |-> o, hits |-> Hits(ids)] \in Search
<1>1. Hits(ids) \in [Id -> Record \cup {None}]
  BY DEF Hits, TypeOK
<1> QED BY <1>1 DEF Search, Answered

\* Every step of a search keeps the types.
LEMMA TypeSearches ==
  ASSUME TypeOK, NEW s \in Searcher, SearchSteps(s)
  PROVE  TypeOK'
<1>1. searches' \in [Searcher -> Search]
  <2>1. CASE \E o \in Owner, t \in Content : SearchStarts(s, o, NormKey[t])
    <3>1. PICK o \in Owner, t \in Content : SearchStarts(s, o, NormKey[t])
      BY <2>1
    <3> DEFINE lexical == {i \in Id : /\ bm25[i] # None /\ NormKey[bm25[i]] = NormKey[t]
                                    /\ IsVisible(records, i, now)
                                    /\ InLocus(records, i, o)}
               hybrid == EmbedderUsable /\ vectors # NoTexts
               call == [op |-> "search", owner |-> o, since |-> now,
                        hybrid |-> hybrid, lexical |-> lexical]
    <3>2. hybrid \in BOOLEAN
      BY ConstantsAssumption DEF EmbedderUsable, TypeOK
    <3>3. lexical \in SUBSET Id
      OBVIOUS
    <3>4. searches' = [searches EXCEPT ![s] = call]
      BY <3>1 DEF SearchStarts
    <3> HIDE DEF lexical, hybrid
    <3>5. call \in Search
      BY <3>2, <3>3 DEF Search, Searching, TypeOK
    <3> QED BY <3>4, <3>5 DEF TypeOK
  <2>2. CASE \E near \in SUBSET Content : SearchAnswers(s, near)
    <3>1. PICK near : SearchAnswers(s, near)
      BY <2>2
    <3>2. searches[s].owner \in Owner
      BY <3>1 DEF SearchAnswers, TypeOK, Search, Idle, Searching, Answered
    <3> QED BY <3>1, <3>2, AnswerType DEF SearchAnswers, TypeOK
  <2>3. CASE SearchDegrades(s)
    <3>1. searches[s].owner \in Owner
      BY <2>3 DEF SearchDegrades, TypeOK, Search, Idle, Searching, Answered
    <3> QED BY <2>3, <3>1, AnswerType DEF SearchDegrades, TypeOK
  <2>4. CASE SearchReturned(s)
    BY <2>4 DEF SearchReturned, TypeOK, Search
  <2> QED BY <2>1, <2>2, <2>3, <2>4 DEF SearchSteps
<1>2. degraded' \in Outage
  BY DEF SearchSteps, SearchStarts, SearchAnswers, SearchDegrades, SearchReturned, TypeOK, Outage
<1>3. UNCHANGED <<records, bm25, dupIndex, vectors, embeds, backfill, now>>
  BY DEF SearchSteps, SearchStarts, SearchAnswers, SearchDegrades, SearchReturned
<1> QED BY <1>1, <1>2, <1>3 DEF TypeOK

\* Retirement, feedback, compaction, restore and the backfill keep the types.
LEMMA TypeStore ==
  ASSUME TypeOK, StoreSteps
  PROVE  TypeOK'
<1>1. CASE \E i \in Id, o \in Owner, s \in Status \ {"active"} : Retire(i, o, s)
  <2>1. PICK i \in Id, o \in Owner, s \in Status \ {"active"} : Retire(i, o, s)
    BY <1>1
  <2>2. [records[i] EXCEPT !.status = s] \in Record
    BY <2>1 DEF Retire, IsVisible, IsActive, TypeOK, Record
  <2> QED BY <2>1, <2>2, IndexType DEF Retire, TypeOK, Records, Dups
<1>2. CASE \E i \in Id, o \in Owner : ApplyFeedback(i, o)
  <2>1. PICK i \in Id, o \in Owner : ApplyFeedback(i, o)
    BY <1>2
  <2>2. [records[i] EXCEPT !.lastSeenAt = now] \in Record
    BY <2>1 DEF ApplyFeedback, IsVisible, IsActive, TypeOK, Record
  <2>3. records' \in Records
    BY <2>1, <2>2 DEF ApplyFeedback, TypeOK, Records
  <2> QED BY <2>1, <2>3 DEF ApplyFeedback, TypeOK, Records
<1>3. CASE Compact
  <2>1. \A i \in Id : Compactable(i) => [records[i] EXCEPT !.status = "archived"] \in Record
    BY DEF Compactable, TypeOK, Record, Status
  <2>2. records' \in Records
    BY <1>3, <2>1 DEF Compact, TypeOK, Records
  <2>3. bm25' \in Texts /\ vectors' \in Texts /\ dupIndex' \in Dups
    BY <1>3 DEF Compact, TypeOK, Texts, Dups
  <2> QED BY <1>3, <2>2, <2>3 DEF Compact, TypeOK, Records, Dups
<1>4. CASE \E snapshot \in Snapshots : Restore(snapshot)
  <2>1. PICK snapshot \in Snapshots : Restore(snapshot)
    BY <1>4
  <2>2. snapshot \in Records
    BY ConstantsAssumption DEF Records
  <2>3. bm25' \in Texts /\ dupIndex' \in Dups
    BY <2>1, <2>2 DEF Restore, RestoredDup, Records, Record, Texts, IsActive, Dups
  <2>4. backfill' \in Backfill
    BY <2>1, <2>2, StartBackfillType DEF Restore
  <2> QED BY <2>1, <2>2, <2>3, <2>4 DEF Restore, TypeOK, Records, Dups
<1>5. CASE AwaitEmbeddings
  BY <1>5, StartBackfillType DEF AwaitEmbeddings, TypeOK, Records
<1>6. CASE BackfillLands
  BY <1>6, LandedType, NoTextsType DEF BackfillLands, TypeOK, Backfill
<1>7. CASE BackfillFails
  BY <1>7, NoTextsType DEF BackfillFails, TypeOK, Backfill, Outage
<1>8. CASE BackfillNext
  <2>1. CASE backfill' = NoBackfill
    BY <1>8, <2>1, NoTextsType DEF BackfillNext, TypeOK, NoBackfill, Backfill, Flight
  <2>2. CASE backfill' # NoBackfill
    <3>1. PICK s \in SUBSET Id :
            backfill' = [backfill EXCEPT !.todo = Rest(@, s),
                                         !.texts = Pending(records, vectors, s)]
      BY <1>8, <2>2 DEF BackfillNext, Chunk, TypeOK, Backfill
    <3>2. backfill' \in Backfill
      BY <3>1, PendingType DEF TypeOK, Backfill, Rest, Records
    <3> QED BY <1>8, <3>2 DEF BackfillNext, TypeOK
  <2> QED BY <2>1, <2>2
<1>9. CASE CooldownElapses
  BY <1>9 DEF CooldownElapses, TypeOK, Outage
<1>10. CASE Tick
  BY <1>10 DEF Tick, TypeOK
<1> QED BY <1>1, <1>2, <1>3, <1>4, <1>5, <1>6, <1>7, <1>8, <1>9, <1>10 DEF StoreSteps

\* Every step of the provider keeps the types.
LEMMA TypeStep == TypeOK /\ [Next]_vars => TypeOK'
<1> SUFFICES ASSUME TypeOK, [Next]_vars PROVE TypeOK'
  OBVIOUS
<1>1. CASE \E w \in Writer : EmbedSteps(w) \/ ProviderWrites(w)
  BY <1>1, TypeEmbeds, TypeWrites
<1>2. CASE \E s \in Searcher : SearchSteps(s)
  BY <1>2, TypeSearches
<1>3. CASE StoreSteps
  BY <1>3, TypeStore
<1>4. CASE UNCHANGED vars
  BY <1>4 DEF vars, TypeOK
<1> QED BY <1>1, <1>2, <1>3, <1>4 DEF Next

\* Every map of the store keeps its type whatever its clients do.
THEOREM TypeCorrect == Spec => []TypeOK
BY TypeInit, TypeStep, PTL DEF Spec

(***************************************************************************)
(* The three indexes follow the records.  Consistent states what the       *)
(* properties say, of any four maps, so that one lemma about indexing one  *)
(* record also covers supersedeWithReplacement(), which indexes two.       *)
(***************************************************************************)
Consistent(recs, b, dup, vec) ==
  /\ \A i \in Id : b[i] = IF IsActive(recs, i) THEN recs[i].content ELSE None
  /\ \A i \in Id : vec[i] # None => IsActive(recs, i) /\ recs[i].content = vec[i]
  /\ \A k \in DupKeys : dup[k] # None =>
       IsActive(recs, dup[k]) /\ DupKey(recs[dup[k]]) = k

\* Consistency of the store is the conjunction of the three index properties.
LEMMA ConsistentMeaning ==
  Consistent(records, bm25, dupIndex, vectors)
    <=> LexicalIndexExact /\ NoStaleVector /\ DupIndexSound
BY DEF Consistent, LexicalIndexExact, NoStaleVector, DupIndexSound

\* Indexing one record - new, rewritten, moved to another key or leaving the active
\* set - keeps the three indexes in step with the records.
LEMMA IndexedConsistent ==
  ASSUME NEW recs \in Records, NEW b \in Texts, NEW dup \in Dups, NEW vec \in Texts,
         NEW i \in Id, NEW r \in Record,
         Consistent(recs, b, dup, vec)
  PROVE  Consistent([recs EXCEPT ![i] = r], IndexedText(b, i, r),
                    IndexedDup(dup, i, recs[i], r), IndexedVectors(vec, i, recs[i], r))
<1> DEFINE recs1 == [recs EXCEPT ![i] = r]
<1>0. r # None /\ recs1[i] = r /\ \A j \in Id : j # i => recs1[j] = recs[j]
  BY ConstantsAssumption DEF Records
<1>1. \A j \in Id : IndexedText(b, i, r)[j] =
                     IF IsActive(recs1, j) THEN recs1[j].content ELSE None
  BY <1>0 DEF Consistent, IndexedText, IsActive, Texts
<1>2. ASSUME NEW j \in Id, IndexedVectors(vec, i, recs[i], r)[j] # None
      PROVE  IsActive(recs1, j) /\ recs1[j].content = IndexedVectors(vec, i, recs[i], r)[j]
  <2>1. CASE j = i
    BY <1>0, <1>2, <2>1 DEF Consistent, IndexedVectors, KeepsVector, IsActive, Texts
  <2>2. CASE j # i
    BY <1>0, <1>2, <2>2 DEF Consistent, IndexedVectors, IsActive, Texts
  <2> QED BY <2>1, <2>2
<1>3. ASSUME NEW k \in DupKeys, IndexedDup(dup, i, recs[i], r)[k] # None
      PROVE  LET j == IndexedDup(dup, i, recs[i], r)[k]
             IN  IsActive(recs1, j) /\ DupKey(recs1[j]) = k
  <2>1. CASE r.status = "active" /\ k = DupKey(r)
    BY <1>0, <2>1 DEF IndexedDup, Unindexed, IsActive, Dups
  <2>2. CASE ~(r.status = "active" /\ k = DupKey(r))
    <3>1. IndexedDup(dup, i, recs[i], r)[k] = Unindexed(dup, i, recs[i])[k]
      BY <2>2, DupKeyType DEF IndexedDup, Unindexed, Dups
    <3>2. Unindexed(dup, i, recs[i])[k] = dup[k] /\ dup[k] # None
      BY <1>3, <3>1 DEF Unindexed, Dups
    <3>3. dup[k] \in Id /\ IsActive(recs, dup[k]) /\ DupKey(recs[dup[k]]) = k
      BY <3>2 DEF Consistent, Dups
    <3>4. dup[k] # i
      BY <3>2, <3>3 DEF Unindexed, OwnsEntry, Dups, IsActive
    <3> QED BY <3>1, <3>2, <3>3, <3>4, <1>0 DEF IsActive
  <2> QED BY <2>1, <2>2
<1> QED BY <1>1, <1>2, <1>3 DEF Consistent

\* index() keeps the store consistent.
LEMMA IndexConsistent ==
  ASSUME TypeOK, Consistent(records, bm25, dupIndex, vectors),
         NEW i \in Id, NEW r \in Record, Index(i, r)
  PROVE  Consistent(records, bm25, dupIndex, vectors)'
<1>1. records \in Records /\ bm25 \in Texts /\ dupIndex \in Dups /\ vectors \in Texts
  BY DEF TypeOK, Records, Dups
<1>2. Consistent([records EXCEPT ![i] = r], IndexedText(bm25, i, r),
                 IndexedDup(dupIndex, i, records[i], r),
                 IndexedVectors(vectors, i, records[i], r))
  BY <1>1, IndexedConsistent
<1>3. Consistent(records', bm25', dupIndex', vectors')
  BY <1>2 DEF Index
<1> QED BY <1>3 DEF Consistent, IsActive, DupKey

\* A late vector lands only on the text it was computed from.
LEMMA LandedConsistent ==
  ASSUME TypeOK, Consistent(records, bm25, dupIndex, vectors), NEW texts \in Texts,
         vectors' = Landed(texts), UNCHANGED <<records, bm25, dupIndex>>
  PROVE  Consistent(records, bm25, dupIndex, vectors)'
BY DEF Landed, StillCaptured, Consistent, IsActive, DupKey, TypeOK, Texts

\* An empty store is consistent.
LEMMA ConsistentInit == Init => Consistent(records, bm25, dupIndex, vectors)
BY DEF Init, Consistent, NoTexts, IsActive, DupKeys

\* A correction keeps the store consistent: the replacement and the memory it replaces
\* differ in text, so they are two records, indexed one after the other.
LEMMA SupersedesConsistent ==
  ASSUME TypeOK, Consistent(records, bm25, dupIndex, vectors),
         NEW w \in Writer, NEW i \in Id, NEW o \in Owner, NEW new \in Id, NEW r \in Record,
         SupersedesWith(w, i, o, new, r),
         FindDuplicate(DupKey(r)) = None => IdFree(new)
  PROVE  Consistent(records, bm25, dupIndex, vectors)'
<1> DEFINE dup == FindDuplicate(DupKey(r))
           saved == IF dup # None THEN dup ELSE new
           kept == IF dup # None THEN Reused(dup, r) ELSE r
           gone == Superseded(i, saved)
           recs1 == [records EXCEPT ![saved] = kept]
           b1 == IndexedText(bm25, saved, kept)
           d1 == IndexedDup(dupIndex, saved, records[saved], kept)
           v1 == IndexedVectors(vectors, saved, records[saved], kept)
<1>1. DupKey(r) \in DupKeys
  BY DupKeyType
<1>2. dup # None => /\ dup \in Id /\ records[dup] \in Record
                    /\ DupKey(records[dup]) = DupKey(r)
  BY <1>1 DEF FindDuplicate, IsVisible, IsActive, TypeOK, Consistent
<1>3. saved \in Id
  BY <1>2
<1>4. kept \in Record
  <2>1. CASE dup # None
    BY <2>1, <1>1, <1>2 DEF Reused, Record
  <2>2. CASE dup = None
    BY <2>2, <1>1
  <2> QED BY <2>1, <2>2
<1>5. records[i] \in Record /\ records[i] # None
  BY DEF SupersedesWith, IsVisible, IsActive, TypeOK
<1>6. gone \in Record
  BY <1>3, <1>5 DEF Superseded, Record, Status
<1>7. saved # i
  <2>1. CASE dup # None
    BY <2>1, <1>2 DEF SupersedesWith, SameText, DupKey
  <2>2. CASE dup = None
    BY <2>2, <1>5 DEF SupersedesWith, IdFree
  <2> QED BY <2>1, <2>2
<1>8. /\ records' = [records EXCEPT ![saved] = kept, ![i] = gone]
      /\ bm25' = IndexedText(b1, i, gone)
      /\ dupIndex' = IndexedDup(d1, i, records[i], gone)
      /\ vectors' = IndexedVectors(v1, i, records[i], gone)
  BY DEF SupersedesWith
<1>9. recs1 \in Records /\ b1 \in Texts /\ d1 \in Dups /\ v1 \in Texts
  BY <1>3, <1>4, IndexedType DEF TypeOK, Records, Dups
<1>10. Consistent(recs1, b1, d1, v1)
  <2> HIDE DEF kept, saved
  <2> QED BY <1>3, <1>4, IndexedConsistent DEF TypeOK, Records, Dups
<1>11. recs1[i] = records[i] /\ records' = [recs1 EXCEPT ![i] = gone]
  <2> HIDE DEF kept, saved, gone
  <2> QED BY <1>3, <1>7, <1>8 DEF TypeOK, Records
<1> HIDE DEF recs1, b1, d1, v1, gone, kept, saved, dup
<1>12. Consistent([recs1 EXCEPT ![i] = gone], IndexedText(b1, i, gone),
                  IndexedDup(d1, i, recs1[i], gone), IndexedVectors(v1, i, recs1[i], gone))
  BY <1>6, <1>9, <1>10, IndexedConsistent
<1>13. Consistent(records', bm25', dupIndex', vectors')
  BY <1>8, <1>11, <1>12
<1> QED BY <1>13 DEF Consistent, IsActive, DupKey

\* Every write of the provider interface keeps the store consistent.
LEMMA ConsistentWrites ==
  ASSUME TypeOK, Consistent(records, bm25, dupIndex, vectors),
         NEW w \in Writer, ProviderWrites(w)
  PROVE  Consistent(records, bm25, dupIndex, vectors)'
<1>1. ASSUME NEW i \in Id, NEW o \in Owner, NEW t \in Content, NEW d \in DecayKind,
             Ingest(w, i, o, t, d)
      PROVE  Consistent(records, bm25, dupIndex, vectors)'
  <2>1. FreshRecord(o, t, d) \in Record
    BY DEF FreshRecord, Record, Status, TypeOK
  <2> QED BY <1>1, <2>1, IndexConsistent DEF Ingest
<1>2. ASSUME NEW i \in Id, NEW o \in Owner, NEW t \in Content, NEW s \in Status,
             Update(w, i, o, t, s)
      PROVE  Consistent(records, bm25, dupIndex, vectors)'
  <2>1. Rewritten(i, o, t, s) \in Record
    BY <1>2 DEF Update, Rewritten, Record, TypeOK
  <2> QED BY <1>2, <2>1, IndexConsistent DEF Update
<1>3. ASSUME NEW i \in Id, NEW new \in Id, NEW o \in Owner, NEW p \in Owner,
             NEW t \in Content, NEW d \in DecayKind,
             Supersede(w, i, o, new, FreshRecord(p, t, d))
      PROVE  Consistent(records, bm25, dupIndex, vectors)'
  <2>1. FreshRecord(p, t, d) \in Record
    BY DEF FreshRecord, Record, Status, TypeOK
  <2> QED BY <1>3, <2>1, SupersedesConsistent DEF Supersede
<1> QED BY <1>1, <1>2, <1>3 DEF ProviderWrites

\* Retirement, feedback, compaction, restore and the backfill keep it consistent.
LEMMA ConsistentStore ==
  ASSUME TypeOK, Consistent(records, bm25, dupIndex, vectors), StoreSteps
  PROVE  Consistent(records, bm25, dupIndex, vectors)'
<1>1. ASSUME NEW i \in Id, NEW o \in Owner, NEW s \in Status \ {"active"}, Retire(i, o, s)
      PROVE  Consistent(records, bm25, dupIndex, vectors)'
  <2>1. [records[i] EXCEPT !.status = s] \in Record
    BY <1>1 DEF Retire, IsVisible, IsActive, TypeOK, Record
  <2> QED BY <1>1, <2>1, IndexConsistent DEF Retire
<1>2. ASSUME NEW i \in Id, NEW o \in Owner, ApplyFeedback(i, o)
      PROVE  Consistent(records, bm25, dupIndex, vectors)'
  <2>1. \A j \in Id : /\ IsActive(records', j) <=> IsActive(records, j)
                      /\ IsActive(records, j) => /\ records'[j].content = records[j].content
                                                 /\ DupKey(records'[j]) = DupKey(records[j])
    <3>1. records' = [records EXCEPT ![i] = [records[i] EXCEPT !.lastSeenAt = now]]
      BY <1>2 DEF ApplyFeedback
    <3>2. records[i] \in Record /\ [records[i] EXCEPT !.lastSeenAt = now] \in Record
      BY <1>2 DEF ApplyFeedback, IsVisible, IsActive, TypeOK, Record
    <3> QED BY <3>1, <3>2, ConstantsAssumption DEF IsActive, DupKey, TypeOK, Record
  <2>2. UNCHANGED <<bm25, dupIndex, vectors>>
    BY <1>2 DEF ApplyFeedback
  <2>3. \A k \in DupKeys : dupIndex[k] # None => dupIndex[k] \in Id
    BY DEF TypeOK
  <2>4. Consistent(records', bm25', dupIndex', vectors')
    BY <2>1, <2>2, <2>3 DEF Consistent
  <2> QED BY <2>4 DEF Consistent, IsActive, DupKey
<1>3. CASE Compact
  <2>1. \A j \in Id : ~Compactable(j) => records'[j] = records[j]
    BY <1>3 DEF Compact, TypeOK
  <2>2. \A j \in Id : Compactable(j) => ~IsActive(records', j)
    BY <1>3, ConstantsAssumption DEF Compact, TypeOK, IsActive, Compactable, Record
  <2>3. \A j \in Id : bm25'[j] = IF IsActive(records', j) THEN records'[j].content ELSE None
    BY <1>3, <2>1, <2>2 DEF Compact, Consistent, IsActive
  <2>4. \A j \in Id : vectors'[j] # None => /\ IsActive(records', j)
                                            /\ records'[j].content = vectors'[j]
    BY <1>3, <2>1, <2>2 DEF Compact, Consistent, IsActive
  <2>5. ASSUME NEW k \in DupKeys, dupIndex'[k] # None
        PROVE  IsActive(records', dupIndex'[k]) /\ DupKey(records'[dupIndex'[k]]) = k
    <3>1. dupIndex'[k] = dupIndex[k] /\ dupIndex[k] \in Id
      BY <1>3, <2>5 DEF Compact, TypeOK
    <3>2. IsActive(records, dupIndex[k]) /\ DupKey(records[dupIndex[k]]) = k
      BY <2>5, <3>1 DEF Consistent
    <3>3. ~Compactable(dupIndex[k])
      BY <1>3, <2>5, <3>1, <3>2 DEF Compact, OwnsEntry
    <3> QED BY <2>1, <3>1, <3>2, <3>3 DEF IsActive
  <2>6. Consistent(records', bm25', dupIndex', vectors')
    BY <2>3, <2>4, <2>5 DEF Consistent
  <2> QED BY <2>6 DEF Consistent, IsActive, DupKey
<1>4. ASSUME NEW snapshot \in Snapshots, Restore(snapshot)
      PROVE  Consistent(records, bm25, dupIndex, vectors)'
  <2>1. \A i \in Id : vectors[i] = None
    BY <1>4 DEF Restore, Consistent, IsActive
  <2>2. \A k \in DupKeys : dupIndex'[k] # None => dupIndex'[k] \in Holders(snapshot, k)
    BY <1>4 DEF Restore, RestoredDup, Newest
  <2>3. Consistent(records', bm25', dupIndex', vectors')
    BY <1>4, <2>1, <2>2 DEF Restore, Consistent, Holders
  <2> QED BY <2>3 DEF Consistent, IsActive, DupKey
<1>5. CASE AwaitEmbeddings \/ BackfillFails \/ BackfillNext \/ CooldownElapses \/ Tick
  BY <1>5 DEF AwaitEmbeddings, BackfillFails, BackfillNext, CooldownElapses, Tick,
              Consistent, IsActive, DupKey
<1>6. CASE BackfillLands
  BY <1>6, LandedConsistent DEF BackfillLands, TypeOK, Backfill
<1> QED BY <1>1, <1>2, <1>3, <1>4, <1>5, <1>6 DEF StoreSteps

\* Every step of the provider keeps the store consistent.
LEMMA ConsistentStep ==
  TypeOK /\ Consistent(records, bm25, dupIndex, vectors) /\ [Next]_vars
    => Consistent(records, bm25, dupIndex, vectors)'
<1> SUFFICES ASSUME TypeOK, Consistent(records, bm25, dupIndex, vectors), [Next]_vars
             PROVE  Consistent(records, bm25, dupIndex, vectors)'
  OBVIOUS
<1>1. ASSUME NEW w \in Writer, EmbedSteps(w)
      PROVE  Consistent(records, bm25, dupIndex, vectors)'
  <2>1. CASE EmbedLands(w)
    BY <2>1, LandedConsistent DEF EmbedLands, TypeOK
  <2>2. CASE EmbedFails(w)
    BY <2>2 DEF EmbedFails, Consistent, IsActive, DupKey
  <2> QED BY <1>1, <2>1, <2>2 DEF EmbedSteps
<1>2. CASE \E s \in Searcher : SearchSteps(s)
  <2>1. UNCHANGED <<records, bm25, dupIndex, vectors>>
    BY <1>2 DEF SearchSteps, SearchStarts, SearchAnswers, SearchDegrades, SearchReturned
  <2> QED BY <2>1 DEF Consistent, IsActive, DupKey
<1>3. CASE UNCHANGED vars
  BY <1>3 DEF vars, Consistent, IsActive, DupKey
<1> QED BY <1>1, <1>2, <1>3, ConsistentWrites, ConsistentStore DEF Next

\* The BM25 index, the vectors and the duplicate index agree with the records in every
\* reachable state, whatever lands late and however many calls overlap.
THEOREM IndexesFollowRecords == Spec => []IndexesExact
<1>1. Init => TypeOK /\ Consistent(records, bm25, dupIndex, vectors)
  BY TypeInit, ConsistentInit
<1>2. TypeOK /\ Consistent(records, bm25, dupIndex, vectors) /\ [Next]_vars
        => (TypeOK /\ Consistent(records, bm25, dupIndex, vectors))'
  BY TypeStep, ConsistentStep
<1>3. Consistent(records, bm25, dupIndex, vectors) => IndexesExact
  BY ConsistentMeaning DEF IndexesExact
<1> QED BY <1>1, <1>2, <1>3, PTL DEF Spec

(***************************************************************************)
(* As long as the embedder has not failed, an active record without a      *)
(* vector has a call in flight that holds its present text, or is still    *)
(* ahead of the background pass: whoever discards a vector captures the    *)
(* text that needs one, and a vector that lands too late for its own text  *)
(* leaves the call that captured the new one.                              *)
(***************************************************************************)
Wanting(i) == IsActive(records, i) /\ vectors[i] = None

Taken(i) ==
  \/ \E w \in Writer : embeds[w][i] = records[i].content
  \/ backfill.texts[i] = records[i].content
  \/ i \in backfill.todo

FlightOK == backfill.flight # "running" => backfill.todo = {} /\ backfill.texts = NoTexts
Covered == degraded = "never" /\ HasEmbedder => \A i \in Id : Wanting(i) => Taken(i)

CoverInv ==
  TypeOK /\ Consistent(records, bm25, dupIndex, vectors) /\ FlightOK /\ Covered

\* A pass that starts takes every record that wants a vector, and one that is not running
\* holds nothing.
LEMMA StartBackfillCovers ==
  ASSUME TypeOK, FlightOK, backfill.flight = "free", NEW recs \in Records, NEW vecs \in Texts,
         StartBackfill(recs, vecs)
  PROVE  /\ FlightOK'
         /\ EmbedderUsable => \A i \in Id : IsActive(recs, i) /\ vecs[i] = None =>
              backfill'.texts[i] = recs[i].content \/ i \in backfill'.todo
<1> DEFINE pending == {i \in Id : IsActive(recs, i) /\ vecs[i] = None}
<1>1. CASE ~EmbedderUsable \/ pending = {}
  <2>1. backfill' = [NoBackfill EXCEPT !.flight = "settled"]
    BY <1>1 DEF StartBackfill
  <2> QED BY <1>1, <2>1 DEF FlightOK, NoBackfill
<1>2. CASE ~(~EmbedderUsable \/ pending = {})
  <2>1. PICK s \in Chunk(pending) :
          backfill' = [flight |-> "running", todo |-> Rest(pending, s),
                       texts |-> Pending(recs, vecs, s)]
    BY <1>2 DEF StartBackfill
  <2> QED BY <2>1 DEF FlightOK, Rest, Pending
<1> QED BY <1>1, <1>2

\* Writes and their embedding calls leave the pass alone, and never undo a failure.
LEMMA WritesApart ==
  ASSUME NEW w \in Writer, EmbedSteps(w) \/ ProviderWrites(w)
  PROVE  UNCHANGED backfill /\ (degraded' = "never" => degraded = "never")
<1>1. CASE EmbedSteps(w)
  BY <1>1 DEF EmbedSteps, EmbedLands, EmbedFails
<1>2. ASSUME NEW i, NEW o, NEW t, NEW d, Ingest(w, i, o, t, d)
      PROVE  UNCHANGED <<backfill, degraded>>
  BY <1>2 DEF Ingest
<1>3. ASSUME NEW i, NEW o, NEW t, NEW s, Update(w, i, o, t, s)
      PROVE  UNCHANGED <<backfill, degraded>>
  BY <1>3 DEF Update
<1>4. ASSUME NEW i, NEW o, NEW new, NEW r, Supersede(w, i, o, new, r)
      PROVE  UNCHANGED <<backfill, degraded>>
  BY <1>4 DEF Supersede, SupersedesWith
<1>5. CASE ProviderWrites(w)
  <2>1. UNCHANGED <<backfill, degraded>>
    BY <1>2, <1>3, <1>4, <1>5 DEF ProviderWrites
  <2> QED BY <2>1
<1> QED BY <1>1, <1>5

\* Only a running pass holds records.
LEMMA FlightStep ==
  ASSUME TypeOK, FlightOK, [Next]_vars
  PROVE  FlightOK'
<1>1. CASE UNCHANGED backfill
  BY <1>1 DEF FlightOK
<1>2. ASSUME NEW snapshot \in Snapshots, Restore(snapshot)
      PROVE  FlightOK'
  <2>1. snapshot \in Records
    BY ConstantsAssumption DEF Records
  <2> QED BY <1>2, <2>1, StartBackfillCovers DEF Restore, TypeOK
<1>3. CASE AwaitEmbeddings
  BY <1>3, StartBackfillCovers DEF AwaitEmbeddings, TypeOK, Records
<1>4. CASE BackfillLands \/ BackfillFails
  BY <1>4 DEF BackfillLands, BackfillFails, FlightOK, TypeOK, Backfill
<1>5. CASE BackfillNext
  <2>1. CASE backfill' = NoBackfill
    BY <2>1 DEF FlightOK, NoBackfill
  <2>2. CASE backfill' # NoBackfill
    BY <1>5, <2>2 DEF BackfillNext, FlightOK, TypeOK, Backfill
  <2> QED BY <2>1, <2>2
<1>6. CASE \E w \in Writer : EmbedSteps(w) \/ ProviderWrites(w)
  BY <1>1, <1>6, WritesApart
<1>7. CASE \E s \in Searcher : SearchSteps(s)
  BY <1>1, <1>7 DEF SearchSteps, SearchStarts, SearchAnswers, SearchDegrades, SearchReturned
<1>8. CASE StoreSteps
  BY <1>1, <1>2, <1>3, <1>4, <1>5, <1>8 DEF StoreSteps, Retire, ApplyFeedback, Compact,
                                            CooldownElapses, Tick
<1> QED BY <1>1, <1>6, <1>7, <1>8 DEF Next, vars

\* A write covers the record whose vector it discards, and takes nothing from others.
LEMMA WriteCovers ==
  ASSUME TypeOK, Covered, degraded = "never", HasEmbedder, NEW w \in Writer, NEW j \in Id,
         embeds[w] = NoTexts, UNCHANGED backfill,
         AwaitEmbedding(w, Pending(records', vectors', {j})),
         records' \in Records,
         NEW i \in Id, Wanting(i)', i # j => Wanting(i) /\ records'[i] = records[i]
  PROVE  Taken(i)'
<1> DEFINE texts == Pending(records', vectors', {j})
<1>1. embeds' = [embeds EXCEPT ![w] = texts]
  BY DEF AwaitEmbedding, EmbedderUsable
<1>2. CASE i = j
  <2>1. texts[i] = records'[i].content
    BY <1>2 DEF Pending, Wanting, IsActive
  <2>2. embeds'[w][i] = records'[i].content
    BY <1>1, <2>1 DEF TypeOK
  <2> QED BY <2>2 DEF Taken
<1>3. CASE i # j
  <2>1. Taken(i) /\ records'[i] = records[i]
    BY <1>3 DEF Covered
  <2>2. \A v \in Writer : embeds[v][i] = records[i].content => v # w
    BY <1>3, ConstantsAssumption DEF NoTexts, Wanting, IsActive, TypeOK, Record
  <2>3. \A v \in Writer : v # w => embeds'[v] = embeds[v]
    BY <1>1 DEF TypeOK
  <2> QED BY <2>1, <2>2, <2>3 DEF Taken
<1> QED BY <1>2, <1>3

\* index() leaves every other record as it was.
LEMMA IndexWants ==
  ASSUME TypeOK, NEW j \in Id, NEW r \in Record, Index(j, r), NEW i \in Id, Wanting(i)', i # j
  PROVE  Wanting(i) /\ records'[i] = records[i]
BY DEF Index, IndexedVectors, Wanting, IsActive, TypeOK, Texts

\* What lands is landed for good, and what comes too late has another to come.
LEMMA LandingCovers ==
  ASSUME TypeOK, NEW texts \in Texts, vectors' = Landed(texts), UNCHANGED records,
         NEW i \in Id, Wanting(i)'
  PROVE  Wanting(i) /\ texts[i] # records[i].content
BY ConstantsAssumption DEF Landed, StillCaptured, Wanting, IsActive, TypeOK, Texts, Record

\* A write, and the return of an embedding call.
LEMMA WritersCover ==
  ASSUME CoverInv, NEW w \in Writer, EmbedSteps(w) \/ ProviderWrites(w),
         degraded' = "never", HasEmbedder, NEW i \in Id, Wanting(i)'
  PROVE  Taken(i)'
<1> USE DEF CoverInv
<1>0. degraded = "never" /\ UNCHANGED backfill
  BY WritesApart
<1>1. TypeOK'
  BY TypeEmbeds, TypeWrites
<1>2. ASSUME NEW j \in Id, NEW o \in Owner, NEW t \in Content, NEW d \in DecayKind,
             Ingest(w, j, o, t, d)
      PROVE  Taken(i)'
  <2>1. FreshRecord(o, t, d) \in Record
    BY DEF FreshRecord, Record, Status, TypeOK
  <2>2. i # j => Wanting(i) /\ records'[i] = records[i]
    BY <1>2, <2>1, IndexWants DEF Ingest
  <2> QED BY <1>0, <1>1, <1>2, <2>2, WriteCovers DEF Ingest, TypeOK, Records
<1>3. ASSUME NEW j \in Id, NEW o \in Owner, NEW t \in Content, NEW s \in Status,
             Update(w, j, o, t, s)
      PROVE  Taken(i)'
  <2>1. Rewritten(j, o, t, s) \in Record
    BY <1>3 DEF Update, Rewritten, Record, TypeOK
  <2>2. i # j => Wanting(i) /\ records'[i] = records[i]
    BY <1>3, <2>1, IndexWants DEF Update
  <2> QED BY <1>0, <1>1, <1>3, <2>2, WriteCovers DEF Update, TypeOK, Records
<1>4. ASSUME NEW j \in Id, NEW o \in Owner, NEW new \in Id, NEW r \in Record,
             SupersedesWith(w, j, o, new, r)
      PROVE  Taken(i)'
  <2> DEFINE dup == FindDuplicate(DupKey(r))
             saved == IF dup # None THEN dup ELSE new
             kept == IF dup # None THEN Reused(dup, r) ELSE r
             v1 == IndexedVectors(vectors, saved, records[saved], kept)
  <2>1. saved \in Id
    BY DupKeyType DEF FindDuplicate, TypeOK, IsVisible, IsActive
  <2>2. /\ records' = [records EXCEPT ![saved] = kept, ![j] = Superseded(j, saved)]
        /\ vectors' = IndexedVectors(v1, j, records[j], Superseded(j, saved))
        /\ AwaitEmbedding(w, Pending(records', vectors', {saved}))
        /\ embeds[w] = NoTexts
    BY <1>4 DEF SupersedesWith
  <2> HIDE DEF saved, kept
  <2>3. i # j
    <3>1. records[j] \in Record
      BY <1>4 DEF SupersedesWith, IsVisible, IsActive, TypeOK
    <3> QED BY <2>1, <2>2, <3>1 DEF Wanting, IsActive, Superseded, TypeOK, Record
  <2>4. i # saved => Wanting(i) /\ records'[i] = records[i]
    BY <2>1, <2>2, <2>3 DEF Wanting, IsActive, IndexedVectors, TypeOK, Texts
  <2> QED BY <1>0, <1>1, <2>1, <2>2, <2>4, WriteCovers DEF TypeOK, Records
<1>5. ASSUME NEW j \in Id, NEW o \in Owner, NEW new \in Id, NEW p \in Owner, NEW t \in Content,
             NEW d \in DecayKind, Supersede(w, j, o, new, FreshRecord(p, t, d))
      PROVE  Taken(i)'
  <2>1. FreshRecord(p, t, d) \in Record
    BY DEF FreshRecord, Record, Status, TypeOK
  <2> QED BY <1>4, <1>5, <2>1 DEF Supersede
<1>6. CASE EmbedLands(w)
  <2>1. Wanting(i) /\ embeds[w][i] # records[i].content
    BY <1>6, LandingCovers DEF EmbedLands, TypeOK
  <2>2. Taken(i)
    BY <1>0, <2>1 DEF Covered
  <2> QED BY <1>0, <1>6, <2>1, <2>2 DEF EmbedLands, Taken, TypeOK
<1>7. CASE EmbedFails(w)
  BY <1>7 DEF EmbedFails
<1> QED BY <1>2, <1>3, <1>5, <1>6, <1>7 DEF EmbedSteps, ProviderWrites

\* Everything else: retirement and compaction only leave less to embed, and the pass hands
\* its records from one chunk to the next.
LEMMA StoreCovers ==
  ASSUME CoverInv, StoreSteps, degraded' = "never", HasEmbedder, NEW i \in Id, Wanting(i)'
  PROVE  Taken(i)'
<1> USE DEF CoverInv
<1>0. degraded = "never" /\ EmbedderUsable
  BY DEF StoreSteps, Retire, ApplyFeedback, Compact, Restore, AwaitEmbeddings, BackfillLands,
         BackfillFails, BackfillNext, CooldownElapses, Tick, EmbedderUsable
<1>1. ASSUME Wanting(i), records'[i].content = records[i].content, UNCHANGED <<embeds, backfill>>
      PROVE  Taken(i)'
  BY <1>0, <1>1 DEF Covered, Taken
<1>2. ASSUME NEW j \in Id, NEW o \in Owner, NEW s \in Status \ {"active"}, Retire(j, o, s)
      PROVE  Taken(i)'
  <2>1. [records[j] EXCEPT !.status = s] \in Record
    BY <1>2 DEF Retire, IsVisible, IsActive, TypeOK, Record
  <2>2. i # j
    <3>1. records[j] \in Record
      BY <1>2 DEF Retire, IsVisible, IsActive, TypeOK
    <3> QED BY <1>2, <3>1 DEF Retire, Index, Wanting, IsActive, TypeOK, Record
  <2> QED BY <1>1, <1>2, <2>1, <2>2, IndexWants DEF Retire
<1>3. ASSUME NEW j \in Id, NEW o \in Owner, ApplyFeedback(j, o)
      PROVE  Taken(i)'
  <2>1. records[j] \in Record
    BY <1>3 DEF ApplyFeedback, IsVisible, IsActive, TypeOK
  <2>2. Wanting(i) /\ records'[i].content = records[i].content
    BY <1>3, <2>1, ConstantsAssumption DEF ApplyFeedback, Wanting, IsActive, TypeOK, Record
  <2> QED BY <1>1, <1>3, <2>2 DEF ApplyFeedback
<1>4. CASE Compact
  <2>1. ~Compactable(i)
    BY <1>4 DEF Compact, Wanting, IsActive, Compactable, TypeOK, Record
  <2>2. Wanting(i) /\ records'[i] = records[i]
    BY <1>4, <2>1 DEF Compact, Wanting, IsActive, TypeOK
  <2> QED BY <1>1, <1>4, <2>2 DEF Compact
<1>5. ASSUME NEW snapshot \in Snapshots, Restore(snapshot)
      PROVE  Taken(i)'
  <2>1. snapshot \in Records
    BY ConstantsAssumption DEF Records
  <2>2. IsActive(snapshot, i) /\ vectors[i] = None
    BY <1>5 DEF Restore, Wanting, IsActive
  <2> QED BY <1>0, <1>5, <2>1, <2>2, StartBackfillCovers DEF Restore, Taken, TypeOK
<1>6. CASE AwaitEmbeddings
  <2>1. IsActive(records, i) /\ vectors[i] = None
    BY <1>6 DEF AwaitEmbeddings, Wanting, IsActive
  <2> QED BY <1>0, <1>6, <2>1, StartBackfillCovers DEF AwaitEmbeddings, Taken, TypeOK, Records
<1>7. CASE BackfillLands
  <2>1. Wanting(i) /\ backfill.texts[i] # records[i].content
    BY <1>7, LandingCovers DEF BackfillLands, TypeOK, Backfill
  <2>2. Taken(i)
    BY <1>0, <2>1 DEF Covered
  <2> QED BY <1>7, <2>1, <2>2 DEF BackfillLands, Taken, TypeOK, Backfill
<1>8. CASE BackfillNext
  <2>1. Wanting(i)
    BY <1>8 DEF BackfillNext, Wanting, IsActive
  <2>2. Taken(i) /\ backfill.texts[i] # records[i].content
    <3>1. records[i].content # None
      BY <2>1, ConstantsAssumption DEF Wanting, IsActive, TypeOK, Record
    <3>2. backfill.texts[i] = None
      BY <1>8 DEF BackfillNext, NoTexts
    <3> QED BY <1>0, <2>1, <3>1, <3>2 DEF Covered
  <2>3. CASE i \in backfill.todo
    <3>1. PICK s \in Chunk(backfill.todo) :
            backfill' = [backfill EXCEPT !.todo = Rest(@, s), !.texts = Pending(records, vectors, s)]
      BY <1>0, <1>8, <2>3 DEF BackfillNext
    <3> QED BY <1>8, <2>1, <2>3, <3>1
            DEF BackfillNext, Taken, Rest, Pending, Wanting, IsActive, TypeOK, Backfill
  <2>4. CASE i \notin backfill.todo
    BY <1>8, <2>2, <2>4 DEF BackfillNext, Taken
  <2> QED BY <2>3, <2>4
<1>9. CASE BackfillFails \/ CooldownElapses
  BY <1>9 DEF BackfillFails, CooldownElapses
<1>10. CASE Tick
  BY <1>1, <1>10 DEF Tick, Wanting, IsActive
<1> QED BY <1>2, <1>3, <1>4, <1>5, <1>6, <1>7, <1>8, <1>9, <1>10 DEF StoreSteps

\* Every step keeps it so.
LEMMA CoverStep == CoverInv /\ [Next]_vars => CoverInv'
<1> SUFFICES ASSUME CoverInv, [Next]_vars PROVE CoverInv'
  OBVIOUS
<1>1. TypeOK' /\ Consistent(records, bm25, dupIndex, vectors)' /\ FlightOK'
  BY TypeStep, ConsistentStep, FlightStep DEF CoverInv
<1>2. ASSUME degraded' = "never", HasEmbedder, NEW i \in Id, Wanting(i)'
      PROVE  Taken(i)'
  <2>1. CASE \E s \in Searcher : SearchSteps(s)
    <3>1. UNCHANGED <<records, vectors, embeds, backfill>> /\ degraded = "never"
      BY <1>2, <2>1 DEF SearchSteps, SearchStarts, SearchAnswers, SearchDegrades, SearchReturned
    <3> QED BY <1>2, <3>1 DEF CoverInv, Covered, Wanting, IsActive, Taken
  <2>2. CASE UNCHANGED vars
    BY <1>2, <2>2 DEF CoverInv, Covered, Wanting, IsActive, Taken, vars
  <2> QED BY <1>2, <2>1, <2>2, WritersCover, StoreCovers DEF Next
<1> QED BY <1>1, <1>2 DEF CoverInv, Covered

\* As long as the embedder has never failed, a provider whose writes and background pass
\* have settled holds the vector of every active record.
THEOREM NoVectorIsMissing == Spec => []EmbeddingsComplete
<1>1. Init => CoverInv
  BY TypeInit, ConsistentInit DEF Init, CoverInv, FlightOK, Covered, Wanting, IsActive, NoBackfill
<1>2. CoverInv => EmbeddingsComplete
  <2> SUFFICES ASSUME CoverInv, degraded = "never", HasEmbedder, backfill.flight # "running",
                      Settled, NEW i \in Id, IsActive(records, i)
               PROVE  vectors[i] = records[i].content
    BY DEF EmbeddingsComplete
  <2>1. records[i].content # None
    BY ConstantsAssumption DEF CoverInv, TypeOK, Record, IsActive
  <2>2. vectors[i] # None
    BY <2>1 DEF CoverInv, FlightOK, Covered, Settled, Wanting, Taken, NoTexts
  <2> QED BY <2>2 DEF CoverInv, Consistent
<1> QED BY <1>1, <1>2, CoverStep, PTL DEF Spec

(***************************************************************************)
(* A search answers inside its locus although its candidates are read      *)
(* again after the embedder answered: no write removes a record or moves   *)
(* an id to another owner, so a candidate chosen before the await is still *)
(* a record of that locus after it.                                        *)
(***************************************************************************)
CandidatesInLocus ==
  \A s \in Searcher : searches[s].op = "search" =>
    \A i \in searches[s].lexical : records[i] # None /\ InLocus(records, i, searches[s].owner)

SearchInv == TypeOK /\ CandidatesInLocus /\ SearchStaysInLocus

\* No step moves a stored record to another owner.
LEMMA OwnersStay ==
  ASSUME TypeOK, Next, NEW j \in Id, records[j] # None
  PROVE  records'[j] # None /\ records'[j].owner = records[j].owner
<1>0. records \in Records /\ records[j] \in Record /\ None \notin Record
  BY ConstantsAssumption DEF TypeOK, Records
<1>1. ASSUME NEW i \in Id, NEW r \in Record, Index(i, r)
      PROVE  records'[j] # None /\ records'[j].owner = records[j].owner
  BY <1>0, <1>1 DEF Index, MayIndex, Records
<1>2. ASSUME NEW w \in Writer, ProviderWrites(w)
      PROVE  records'[j] # None /\ records'[j].owner = records[j].owner
  <2>1. ASSUME NEW i \in Id, NEW o \in Owner, NEW t \in Content, NEW d \in DecayKind,
               Ingest(w, i, o, t, d)
        PROVE  records'[j] # None /\ records'[j].owner = records[j].owner
    <3>1. FreshRecord(o, t, d) \in Record
      BY DEF FreshRecord, Record, Status, TypeOK
    <3> QED BY <2>1, <3>1, <1>1 DEF Ingest
  <2>2. ASSUME NEW i \in Id, NEW o \in Owner, NEW t \in Content, NEW s \in Status,
               Update(w, i, o, t, s)
        PROVE  records'[j] # None /\ records'[j].owner = records[j].owner
    <3>1. Rewritten(i, o, t, s) \in Record
      BY <2>2 DEF Update, Rewritten, Record, TypeOK
    <3> QED BY <2>2, <3>1, <1>1 DEF Update
  <2>3. ASSUME NEW i \in Id, NEW new \in Id, NEW o \in Owner, NEW p \in Owner,
               NEW t \in Content, NEW d \in DecayKind,
               Supersede(w, i, o, new, FreshRecord(p, t, d))
        PROVE  records'[j] # None /\ records'[j].owner = records[j].owner
    <3> DEFINE r == FreshRecord(p, t, d)
               dup == FindDuplicate(DupKey(r))
               saved == IF dup # None THEN dup ELSE new
               kept == IF dup # None THEN Reused(dup, r) ELSE r
               gone == Superseded(i, saved)
    <3>1. records' = [records EXCEPT ![saved] = kept, ![i] = gone]
      BY <2>3 DEF Supersede, SupersedesWith
    <3>2. dup \in Id \cup {None} /\ (dup # None => records[dup] \in Record)
      <4>1. DupKey(r) \in DupKeys
        BY DEF DupKey, DupKeys, FreshRecord
      <4> QED BY <4>1 DEF FindDuplicate, TypeOK, IsVisible, IsActive
    <3>3. records[i] \in Record
      BY <2>3 DEF Supersede, SupersedesWith, IsVisible, IsActive, TypeOK
    <3>4. r \in Record
      BY DEF FreshRecord, Record, Status, TypeOK
    <3>5. kept \in Record /\ (dup # None => kept.owner = records[dup].owner)
      <4>1. CASE dup # None
        BY <4>1, <3>2, <3>4 DEF Reused, Record
      <4>2. CASE dup = None
        BY <4>2, <3>4
      <4> QED BY <4>1, <4>2
    <3>6. gone \in Record /\ gone.owner = records[i].owner
      BY <3>2, <3>3 DEF Superseded, Record, Status
    <3>7. dup = None => records[new] = None
      BY <2>3 DEF Supersede, SupersedesWith, IdFree
    <3> HIDE DEF dup, kept, gone, r
    <3> QED BY <1>0, <3>1, <3>5, <3>6, <3>7 DEF Records
  <2> QED BY <1>2, <2>1, <2>2, <2>3 DEF ProviderWrites
<1>3. CASE StoreSteps
  <2>1. ASSUME NEW i \in Id, NEW o \in Owner, NEW s \in Status \ {"active"}, Retire(i, o, s)
        PROVE  records'[j] # None /\ records'[j].owner = records[j].owner
    <3>1. [records[i] EXCEPT !.status = s] \in Record
      BY <2>1 DEF Retire, IsVisible, IsActive, TypeOK, Record
    <3> QED BY <2>1, <3>1, <1>1 DEF Retire
  <2>2. ASSUME NEW i \in Id, NEW o \in Owner, ApplyFeedback(i, o)
        PROVE  records'[j] # None /\ records'[j].owner = records[j].owner
    <3>1. records' = [records EXCEPT ![i] = [records[i] EXCEPT !.lastSeenAt = now]]
      BY <2>2 DEF ApplyFeedback
    <3>2. records[i] \in Record /\ [records[i] EXCEPT !.lastSeenAt = now] \in Record
      BY <2>2 DEF ApplyFeedback, IsVisible, IsActive, TypeOK, Record
    <3> QED BY <1>0, <3>1, <3>2 DEF Records, Record
  <2>3. CASE Compact
    <3>1. [records[j] EXCEPT !.status = "archived"] \in Record
      BY <1>0 DEF Record, Status
    <3> QED BY <1>0, <2>3, <3>1 DEF Compact, Record
  <2>4. ASSUME NEW snapshot \in Snapshots, Restore(snapshot)
        PROVE  FALSE
    BY <2>4 DEF Restore
  <2>5. CASE AwaitEmbeddings \/ BackfillLands \/ BackfillFails \/ BackfillNext
             \/ CooldownElapses \/ Tick
    BY <1>0, <2>5 DEF AwaitEmbeddings, BackfillLands, BackfillFails, BackfillNext,
                      CooldownElapses, Tick
  <2> QED BY <1>3, <2>1, <2>2, <2>3, <2>4, <2>5 DEF StoreSteps
<1>4. ASSUME NEW w \in Writer, EmbedSteps(w)
      PROVE  records'[j] # None /\ records'[j].owner = records[j].owner
  BY <1>0, <1>4 DEF EmbedSteps, EmbedLands, EmbedFails
<1>5. ASSUME NEW s \in Searcher, SearchSteps(s)
      PROVE  records'[j] # None /\ records'[j].owner = records[j].owner
  BY <1>0, <1>5 DEF SearchSteps, SearchStarts, SearchAnswers, SearchDegrades, SearchReturned
<1> QED BY <1>2, <1>3, <1>4, <1>5 DEF Next

\* A step that leaves the searches alone leaves their candidates in their locus.
LEMMA SearchesUndisturbed ==
  ASSUME SearchInv, Next, UNCHANGED searches
  PROVE  (CandidatesInLocus /\ SearchStaysInLocus)'
<1>1. ASSUME NEW s \in Searcher, searches[s].op = "search", NEW i \in searches[s].lexical
      PROVE  records'[i] # None /\ InLocus(records', i, searches[s].owner)
  <2>1. i \in Id
    BY <1>1 DEF SearchInv, TypeOK, Search, Idle, Searching, Answered
  <2>2. records[i] # None /\ InLocus(records, i, searches[s].owner)
    BY <1>1 DEF SearchInv, CandidatesInLocus
  <2> QED BY <2>1, <2>2, OwnersStay DEF InLocus, SearchInv
<1>2. CandidatesInLocus'
  BY <1>1 DEF CandidatesInLocus, InLocus
<1> QED BY <1>2 DEF SearchInv, SearchStaysInLocus

\* What an answer holds of a set of candidates of its locus.
LEMMA AnswerInLocus ==
  ASSUME TypeOK, SearchInv, NEW s \in Searcher, NEW ids,
         \A i \in ids : i \in Id => InLocus(records, i, searches[s].owner),
         searches' = [searches EXCEPT ![s] = [op |-> "answer", owner |-> searches[s].owner,
                                              hits |-> Hits(ids)]],
         UNCHANGED records
  PROVE  (CandidatesInLocus /\ SearchStaysInLocus)'
<1>1. searches'[s] = [op |-> "answer", owner |-> searches[s].owner, hits |-> Hits(ids)]
  BY DEF TypeOK
<1>2. \A t \in Searcher : t # s => searches'[t] = searches[t]
  BY DEF TypeOK
<1>3. CandidatesInLocus'
  BY <1>1, <1>2 DEF SearchInv, CandidatesInLocus, InLocus
<1>4. \A i \in Id : Hits(ids)[i] # None => Locus[Hits(ids)[i].owner] = Locus[searches[s].owner]
  BY DEF Hits, InLocus
<1>5. SearchStaysInLocus'
  BY <1>1, <1>2, <1>4 DEF SearchInv, SearchStaysInLocus
<1> QED BY <1>3, <1>5

\* Every step keeps the answers of all searches inside their loci.
LEMMA SearchStepInLocus ==
  ASSUME SearchInv, NEW s \in Searcher, SearchSteps(s)
  PROVE  (CandidatesInLocus /\ SearchStaysInLocus)'
<1>0. TypeOK
  BY DEF SearchInv
<1>1. ASSUME NEW o \in Owner, NEW t \in Content, SearchStarts(s, o, NormKey[t])
      PROVE  (CandidatesInLocus /\ SearchStaysInLocus)'
  <2>1. /\ searches'[s].op = "search" /\ searches'[s].owner = o
        /\ \A i \in searches'[s].lexical :
             i \in Id /\ IsVisible(records, i, now) /\ InLocus(records, i, o)
    BY <1>0, <1>1 DEF SearchStarts, TypeOK
  <2>2. \A u \in Searcher : u # s => searches'[u] = searches[u]
    BY <1>0, <1>1 DEF SearchStarts, TypeOK
  <2>3. UNCHANGED records
    BY <1>1 DEF SearchStarts
  <2>4. CandidatesInLocus'
    BY <2>1, <2>2, <2>3 DEF SearchInv, CandidatesInLocus, InLocus, IsVisible, IsActive
  <2>5. SearchStaysInLocus'
    BY <2>1, <2>2, <2>3 DEF SearchInv, SearchStaysInLocus
  <2> QED BY <2>4, <2>5
<1>2. ASSUME NEW near \in SUBSET Content, SearchAnswers(s, near)
      PROVE  (CandidatesInLocus /\ SearchStaysInLocus)'
  <2>1. \A i \in searches[s].lexical \cup VectorCandidates(s, near) :
          i \in Id => InLocus(records, i, searches[s].owner)
    BY <1>2 DEF SearchAnswers, SearchInv, CandidatesInLocus, VectorCandidates
  <2> QED BY <1>0, <1>2, <2>1, AnswerInLocus DEF SearchAnswers
<1>3. CASE SearchDegrades(s)
  <2>1. \A i \in searches[s].lexical : i \in Id => InLocus(records, i, searches[s].owner)
    BY <1>3 DEF SearchDegrades, SearchInv, CandidatesInLocus
  <2> QED BY <1>0, <1>3, <2>1, AnswerInLocus DEF SearchDegrades
<1>4. CASE SearchReturned(s)
  <2>1. searches'[s].op = "idle" /\ \A u \in Searcher : u # s => searches'[u] = searches[u]
    BY <1>0, <1>4 DEF SearchReturned, TypeOK, Idle
  <2>2. UNCHANGED records
    BY <1>4 DEF SearchReturned
  <2> QED BY <2>1, <2>2 DEF SearchInv, CandidatesInLocus, SearchStaysInLocus, InLocus
<1> QED BY <1>1, <1>2, <1>3, <1>4 DEF SearchSteps

\* Whatever is written while a search awaits the embedder, its answer holds no record of
\* another visibility locus.
THEOREM SearchesStayInLocus == Spec => []SearchStaysInLocus
<1>1. Init => SearchInv
  BY TypeInit DEF Init, SearchInv, CandidatesInLocus, SearchStaysInLocus, Idle
<1>2. SearchInv /\ [Next]_vars => SearchInv'
  <2> SUFFICES ASSUME SearchInv, [Next]_vars PROVE SearchInv'
    OBVIOUS
  <2>1. TypeOK'
    BY TypeStep DEF SearchInv
  <2>2. CASE \E s \in Searcher : SearchSteps(s)
    BY <2>1, <2>2, SearchStepInLocus DEF SearchInv
  <2>3. CASE Next /\ ~\E s \in Searcher : SearchSteps(s)
    <3>1. UNCHANGED searches
      <4>1. ASSUME NEW w \in Writer, EmbedSteps(w) PROVE UNCHANGED searches
        BY <4>1 DEF EmbedSteps, EmbedLands, EmbedFails
      <4>2. ASSUME NEW w \in Writer, ProviderWrites(w) PROVE UNCHANGED searches
        <5>1. \A i \in Id, o \in Owner, t \in Content, d \in DecayKind :
                Ingest(w, i, o, t, d) => UNCHANGED searches
          BY DEF Ingest
        <5>2. \A i \in Id, o \in Owner, t \in Content, st \in Status :
                Update(w, i, o, t, st) => UNCHANGED searches
          BY DEF Update
        <5>3. ASSUME NEW i \in Id, NEW new \in Id, NEW o \in Owner, NEW p \in Owner,
                     NEW t \in Content, NEW d \in DecayKind,
                     Supersede(w, i, o, new, FreshRecord(p, t, d))
              PROVE  UNCHANGED searches
          BY <5>3 DEF Supersede, SupersedesWith
        <5> QED BY <4>2, <5>1, <5>2, <5>3 DEF ProviderWrites
      <4>3. CASE StoreSteps
        BY <4>3 DEF StoreSteps, Retire, ApplyFeedback, Compact, Restore, AwaitEmbeddings,
                    BackfillLands, BackfillFails, BackfillNext, CooldownElapses, Tick
      <4> QED BY <2>3, <4>1, <4>2, <4>3 DEF Next
    <3> QED BY <2>1, <2>3, <3>1, SearchesUndisturbed DEF SearchInv
  <2>4. CASE UNCHANGED vars
    BY <2>1, <2>4 DEF SearchInv, vars, CandidatesInLocus, SearchStaysInLocus, InLocus
  <2> QED BY <2>2, <2>3, <2>4
<1>3. SearchInv => SearchStaysInLocus
  BY DEF SearchInv
<1> QED BY <1>1, <1>2, <1>3, PTL DEF Spec

(***************************************************************************)
(* Driven by the service one request at a time, the duplicate index finds  *)
(* every visible record.  Two active records may share a key, so the index *)
(* alone does not say so: of two such records one must have expired when   *)
(* the other was created, and what has expired stays so, since only what   *)
(* is visible is ever written again.                                       *)
(***************************************************************************)
Dated(recs, t) ==
  \A i \in Id : recs[i] # None =>
    recs[i].createdAt <= recs[i].lastSeenAt /\ recs[i].lastSeenAt <= t

Succeeds(r, old) == old.createdAt < r.createdAt /\ Expired(old, r.createdAt)

Succession(recs) ==
  \A i \in Id : \A j \in Id \ {i} :
    IsActive(recs, i) /\ IsActive(recs, j) /\ DupKey(recs[i]) = DupKey(recs[j])
      => Succeeds(recs[i], recs[j]) \/ Succeeds(recs[j], recs[i])

Reached(recs, dup, t) == \A i \in Id : IsVisible(recs, i, t) => dup[DupKey(recs[i])] = i

Served(recs, dup, t) == Dated(recs, t) /\ Succession(recs) /\ Reached(recs, dup, t)

ServedInv ==
  /\ TypeOK
  /\ Consistent(records, bm25, dupIndex, vectors)
  /\ Served(records, dupIndex, now)

\* What a store driven this way persists: the invariant says it of its records.
SnapshotsServed ==
  \A s \in Snapshots :
    /\ Succession(s)
    /\ \A i \in Id : s[i] # None => s[i].createdAt <= s[i].lastSeenAt

\* Every record but i that shares the key of r has expired before r was created.
Latest(recs, i, r) ==
  \A j \in Id \ {i} : IsActive(recs, j) /\ DupKey(recs[j]) = DupKey(r) => Succeeds(r, recs[j])

\* What has expired stays expired.
LEMMA ExpiryStays ==
  ASSUME NEW r \in Record, NEW t \in Nat, NEW u \in Nat, t <= u, Expired(r, t)
  PROVE  Expired(r, u)
BY ConstantsAssumption DEF Expired, Anchor, Record

\* A visible record is the latest of its key.
LEMMA VisibleIsLatest ==
  ASSUME NEW recs \in Records, NEW t \in Nat, NEW i \in Id,
         Dated(recs, t), Succession(recs), IsVisible(recs, i, t)
  PROVE  Latest(recs, i, recs[i])
<1> SUFFICES ASSUME NEW j \in Id \ {i}, IsActive(recs, j), DupKey(recs[j]) = DupKey(recs[i])
             PROVE  Succeeds(recs[i], recs[j])
  BY DEF Latest
<1>1. recs[i] \in Record /\ recs[j] \in Record /\ recs[j] # None /\ IsActive(recs, i)
  BY DEF IsVisible, IsActive, Records
<1>2. recs[j].createdAt \in Nat /\ recs[j].createdAt <= t
  BY <1>1 DEF Dated, Record
<1>3. ~Succeeds(recs[j], recs[i])
  BY <1>1, <1>2, ExpiryStays DEF Succeeds, IsVisible
<1> QED BY <1>1, <1>3 DEF Succession

\* So is a record created now, when no visible one has its key.
LEMMA FreshIsLatest ==
  ASSUME NEW recs \in Records, NEW t \in Nat, NEW i \in Id, NEW r \in Record,
         Dated(recs, t), r.createdAt = t,
         \A j \in Id : IsVisible(recs, j, t) => DupKey(recs[j]) # DupKey(r)
  PROVE  Latest(recs, i, r)
<1> SUFFICES ASSUME NEW j \in Id \ {i}, IsActive(recs, j), DupKey(recs[j]) = DupKey(r)
             PROVE  Succeeds(r, recs[j])
  BY DEF Latest
<1>1. recs[j] \in Record /\ recs[j] # None /\ Expired(recs[j], t)
  BY DEF IsVisible, IsActive, Records
<1>2. Anchor(recs[j]) \in Nat /\ recs[j].createdAt <= Anchor(recs[j]) /\ recs[j].createdAt \in Nat
  BY <1>1 DEF Dated, Anchor, Record
<1> QED BY <1>1, <1>2, ConstantsAssumption DEF Succeeds, Expired

\* Storing the latest record of a key keeps the order of the records.
LEMMA SuccessionStays ==
  ASSUME NEW recs \in Records, NEW t \in Nat, NEW i \in Id, NEW r \in Record,
         Dated(recs, t), Succession(recs), r.status = "active" => Latest(recs, i, r),
         r.createdAt <= r.lastSeenAt, r.lastSeenAt <= t
  PROVE  Dated([recs EXCEPT ![i] = r], t) /\ Succession([recs EXCEPT ![i] = r])
<1> DEFINE recs1 == [recs EXCEPT ![i] = r]
<1>1. recs1[i] = r /\ \A j \in Id \ {i} : recs1[j] = recs[j]
  BY DEF Records
<1> HIDE DEF recs1
<1>2. Dated(recs1, t)
  BY <1>1 DEF Dated
<1>3. ASSUME NEW j \in Id, NEW k \in Id \ {j},
             IsActive(recs1, j), IsActive(recs1, k), DupKey(recs1[j]) = DupKey(recs1[k])
      PROVE  Succeeds(recs1[j], recs1[k]) \/ Succeeds(recs1[k], recs1[j])
  <2>1. CASE j = i
    BY <1>1, <1>3, <2>1 DEF Latest, IsActive
  <2>2. CASE k = i
    BY <1>1, <1>3, <2>2 DEF Latest, IsActive
  <2>3. CASE i \notin {j, k}
    BY <1>1, <1>3, <2>3 DEF Succession, IsActive
  <2> QED BY <2>1, <2>2, <2>3
<1>4. Succession(recs1)
  BY <1>3 DEF Succession
<1> QED BY <1>2, <1>4 DEF recs1

\* Indexing it lets the index find every visible record again; so does taking one out.
LEMMA ReachedStays ==
  ASSUME NEW recs \in Records, NEW dup \in Dups, NEW t \in Nat, NEW i \in Id, NEW r \in Record,
         r.status = "active" => Latest(recs, i, r),
         r.createdAt <= t, Reached(recs, dup, t)
  PROVE  Reached([recs EXCEPT ![i] = r], IndexedDup(dup, i, recs[i], r), t)
<1> DEFINE recs1 == [recs EXCEPT ![i] = r]
           dup1 == IndexedDup(dup, i, recs[i], r)
<1>1. recs1[i] = r /\ \A j \in Id \ {i} : recs1[j] = recs[j]
  BY DEF Records
<1> HIDE DEF recs1
<1> SUFFICES ASSUME NEW j \in Id, IsVisible(recs1, j, t) PROVE dup1[DupKey(recs1[j])] = j
  BY DEF Reached, recs1
<1>2. CASE j = i
  BY <1>1, <1>2, DupKeyType DEF IndexedDup, Unindexed, Dups, IsVisible, IsActive
<1>3. CASE j # i
  <2>1. recs[j] \in Record /\ IsVisible(recs, j, t) /\ dup[DupKey(recs[j])] = j
    BY <1>1, <1>3 DEF Reached, Records, IsVisible, IsActive
  <2>2. r.status = "active" => DupKey(recs[j]) # DupKey(r)
    <3>1. r.createdAt \in Nat
      BY DEF Record
    <3> QED BY <1>3, <2>1, <3>1, ExpiryStays DEF Latest, Succeeds, IsVisible
  <2>3. DupKey(recs[j]) \in DupKeys /\ DupKey(r) \in DupKeys
    BY <2>1, DupKeyType
  <2>4. Unindexed(dup, i, recs[i])[DupKey(recs[j])] = j
    BY <1>3, <2>1, <2>3 DEF Unindexed, OwnsEntry, Dups
  <2>5. dup1[DupKey(recs[j])] = j
    BY <2>2, <2>3, <2>4 DEF IndexedDup, Unindexed, Dups
  <2> QED BY <1>1, <1>3, <2>5
<1> QED BY <1>2, <1>3

\* Both, for one record.
LEMMA ServedStored ==
  ASSUME NEW recs \in Records, NEW dup \in Dups, NEW t \in Nat, NEW i \in Id, NEW r \in Record,
         Served(recs, dup, t), r.status = "active" => Latest(recs, i, r),
         r.createdAt <= r.lastSeenAt, r.lastSeenAt <= t
  PROVE  Served([recs EXCEPT ![i] = r], IndexedDup(dup, i, recs[i], r), t)
<1>1. r.createdAt <= t
  BY DEF Record
<1> QED BY <1>1, SuccessionStays, ReachedStays DEF Served

\* A rewrite of a visible record under its key and its creation time.
LEMMA RewriteIsLatest ==
  ASSUME NEW recs \in Records, NEW t \in Nat, NEW i \in Id, NEW r \in Record,
         Dated(recs, t), Succession(recs), IsVisible(recs, i, t),
         r.createdAt = recs[i].createdAt, DupKey(r) = DupKey(recs[i])
  PROVE  Latest(recs, i, r) /\ r.createdAt <= t
<1>1. Latest(recs, i, recs[i])
  BY VisibleIsLatest
<1>2. recs[i] \in Record /\ recs[i] # None
  BY DEF IsVisible, IsActive, Records
<1> QED BY <1>1, <1>2 DEF Latest, Succeeds, Dated, Record

\* index() keeps the store served when it stores the latest record of a key.
LEMMA ServedIndex ==
  ASSUME ServedInv, NEW i \in Id, NEW r \in Record, Index(i, r),
         r.status = "active" => Latest(records, i, r),
         r.createdAt <= r.lastSeenAt, r.lastSeenAt <= now
  PROVE  Served(records', dupIndex', now)
<1>1. records \in Records /\ dupIndex \in Dups /\ now \in Nat
  BY DEF ServedInv, TypeOK, Records, Dups
<1> QED BY <1>1, ServedStored DEF ServedInv, Index

\* What FindDuplicate() finds is visible and has the key asked for; when it finds nothing,
\* nothing visible has it.
LEMMA DuplicateFound ==
  ASSUME ServedInv, NEW k \in DupKeys
  PROVE  LET d == FindDuplicate(k) IN
         /\ d # None => /\ d \in Id /\ IsVisible(records, d, now) /\ records[d] \in Record
                        /\ DupKey(records[d]) = k
         /\ d = None => \A j \in Id : IsVisible(records, j, now) => DupKey(records[j]) # k
<1>1. FindDuplicate(k) # None =>
        /\ FindDuplicate(k) \in Id /\ IsVisible(records, FindDuplicate(k), now)
        /\ records[FindDuplicate(k)] \in Record /\ DupKey(records[FindDuplicate(k)]) = k
  BY DEF FindDuplicate, ServedInv, TypeOK, Consistent, IsVisible, IsActive
<1>2. ASSUME NEW j \in Id, IsVisible(records, j, now), DupKey(records[j]) = k
      PROVE  FindDuplicate(k) # None
  BY <1>2, ConstantsAssumption DEF FindDuplicate, ServedInv, Served, Reached
<1> QED BY <1>1, <1>2

\* An observation reinforces the visible duplicate it finds, or stores a fresh record.
LEMMA ServedObserve ==
  ASSUME ServedInv, NEW w \in Writer, NEW i \in Id, NEW o \in Owner, NEW t \in Content,
         NEW d \in DecayKind, Observe(w, i, o, t, d)
  PROVE  Served(records', dupIndex', now') /\ ProviderWrites(w)
<1> DEFINE k == <<Locus[o], NormKey[t]>>
           dup == FindDuplicate(k)
<1>0. k \in DupKeys /\ now \in Nat /\ records \in Records
  BY DEF DupKeys, ServedInv, TypeOK, Records
<1>1. CASE dup # None
  <2> DEFINE r == Rewritten(dup, records[dup].owner, records[dup].content, "active")
  <2>1. Update(w, dup, records[dup].owner, records[dup].content, "active")
    BY <1>1 DEF Observe, Reinforce
  <2>2. dup \in Id /\ IsVisible(records, dup, now) /\ records[dup] \in Record
    BY <1>0, <1>1, DuplicateFound
  <2> HIDE DEF dup
  <2>3. /\ r \in Record /\ r.createdAt = records[dup].createdAt /\ DupKey(r) = DupKey(records[dup])
        /\ r.lastSeenAt = now
    BY <1>0, <2>2 DEF Rewritten, Record, Status, DupKey
  <2>4. Index(dup, r) /\ now' = now
    BY <2>1 DEF Update
  <2> HIDE DEF r
  <2>5. Latest(records, dup, r) /\ r.createdAt <= now
    BY <1>0, <2>2, <2>3, RewriteIsLatest DEF ServedInv, Served
  <2>6. ProviderWrites(w)
    BY <2>1, <2>2 DEF ProviderWrites, Record, Status
  <2> QED BY <1>0, <2>2, <2>3, <2>4, <2>5, <2>6, ServedIndex
<1>2. CASE dup = None
  <2> DEFINE r == FreshRecord(o, t, d)
  <2>1. Ingest(w, i, o, t, d)
    BY <1>2 DEF Observe
  <2>2. /\ r \in Record /\ r.createdAt = now /\ r.lastSeenAt = now /\ DupKey(r) = k
    BY <1>0 DEF FreshRecord, Record, Status, DupKey
  <2>3. Index(i, r) /\ now' = now
    BY <2>1 DEF Ingest
  <2>4. \A j \in Id : IsVisible(records, j, now) => DupKey(records[j]) # k
    BY <1>0, <1>2, DuplicateFound
  <2> HIDE DEF r, k, dup
  <2>5. Latest(records, i, r)
    BY <1>0, <2>2, <2>4, FreshIsLatest DEF ServedInv, Served
  <2>6. ProviderWrites(w)
    BY <2>1 DEF ProviderWrites
  <2> QED BY <1>0, <2>2, <2>3, <2>5, <2>6, ServedIndex
<1> QED BY <1>1, <1>2

\* A correction stores its replacement in the visible duplicate or anew, then retires the
\* memory it corrects.
LEMMA ServedCorrect ==
  ASSUME ServedInv, NEW w \in Writer, NEW i \in Id, NEW o \in Owner, NEW new \in Id,
         NEW t \in Content, Correct(w, i, o, new, t)
  PROVE  Served(records', dupIndex', now') /\ ProviderWrites(w)
<1> DEFINE r == FreshRecord(records[i].owner, t, records[i].decay)
           dup == FindDuplicate(DupKey(r))
           saved == IF dup # None THEN dup ELSE new
           kept == IF dup # None THEN Reused(dup, r) ELSE r
           gone == Superseded(i, saved)
           recs1 == [records EXCEPT ![saved] = kept]
           dup1 == IndexedDup(dupIndex, saved, records[saved], kept)
<1>1. /\ now \in Nat /\ records \in Records /\ dupIndex \in Dups
      /\ records[i] \in Record /\ IsVisible(records, i, now)
  BY DEF ServedInv, TypeOK, Records, Dups, Correct, Supersede, SupersedesWith, IsVisible, IsActive
<1>2. /\ r \in Record /\ r.createdAt = now /\ r.lastSeenAt = now /\ r.status = "active"
  BY <1>1 DEF FreshRecord, Record, Status
<1>3. Supersede(w, i, o, new, r) /\ records[i].owner \in Owner /\ records[i].decay \in DecayKind
  BY <1>1 DEF Correct, Record
<1>4. ProviderWrites(w)
  BY <1>3 DEF ProviderWrites
<1>5. /\ records' = [records EXCEPT ![saved] = kept, ![i] = gone]
      /\ dupIndex' = IndexedDup(dup1, i, records[i], gone)
      /\ now' = now /\ records[new] = None
      /\ ~SameText(r.content, records[i].content)
  BY <1>3 DEF Supersede, SupersedesWith, IdFree
<1> HIDE DEF r
<1>6. DupKey(r) \in DupKeys
  BY <1>2, DupKeyType
<1>7. /\ saved \in Id /\ kept \in Record /\ kept.createdAt <= kept.lastSeenAt
      /\ kept.lastSeenAt = now /\ Latest(records, saved, kept) /\ saved # i
  <2>1. CASE dup # None
    <3>1. /\ dup \in Id /\ IsVisible(records, dup, now) /\ records[dup] \in Record
          /\ DupKey(records[dup]) = DupKey(r)
      BY <1>6, <2>1, DuplicateFound
    <3>2. /\ Reused(dup, r) \in Record /\ DupKey(Reused(dup, r)) = DupKey(records[dup])
          /\ Reused(dup, r).createdAt = records[dup].createdAt
          /\ Reused(dup, r).lastSeenAt = now
      BY <1>2, <3>1 DEF Reused, Record, DupKey
    <3>3. dup # i
      BY <1>5, <3>1 DEF SameText, DupKey
    <3> HIDE DEF dup
    <3>4. Latest(records, dup, Reused(dup, r)) /\ Reused(dup, r).createdAt <= now
      BY <1>1, <3>1, <3>2, RewriteIsLatest DEF ServedInv, Served
    <3> QED BY <2>1, <3>1, <3>2, <3>3, <3>4
  <2>2. CASE dup = None
    <3>1. \A j \in Id : IsVisible(records, j, now) => DupKey(records[j]) # DupKey(r)
      BY <1>6, <2>2, DuplicateFound
    <3>2. Latest(records, new, r)
      BY <1>1, <1>2, <3>1, FreshIsLatest DEF ServedInv, Served
    <3>3. new # i
      BY <1>1, <1>5 DEF IsVisible, IsActive
    <3> QED BY <1>1, <1>2, <2>2, <3>2, <3>3
  <2> QED BY <2>1, <2>2
<1>8. /\ gone \in Record /\ gone.status = "superseded"
      /\ gone.createdAt = records[i].createdAt /\ gone.lastSeenAt = records[i].lastSeenAt
  BY <1>1, <1>7 DEF Superseded, Record, Status
<1>9. gone.createdAt <= gone.lastSeenAt /\ gone.lastSeenAt <= now
  BY <1>1, <1>8 DEF ServedInv, Served, Dated, IsVisible, IsActive
<1> HIDE DEF dup, saved, kept, gone
<1>10. Served(recs1, dup1, now)
  BY <1>1, <1>7, ServedStored DEF ServedInv
<1>11. recs1 \in Records /\ dup1 \in Dups /\ recs1[i] = records[i]
  <2>1. bm25 \in Texts /\ vectors \in Texts
    BY DEF ServedInv, TypeOK
  <2>2. recs1 \in Records /\ dup1 \in Dups
    BY <1>1, <1>7, <2>1, IndexedType
  <2> QED BY <1>1, <1>7, <2>2 DEF Records
<1> HIDE DEF dup1
<1>12. Served([recs1 EXCEPT ![i] = gone], IndexedDup(dup1, i, recs1[i], gone), now)
  BY <1>1, <1>8, <1>9, <1>10, <1>11, ServedStored
<1>13. records' = [recs1 EXCEPT ![i] = gone] /\ dupIndex' = IndexedDup(dup1, i, recs1[i], gone)
  BY <1>5, <1>11
<1> QED BY <1>4, <1>5, <1>12, <1>13

\* Time passes: fewer records are visible, and the index still finds them.
LEMMA ServedLater ==
  ASSUME NEW recs \in Records, NEW dup, NEW t \in Nat, NEW u \in Nat, t <= u, Served(recs, dup, t)
  PROVE  Served(recs, dup, u)
<1>1. \A i \in Id : recs[i] # None => recs[i] \in Record
  BY DEF Records
<1>2. Dated(recs, u)
  BY <1>1 DEF Served, Dated, Record
<1>3. \A i \in Id : IsVisible(recs, i, u) => IsVisible(recs, i, t)
  BY <1>1, ExpiryStays DEF IsVisible, IsActive
<1> QED BY <1>2, <1>3 DEF Served, Reached

\* A snapshot is indexed in the order of creation: the index finds its visible records.
LEMMA ServedRestore ==
  ASSUME ServedInv, SnapshotsServed, NEW s \in Snapshots, Restore(s)
  PROVE  Served(records', dupIndex', now')
<1>1. /\ s \in Records /\ now \in Nat /\ records' = s /\ now' = now
      /\ dupIndex' \in RestoredDup(s)
      /\ \A i \in Id : s[i] # None => s[i].lastSeenAt <= now
  BY ConstantsAssumption DEF Restore, ServedInv, TypeOK, Records
<1>2. Dated(s, now) /\ Succession(s)
  BY <1>1 DEF SnapshotsServed, Dated
<1>3. ASSUME NEW i \in Id, IsVisible(s, i, now)
      PROVE  dupIndex'[DupKey(s[i])] = i
  <2> DEFINE k == DupKey(s[i])
  <2>1. s[i] \in Record /\ k \in DupKeys /\ i \in Holders(s, k)
    BY <1>1, <1>3, DupKeyType DEF IsVisible, IsActive, Records, Holders
  <2>2. dupIndex'[k] \in Newest(s, Holders(s, k))
    BY <1>1, <2>1 DEF RestoredDup
  <2> HIDE DEF k
  <2>3. ASSUME NEW j \in Newest(s, Holders(s, k)), j # i
        PROVE  FALSE
    <3>1. j \in Id /\ IsActive(s, j) /\ DupKey(s[j]) = k /\ s[i].createdAt <= s[j].createdAt
      BY <2>1, <2>3 DEF Newest, Holders
    <3>2. s[j] \in Record /\ s[i].createdAt \in Nat /\ s[j].createdAt \in Nat
      BY <1>1, <2>1, <3>1 DEF IsActive, Records, Record
    <3>3. Latest(s, i, s[i])
      BY <1>1, <1>2, <1>3, VisibleIsLatest
    <3>4. s[j].createdAt < s[i].createdAt
      BY <2>3, <3>1, <3>3 DEF Latest, Succeeds, k
    <3> QED BY <3>1, <3>2, <3>4
  <2> QED BY <2>2, <2>3 DEF k
<1>4. Reached(s, dupIndex', now)
  BY <1>3 DEF Reached
<1> QED BY <1>1, <1>2, <1>4 DEF Served

\* Compaction takes records out of the active set, and their entries out of the index.
LEMMA ServedCompact ==
  ASSUME ServedInv, Compact
  PROVE  Served(records', dupIndex', now')
<1>1. records \in Records /\ now' = now
  BY DEF ServedInv, TypeOK, Records, Compact
<1>2. ASSUME NEW j \in Id, records'[j] # None
      PROVE  /\ records[j] # None
             /\ records'[j].createdAt = records[j].createdAt
             /\ records'[j].lastSeenAt = records[j].lastSeenAt
             /\ IsActive(records', j) => records'[j] = records[j] /\ ~Compactable(j)
  <2>1. records[j] # None
    BY <1>2 DEF Compact, Compactable
  <2>2. records[j] \in Record
    BY <1>1, <2>1 DEF Records
  <2>3. CASE Compactable(j)
    <3>1. records'[j] = [records[j] EXCEPT !.status = "archived"]
      BY <2>3 DEF Compact
    <3> QED BY <2>1, <2>2, <3>1 DEF IsActive, Record
  <2>4. CASE ~Compactable(j)
    BY <2>1, <2>4 DEF Compact
  <2> QED BY <2>3, <2>4
<1>3. Dated(records', now)
  BY <1>2 DEF Dated, ServedInv, Served
<1>4. Succession(records')
  BY <1>2 DEF Succession, ServedInv, Served, IsActive
<1>5. ASSUME NEW j \in Id, IsVisible(records', j, now)
      PROVE  dupIndex'[DupKey(records'[j])] = j
  <2>1. records'[j] = records[j] /\ ~Compactable(j) /\ IsVisible(records, j, now)
    BY <1>2, <1>5 DEF IsVisible, IsActive
  <2>2. records[j] \in Record /\ dupIndex[DupKey(records[j])] = j
    BY <1>1, <2>1 DEF ServedInv, Served, Reached, IsVisible, IsActive, Records
  <2>3. DupKey(records[j]) \in DupKeys
    BY <2>2, DupKeyType
  <2> QED BY <2>1, <2>2, <2>3 DEF Compact, OwnsEntry
<1>6. Reached(records', dupIndex', now)
  BY <1>5 DEF Reached
<1> QED BY <1>1, <1>3, <1>4, <1>6 DEF Served

\* Every other step of the store keeps it served.
LEMMA ServedStore ==
  ASSUME ServedInv, SnapshotsServed, StoreSteps
  PROVE  Served(records', dupIndex', now')
<1>0. records \in Records /\ dupIndex \in Dups /\ now \in Nat
  BY DEF ServedInv, TypeOK, Records, Dups
<1>1. ASSUME NEW i \in Id, NEW o \in Owner, NEW s \in Status \ {"active"}, Retire(i, o, s)
      PROVE  Served(records', dupIndex', now')
  <2> DEFINE r == [records[i] EXCEPT !.status = s]
  <2>1. records[i] \in Record /\ records[i] # None
    BY <1>1 DEF Retire, IsVisible, IsActive, ServedInv, TypeOK
  <2>2. /\ r \in Record /\ r.status # "active"
        /\ r.createdAt = records[i].createdAt /\ r.lastSeenAt = records[i].lastSeenAt
    BY <2>1 DEF Record
  <2>3. Index(i, r) /\ now' = now
    BY <1>1 DEF Retire
  <2>4. records[i].createdAt <= records[i].lastSeenAt /\ records[i].lastSeenAt <= now
    BY <2>1 DEF ServedInv, Served, Dated
  <2> HIDE DEF r
  <2> QED BY <2>2, <2>3, <2>4, ServedIndex
<1>2. ASSUME NEW i \in Id, NEW o \in Owner, ApplyFeedback(i, o)
      PROVE  Served(records', dupIndex', now')
  <2> DEFINE r == [records[i] EXCEPT !.lastSeenAt = now]
  <2>1. IsVisible(records, i, now) /\ records[i] \in Record
    BY <1>2 DEF ApplyFeedback, IsVisible, IsActive, ServedInv, TypeOK
  <2>2. /\ r \in Record /\ r.createdAt = records[i].createdAt
        /\ r.lastSeenAt = now /\ DupKey(r) = DupKey(records[i])
    BY <1>0, <2>1 DEF Record, DupKey
  <2>3. records' = [records EXCEPT ![i] = r] /\ dupIndex' = dupIndex /\ now' = now
    BY <1>2 DEF ApplyFeedback
  <2> HIDE DEF r
  <2>4. Latest(records, i, r) /\ r.createdAt <= now
    BY <1>0, <2>1, <2>2, RewriteIsLatest DEF ServedInv, Served
  <2>5. Dated(records', now) /\ Succession(records')
    <3>1. r.createdAt <= r.lastSeenAt /\ r.lastSeenAt <= now
      BY <1>0, <2>2, <2>4
    <3>2. i \in Id
      OBVIOUS
    <3> QED BY <1>0, <2>2, <2>3, <2>4, <3>1, <3>2, SuccessionStays DEF ServedInv, Served
  <2>6. Reached(records', dupIndex, now)
    BY <1>0, <2>1, <2>2, <2>3 DEF Reached, ServedInv, Served, IsVisible, IsActive, Records
  <2> QED BY <2>3, <2>5, <2>6 DEF Served
<1>3. CASE Compact
  BY <1>3, ServedCompact
<1>4. ASSUME NEW s \in Snapshots, Restore(s)
      PROVE  Served(records', dupIndex', now')
  BY <1>4, ServedRestore
<1>5. CASE Tick
  BY <1>0, <1>5, ServedLater DEF Tick, ServedInv
<1>6. CASE AwaitEmbeddings \/ BackfillLands \/ BackfillFails \/ BackfillNext \/ CooldownElapses
  <2>1. records' = records /\ dupIndex' = dupIndex /\ now' = now
    BY <1>6 DEF AwaitEmbeddings, BackfillLands, BackfillFails, BackfillNext, CooldownElapses
  <2> QED BY <2>1 DEF ServedInv
<1> QED BY <1>1, <1>2, <1>3, <1>4, <1>5, <1>6 DEF StoreSteps

\* Every step of the store as the service drives it is one of the provider's, and keeps it
\* served.
LEMMA ServedStep ==
  ASSUME SnapshotsServed
  PROVE  ServedInv /\ [ServiceNext]_vars => ServedInv' /\ [Next]_vars
<1> SUFFICES ASSUME ServedInv, [ServiceNext]_vars PROVE ServedInv' /\ [Next]_vars
  OBVIOUS
<1>1. Served(records', dupIndex', now') /\ [Next]_vars
  <2>1. ASSUME NEW w \in Writer, ServiceWrites(w)
        PROVE  Served(records', dupIndex', now') /\ Next
    BY <2>1, ServedObserve, ServedCorrect DEF ServiceWrites, Next
  <2>2. CASE \/ \E w \in Writer : EmbedSteps(w)
             \/ \E s \in Searcher : SearchSteps(s)
             \/ UNCHANGED vars
    <3>1. records' = records /\ dupIndex' = dupIndex /\ now' = now
      BY <2>2 DEF EmbedSteps, EmbedLands, EmbedFails, SearchSteps, SearchStarts, SearchAnswers,
         SearchDegrades, SearchReturned, vars
    <3> QED BY <2>2, <3>1 DEF ServedInv, Next
  <2>3. CASE StoreSteps
    BY <2>3, ServedStore DEF Next
  <2> QED BY <2>1, <2>2, <2>3 DEF ServiceNext
<1>2. Served(records, dupIndex, now)'
  BY <1>1 DEF Served, Dated, Succession, Reached, Succeeds, Expired, Anchor, IsVisible, IsActive,
     DupKey
<1> QED BY <1>1, <1>2, TypeStep, ConsistentStep DEF ServedInv

\* An empty store is served.
LEMMA ServedInit == Init => ServedInv
<1> SUFFICES ASSUME Init PROVE ServedInv
  OBVIOUS
<1>1. Served(records, dupIndex, now)
  BY DEF Init, Served, Dated, Succession, Reached, IsVisible, IsActive
<1> QED BY <1>1, TypeInit, ConsistentInit DEF ServedInv

\* While requests do not overlap, findDuplicate() finds every visible memory, so no two of
\* them ever say the same in one locus.
THEOREM DuplicatesAreFound ==
  ASSUME SnapshotsServed
  PROVE  ServiceSpec => []DedupeFindsEveryVisible
<1>1. ServedInv => DedupeFindsEveryVisible
  <2> SUFFICES ASSUME ServedInv, NEW i \in Id, IsVisible(records, i, now)
               PROVE  FindDuplicate(DupKey(records[i])) = i
    BY DEF DedupeFindsEveryVisible
  <2>1. dupIndex[DupKey(records[i])] = i
    BY DEF ServedInv, Served, Reached
  <2> QED BY <2>1, ConstantsAssumption DEF FindDuplicate
<1> QED BY <1>1, ServedInit, ServedStep, PTL DEF ServiceSpec

\* What such a store holds is what a later one may load: no persisted snapshot of it breaks
\* the order of creation and expiry that SnapshotsServed asks for.
THEOREM PersistedIsServed ==
  ASSUME SnapshotsServed
  PROVE  ServiceSpec => [](/\ Succession(records)
                           /\ \A i \in Id : records[i] # None =>
                                records[i].createdAt <= records[i].lastSeenAt)
<1> DEFINE Persisted == /\ Succession(records)
                        /\ \A i \in Id : records[i] # None =>
                             records[i].createdAt <= records[i].lastSeenAt
<1>1. ServedInv => Persisted
  BY DEF ServedInv, Served, Dated
<1> HIDE DEF Persisted
<1>2. ServiceSpec => []Persisted
  BY <1>1, ServedInit, ServedStep, PTL DEF ServiceSpec
<1> QED BY <1>2 DEF Persisted

\* No step of the service brings a retired memory back.
LEMMA RetiredStays ==
  ASSUME ServedInv, [ServiceNext]_vars, NEW j \in Id,
         records[j] # None, records[j].status # "active"
  PROVE  records'[j].status # "active"
<1>0. records \in Records /\ records[j] \in Record
  BY DEF ServedInv, TypeOK, Records
<1>1. ASSUME NEW i \in Id, NEW r, Index(i, r), i = j => r.status # "active"
      PROVE  records'[j].status # "active"
  BY <1>0, <1>1 DEF Index, Records
<1>2. ASSUME NEW w \in Writer, NEW i \in Id, NEW o \in Owner, NEW t \in Content,
             NEW d \in DecayKind, Observe(w, i, o, t, d)
      PROVE  records'[j].status # "active"
  <2> DEFINE dup == FindDuplicate(<<Locus[o], NormKey[t]>>)
  <2>1. dup # None => dup \in Id /\ dup # j
    BY DuplicateFound DEF DupKeys, IsVisible, IsActive
  <2> HIDE DEF dup
  <2>2. CASE dup # None
    BY <1>1, <1>2, <2>1, <2>2 DEF Observe, dup, Reinforce, Update
  <2>3. CASE dup = None
    BY <1>1, <1>2, <2>3 DEF Observe, dup, Ingest
  <2> QED BY <2>2, <2>3
<1>3. ASSUME NEW w \in Writer, NEW i \in Id, NEW o \in Owner, NEW new \in Id, NEW t \in Content,
             Correct(w, i, o, new, t)
      PROVE  records'[j].status # "active"
  <2> DEFINE r == FreshRecord(records[i].owner, t, records[i].decay)
             dup == FindDuplicate(DupKey(r))
             saved == IF dup # None THEN dup ELSE new
             kept == IF dup # None THEN Reused(dup, r) ELSE r
             gone == Superseded(i, saved)
  <2>1. /\ records' = [records EXCEPT ![saved] = kept, ![i] = gone]
        /\ records[new] = None /\ IsActive(records, i)
    BY <1>3 DEF Correct, Supersede, SupersedesWith, IdFree, IsVisible
  <2>2. DupKey(r) \in DupKeys
    <3>1. records[i] \in Record
      BY <1>0, <2>1 DEF Records, IsActive
    <3> QED BY <3>1 DEF FreshRecord, DupKey, DupKeys, Record
  <2>3. dup # None => dup # j
    BY <2>2, DuplicateFound DEF IsVisible, IsActive
  <2> HIDE DEF dup, kept, gone, r
  <2>4. i # j /\ saved # j
    BY <2>1, <2>3 DEF IsActive
  <2> HIDE DEF saved
  <2> QED BY <1>0, <2>1, <2>4 DEF Records
<1>4. CASE StoreSteps
  <2>1. ASSUME NEW i \in Id, NEW o \in Owner, NEW s \in Status \ {"active"}, Retire(i, o, s)
        PROVE  records'[j].status # "active"
    <3>1. records[i] \in Record
      BY <2>1 DEF Retire, IsVisible, IsActive, ServedInv, TypeOK
    <3>2. [records[i] EXCEPT !.status = s].status # "active"
      BY <3>1 DEF Record
    <3> QED BY <1>1, <2>1, <3>2 DEF Retire
  <2>2. ASSUME NEW i \in Id, NEW o \in Owner, ApplyFeedback(i, o)
        PROVE  records'[j].status # "active"
    BY <1>0, <2>2 DEF ApplyFeedback, IsVisible, IsActive, Records
  <2>3. CASE Compact
    BY <1>0, <2>3 DEF Compact, Record
  <2>4. ASSUME NEW s \in Snapshots, Restore(s)
        PROVE  FALSE
    BY <2>4 DEF Restore
  <2>5. CASE AwaitEmbeddings \/ BackfillLands \/ BackfillFails \/ BackfillNext
             \/ CooldownElapses \/ Tick
    BY <2>5 DEF AwaitEmbeddings, BackfillLands, BackfillFails, BackfillNext, CooldownElapses, Tick
  <2> QED BY <1>4, <2>1, <2>2, <2>3, <2>4, <2>5 DEF StoreSteps
<1>5. CASE \/ \E w \in Writer : EmbedSteps(w)
           \/ \E s \in Searcher : SearchSteps(s)
           \/ UNCHANGED vars
  BY <1>5 DEF EmbedSteps, EmbedLands, EmbedFails, SearchSteps, SearchStarts, SearchAnswers,
     SearchDegrades, SearchReturned, vars
<1> QED BY <1>2, <1>3, <1>4, <1>5 DEF ServiceNext, ServiceWrites

\* A memory that left the active set never returns to it.
THEOREM RetirementLasts ==
  ASSUME SnapshotsServed
  PROVE  ServiceSpec => RetirementIsFinal
<1>1. ServedInv /\ [ServiceNext]_vars =>
        [\A i \in Id : records[i] # None /\ records[i].status # "active"
                         => records'[i].status # "active"]_vars
  BY RetiredStays
<1> QED BY <1>1, ServedInit, ServedStep, PTL DEF ServiceSpec, RetirementIsFinal
=============================================================================
