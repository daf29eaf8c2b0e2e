------------------------- MODULE MemoryService_proofs -------------------------
(***************************************************************************)
(* What overlapping corrections and observations leave behind, for every   *)
(* set of ids, owners, texts and writers: links lead to stored memories,   *)
(* replies tell what was written, and a provider that corrects atomically  *)
(* keeps chains that end and histories that forget nothing.                *)
(***************************************************************************)
EXTENDS MemoryService, InMemoryProvider_proofs

Histories == [Id -> SUBSET Id]
AnyRequest ==
  {Idle} \cup Observing \cup Correcting \cup Replacing \cup Retiring \cup Replied
Requests == [Writer -> AnyRequest]

(***************************************************************************)
(* The inductive invariant.  No write removes a record or changes its      *)
(* owner or its text, so what a request read before an await still tells   *)
(* whose the record is and what it says, if not its status.                *)
(***************************************************************************)
RecordLinks(recs, i) ==
  /\ IsActive(recs, i) => recs[i].supersededBy = None
  /\ recs[i] # None /\ recs[i].supersededBy # None =>
       LET by == recs[i].supersededBy IN
       by # i /\ recs[by] # None /\ InLocus(recs, i, recs[by].owner)

Fresh(r) == r.status = "active" /\ r.supersededBy = None

CopyHolds(recs, found) ==
  /\ recs[found.id] # None
  /\ found.record.owner = recs[found.id].owner
  /\ found.record.content = recs[found.id].content
  /\ Fresh(found.record)

CorrectsOther(recs, r) ==
  /\ recs[r.id] # None
  /\ r.candidate.owner = recs[r.id].owner
  /\ ~SameText(r.candidate.content, recs[r.id].content)

\* What a request carries from one await to the next still holds of the records.
RequestSound(recs, r) ==
  /\ r.op \in {"observe", "correct", "replace"} => Fresh(r.candidate)
  /\ r.op \in {"observe", "replace"} => (r.dup # None => CopyHolds(recs, r.dup))
  /\ r.op \in {"correct", "replace"} => CorrectsOther(recs, r)
  /\ r.op = "replace" => (r.dup # None => DupKey(r.dup.record) = DupKey(r.candidate))
  /\ r.op = "retire" =>
       /\ r.saved # r.id
       /\ recs[r.id] # None /\ recs[r.saved] # None
       /\ InLocus(recs, r.id, recs[r.saved].owner)
  /\ r.op = "reply" => (r.wrote => r.result \in {"updated", "partial", "error"})

RequestInv ==
  /\ RequestTypeOK
  /\ Consistent(records, bm25, dupIndex, vectors)
  /\ \A i \in Id : RecordLinks(records, i)
  /\ \A q \in Writer : RequestSound(records, requests[q])

\* What a store persists and reloads has links of the same form.
SnapshotsLinked == \A s \in Snapshots, i \in Id : RecordLinks(s, i)

\* From recs to recs2 no record is removed, moved to another owner or given another text.
Kept(recs, recs2) ==
  \A j \in Id : recs[j] # None =>
    recs2[j] # None /\ recs2[j].owner = recs[j].owner /\ recs2[j].content = recs[j].content

(***************************************************************************)
(* The records: what is kept, and that links lead.                         *)
(***************************************************************************)

\* What a request carries stays true as long as the records are kept.
LEMMA SoundStays ==
  ASSUME NEW recs, NEW recs2, Kept(recs, recs2), NEW r \in AnyRequest, RequestSound(recs, r)
  PROVE  RequestSound(recs2, r)
<1>1. CASE r = Idle
  BY <1>1 DEF Idle, RequestSound
<1>2. CASE r \in Observing
  BY <1>2 DEF Observing, Found, RequestSound, CopyHolds, Kept
<1>3. CASE r \in Correcting
  BY <1>3 DEF Correcting, RequestSound, CorrectsOther, Kept
<1>4. CASE r \in Replacing
  BY <1>4 DEF Replacing, Found, RequestSound, CopyHolds, CorrectsOther, Kept
<1>5. CASE r \in Retiring
  BY <1>5 DEF Retiring, RequestSound, InLocus, Kept
<1>6. CASE r \in Replied
  BY <1>6 DEF Replied, RequestSound
<1> QED BY <1>1, <1>2, <1>3, <1>4, <1>5, <1>6 DEF AnyRequest

\* What may be stored under an id: the same owner and text as before, and if it is linked,
\* a link that leads.
Storable(recs, i, r) ==
  /\ recs[i] # None => r.owner = recs[i].owner /\ r.content = recs[i].content
  /\ r.status = "active" => r.supersededBy = None
  /\ r.supersededBy # None =>
       LET by == r.supersededBy IN
       by # i /\ recs[by] # None /\ Locus[r.owner] = Locus[recs[by].owner]

\* Storing such a record keeps the others and all links.
LEMMA StoredLinks ==
  ASSUME NEW recs \in Records, \A j \in Id : RecordLinks(recs, j),
         NEW i \in Id, NEW r \in Record, Storable(recs, i, r)
  PROVE  /\ Kept(recs, [recs EXCEPT ![i] = r])
         /\ \A j \in Id : RecordLinks([recs EXCEPT ![i] = r], j)
<1> DEFINE recs2 == [recs EXCEPT ![i] = r]
<1>1. r # None /\ recs2[i] = r /\ \A j \in Id \ {i} : recs2[j] = recs[j]
  BY ConstantsAssumption DEF Records
<1>2. \A j \in Id : recs[j] # None => recs[j] \in Record /\ recs[j].supersededBy \in Id \cup {None}
  BY DEF Records, Record
<1>3. r.supersededBy \in Id \cup {None}
  BY DEF Record
<1> HIDE DEF recs2
<1>4. Kept(recs, recs2)
  BY <1>1 DEF Storable, Kept
<1>5. ASSUME NEW j \in Id PROVE RecordLinks(recs2, j)
  <2>1. CASE j = i
    BY <1>1, <1>3, <1>4, <2>1 DEF Storable, RecordLinks, IsActive, InLocus, Kept
  <2>2. CASE j # i
    BY <1>1, <1>2, <1>4, <2>2 DEF RecordLinks, IsActive, InLocus, Kept
  <2> QED BY <2>1, <2>2
<1> QED BY <1>4, <1>5 DEF recs2

(***************************************************************************)
(* The provider's own steps.                                               *)
(***************************************************************************)

\* Retirement, feedback, compaction, restore and the backfill keep records and links.
LEMMA StoreLinks ==
  ASSUME SnapshotsLinked, TypeOK, \A j \in Id : RecordLinks(records, j), StoreSteps
  PROVE  Kept(records, records') /\ \A j \in Id : RecordLinks(records', j)
<1>1. ASSUME NEW i \in Id, NEW o \in Owner, NEW s \in Status \ {"active"}, Retire(i, o, s)
      PROVE  Kept(records, records') /\ \A j \in Id : RecordLinks(records', j)
  <2> DEFINE r == [records[i] EXCEPT !.status = s]
  <2>1. records[i] \in Record /\ records[i] # None /\ records \in Records
    BY <1>1 DEF Retire, IsVisible, IsActive, TypeOK, Records
  <2>2. /\ r \in Record
        /\ r.owner = records[i].owner /\ r.content = records[i].content
        /\ r.supersededBy = records[i].supersededBy /\ r.status = s
    BY <2>1 DEF Record
  <2>3. RecordLinks(records, i) /\ IsActive(records, i)
    BY <1>1 DEF Retire, IsVisible
  <2>4. records' = [records EXCEPT ![i] = r]
    BY <1>1 DEF Retire, Index
  <2> HIDE DEF r
  <2>5. Storable(records, i, r)
    BY <2>2, <2>3 DEF Storable, RecordLinks
  <2> QED BY <2>1, <2>2, <2>4, <2>5, StoredLinks
<1>2. ASSUME NEW i \in Id, NEW o \in Owner, ApplyFeedback(i, o)
      PROVE  Kept(records, records') /\ \A j \in Id : RecordLinks(records', j)
  <2> DEFINE r == [records[i] EXCEPT !.lastSeenAt = now]
  <2>1. records[i] \in Record /\ records[i] # None /\ records \in Records
    BY <1>2 DEF ApplyFeedback, IsVisible, IsActive, TypeOK, Records
  <2>2. /\ r \in Record
        /\ r.owner = records[i].owner /\ r.content = records[i].content
        /\ r.supersededBy = records[i].supersededBy
    BY <2>1 DEF Record, TypeOK
  <2>3. RecordLinks(records, i) /\ IsActive(records, i)
    BY <1>2 DEF ApplyFeedback, IsVisible
  <2>4. records' = [records EXCEPT ![i] = r]
    BY <1>2 DEF ApplyFeedback
  <2> HIDE DEF r
  <2>5. Storable(records, i, r)
    BY <2>2, <2>3 DEF Storable, RecordLinks
  <2> QED BY <2>1, <2>2, <2>4, <2>5, StoredLinks
<1>3. CASE Compact
  <2>1. ASSUME NEW j \in Id
        PROVE  /\ records'[j] = None <=> records[j] = None
               /\ records[j] # None => /\ records'[j].owner = records[j].owner
                                       /\ records'[j].content = records[j].content
                                       /\ records'[j].supersededBy = records[j].supersededBy
               /\ IsActive(records', j) => IsActive(records, j)
    <3>1. CASE Compactable(j)
      <4> DEFINE r == [records[j] EXCEPT !.status = "archived"]
      <4>1. records[j] \in Record /\ records[j] # None
        BY <3>1 DEF Compactable, TypeOK
      <4>2. /\ r \in Record /\ r.status = "archived"
            /\ r.owner = records[j].owner /\ r.content = records[j].content
            /\ r.supersededBy = records[j].supersededBy
        BY <4>1 DEF Record, Status
      <4>3. records'[j] = r
        BY <1>3, <3>1 DEF Compact
      <4> HIDE DEF r
      <4> QED BY <4>1, <4>2, <4>3, ConstantsAssumption DEF IsActive
    <3>2. CASE ~Compactable(j)
      BY <1>3, <3>2 DEF Compact, IsActive
    <3> QED BY <3>1, <3>2
  <2>2. \A j \in Id : records[j] # None => records[j].supersededBy \in Id \cup {None}
    BY DEF TypeOK, Record
  <2> QED BY <2>1, <2>2 DEF Kept, RecordLinks, InLocus
<1>4. ASSUME NEW snapshot \in Snapshots, Restore(snapshot)
      PROVE  Kept(records, records') /\ \A j \in Id : RecordLinks(records', j)
  BY <1>4 DEF Restore, Kept, SnapshotsLinked
<1>5. CASE AwaitEmbeddings \/ BackfillLands \/ BackfillFails \/ BackfillNext
           \/ CooldownElapses \/ Tick
  <2>1. records' = records
    BY <1>5 DEF AwaitEmbeddings, BackfillLands, BackfillFails, BackfillNext, CooldownElapses, Tick
  <2> QED BY <2>1 DEF Kept
<1> QED BY <1>1, <1>2, <1>3, <1>4, <1>5 DEF StoreSteps

\* The steps of the store and of its embedder keep the invariant.
LEMMA OtherInv ==
  ASSUME SnapshotsLinked, RequestInv, OtherSteps
  PROVE  RequestInv'
<1>1. TypeOK /\ Next
  BY DEF RequestInv, RequestTypeOK, OtherSteps, Next
<1>2. TypeOK' /\ Consistent(records, bm25, dupIndex, vectors)'
  BY <1>1, TypeStep, ConsistentStep DEF RequestInv
<1>3. Kept(records, records') /\ \A j \in Id : RecordLinks(records', j)
  <2>1. CASE StoreSteps
    BY <1>1, <2>1, StoreLinks DEF RequestInv
  <2>2. CASE \E w \in Writer : EmbedSteps(w)
    <3>1. records' = records
      BY <2>2 DEF EmbedSteps, EmbedLands, EmbedFails
    <3> QED BY <3>1 DEF RequestInv, Kept
  <2> QED BY <2>1, <2>2 DEF OtherSteps
<1>4. UNCHANGED <<requests, history, atomic>>
  BY DEF OtherSteps
<1>5. RequestTypeOK'
  BY <1>2, <1>4 DEF RequestInv, RequestTypeOK
<1>6. \A q \in Writer : RequestSound(records', requests[q])
  BY <1>3, SoundStays DEF RequestInv, RequestTypeOK, AnyRequest
<1>7. (\A i \in Id : RecordLinks(records, i))'
  BY <1>3
<1>8. (\A q \in Writer : RequestSound(records, requests[q]))'
  BY <1>4, <1>6
<1> QED BY <1>2, <1>5, <1>7, <1>8 DEF RequestInv

(***************************************************************************)
(* What the steps of a request read and write.                             *)
(***************************************************************************)

\* findDuplicate() returns a copy of a visible record with the candidate's key.
LEMMA LookupFound ==
  ASSUME RequestInv, NEW r \in Record
  PROVE  /\ Lookup(r) \in Found \cup {None}
         /\ Lookup(r) # None =>
              /\ CopyHolds(records, Lookup(r))
              /\ DupKey(Lookup(r).record) = DupKey(r)
              /\ history[Lookup(r).id] = Lookup(r).history
<1> DEFINE d == FindDuplicate(DupKey(r))
<1>1. DupKey(r) \in DupKeys
  BY DupKeyType
<1>2. ASSUME d # None
      PROVE  /\ d \in Id /\ records[d] \in Record /\ IsActive(records, d)
             /\ DupKey(records[d]) = DupKey(r)
  BY <1>1, <1>2 DEF FindDuplicate, IsVisible, IsActive, RequestInv, RequestTypeOK, TypeOK,
                    Consistent
<1>3. CASE d = None
  BY <1>3 DEF Lookup
<1>4. CASE d # None
  <2>1. Lookup(r) = [id |-> d, record |-> records[d], history |-> history[d]]
    BY <1>4 DEF Lookup
  <2>2. d \in Id /\ records[d] \in Record /\ history[d] \in SUBSET Id
    BY <1>2, <1>4 DEF RequestInv, RequestTypeOK
  <2>3. RecordLinks(records, d) /\ IsActive(records, d)
    BY <1>2, <1>4 DEF RequestInv
  <2> HIDE DEF d
  <2>4. Lookup(r) \in Found
    BY <2>1, <2>2 DEF Found
  <2>5. CopyHolds(records, Lookup(r))
    BY <2>1, <2>3 DEF CopyHolds, Fresh, RecordLinks, IsActive
  <2> QED BY <1>2, <1>4, <2>1, <2>4, <2>5 DEF d
<1> QED BY <1>3, <1>4

\* A write keeps the store typed and consistent, and whatever it stores keeps the links.
LEMMA IndexInv ==
  ASSUME RequestInv, NEW i \in Id, NEW r \in Record, Index(i, r), Storable(records, i, r)
  PROVE  /\ records' \in Records /\ bm25' \in Texts
         /\ dupIndex' \in Dups /\ vectors' \in Texts
         /\ Consistent(records, bm25, dupIndex, vectors)'
         /\ Kept(records, records')
         /\ \A j \in Id : RecordLinks(records', j)
<1>1. TypeOK /\ records \in Records
  BY DEF RequestInv, RequestTypeOK, TypeOK, Records
<1>2. records' = [records EXCEPT ![i] = r]
  BY DEF Index
<1>3. Kept(records, records') /\ \A j \in Id : RecordLinks(records', j)
  BY <1>1, <1>2, StoredLinks DEF RequestInv
<1> QED BY <1>1, <1>3, IndexType, IndexConsistent DEF RequestInv

\* The invariant of the store alone.
StoreInv ==
  /\ TypeOK
  /\ Consistent(records, bm25, dupIndex, vectors)
  /\ \A j \in Id : RecordLinks(records, j)

\* A record written through index(), its history and the embedding it awaits keep it.
LEMMA WriteInv ==
  ASSUME RequestInv, NEW q \in Writer, NEW i \in Id, NEW r \in Record, NEW h \in SUBSET Id,
         Write(q, i, r, h), Storable(records, i, r)
  PROVE  StoreInv' /\ history' \in Histories /\ Kept(records, records')
<1>1. Index(i, r)
  BY DEF Write
<1>2. /\ records' \in Records /\ bm25' \in Texts
      /\ dupIndex' \in Dups /\ vectors' \in Texts
      /\ Consistent(records, bm25, dupIndex, vectors)'
      /\ Kept(records, records')
      /\ \A j \in Id : RecordLinks(records', j)
  BY <1>1, IndexInv
<1>3. TypeOK
  BY DEF RequestInv, RequestTypeOK
<1>4. embeds' \in [Writer -> Texts]
  BY <1>2, <1>3, PendingType, AwaitType DEF Write
<1>5. TypeOK'
  BY <1>2, <1>3, <1>4 DEF Write, TypeOK, Records, Dups
<1>6. (\A j \in Id : RecordLinks(records, j))'
  BY <1>2
<1>7. history' \in Histories
  BY DEF Write, RequestInv, RequestTypeOK, Histories
<1> QED BY <1>2, <1>5, <1>6, <1>7 DEF StoreInv

\* A step that leaves the store alone leaves it typed, consistent and linked.
LEMMA UnchangedInv ==
  ASSUME RequestInv, StoreUnchanged
  PROVE  StoreInv' /\ history' \in Histories /\ Kept(records, records')
<1>1. TypeOK'
  BY DEF RequestInv, RequestTypeOK, TypeOK, StoreUnchanged
<1>2. Consistent(records, bm25, dupIndex, vectors)'
  BY DEF RequestInv, StoreUnchanged, Consistent, IsActive, DupKey
<1>3. (\A j \in Id : RecordLinks(records, j))'
  BY DEF RequestInv, StoreUnchanged, RecordLinks, IsActive, InLocus
<1> QED BY <1>1, <1>2, <1>3 DEF StoreInv, Kept, StoreUnchanged, Histories, RequestInv,
                                RequestTypeOK

\* A step of one request keeps the invariant if it keeps the store's part of it and ends
\* in a request that is sound.
LEMMA RequestMoves ==
  ASSUME RequestInv, NEW q \in Writer, NEW r \in AnyRequest, Becomes(q, r),
         StoreInv', history' \in Histories, Kept(records, records'),
         RequestSound(records', r)
  PROVE  RequestInv'
<1>1. RequestTypeOK'
  BY DEF RequestInv, RequestTypeOK, Becomes, StoreInv, AnyRequest, Histories
<1>2. ASSUME NEW p \in Writer PROVE RequestSound(records', requests'[p])
  <2>1. CASE p = q
    BY <2>1 DEF Becomes, RequestInv, RequestTypeOK
  <2>2. CASE p # q
    <3>1. requests'[p] = requests[p] /\ requests[p] \in AnyRequest
      BY <2>2 DEF Becomes, RequestInv, RequestTypeOK, AnyRequest
    <3>2. RequestSound(records, requests[p])
      BY DEF RequestInv
    <3> QED BY <3>1, <3>2, SoundStays
  <2> QED BY <2>1, <2>2
<1>3. (\A p \in Writer : RequestSound(records, requests[p]))'
  BY <1>2
<1> QED BY <1>1, <1>3 DEF RequestInv, StoreInv

(***************************************************************************)
(* The steps of a request, one lemma each.                                 *)
(***************************************************************************)

\* Idle and a reply that tells what was written are sound requests.
LEMMA PlainRequests ==
  ASSUME NEW recs, NEW result \in Result, NEW wrote \in BOOLEAN,
         wrote => result \in {"updated", "partial", "error"}
  PROVE  /\ Idle \in AnyRequest /\ RequestSound(recs, Idle)
         /\ LET r == [op |-> "reply", result |-> result, wrote |-> wrote]
            IN  r \in AnyRequest /\ RequestSound(recs, r)
BY DEF AnyRequest, Replied, Idle, RequestSound

\* A step that replies keeps the invariant when the reply does not hide a write.
LEMMA ReplyInv ==
  ASSUME RequestInv, NEW q \in Writer, NEW result \in Result, NEW wrote \in BOOLEAN,
         wrote => result \in {"updated", "partial", "error"},
         Reply(q, result, wrote),
         StoreInv', history' \in Histories, Kept(records, records')
  PROVE  RequestInv'
<1> DEFINE r == [op |-> "reply", result |-> result, wrote |-> wrote]
<1>1. r \in AnyRequest /\ RequestSound(records', r)
  BY PlainRequests
<1>2. Becomes(q, r)
  BY DEF Reply
<1> HIDE DEF r
<1> QED BY <1>1, <1>2, RequestMoves

\* A request that ends without a reply of its own keeps the invariant.
LEMMA EndInv ==
  ASSUME RequestInv, NEW q \in Writer, Becomes(q, Idle),
         StoreInv', history' \in Histories, Kept(records, records')
  PROVE  RequestInv'
<1>1. Idle \in AnyRequest /\ RequestSound(records', Idle)
  BY DEF AnyRequest, Idle, RequestSound
<1> QED BY <1>1, RequestMoves

\* A fresh candidate is a record, active and unlinked.
LEMMA FreshType ==
  ASSUME TypeOK, NEW o \in Owner, NEW t \in Content, NEW d \in DecayKind
  PROVE  FreshRecord(o, t, d) \in Record /\ Fresh(FreshRecord(o, t, d))
BY DEF FreshRecord, Record, Status, TypeOK, Fresh

\* A lookup keeps the invariant: the copy it holds is of a stored memory of its owner.
LEMMA ObserveLooksUpInv ==
  ASSUME RequestInv, NEW q \in Writer, NEW o \in Owner, NEW t \in Content, NEW d \in DecayKind,
         ObserveLooksUp(q, o, t, d)
  PROVE  RequestInv'
<1> DEFINE c == FreshRecord(o, t, d)
           r == [op |-> "observe", candidate |-> c, dup |-> Lookup(c)]
<1>1. c \in Record /\ Fresh(c)
  BY FreshType DEF RequestInv, RequestTypeOK
<1>2. Becomes(q, r) /\ StoreUnchanged
  BY DEF ObserveLooksUp
<1> HIDE DEF c
<1>3. Lookup(c) \in Found \cup {None} /\ (Lookup(c) # None => CopyHolds(records, Lookup(c)))
  BY <1>1, LookupFound
<1>4. r \in AnyRequest
  BY <1>1, <1>3 DEF AnyRequest, Observing
<1>5. RequestSound(records, r)
  BY <1>1, <1>3 DEF RequestSound
<1>6. StoreInv' /\ history' \in Histories /\ Kept(records, records')
  BY <1>2, UnchangedInv
<1> HIDE DEF r
<1> QED BY <1>2, <1>4, <1>5, <1>6, SoundStays, RequestMoves

\* Writing back the copy of a duplicate stores its owner and its text again.
LEMMA CopyStorable ==
  ASSUME NEW recs, NEW found \in Found, CopyHolds(recs, found), NEW r \in Record,
         r.owner = found.record.owner, r.content = found.record.content,
         r.status = found.record.status, r.supersededBy = found.record.supersededBy
  PROVE  Storable(recs, found.id, r)
BY DEF CopyHolds, Fresh, Storable

\* So does a candidate under a uid of its own.
LEMMA FreshStorable ==
  ASSUME NEW recs, NEW i \in Id, recs[i] = None, NEW r \in Record, Fresh(r)
  PROVE  Storable(recs, i, r)
BY DEF Fresh, Storable

\* So does the write of an observation.
LEMMA ObserveWritesInv ==
  ASSUME RequestInv, NEW q \in Writer, NEW new \in Id, ObserveWrites(q, new)
  PROVE  RequestInv'
<1> DEFINE r == requests[q]
<1>1. r \in Observing /\ RequestSound(records, r)
  <2>1. r \in AnyRequest /\ r.op = "observe"
    BY DEF ObserveWrites, At, RequestInv, RequestTypeOK, AnyRequest
  <2> QED BY <2>1 DEF RequestInv, AnyRequest, Idle, Correcting, Replacing, Retiring, Replied
<1>2. r.candidate \in Record /\ Fresh(r.candidate)
  BY <1>1 DEF Observing, RequestSound
<1>3. CASE r.dup # None
  <2> DEFINE kept == Reinforced(r.dup, r.candidate)
  <2>1. r.dup \in Found /\ CopyHolds(records, r.dup)
    BY <1>1, <1>3 DEF Observing, RequestSound
  <2>2. /\ r.dup.id \in Id /\ r.dup.record \in Record /\ r.dup.history \in SUBSET Id
        /\ r.candidate.lastSeenAt \in Nat
    BY <1>2, <2>1 DEF Found, Record
  <2>3. /\ kept \in Record
        /\ kept.owner = r.dup.record.owner /\ kept.content = r.dup.record.content
        /\ kept.status = r.dup.record.status /\ kept.supersededBy = r.dup.record.supersededBy
    BY <2>2 DEF Reinforced, Record
  <2>4. Write(q, r.dup.id, kept, r.dup.history) /\ Becomes(q, Idle)
    BY <1>3 DEF ObserveWrites
  <2> HIDE DEF kept, r
  <2>5. Storable(records, r.dup.id, kept)
    BY <2>1, <2>3, CopyStorable
  <2> QED BY <2>2, <2>3, <2>4, <2>5, WriteInv, EndInv
<1>4. CASE r.dup = None
  <2>1. records[new] = None /\ Write(q, new, r.candidate, {}) /\ Becomes(q, Idle)
    BY <1>4 DEF ObserveWrites, Uid
  <2> HIDE DEF r
  <2>2. Storable(records, new, r.candidate)
    BY <1>2, <2>1, FreshStorable
  <2> QED BY <1>2, <2>1, <2>2, WriteInv, EndInv
<1> QED BY <1>3, <1>4

\* A correction that reads what it corrects keeps the invariant.
LEMMA CorrectReadsInv ==
  ASSUME RequestInv, NEW q \in Writer, NEW i \in Id, NEW o \in Owner, NEW t \in Content,
         CorrectReads(q, i, o, t)
  PROVE  RequestInv'
<1>1. StoreInv' /\ history' \in Histories /\ Kept(records, records')
  BY UnchangedInv DEF CorrectReads
<1>2. CASE SameText(t, records[i].content)
  BY <1>1, <1>2, ReplyInv DEF CorrectReads, Result
<1>3. CASE ~SameText(t, records[i].content)
  <2> DEFINE c == FreshRecord(records[i].owner, t, records[i].decay)
             r == [op |-> "correct", id |-> i, candidate |-> c]
  <2>1. records[i] \in Record /\ records[i] # None
    BY DEF CorrectReads, IsVisible, IsActive, RequestInv, RequestTypeOK, TypeOK
  <2>2. records[i].owner \in Owner /\ records[i].decay \in DecayKind
    BY <2>1 DEF Record
  <2>3. c \in Record /\ Fresh(c) /\ c.owner = records[i].owner /\ c.content = t
    <3>1. c \in Record /\ Fresh(c)
      BY <2>2, FreshType DEF RequestInv, RequestTypeOK
    <3> QED BY <3>1 DEF FreshRecord
  <2>4. Becomes(q, r)
    BY <1>3 DEF CorrectReads
  <2> HIDE DEF c
  <2>5. r \in AnyRequest /\ RequestSound(records, r)
    BY <1>3, <2>1, <2>3 DEF AnyRequest, Correcting, RequestSound, CorrectsOther
  <2> HIDE DEF r
  <2> QED BY <1>1, <2>4, <2>5, SoundStays, RequestMoves
<1> QED BY <1>2, <1>3

\* The atomic correction, in terms of the records: the replacement is stored active under
\* an id of its own or in its active duplicate, and the other memory is linked to it.
LEMMA SupersedesShape ==
  ASSUME StoreInv, NEW w \in Writer, NEW i \in Id, NEW o \in Owner, NEW new \in Id,
         NEW r \in Record, Fresh(r), SupersedesWith(w, i, o, new, r),
         IF FindDuplicate(DupKey(r)) # None THEN new = FindDuplicate(DupKey(r)) ELSE Uid(new)
  PROVE  \E kept, gone \in Record :
           /\ records' = [records EXCEPT ![new] = kept, ![i] = gone]
           /\ new # i /\ IsActive(records, i)
           /\ records[new] # None => IsActive(records, new)
           /\ Fresh(kept) /\ Storable(records, new, kept)
           /\ gone.status = "superseded" /\ gone.supersededBy = new
           /\ Storable([records EXCEPT ![new] = kept], i, gone)
<1> DEFINE dup == FindDuplicate(DupKey(r))
           kept == IF dup # None THEN Reused(dup, r) ELSE r
           gone == Superseded(i, new)
           recs1 == [records EXCEPT ![new] = kept]
<1>1. records \in Records /\ records[i] \in Record /\ IsActive(records, i)
  BY DEF SupersedesWith, IsVisible, IsActive, StoreInv, TypeOK, Records
<1>2. DupKey(r) \in DupKeys
  BY DupKeyType
<1>3. ASSUME dup # None
      PROVE  /\ new = dup /\ records[new] \in Record /\ IsActive(records, new)
             /\ DupKey(records[new]) = DupKey(r)
  BY <1>2, <1>3 DEF FindDuplicate, IsVisible, IsActive, StoreInv, TypeOK, Consistent
<1>4. dup = None => records[new] = None
  BY DEF Uid
<1>5. records' = [records EXCEPT ![new] = kept, ![i] = gone]
  <2>1. CASE dup # None
    BY <1>3, <2>1 DEF SupersedesWith
  <2>2. CASE dup = None
    BY <2>2 DEF SupersedesWith
  <2> QED BY <2>1, <2>2
<1>6. /\ new # i
      /\ kept \in Record /\ Fresh(kept) /\ Storable(records, new, kept)
      /\ Locus[kept.owner] = Locus[records[i].owner]
  <2>1. Locus[r.owner] = Locus[records[i].owner] /\ ~SameText(r.content, records[i].content)
    BY DEF SupersedesWith
  <2>2. CASE dup # None
    <3>1. /\ records[new].status = "active" /\ records[new].supersededBy = None
          /\ records[new] # None
      BY <1>3, <2>2 DEF StoreInv, RecordLinks, IsActive
    <3>2. /\ kept = [records[new] EXCEPT !.lastSeenAt = r.lastSeenAt, !.decay = r.decay]
          /\ r.lastSeenAt \in Nat /\ r.decay \in DecayKind
      BY <1>3, <2>2 DEF Reused, Record
    <3> HIDE DEF kept
    <3>3. /\ kept \in Record
          /\ kept.owner = records[new].owner /\ kept.content = records[new].content
          /\ kept.status = "active" /\ kept.supersededBy = None
      BY <1>3, <2>2, <3>1, <3>2 DEF Record
    <3>4. /\ Locus[records[new].owner] = Locus[r.owner]
          /\ NormKey[records[new].content] = NormKey[r.content]
      BY <1>3, <2>2 DEF DupKey
    <3>5. new # i
      BY <2>1, <3>4 DEF SameText
    <3> QED BY <2>1, <3>1, <3>3, <3>4, <3>5 DEF Fresh, Storable
  <2>3. CASE dup = None
    <3>1. kept = r /\ records[new] = None /\ records[i] # None
      BY <1>1, <1>4, <2>3 DEF IsActive
    <3> QED BY <2>1, <3>1, FreshStorable
  <2> QED BY <2>2, <2>3
<1>7. /\ gone \in Record /\ gone.status = "superseded" /\ gone.supersededBy = new
      /\ gone.owner = records[i].owner /\ gone.content = records[i].content
  BY <1>1 DEF Superseded, Record, Status
<1> HIDE DEF dup, kept, gone
<1>8. recs1[i] = records[i] /\ recs1[new] = kept /\ kept # None
  BY <1>1, <1>6, ConstantsAssumption DEF Records
<1> HIDE DEF recs1
<1>9. Storable(recs1, i, gone)
  BY <1>6, <1>7, <1>8 DEF Storable
<1>10. records[new] # None => IsActive(records, new)
  BY <1>3, <1>4
<1> QED BY <1>1, <1>5, <1>6, <1>7, <1>9, <1>10 DEF recs1

\* It keeps records and links: two records are stored, one after the other.
LEMMA SupersedesLinks ==
  ASSUME StoreInv, NEW w \in Writer, NEW i \in Id, NEW o \in Owner, NEW new \in Id,
         NEW r \in Record, Fresh(r), SupersedesWith(w, i, o, new, r),
         IF FindDuplicate(DupKey(r)) # None THEN new = FindDuplicate(DupKey(r)) ELSE Uid(new)
  PROVE  Kept(records, records') /\ \A j \in Id : RecordLinks(records', j)
<1>1. PICK kept \in Record, gone \in Record :
        /\ records' = [records EXCEPT ![new] = kept, ![i] = gone]
        /\ Storable(records, new, kept)
        /\ Storable([records EXCEPT ![new] = kept], i, gone)
  BY SupersedesShape
<1> DEFINE recs1 == [records EXCEPT ![new] = kept]
<1>2. records \in Records /\ recs1 \in Records
  BY DEF StoreInv, TypeOK, Records
<1>3. Kept(records, recs1) /\ \A j \in Id : RecordLinks(recs1, j)
  BY <1>1, <1>2, StoredLinks DEF StoreInv
<1> HIDE DEF recs1
<1>4. Kept(recs1, [recs1 EXCEPT ![i] = gone]) /\ \A j \in Id : RecordLinks([recs1 EXCEPT ![i] = gone], j)
  BY <1>1, <1>2, <1>3, StoredLinks DEF recs1
<1>5. records' = [recs1 EXCEPT ![i] = gone]
  BY <1>1 DEF recs1
<1>6. Kept(recs1, records') /\ \A j \in Id : RecordLinks(records', j)
  BY <1>4, <1>5
<1> QED BY <1>3, <1>6 DEF Kept

\* So does one the provider commits in one call.
LEMMA CorrectCommitsInv ==
  ASSUME RequestInv, NEW q \in Writer, NEW new \in Id, CorrectCommits(q, new)
  PROVE  RequestInv'
<1> DEFINE r == requests[q]
<1>1. r \in Correcting /\ RequestSound(records, r)
  <2>1. r \in AnyRequest /\ r.op = "correct"
    BY DEF CorrectCommits, At, RequestInv, RequestTypeOK, AnyRequest
  <2> QED BY <2>1 DEF RequestInv, AnyRequest, Idle, Observing, Replacing, Retiring, Replied
<1>2. r.id \in Id /\ r.candidate \in Record /\ Fresh(r.candidate) /\ r.candidate.owner \in Owner
  BY <1>1 DEF Correcting, RequestSound, Record
<1>3. /\ SupersedesWith(q, r.id, r.candidate.owner, new, r.candidate)
      /\ IF FindDuplicate(DupKey(r.candidate)) # None
         THEN new = FindDuplicate(DupKey(r.candidate)) ELSE Uid(new)
      /\ history' = [history EXCEPT ![new] = HistoryWith(@, r.id)]
      /\ Reply(q, "updated", TRUE)
  BY DEF CorrectCommits
<1> HIDE DEF r
<1>4. StoreInv
  BY DEF RequestInv, RequestTypeOK, StoreInv
<1>5. Kept(records, records') /\ \A j \in Id : RecordLinks(records', j)
  BY <1>2, <1>3, <1>4, SupersedesLinks
<1>6. TypeOK' /\ Consistent(records, bm25, dupIndex, vectors)'
  BY <1>2, <1>3, <1>4, SupersedesType, SupersedesConsistent DEF StoreInv, Uid, IdFree
<1>7. (\A j \in Id : RecordLinks(records, j))'
  BY <1>5
<1>8. history' \in Histories
  BY <1>2, <1>3 DEF RequestInv, RequestTypeOK, Histories, HistoryWith
<1> QED BY <1>3, <1>5, <1>6, <1>7, <1>8, ReplyInv DEF StoreInv, Result

\* A correction that looks its replacement up keeps the invariant.
LEMMA CorrectLooksUpInv ==
  ASSUME RequestInv, NEW q \in Writer, CorrectLooksUp(q)
  PROVE  RequestInv'
<1> DEFINE r == requests[q]
           c == r.candidate
           next == [op |-> "replace", id |-> r.id, candidate |-> c, dup |-> Lookup(c)]
<1>1. r \in Correcting /\ RequestSound(records, r)
  <2>1. r \in AnyRequest /\ r.op = "correct"
    BY DEF CorrectLooksUp, At, RequestInv, RequestTypeOK, AnyRequest
  <2> QED BY <2>1 DEF RequestInv, AnyRequest, Idle, Observing, Replacing, Retiring, Replied
<1>2. r.id \in Id /\ c \in Record /\ Fresh(c) /\ CorrectsOther(records, r)
  BY <1>1 DEF Correcting, RequestSound
<1>3. Becomes(q, next) /\ StoreUnchanged
  BY DEF CorrectLooksUp
<1>4. /\ Lookup(c) \in Found \cup {None}
      /\ Lookup(c) # None => CopyHolds(records, Lookup(c)) /\ DupKey(Lookup(c).record) = DupKey(c)
  <2> HIDE DEF c
  <2> QED BY <1>2, LookupFound
<1>5. CorrectsOther(records, next)
  BY <1>2 DEF CorrectsOther
<1> HIDE DEF c
<1>6. next \in AnyRequest
  BY <1>2, <1>4 DEF AnyRequest, Replacing
<1>7. RequestSound(records, next)
  <2>1. /\ next.op = "replace" /\ next.candidate = c /\ next.dup = Lookup(c)
    OBVIOUS
  <2> HIDE DEF next
  <2> QED BY <1>2, <1>4, <1>5, <2>1 DEF RequestSound
<1>8. StoreInv' /\ history' \in Histories /\ Kept(records, records')
  BY <1>3, UnchangedInv
<1> HIDE DEF next, r
<1> QED BY <1>3, <1>6, <1>7, <1>8, SoundStays, RequestMoves

\* Whether the replacement is stored anew or in a duplicate, it is not the memory it
\* replaces, and it is in the same locus.
LEMMA ReplaceInv ==
  ASSUME RequestInv, NEW q \in Writer, At(q, "replace"), NEW saved \in Id, Replace(q, saved)
  PROVE  /\ StoreInv' /\ history' \in Histories /\ Kept(records, records')
         /\ requests[q].id \in Id
         /\ saved # requests[q].id
         /\ records'[requests[q].id] # None /\ records'[saved] # None
         /\ InLocus(records', requests[q].id, records'[saved].owner)
<1> DEFINE r == requests[q]
<1>1. r \in Replacing /\ RequestSound(records, r)
  <2>1. r \in AnyRequest /\ r.op = "replace"
    BY DEF At, RequestInv, RequestTypeOK, AnyRequest
  <2> QED BY <2>1 DEF RequestInv, AnyRequest, Idle, Observing, Correcting, Retiring, Replied
<1>2. /\ r.id \in Id /\ r.candidate \in Record /\ Fresh(r.candidate)
      /\ records[r.id] # None /\ r.candidate.owner = records[r.id].owner
      /\ ~SameText(r.candidate.content, records[r.id].content)
  BY <1>1 DEF Replacing, RequestSound, CorrectsOther
<1>3. records \in Records
  BY DEF RequestInv, RequestTypeOK, TypeOK, Records
<1>4. CASE r.dup # None
  <2> DEFINE kept == Adopted(r.dup, r.candidate)
             h == HistoryWith(r.dup.history, r.id)
  <2>1. r.dup \in Found /\ CopyHolds(records, r.dup) /\ DupKey(r.dup.record) = DupKey(r.candidate)
    BY <1>1, <1>4 DEF Replacing, RequestSound
  <2>2. /\ r.dup.id \in Id /\ r.dup.record \in Record /\ r.dup.history \in SUBSET Id
        /\ r.candidate.lastSeenAt \in Nat /\ r.candidate.decay \in DecayKind
    BY <1>2, <2>1 DEF Found, Record
  <2>3. /\ kept \in Record
        /\ kept.owner = r.dup.record.owner /\ kept.content = r.dup.record.content
        /\ kept.status = r.dup.record.status /\ kept.supersededBy = r.dup.record.supersededBy
    BY <2>2 DEF Adopted, Record
  <2>4. h \in SUBSET Id
    BY <1>2, <2>2 DEF HistoryWith
  <2>5. saved = r.dup.id /\ Write(q, saved, kept, h)
    BY <1>4 DEF Replace
  <2>6. /\ Locus[r.dup.record.owner] = Locus[r.candidate.owner]
        /\ NormKey[r.dup.record.content] = NormKey[r.candidate.content]
    BY <2>1 DEF DupKey
  <2>7. saved # r.id
    BY <1>2, <2>1, <2>5, <2>6 DEF CopyHolds, SameText
  <2> HIDE DEF kept, h, r
  <2>8. Storable(records, saved, kept)
    BY <2>1, <2>3, <2>5, CopyStorable
  <2>9. StoreInv' /\ history' \in Histories /\ Kept(records, records')
    BY <2>2, <2>3, <2>4, <2>5, <2>8, WriteInv
  <2>10. records'[saved] # None /\ records'[saved].owner = r.dup.record.owner
    BY <2>1, <2>2, <2>5, <2>9 DEF CopyHolds, Kept
  <2>11. records'[r.id] # None /\ records'[r.id].owner = r.candidate.owner
    BY <1>2, <2>9 DEF Kept
  <2> QED BY <1>2, <2>6, <2>7, <2>9, <2>10, <2>11 DEF InLocus, r
<1>5. CASE r.dup = None
  <2> DEFINE h == HistoryWith({}, r.id)
  <2>1. records[saved] = None /\ Write(q, saved, r.candidate, h)
    BY <1>5 DEF Replace, Uid
  <2>2. h \in SUBSET Id
    BY <1>2 DEF HistoryWith
  <2> HIDE DEF h, r
  <2>3. Storable(records, saved, r.candidate)
    BY <1>2, <2>1, FreshStorable
  <2>4. StoreInv' /\ history' \in Histories /\ Kept(records, records')
    BY <1>2, <2>1, <2>2, <2>3, WriteInv
  <2>5. records'[saved] = r.candidate
    BY <1>3, <2>1 DEF Write, Index, Records
  <2>6. records'[r.id] # None /\ records'[r.id].owner = r.candidate.owner
    BY <1>2, <2>4 DEF Kept
  <2> QED BY <1>2, <2>1, <2>4, <2>5, <2>6, ConstantsAssumption DEF InLocus, r
<1> QED BY <1>4, <1>5

\* So does one that writes its replacement.
LEMMA CorrectReplacesInv ==
  ASSUME RequestInv, NEW q \in Writer, NEW saved \in Id, CorrectReplaces(q, saved)
  PROVE  RequestInv'
<1> DEFINE r == [op |-> "retire", id |-> requests[q].id, saved |-> saved]
<1>1. /\ StoreInv' /\ history' \in Histories /\ Kept(records, records')
      /\ requests[q].id \in Id
      /\ saved # requests[q].id
      /\ records'[requests[q].id] # None /\ records'[saved] # None
      /\ InLocus(records', requests[q].id, records'[saved].owner)
  BY ReplaceInv DEF CorrectReplaces
<1>2. Becomes(q, r)
  BY DEF CorrectReplaces
<1>3. r \in AnyRequest
  BY <1>1 DEF AnyRequest, Retiring
<1>4. RequestSound(records', r)
  BY <1>1 DEF RequestSound
<1> HIDE DEF r
<1> QED BY <1>1, <1>2, <1>3, <1>4, RequestMoves

\* Linking the corrected memory to its replacement keeps the store's invariant.
LEMMA RetiringInv ==
  ASSUME RequestInv, NEW q \in Writer, At(q, "retire"),
         IsVisible(records, requests[q].id, now),
         Index(requests[q].id, Superseded(requests[q].id, requests[q].saved)),
         UNCHANGED <<embeds, searches, backfill, degraded, now, history>>
  PROVE  StoreInv' /\ history' \in Histories /\ Kept(records, records')
<1> DEFINE r == requests[q]
           gone == Superseded(r.id, r.saved)
<1>1. r \in Retiring /\ RequestSound(records, r)
  <2>1. r \in AnyRequest /\ r.op = "retire"
    BY DEF At, RequestInv, RequestTypeOK, AnyRequest
  <2> QED BY <2>1 DEF RequestInv, AnyRequest, Idle, Observing, Correcting, Replacing, Replied
<1>2. /\ r.id \in Id /\ r.saved \in Id /\ r.saved # r.id
      /\ records[r.id] # None /\ records[r.saved] # None
      /\ InLocus(records, r.id, records[r.saved].owner)
  BY <1>1 DEF Retiring, RequestSound
<1>3. records[r.id] \in Record
  BY <1>2 DEF RequestInv, RequestTypeOK, TypeOK
<1>4. /\ gone \in Record /\ gone.status = "superseded" /\ gone.supersededBy = r.saved
      /\ gone.owner = records[r.id].owner /\ gone.content = records[r.id].content
  BY <1>2, <1>3 DEF Superseded, Record, Status
<1>5. Index(r.id, gone)
  OBVIOUS
<1> HIDE DEF gone, r
<1>6. Storable(records, r.id, gone)
  BY <1>2, <1>4 DEF Storable, InLocus
<1>7. /\ records' \in Records /\ bm25' \in Texts
      /\ dupIndex' \in Dups /\ vectors' \in Texts
      /\ Consistent(records, bm25, dupIndex, vectors)'
      /\ Kept(records, records')
      /\ \A j \in Id : RecordLinks(records', j)
  BY <1>2, <1>4, <1>5, <1>6, IndexInv
<1>8. TypeOK'
  BY <1>7 DEF RequestInv, RequestTypeOK, TypeOK, Records, Dups
<1>9. (\A j \in Id : RecordLinks(records, j))'
  BY <1>7
<1> QED BY <1>7, <1>8, <1>9 DEF StoreInv, RequestInv, RequestTypeOK, Histories

\* Every other step of a correction replies, and leaves the store alone or as RetiringInv
\* and ReplaceInv say.
LEMMA CorrectEndsInv ==
  ASSUME RequestInv, NEW q \in Writer,
         CorrectComesLate(q) \/ CorrectRetires(q) \/ WriteFails(q) \/ RetireFails(q) \/ Delivered(q)
  PROVE  RequestInv'
<1>1. CASE CorrectComesLate(q)
  BY <1>1, UnchangedInv, ReplyInv DEF CorrectComesLate, Result
<1>2. CASE CorrectRetires(q)
  <2>1. CASE IsVisible(records, requests[q].id, now)
    BY <1>2, <2>1, RetiringInv, ReplyInv DEF CorrectRetires, Result
  <2>2. CASE ~IsVisible(records, requests[q].id, now)
    BY <1>2, <2>2, UnchangedInv, ReplyInv DEF CorrectRetires, PartialResult, Result
  <2> QED BY <2>1, <2>2
<1>3. CASE WriteFails(q)
  <2>1. CASE At(q, "observe") /\ Becomes(q, Idle) /\ StoreUnchanged
    BY <2>1, UnchangedInv, EndInv
  <2>2. CASE Reply(q, "error", FALSE) /\ StoreUnchanged
    BY <2>2, UnchangedInv, ReplyInv DEF Result
  <2>3. CASE At(q, "replace") /\ (\E saved \in Id : Replace(q, saved)) /\ Reply(q, "error", TRUE)
    <3>1. PICK saved \in Id : Replace(q, saved)
      BY <2>3
    <3> QED BY <2>3, <3>1, ReplaceInv, ReplyInv DEF Result
  <2> QED BY <1>3, <2>1, <2>2, <2>3 DEF WriteFails, Rejected
<1>4. CASE RetireFails(q)
  <2>1. CASE StoreUnchanged
    BY <1>4, <2>1, UnchangedInv, ReplyInv DEF RetireFails, PartialResult, Result
  <2>2. CASE ~StoreUnchanged
    BY <1>4, <2>2, RetiringInv, ReplyInv DEF RetireFails, PartialResult, Result
  <2> QED BY <2>1, <2>2
<1>5. CASE Delivered(q)
  BY <1>5, UnchangedInv, EndInv DEF Delivered
<1> QED BY <1>1, <1>2, <1>3, <1>4, <1>5

(***************************************************************************)
(* The theorems, over every interleaving of requests.                      *)
(***************************************************************************)

\* Nothing is stored and nothing is asked for.
LEMMA RequestInitInv == RequestInit => RequestInv
<1> SUFFICES ASSUME RequestInit PROVE RequestInv
  OBVIOUS
<1>1. TypeOK /\ Consistent(records, bm25, dupIndex, vectors)
  BY TypeInit, ConsistentInit DEF RequestInit
<1>2. RequestTypeOK
  BY <1>1 DEF RequestInit, RequestTypeOK
<1>3. \A i \in Id : RecordLinks(records, i)
  BY DEF RequestInit, Init, RecordLinks, IsActive
<1>4. \A q \in Writer : RequestSound(records, requests[q])
  BY DEF RequestInit, RequestSound, Idle
<1> QED BY <1>1, <1>2, <1>3, <1>4 DEF RequestInv

\* Every step keeps the invariant.
LEMMA RequestStepInv ==
  ASSUME SnapshotsLinked
  PROVE  RequestInv /\ [RequestNext]_rvars => RequestInv'
<1> SUFFICES ASSUME RequestInv, [RequestNext]_rvars PROVE RequestInv'
  OBVIOUS
<1>1. CASE OtherSteps
  BY <1>1, OtherInv
<1>2. ASSUME NEW q \in Writer, ObserveSteps(q)
      PROVE  RequestInv'
  BY <1>2, ObserveLooksUpInv, ObserveWritesInv DEF ObserveSteps
<1>3. ASSUME NEW q \in Writer, CorrectSteps(q)
      PROVE  RequestInv'
  BY <1>3, CorrectReadsInv, CorrectCommitsInv, CorrectLooksUpInv, CorrectReplacesInv,
     CorrectEndsInv DEF CorrectSteps
<1>4. ASSUME NEW q \in Writer, WriteFails(q) \/ RetireFails(q) \/ Delivered(q)
      PROVE  RequestInv'
  BY <1>4, CorrectEndsInv
<1>5. CASE UNCHANGED rvars
  <2>1. StoreUnchanged /\ UNCHANGED <<requests, atomic>>
    BY <1>5 DEF rvars, StoreUnchanged
  <2>2. StoreInv' /\ history' \in Histories /\ records' = records
    BY <2>1, UnchangedInv DEF StoreUnchanged
  <2>3. RequestTypeOK'
    BY <2>1, <2>2 DEF RequestInv, RequestTypeOK, StoreInv, Histories
  <2> QED BY <2>1, <2>2, <2>3 DEF RequestInv, StoreInv
<1> QED BY <1>1, <1>2, <1>3, <1>4, <1>5 DEF RequestNext

\* However requests overlap and fail, the link of a retired memory names another stored
\* memory of its locus.  A store that reloads a snapshot needs it to have such links.
THEOREM LinksAlwaysLead ==
  ASSUME SnapshotsLinked
  PROVE  RequestSpec => []LinksLead
<1>1. RequestInv => LinksLead
  BY DEF RequestInv, LinksLead, RecordLinks
<1> QED BY <1>1, RequestInitInv, RequestStepInv, PTL DEF RequestSpec

\* No reply hides a write.
THEOREM RepliesAreHonest ==
  ASSUME SnapshotsLinked
  PROVE  RequestSpec => []RepliesTellWrites
<1>1. RequestInv => RepliesTellWrites
  BY DEF RequestInv, RepliesTellWrites, RequestSound
<1> QED BY <1>1, RequestInitInv, RequestStepInv, PTL DEF RequestSpec

(***************************************************************************)
(* Over a provider that corrects atomically, while an observation that     *)
(* found a duplicate is not interrupted by another request: no copy that   *)
(* is written back undoes a link or forgets a history.                     *)
(***************************************************************************)
LinkedTo(recs, i) == {j \in Id : recs[j] # None /\ recs[j].supersededBy = i}
Acyclic(recs) == \A S \in (SUBSET Id) \ {{}} : \E i \in S : LinkedTo(recs, i) \cap S = {}
Complete(recs, hist) ==
  \A i \in Id : recs[i] # None /\ recs[i].supersededBy # None => i \in hist[recs[i].supersededBy]

CopyCurrent(recs, hist, found) ==
  /\ recs[found.id].supersededBy = None
  /\ hist[found.id] = found.history

ChainInv ==
  atomic =>
    /\ Acyclic(records) /\ Complete(records, history)
    /\ \A q \in Writer : requests[q].op \notin {"replace", "retire"}
    /\ \A q \in Writer : requests[q].op = "observe" /\ requests[q].dup # None =>
         CopyCurrent(records, history, requests[q].dup)
    /\ \A p, q \in Writer : requests[p].op = "observe" /\ requests[q].op = "observe" => p = q

\* From recs to recs2 no record gets a link, and no stored record another history.
LinksStay(recs, recs2, hist, hist2) ==
  \A j \in Id :
    /\ recs2[j] # None /\ recs2[j].supersededBy # None =>
         recs[j] # None /\ recs2[j].supersededBy = recs[j].supersededBy
    /\ recs[j] # None => hist2[j] = hist[j]

\* Without new links, chains still end and histories are still complete.
LEMMA ChainsStay ==
  ASSUME NEW recs \in Records, NEW recs2 \in Records, NEW hist, NEW hist2,
         \A j \in Id : RecordLinks(recs, j),
         Acyclic(recs), Complete(recs, hist), LinksStay(recs, recs2, hist, hist2)
  PROVE  Acyclic(recs2) /\ Complete(recs2, hist2)
<1>1. ASSUME NEW i \in Id PROVE LinkedTo(recs2, i) \subseteq LinkedTo(recs, i)
  BY ConstantsAssumption DEF LinkedTo, LinksStay
<1>2. Acyclic(recs2)
  BY <1>1 DEF Acyclic
<1>3. ASSUME NEW i \in Id, recs2[i] # None, recs2[i].supersededBy # None
      PROVE  i \in hist2[recs2[i].supersededBy]
  <2>1. recs[i] # None /\ recs2[i].supersededBy = recs[i].supersededBy
    BY <1>3 DEF LinksStay
  <2>2. recs[i].supersededBy \in Id /\ recs[recs[i].supersededBy] # None
    BY <1>3, <2>1 DEF Records, Record, RecordLinks
  <2> QED BY <1>3, <2>1, <2>2 DEF Complete, LinksStay
<1> QED BY <1>2, <1>3 DEF Complete

\* A link from an unlinked record to another one closes no cycle.
LEMMA ChainsGrow ==
  ASSUME NEW recs, NEW recs2, NEW a \in Id, NEW b \in Id, a # b, Acyclic(recs),
         recs[b] # None => recs[b].supersededBy = None,
         recs2[b] # None => recs2[b].supersededBy = None,
         \A j \in Id \ {a, b} : recs2[j] = recs[j]
  PROVE  recs2[a].supersededBy = b => Acyclic(recs2)
<1> SUFFICES ASSUME recs2[a].supersededBy = b,
                    NEW S \in SUBSET Id, S # {}
             PROVE  \E i \in S : LinkedTo(recs2, i) \cap S = {}
  BY DEF Acyclic
<1>1. \A i \in Id : \A j \in LinkedTo(recs2, i) : j \in LinkedTo(recs, i) \/ (j = a /\ i = b)
  BY ConstantsAssumption DEF LinkedTo
<1>2. \A i \in Id : b \notin LinkedTo(recs, i)
  BY ConstantsAssumption DEF LinkedTo
<1>3. CASE b \in S /\ a \in S
  <2>1. S \ {b} # {} /\ S \ {b} \in SUBSET Id
    BY <1>3
  <2>2. PICK i \in S \ {b} : LinkedTo(recs, i) \cap (S \ {b}) = {}
    BY <2>1 DEF Acyclic
  <2>3. LinkedTo(recs2, i) \cap S = {}
    BY <1>1, <1>2, <2>2
  <2> QED BY <2>2, <2>3
<1>4. CASE ~(b \in S /\ a \in S)
  <2>1. PICK i \in S : LinkedTo(recs, i) \cap S = {}
    BY DEF Acyclic
  <2>2. LinkedTo(recs2, i) \cap S = {}
    BY <1>1, <1>4, <2>1
  <2> QED BY <2>1, <2>2
<1> QED BY <1>3, <1>4

\* Storing an unlinked record where no linked one was, with the history it had, adds no link.
LEMMA UnlinkedStays ==
  ASSUME NEW recs \in Records, NEW hist \in Histories, NEW i \in Id, NEW r \in Record,
         NEW h \in SUBSET Id,
         r.supersededBy = None, recs[i] # None => hist[i] = h
  PROVE  LinksStay(recs, [recs EXCEPT ![i] = r], hist, [hist EXCEPT ![i] = h])
BY DEF LinksStay, Records, Histories

\* The store's own steps add no link when it reloads nothing.
LEMMA StoreChains ==
  ASSUME Snapshots = {}, TypeOK, StoreSteps, history' = history
  PROVE  LinksStay(records, records', history, history')
<1>1. ASSUME NEW i \in Id, NEW o \in Owner, NEW s \in Status \ {"active"}, Retire(i, o, s)
      PROVE  LinksStay(records, records', history, history')
  <2>1. records' = [records EXCEPT ![i] = [records[i] EXCEPT !.status = s]]
    BY <1>1 DEF Retire, Index
  <2>2. records[i] \in Record /\ records[i] # None
    BY <1>1 DEF Retire, IsVisible, IsActive, TypeOK
  <2>3. [records[i] EXCEPT !.status = s].supersededBy = records[i].supersededBy
    BY <2>2 DEF Record
  <2> QED BY <2>1, <2>2, <2>3 DEF LinksStay, TypeOK
<1>2. ASSUME NEW i \in Id, NEW o \in Owner, ApplyFeedback(i, o)
      PROVE  LinksStay(records, records', history, history')
  <2>1. records' = [records EXCEPT ![i] = [records[i] EXCEPT !.lastSeenAt = now]]
    BY <1>2 DEF ApplyFeedback
  <2>2. records[i] \in Record /\ records[i] # None
    BY <1>2 DEF ApplyFeedback, IsVisible, IsActive, TypeOK
  <2>3. [records[i] EXCEPT !.lastSeenAt = now].supersededBy = records[i].supersededBy
    BY <2>2 DEF Record
  <2> QED BY <2>1, <2>2, <2>3 DEF LinksStay, TypeOK
<1>3. CASE Compact
  <2>1. ASSUME NEW j \in Id
        PROVE  records'[j] # None =>
                 records[j] # None /\ records'[j].supersededBy = records[j].supersededBy
    <3>1. CASE Compactable(j)
      <4>1. records'[j] = [records[j] EXCEPT !.status = "archived"]
        BY <1>3, <3>1 DEF Compact
      <4>2. records[j] \in Record /\ records[j] # None
        BY <3>1 DEF Compactable, TypeOK
      <4> QED BY <4>1, <4>2 DEF Record
    <3>2. CASE ~Compactable(j)
      BY <1>3, <3>2 DEF Compact
    <3> QED BY <3>1, <3>2
  <2> QED BY <2>1 DEF LinksStay
<1>4. ASSUME NEW snapshot \in Snapshots PROVE FALSE
  BY <1>4
<1>5. CASE AwaitEmbeddings \/ BackfillLands \/ BackfillFails \/ BackfillNext
           \/ CooldownElapses \/ Tick
  <2>1. records' = records
    BY <1>5 DEF AwaitEmbeddings, BackfillLands, BackfillFails, BackfillNext, CooldownElapses, Tick
  <2> QED BY <2>1 DEF LinksStay
<1> QED BY <1>1, <1>2, <1>3, <1>4, <1>5 DEF StoreSteps

\* The steps of the store and of its embedder keep the chains, and the copy an observation
\* holds is still what it would find, up to its status and its dates.
LEMMA OtherChains ==
  ASSUME Snapshots = {}, RequestInv, ChainInv, OtherSteps
  PROVE  ChainInv'
<1>0. SnapshotsLinked
  BY DEF SnapshotsLinked
<1>1. LinksStay(records, records', history, history')
  <2>1. CASE StoreSteps
    BY <2>1, StoreChains DEF RequestInv, RequestTypeOK, OtherSteps
  <2>2. CASE \E w \in Writer : EmbedSteps(w)
    <3>1. records' = records
      BY <2>2 DEF EmbedSteps, EmbedLands, EmbedFails
    <3> QED BY <3>1 DEF LinksStay, OtherSteps
  <2> QED BY <2>1, <2>2 DEF OtherSteps
<1>2. RequestInv'
  BY <1>0, OtherInv
<1>3. UNCHANGED <<requests, history, atomic>>
  BY DEF OtherSteps
<1>4. SUFFICES ASSUME atomic PROVE ChainInv'
  BY <1>3 DEF ChainInv
<1>5. records \in Records /\ records' \in Records
  BY <1>2 DEF RequestInv, RequestTypeOK, TypeOK, Records
<1>6. Acyclic(records') /\ Complete(records', history')
  BY <1>1, <1>4, <1>5, ChainsStay DEF RequestInv, ChainInv
<1>7. ASSUME NEW q \in Writer, requests[q].op = "observe", requests[q].dup # None
      PROVE  CopyCurrent(records', history', requests[q].dup)
  <2> DEFINE found == requests[q].dup
  <2>1. CopyCurrent(records, history, found)
    BY <1>4, <1>7 DEF ChainInv
  <2>2. found \in Found /\ CopyHolds(records', found) /\ CopyHolds(records, found)
    <3>1. requests[q] \in Observing
      BY <1>7 DEF RequestInv, RequestTypeOK, Idle, Correcting, Replacing, Retiring, Replied
    <3> QED BY <1>2, <1>3, <1>7, <3>1 DEF RequestInv, RequestSound, Observing
  <2> HIDE DEF found
  <2>3. found.id \in Id
    BY <2>2 DEF Found
  <2> QED BY <1>1, <2>1, <2>2, <2>3 DEF CopyCurrent, CopyHolds, LinksStay, found
<1>8. Acyclic(records)' /\ Complete(records, history)'
  BY <1>6
<1>9. (\A q \in Writer : requests[q].op = "observe" /\ requests[q].dup # None =>
         CopyCurrent(records, history, requests[q].dup))'
  BY <1>3, <1>7
<1> QED BY <1>3, <1>4, <1>8, <1>9 DEF ChainInv

\* A request that moves while no other one holds a copy keeps the invariant, if the chains
\* are kept and the copy it may now hold is current.
LEMMA CalmMoves ==
  ASSUME RequestInv, ChainInv, atomic, NEW q \in Writer, Calm(q), NEW r, Becomes(q, r),
         r.op \notin {"replace", "retire"},
         r.op = "observe" /\ r.dup # None => CopyCurrent(records', history', r.dup),
         Acyclic(records'), Complete(records', history')
  PROVE  ChainInv'
<1>1. /\ atomic' = atomic
      /\ requests'[q] = r
      /\ \A p \in Writer \ {q} : requests'[p] = requests[p] /\ requests'[p].op # "observe"
  BY DEF Becomes, Calm, RequestInv, RequestTypeOK
<1>2. Acyclic(records)' /\ Complete(records, history)'
  OBVIOUS
<1>3. (\A p \in Writer : requests[p].op \notin {"replace", "retire"})'
  BY <1>1 DEF ChainInv
<1>4. (\A p \in Writer : requests[p].op = "observe" /\ requests[p].dup # None =>
         CopyCurrent(records, history, requests[p].dup))'
  BY <1>1
<1>5. (\A p, o \in Writer : requests[p].op = "observe" /\ requests[o].op = "observe" => p = o)'
  BY <1>1
<1> QED BY <1>2, <1>3, <1>4, <1>5 DEF ChainInv

\* A step of a request that leaves the store alone keeps the chains.
LEMMA UnchangedChains ==
  ASSUME RequestInv, ChainInv, atomic, StoreUnchanged
  PROVE  Acyclic(records') /\ Complete(records', history')
BY DEF ChainInv, StoreUnchanged

\* An observation looks its duplicate up, and writes it back or stores a memory anew.
LEMMA ObserveChains ==
  ASSUME RequestInv, ChainInv, atomic, NEW q \in Writer, Calm(q), ObserveSteps(q)
  PROVE  ChainInv'
<1>1. ASSUME NEW o \in Owner, NEW t \in Content, NEW d \in DecayKind, ObserveLooksUp(q, o, t, d)
      PROVE  ChainInv'
  <2> DEFINE c == FreshRecord(o, t, d)
             r == [op |-> "observe", candidate |-> c, dup |-> Lookup(c)]
  <2>1. c \in Record
    BY FreshType DEF RequestInv, RequestTypeOK
  <2>2. Becomes(q, r) /\ StoreUnchanged
    BY <1>1 DEF ObserveLooksUp
  <2> HIDE DEF c
  <2>3. Lookup(c) # None => CopyCurrent(records, history, Lookup(c))
    <3>1. ASSUME Lookup(c) # None PROVE CopyCurrent(records, history, Lookup(c))
      <4>1. /\ Lookup(c) \in Found /\ CopyHolds(records, Lookup(c))
            /\ history[Lookup(c).id] = Lookup(c).history
        BY <2>1, <3>1, LookupFound
      <4>2. Lookup(c).record = records[Lookup(c).id]
        BY <3>1 DEF Lookup
      <4> QED BY <4>1, <4>2 DEF CopyCurrent, CopyHolds, Fresh
    <3> QED BY <3>1
  <2>4. records' = records /\ history' = history
    BY <2>2 DEF StoreUnchanged
  <2>5. r.op = "observe" /\ r.dup = Lookup(c)
    OBVIOUS
  <2> HIDE DEF r
  <2> QED BY <2>2, <2>3, <2>4, <2>5, UnchangedChains, CalmMoves
<1>2. ASSUME NEW new \in Id, ObserveWrites(q, new)
      PROVE  ChainInv'
  <2> DEFINE r == requests[q]
  <2>1. r \in Observing /\ RequestSound(records, r)
    <3>1. r \in AnyRequest /\ r.op = "observe"
      BY <1>2 DEF ObserveWrites, At, RequestInv, RequestTypeOK, AnyRequest
    <3> QED BY <3>1 DEF RequestInv, AnyRequest, Idle, Correcting, Replacing, Retiring, Replied
  <2>2. r.candidate \in Record /\ Fresh(r.candidate)
    BY <2>1 DEF Observing, RequestSound
  <2>3. records \in Records /\ history \in Histories
    BY DEF RequestInv, RequestTypeOK, TypeOK, Records, Histories
  <2>4. \E i \in Id, k \in Record, h \in SUBSET Id :
          /\ records' = [records EXCEPT ![i] = k]
          /\ history' = [history EXCEPT ![i] = h]
          /\ k.supersededBy = None
          /\ records[i] # None => history[i] = h
    <3>1. CASE r.dup # None
      <4> DEFINE kept == Reinforced(r.dup, r.candidate)
      <4>1. /\ r.dup \in Found /\ CopyHolds(records, r.dup)
            /\ CopyCurrent(records, history, r.dup)
        BY <1>2, <2>1, <3>1 DEF Observing, RequestSound, ChainInv, ObserveWrites, At
      <4>2. /\ r.dup.id \in Id /\ r.dup.record \in Record /\ r.dup.history \in SUBSET Id
            /\ r.candidate.lastSeenAt \in Nat
        BY <2>2, <4>1 DEF Found, Record
      <4>3. kept \in Record /\ kept.supersededBy = r.dup.record.supersededBy
        BY <4>2 DEF Reinforced, Record
      <4>4. Write(q, r.dup.id, kept, r.dup.history)
        BY <1>2, <3>1 DEF ObserveWrites
      <4> HIDE DEF kept, r
      <4> QED BY <4>1, <4>2, <4>3, <4>4 DEF Write, Index, CopyHolds, CopyCurrent, Fresh
    <3>2. CASE r.dup = None
      <4>1. records[new] = None /\ Write(q, new, r.candidate, {})
        BY <1>2, <3>2 DEF ObserveWrites, Uid
      <4>2. /\ records' = [records EXCEPT ![new] = r.candidate]
            /\ history' = [history EXCEPT ![new] = {}]
        BY <4>1 DEF Write, Index
      <4>3. r.candidate \in Record /\ r.candidate.supersededBy = None
        BY <2>2 DEF Fresh
      <4>4. {} \in SUBSET Id
        OBVIOUS
      <4> HIDE DEF r
      <4> QED BY <4>1, <4>2, <4>3, <4>4
    <3> QED BY <3>1, <3>2
  <2>5. LinksStay(records, records', history, history') /\ records' \in Records
    <3>1. PICK i \in Id, k \in Record, h \in SUBSET Id :
            /\ records' = [records EXCEPT ![i] = k]
            /\ history' = [history EXCEPT ![i] = h]
            /\ k.supersededBy = None
            /\ records[i] # None => history[i] = h
      BY <2>4
    <3>2. LinksStay(records, [records EXCEPT ![i] = k], history, [history EXCEPT ![i] = h])
      BY <2>3, <3>1, UnlinkedStays
    <3> QED BY <2>3, <3>1, <3>2 DEF Records
  <2>6. Acyclic(records') /\ Complete(records', history')
    BY <2>3, <2>5, ChainsStay DEF RequestInv, ChainInv
  <2>7. Becomes(q, Idle) /\ Idle.op = "idle"
    BY <1>2 DEF ObserveWrites, Idle
  <2> QED BY <2>6, <2>7, CalmMoves
<1> QED BY <1>1, <1>2 DEF ObserveSteps

\* Two active records, or an active one and a new one: linking one to the other extends a
\* chain at its end, and the other's history takes it in.
LEMMA CommitGrows ==
  ASSUME NEW recs \in Records, NEW hist \in Histories, NEW i \in Id, NEW new \in Id,
         NEW kept \in Record, NEW gone \in Record, new # i,
         recs[new] # None => IsActive(recs, new),
         kept.supersededBy = None, gone.supersededBy = new,
         \A j \in Id : RecordLinks(recs, j), Acyclic(recs), Complete(recs, hist)
  PROVE  LET recs2 == [recs EXCEPT ![new] = kept, ![i] = gone]
             hist2 == [hist EXCEPT ![new] = HistoryWith(@, i)]
         IN  Acyclic(recs2) /\ Complete(recs2, hist2)
<1> DEFINE recs2 == [recs EXCEPT ![new] = kept, ![i] = gone]
           hist2 == [hist EXCEPT ![new] = HistoryWith(@, i)]
<1>1. /\ recs2[new] = kept /\ recs2[i] = gone
      /\ \A j \in Id \ {i, new} : recs2[j] = recs[j]
  BY DEF Records
<1>2. /\ i \in hist2[new]
      /\ \A j \in Id : hist[j] \subseteq hist2[j]
  BY DEF Histories, HistoryWith
<1> HIDE DEF recs2, hist2
<1>3. recs[new] # None => recs[new].supersededBy = None
  BY DEF RecordLinks
<1>4. Acyclic(recs2)
  BY <1>1, <1>3, ChainsGrow
<1>5. ASSUME NEW j \in Id, recs2[j] # None, recs2[j].supersededBy # None
      PROVE  j \in hist2[recs2[j].supersededBy]
  <2>1. CASE j = i
    BY <1>1, <1>2, <2>1
  <2>2. CASE j = new
    BY <1>1, <1>5, <2>2
  <2>3. CASE j \notin {i, new}
    <3>1. recs2[j] = recs[j] /\ recs[j].supersededBy \in Id
      BY <1>1, <1>5, <2>3 DEF Records, Record
    <3> QED BY <1>2, <1>5, <3>1 DEF Complete
  <2> QED BY <2>1, <2>2, <2>3
<1> QED BY <1>4, <1>5 DEF Complete, recs2, hist2

\* A correction that the provider commits keeps the chains.
LEMMA CommitChains ==
  ASSUME RequestInv, ChainInv, atomic, NEW q \in Writer, Calm(q), NEW new \in Id,
         CorrectCommits(q, new)
  PROVE  ChainInv'
<1> DEFINE r == requests[q]
<1>1. r \in Correcting /\ RequestSound(records, r)
  <2>1. r \in AnyRequest /\ r.op = "correct"
    BY DEF CorrectCommits, At, RequestInv, RequestTypeOK, AnyRequest
  <2> QED BY <2>1 DEF RequestInv, AnyRequest, Idle, Observing, Replacing, Retiring, Replied
<1>2. r.id \in Id /\ r.candidate \in Record /\ Fresh(r.candidate) /\ r.candidate.owner \in Owner
  BY <1>1 DEF Correcting, RequestSound, Record
<1>3. /\ SupersedesWith(q, r.id, r.candidate.owner, new, r.candidate)
      /\ IF FindDuplicate(DupKey(r.candidate)) # None
         THEN new = FindDuplicate(DupKey(r.candidate)) ELSE Uid(new)
      /\ history' = [history EXCEPT ![new] = HistoryWith(@, r.id)]
      /\ Reply(q, "updated", TRUE)
  BY DEF CorrectCommits
<1> HIDE DEF r
<1>4. StoreInv
  BY DEF RequestInv, RequestTypeOK, StoreInv
<1>5. PICK kept \in Record, gone \in Record :
        /\ records' = [records EXCEPT ![new] = kept, ![r.id] = gone]
        /\ new # r.id /\ IsActive(records, r.id)
        /\ records[new] # None => IsActive(records, new)
        /\ Fresh(kept) /\ Storable(records, new, kept)
        /\ gone.status = "superseded" /\ gone.supersededBy = new
        /\ Storable([records EXCEPT ![new] = kept], r.id, gone)
  BY <1>2, <1>3, <1>4, SupersedesShape
<1>6. records \in Records /\ history \in Histories /\ \A j \in Id : RecordLinks(records, j)
  BY DEF RequestInv, RequestTypeOK, TypeOK, Records, Histories
<1>7. Acyclic(records) /\ Complete(records, history)
  BY DEF ChainInv
<1>8. kept.supersededBy = None
  BY <1>5 DEF Fresh
<1>9. Acyclic(records') /\ Complete(records', history')
  BY <1>2, <1>3, <1>5, <1>6, <1>7, <1>8, CommitGrows
<1> DEFINE reply == [op |-> "reply", result |-> "updated", wrote |-> TRUE]
<1>10. Becomes(q, reply) /\ reply.op = "reply"
  BY <1>3 DEF Reply
<1> HIDE DEF reply
<1> QED BY <1>9, <1>10, CalmMoves

\* The other steps of a correction leave the store alone: with an atomic provider no request
\* reaches the steps that replace or retire by themselves.
LEMMA CorrectChains ==
  ASSUME RequestInv, ChainInv, atomic, NEW q \in Writer, Calm(q),
         CorrectSteps(q) \/ WriteFails(q) \/ RetireFails(q) \/ Delivered(q)
  PROVE  ChainInv'
<1>0. requests[q].op \notin {"replace", "retire"}
  BY DEF ChainInv
<1>1. ASSUME NEW new \in Id, CorrectCommits(q, new)
      PROVE  ChainInv'
  BY <1>1, CommitChains
<1>2. ASSUME StoreUnchanged, NEW r, Becomes(q, r), r.op \in {"idle", "correct", "reply"}
      PROVE  ChainInv'
  BY <1>2, UnchangedChains, CalmMoves
<1>3. ASSUME StoreUnchanged, NEW result, NEW wrote, Reply(q, result, wrote)
      PROVE  ChainInv'
  <2> DEFINE r == [op |-> "reply", result |-> result, wrote |-> wrote]
  <2>1. Becomes(q, r) /\ r.op \in {"idle", "correct", "reply"}
    BY <1>3 DEF Reply
  <2> HIDE DEF r
  <2> QED BY <1>2, <1>3, <2>1
<1>4. ASSUME NEW i \in Id, NEW o \in Owner, NEW t \in Content, CorrectReads(q, i, o, t)
      PROVE  ChainInv'
  <2> DEFINE c == FreshRecord(records[i].owner, t, records[i].decay)
             r == [op |-> "correct", id |-> i, candidate |-> c]
  <2>1. Becomes(q, r) \/ Reply(q, "identical", FALSE)
    BY <1>4 DEF CorrectReads
  <2>2. StoreUnchanged /\ r.op \in {"idle", "correct", "reply"}
    BY <1>4 DEF CorrectReads
  <2> HIDE DEF r
  <2> QED BY <1>2, <1>3, <2>1, <2>2
<1>5. CASE CorrectComesLate(q)
  BY <1>3, <1>5 DEF CorrectComesLate
<1>6. CASE WriteFails(q)
  <2>1. Idle.op \in {"idle", "correct", "reply"}
    BY DEF Idle
  <2> QED BY <1>0, <1>2, <1>3, <1>6, <2>1 DEF WriteFails, At
<1>7. CASE Delivered(q)
  BY <1>2, <1>7 DEF Delivered, Idle
<1>8. ASSUME CorrectLooksUp(q) PROVE FALSE
  BY <1>8 DEF CorrectLooksUp
<1>9. ASSUME CorrectRetires(q) \/ RetireFails(q) \/ \E new \in Id : CorrectReplaces(q, new)
      PROVE  FALSE
  BY <1>0, <1>9 DEF CorrectRetires, RetireFails, CorrectReplaces, At
<1> QED BY <1>1, <1>4, <1>5, <1>6, <1>7, <1>8, <1>9 DEF CorrectSteps

\* Nothing is stored yet, and every request is idle.
LEMMA ChainInit == RequestInit => ChainInv
<1> SUFFICES ASSUME RequestInit PROVE ChainInv
  OBVIOUS
<1>1. \A i \in Id : records[i] = None
  BY DEF RequestInit, Init
<1>2. Acyclic(records) /\ Complete(records, history)
  <2>1. \A i \in Id : LinkedTo(records, i) = {}
    BY <1>1 DEF LinkedTo
  <2>2. Complete(records, history)
    BY <1>1 DEF Complete
  <2> QED BY <2>1, <2>2 DEF Acyclic
<1> QED BY <1>2 DEF RequestInit, ChainInv, Idle

\* Calm steps are steps of the service, and keep both invariants.
LEMMA ChainStep ==
  ASSUME Snapshots = {}
  PROVE  RequestInv /\ ChainInv /\ [CalmNext]_rvars => (RequestInv /\ ChainInv)'
<1> SUFFICES ASSUME RequestInv, ChainInv, [CalmNext]_rvars PROVE (RequestInv /\ ChainInv)'
  OBVIOUS
<1>1. SnapshotsLinked
  BY DEF SnapshotsLinked
<1>2. RequestInv'
  <2>1. [RequestNext]_rvars
    BY DEF CalmNext, RequestNext
  <2> QED BY <1>1, <2>1, RequestStepInv
<1>3. CASE OtherSteps
  BY <1>2, <1>3, OtherChains
<1>4. ASSUME NEW q \in Writer, Calm(q),
             ObserveSteps(q) \/ CorrectSteps(q) \/ WriteFails(q) \/ RetireFails(q) \/ Delivered(q)
      PROVE  ChainInv'
  <2>1. CASE atomic
    BY <1>4, <2>1, ObserveChains, CorrectChains
  <2>2. CASE ~atomic
    <3>1. atomic' = atomic
      BY <1>4 DEF ObserveSteps, CorrectSteps, WriteFails, RetireFails, Delivered, ObserveLooksUp,
         ObserveWrites, CorrectReads, CorrectCommits, CorrectReplaces, CorrectComesLate,
         CorrectLooksUp, CorrectRetires, Rejected, Reply, Becomes
    <3> QED BY <2>2, <3>1 DEF ChainInv
  <2> QED BY <2>1, <2>2
<1>5. CASE UNCHANGED rvars
  <2>1. UNCHANGED <<records, requests, history, atomic>>
    BY <1>5 DEF rvars
  <2>2. ChainInv'
    BY <2>1 DEF ChainInv
  <2> QED BY <1>2, <2>2
<1> QED BY <1>2, <1>3, <1>4, <1>5 DEF CalmNext

\* Over a provider that corrects atomically - the in-process one, which reloads nothing -
\* corrections form chains that end in a memory still current and forget no memory they
\* replaced, as long as observations do not overlap other requests.
THEOREM ChainsHold ==
  ASSUME Snapshots = {}
  PROVE  CalmSpec => []CorrectionsChain
<1>1. ChainInv => CorrectionsChain
  BY DEF ChainInv, CorrectionsChain, SupersessionAcyclic, HistoryComplete, Acyclic, Complete,
     LinkedTo, SupersededFrom
<1>2. CalmSpec => [](RequestInv /\ ChainInv)
  BY RequestInitInv, ChainInit, ChainStep, PTL DEF CalmSpec
<1> QED BY <1>1, <1>2, PTL

=============================================================================
