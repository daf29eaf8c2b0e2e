-------------------------- MODULE EnhancedProvider --------------------------
(***************************************************************************)
(* EnhancedMemoryProvider of src/providers/enhanced-provider.ts: records   *)
(* in a Map, every record embedded before it is set, every record scored   *)
(* behind an await while the Map may change.  A step is the code between   *)
(* two awaits.                                                             *)
(*                                                                         *)
(* An owner stands for an ownership scope whose records only its own       *)
(* readers see.  Feedback counters, episodes and the parts of a score are  *)
(* left out: a score is above minScore or below it.                        *)
(***************************************************************************)
EXTENDS Integers, Selecting

CONSTANTS
  RecordId,
  Scoped,       \* ownership scopes
  Batcher,      \* concurrent ingest() calls
  Scorer,       \* concurrent search() calls
  MaxWrites     \* bound on the calls that write

VARIABLES
  entries,     \* records: id -> what is held, or Unheld
  inserted,    \* the Map's order
  batches,     \* each ingest()
  scoring,     \* each search()
  lapsed,      \* the records that can expire are due
  writes,      \* calls so far
  firstOwner,  \* history: who had each id first
  contested    \* history: ids that were free when two batches were checked

enhancedVars == <<entries, inserted, batches, scoring, lapsed, writes, firstOwner, contested>>

\* A memory that can expire, one that lasts but that no extractor grounded.
Kind == {"expiring", "ungrounded"}

NoBatch == <<>>
Unheld == [owner |-> "nobody", status |-> "none"]
Taken(id) == entries[id] # Unheld

SameOwner(id, owner) == Taken(id) => entries[id].owner = owner

Hold(id, owner, kind) ==
  /\ entries' = [entries EXCEPT ![id] =
       [owner |-> owner, status |-> "active", kind |-> kind]]
  /\ inserted' = IF Taken(id) THEN inserted ELSE Append(inserted, id)
  /\ firstOwner' = IF Taken(id) THEN firstOwner ELSE [firstOwner EXCEPT ![id] = owner]

(***************************************************************************)
(* ingest(): the whole batch is checked before anything is awaited.        *)
(***************************************************************************)
Written == writes < MaxWrites /\ writes' = writes + 1

\* mutant: only the first record of a batch is checked
HeadUnrefused(batch, owner) == SameOwner(Head(batch), owner)
Unrefused(batch, owner) == \A i \in DOMAIN batch : SameOwner(batch[i], owner)

IngestChecks(b, batch, owner) ==
  /\ batches[b] = NoBatch /\ Written
  /\ batches' = [batches EXCEPT ![b] =
       IF Unrefused(batch, owner)
       THEN [left |-> batch, owner |-> owner, free |-> {id \in RecordId : ~Taken(id)}]
       ELSE NoBatch]
  /\ UNCHANGED <<entries, inserted, scoring, lapsed, firstOwner, contested>>

\* What failed to be embedded is stored all the same.
IngestStores(b) ==
  LET id == Head(batches[b].left)  owner == batches[b].owner IN
  /\ batches[b] # NoBatch
  /\ \E kind \in Kind : Hold(id, owner, kind)
  /\ contested' = IF ~SameOwner(id, owner) /\ id \in batches[b].free THEN contested \cup {id} ELSE contested
  /\ batches' = [batches EXCEPT ![b] =
       IF Len(@.left) = 1 THEN NoBatch ELSE [@ EXCEPT !.left = Tail(batches[b].left)]]
  /\ UNCHANGED <<scoring, lapsed, writes>>

(***************************************************************************)
(* The other writes run to their end at once.                              *)
(***************************************************************************)
UpdateEntry(id, owner) ==
  /\ Written
  /\ SameOwner(id, owner)
  /\ \E kind \in Kind : Hold(id, owner, kind)
  /\ UNCHANGED <<batches, scoring, lapsed, contested>>

PrunedEntries ==
  [id \in RecordId |->
     IF Taken(id) /\ entries[id].status = "active" /\ entries[id].kind = "expiring" /\ lapsed
     THEN [entries[id] EXCEPT !.status = "archived"] ELSE entries[id]]

VisibleIn(held, id, owner) == held[id].status = "active" /\ held[id].owner = owner

RetireEntry(id, owner) ==
  /\ VisibleIn(PrunedEntries, id, owner) /\ Written
  /\ entries' = [PrunedEntries EXCEPT ![id].status = "retired"]
  /\ UNCHANGED <<inserted, batches, scoring, lapsed, firstOwner, contested>>

\* compact(), applyFeedback() and every read by id or by filter.
Prunes ==
  /\ entries' = PrunedEntries /\ entries' # entries
  /\ UNCHANGED <<inserted, batches, scoring, lapsed, writes, firstOwner, contested>>

RecordsLapse ==
  /\ ~lapsed
  /\ lapsed' = TRUE
  /\ UNCHANGED <<entries, inserted, batches, scoring, writes, firstOwner, contested>>

(***************************************************************************)
(* search(): the Map is walked while it may change.  A hit is the object   *)
(* that was scored.                                                        *)
(***************************************************************************)
SearchPrunes(s, owner) ==
  /\ scoring[s].at \in {"none", "answered"} /\ Written
  /\ entries' = PrunedEntries
  /\ scoring' = [scoring EXCEPT ![s] = [at |-> "walking", owner |-> owner, cursor |-> 0, hits |-> <<>>]]
  /\ UNCHANGED <<inserted, batches, lapsed, firstOwner, contested>>

\* The next record of the walk that is active and visible.
Onward(s) ==
  {i \in DOMAIN inserted : i > scoring[s].cursor /\ VisibleIn(entries, inserted[i], scoring[s].owner)}

SearchScores(s) ==
  /\ scoring[s].at = "walking" /\ Onward(s) # {}
  /\ LET i == CHOOSE i \in Onward(s) : \A j \in Onward(s) : i <= j
         hit == [id |-> inserted[i], owner |-> entries[inserted[i]].owner,
                 grounded |-> entries[inserted[i]].kind # "ungrounded"] IN
     \E reaches \in BOOLEAN :
       scoring' = [scoring EXCEPT ![s].cursor = i,
                                  ![s].hits = IF reaches THEN Append(@, hit) ELSE @]
  /\ UNCHANGED <<entries, inserted, batches, lapsed, writes, firstOwner, contested>>

\* buildEnhancedContext() leaves out what no extractor grounded.
GroundedHits(hits) == Among(hits, {hit \in ToSet(hits) : hit.grounded})

SearchAnswers(s) ==
  /\ scoring[s].at = "walking" /\ Onward(s) = {}
  /\ \E context \in BOOLEAN :
       scoring' = [scoring EXCEPT ![s] =
         [at |-> "answered", owner |-> @.owner, context |-> context,
          hits |-> IF context THEN GroundedHits(@.hits) ELSE @.hits]]
  /\ UNCHANGED <<entries, inserted, batches, lapsed, writes, firstOwner, contested>>

EnhancedInit ==
  /\ entries = [id \in RecordId |-> Unheld]
  /\ inserted = <<>>
  /\ batches = [b \in Batcher |-> NoBatch]
  /\ scoring = [s \in Scorer |-> [at |-> "none"]]
  /\ lapsed = FALSE /\ writes = 0
  /\ firstOwner = [id \in RecordId |-> "nobody"]
  /\ contested = {}

EnhancedNext ==
  \/ Prunes \/ RecordsLapse
  \/ \E owner \in Scoped :
       \/ \E b \in Batcher, batch \in {ids \in SeqOf(RecordId, 2) : ids # <<>> /\ IsInjective(ids)} :
            IngestChecks(b, batch, owner)
       \/ \E id \in RecordId : UpdateEntry(id, owner) \/ RetireEntry(id, owner)
       \/ \E s \in Scorer : SearchPrunes(s, owner)
  \/ \E b \in Batcher : IngestStores(b)
  \/ \E s \in Scorer : SearchScores(s) \/ SearchAnswers(s)

EnhancedSpec == EnhancedInit /\ [][EnhancedNext]_enhancedVars

(***************************************************************************)
(* Properties.                                                             *)
(***************************************************************************)

\* An id stays with the scope that had it first, whatever overlaps, unless it was free when
\* two batches were checked: the check and the storing have an await between them.
OwnersStay ==
  \A id \in RecordId : Taken(id) /\ entries[id].owner # firstOwner[id] => id \in contested

\* A search that walks a changing Map answers each record once and its reader's records only.
WalksAnswerWell ==
  \A s \in Scorer : scoring[s].at = "answered" =>
    LET ids == [i \in DOMAIN scoring[s].hits |-> scoring[s].hits[i].id] IN
    /\ IsInjective(ids) /\ ToSet(ids) \subseteq ToSet(inserted)
    /\ \A hit \in ToSet(scoring[s].hits) :
         /\ hit.owner = scoring[s].owner
         /\ scoring[s].context => hit.grounded

\* A batch that is under way was checked whole: none stores a part and is refused.
BatchesCheckedWhole ==
  \A b \in Batcher : batches[b] # NoBatch =>
    \A i \in DOMAIN batches[b].left :
      \/ SameOwner(batches[b].left[i], batches[b].owner)
      \/ batches[b].left[i] \in batches[b].free \cup contested

EnhancedHolds == OwnersStay /\ WalksAnswerWell /\ BatchesCheckedWhole
=============================================================================
