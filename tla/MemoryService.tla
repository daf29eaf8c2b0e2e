---------------------------- MODULE MemoryService ----------------------------
(***************************************************************************)
(* MemoryCoreService's writes (src/service.ts) over a provider that keeps  *)
(* its records as InMemoryProvider does.  InMemoryProvider offers          *)
(* supersedeWithReplacement(); FileProvider and third-party providers      *)
(* offer neither it nor ingestOrReinforceExact(), so the service looks a   *)
(* duplicate up, and writes and retires what it decided in later calls.    *)
(*                                                                         *)
(* A request is what one HTTP call does between its awaits.  What it read  *)
(* before an await is a copy: index() and retire() store new objects, and  *)
(* the service spreads the object it was given.                            *)
(***************************************************************************)
EXTENDS InMemoryProvider

VARIABLES
  atomic,    \* whether the provider has supersedeWithReplacement(): fixed for good
  requests,  \* requests in flight, one per writer
  history    \* metadata.supersessionHistory of each record: the ids it replaced

rvars == <<records, bm25, dupIndex, vectors, embeds, searches, backfill, degraded, now,
           requests, history, atomic>>

(***************************************************************************)
(* Types.                                                                  *)
(***************************************************************************)
Found == [id: Id, record: Record, history: SUBSET Id]

Observing  == [op: {"observe"}, candidate: Record, dup: Found \cup {None}]
Correcting == [op: {"correct"}, id: Id, candidate: Record]
Replacing  == [op: {"replace"}, id: Id, candidate: Record, dup: Found \cup {None}]
Retiring   == [op: {"retire"}, id: Id, saved: Id]
Result     == {"identical", "raced", "partial", "updated", "error"}
Replied    == [op: {"reply"}, result: Result, wrote: BOOLEAN]

RequestTypeOK ==
  /\ TypeOK
  /\ requests \in [Writer -> {Idle} \cup Observing \cup Correcting \cup Replacing
                               \cup Retiring \cup Replied]
  /\ history \in [Id -> SUBSET Id]
  /\ atomic \in BOOLEAN

At(q, op) == requests[q].op = op /\ embeds[q] = NoTexts

Becomes(q, r) == requests' = [requests EXCEPT ![q] = r] /\ UNCHANGED atomic

Reply(q, result, wrote) ==
  Becomes(q, [op |-> "reply", result |-> result, wrote |-> wrote])

Lookup(r) ==
  LET d == FindDuplicate(DupKey(r)) IN
  IF d = None THEN None
  ELSE [id |-> d, record |-> records[d], history |-> history[d]]

Write(q, i, r, h) ==
  /\ Index(i, r)
  /\ history' = [history EXCEPT ![i] = h]
  /\ AwaitEmbedding(q, Pending(records', vectors', {i}))
  /\ UNCHANGED <<searches, backfill, degraded, now>>

StoreUnchanged ==
  UNCHANGED <<records, bm25, dupIndex, vectors, embeds, searches, backfill, degraded,
              now, history>>

(***************************************************************************)
(* ingest(), one observation.  Its reply, a success or an error, is not    *)
(* kept: nothing is claimed of it.                                         *)
(***************************************************************************)
ObserveLooksUp(q, o, t, d) ==
  /\ At(q, "idle")
  /\ LET candidate == FreshRecord(o, t, d) IN
     Becomes(q, [op |-> "observe", candidate |-> candidate, dup |-> Lookup(candidate)])
  /\ StoreUnchanged

\* A candidate's uid is drawn early and is nobody else's: it is chosen where it is used.
Uid(i) == records[i] = None

Reinforced(found, r) == [found.record EXCEPT !.lastSeenAt = r.lastSeenAt]

ObserveWrites(q, new) ==
  LET r == requests[q] IN
  /\ At(q, "observe")
  /\ IF r.dup # None
     THEN Write(q, r.dup.id, Reinforced(r.dup, r.candidate), r.dup.history)
     ELSE Uid(new) /\ Write(q, new, r.candidate, {})
  /\ Becomes(q, Idle)

(***************************************************************************)
(* supersedeMemory().                                                      *)
(***************************************************************************)
\* getById(): the correction keeps the owner and the decay policy of what it corrects.
CorrectReads(q, i, o, t) ==
  /\ At(q, "idle")
  /\ IsVisible(records, i, now)
  /\ InLocus(records, i, o)
  /\ IF SameText(t, records[i].content)
     THEN Reply(q, "identical", FALSE)
     ELSE Becomes(q, [op |-> "correct", id |-> i,
                      candidate |-> FreshRecord(records[i].owner, t, records[i].decay)])
  /\ StoreUnchanged

\* What a replacement adds to the history of the record that takes it in.
HistoryWith(old, i) == old \cup {i}

\* The provider commits replacement and retirement together, or finds it came too late.
\* A reused duplicate leaves the uid drawn for the candidate unused.
CorrectCommits(q, new) ==
  LET r == requests[q]
      d == FindDuplicate(DupKey(r.candidate))
  IN
  /\ atomic /\ At(q, "correct")
  /\ IF d # None THEN new = d ELSE Uid(new)
  /\ SupersedesWith(q, r.id, r.candidate.owner, new, r.candidate)
  /\ history' = [history EXCEPT ![new] = HistoryWith(@, r.id)]
  /\ Reply(q, "updated", TRUE)

CorrectComesLate(q) ==
  /\ atomic /\ At(q, "correct")
  /\ ~IsVisible(records, requests[q].id, now)
  /\ Reply(q, "raced", FALSE)
  /\ StoreUnchanged

CorrectLooksUp(q) ==
  LET r == requests[q] IN
  /\ ~atomic /\ At(q, "correct")
  /\ Becomes(q, [op |-> "replace", id |-> r.id, candidate |-> r.candidate,
                 dup |-> Lookup(r.candidate)])
  /\ StoreUnchanged

\* A reused duplicate takes over the replacement's decay policy.
Adopted(found, r) ==
  [found.record EXCEPT !.lastSeenAt = r.lastSeenAt, !.decay = r.decay]

Replace(q, saved) ==
  LET r == requests[q] IN
  IF r.dup # None
  THEN /\ saved = r.dup.id
       /\ Write(q, saved, Adopted(r.dup, r.candidate), HistoryWith(r.dup.history, r.id))
  ELSE /\ Uid(saved)
       /\ Write(q, saved, r.candidate, HistoryWith({}, r.id))

CorrectReplaces(q, saved) ==
  /\ At(q, "replace")
  /\ Replace(q, saved)
  /\ Becomes(q, [op |-> "retire", id |-> requests[q].id, saved |-> saved])

LostResult == "raced"  \* mutant: a lost retirement hides the replacement
PartialResult == "partial"

CorrectRetires(q) ==
  LET r == requests[q] IN
  /\ At(q, "retire")
  /\ IF IsVisible(records, r.id, now)
     THEN /\ Index(r.id, Superseded(r.id, r.saved))
          /\ Reply(q, "updated", TRUE)
          /\ UNCHANGED <<embeds, searches, backfill, degraded, now, history>>
     ELSE /\ Reply(q, PartialResult, TRUE)
          /\ StoreUnchanged

\* A rejected write ends the request with the error.
RejectedSwallowed(q) ==  \* mutant: the retirement goes ahead
  \E new \in Id :
    Uid(new) /\ Becomes(q, [op |-> "retire", id |-> requests[q].id, saved |-> new])
Rejected(q) == Reply(q, "error", FALSE)

\* The provider's promise is rejected, before the write took effect or - the file
\* provider's snapshot failed - after it did in memory: the service cannot tell.
WriteFails(q) ==
  \/ At(q, "observe") /\ Becomes(q, Idle) /\ StoreUnchanged
  \/ atomic /\ At(q, "correct") /\ Reply(q, "error", FALSE) /\ StoreUnchanged
  \/ At(q, "replace") /\ Rejected(q) /\ StoreUnchanged
  \/ /\ At(q, "replace")
     /\ \E saved \in Id : Replace(q, saved)
     /\ Reply(q, "error", TRUE)

RetireFails(q) ==
  /\ At(q, "retire")
  /\ Reply(q, PartialResult, TRUE)
  /\ \/ StoreUnchanged
     \/ /\ IsVisible(records, requests[q].id, now)
        /\ Index(requests[q].id, Superseded(requests[q].id, requests[q].saved))
        /\ UNCHANGED <<embeds, searches, backfill, degraded, now, history>>

Delivered(q) == At(q, "reply") /\ Becomes(q, Idle) /\ StoreUnchanged

(***************************************************************************)
(* Specifications.                                                         *)
(***************************************************************************)
RequestInit ==
  /\ Init
  /\ requests = [q \in Writer |-> Idle]
  /\ history = [i \in Id |-> {}]
  /\ atomic \in BOOLEAN

ObserveSteps(q) ==
  \/ \E o \in Owner, t \in Content, d \in DecayKind : ObserveLooksUp(q, o, t, d)
  \/ \E new \in Id : ObserveWrites(q, new)

CorrectSteps(q) ==
  \/ \E i \in Id, o \in Owner, t \in Content : CorrectReads(q, i, o, t)
  \/ \E new \in Id : CorrectCommits(q, new) \/ CorrectReplaces(q, new)
  \/ CorrectComesLate(q) \/ CorrectLooksUp(q) \/ CorrectRetires(q)

OtherSteps ==
  /\ StoreSteps \/ \E w \in Writer : EmbedSteps(w)
  /\ UNCHANGED <<requests, history, atomic>>

RequestNext ==
  \/ OtherSteps
  \/ \E q \in Writer :
       ObserveSteps(q) \/ CorrectSteps(q) \/ WriteFails(q) \/ RetireFails(q) \/ Delivered(q)

RequestSpec == RequestInit /\ [][RequestNext]_rvars

\* Corrections overlap as they like; an observation is written before anything else is.
Calm(q) == \A p \in Writer \ {q} : requests[p].op # "observe"

CalmNext ==
  \/ OtherSteps
  \/ \E q \in Writer :
       /\ Calm(q)
       /\ ObserveSteps(q) \/ CorrectSteps(q) \/ WriteFails(q) \/ RetireFails(q) \/ Delivered(q)

CalmSpec == RequestInit /\ [][CalmNext]_rvars

(***************************************************************************)
(* Properties.                                                             *)
(***************************************************************************)

\* However corrections overlap, supersededBy names another stored memory of the same
\* locus: the replacement is written before the memory it replaces is retired.  (Types are
\* checked along.)
LinksLead ==
  /\ RequestTypeOK
  /\ \A i \in Id : records[i] # None /\ records[i].supersededBy # None =>
       LET by == records[i].supersededBy IN
       by # i /\ records[by] # None /\ InLocus(records, i, records[by].owner)

\* A correction that wrote its replacement never answers as if nothing had happened.
RepliesTellWrites ==
  \A q \in Writer : requests[q].op = "reply" =>
    (requests[q].wrote => requests[q].result \in {"updated", "partial", "error"})

\* Over a provider that corrects atomically, following supersededBy from any memory ends,
\* in one that was not superseded: of two overlapping corrections, one comes too late.
SupersededFrom(i) == {j \in Id : records[j] # None /\ records[j].supersededBy = i}
SupersessionAcyclic ==
  atomic => \A S \in (SUBSET Id) \ {{}} : \E i \in S : SupersededFrom(i) \cap S = {}

\* There a record also keeps every memory it replaced in its history, however often it is
\* reused as the replacement of another.
HistoryComplete ==
  atomic => \A i \in Id : records[i] # None /\ records[i].supersededBy # None =>
    i \in history[records[i].supersededBy]

\* Over such a provider corrections form chains that end and forget nothing.
CorrectionsChain == SupersessionAcyclic /\ HistoryComplete

\* Retirement is one-way: no request brings a retired memory back.
RetiredStaysRetired ==
  [][\A i \in Id : records[i] # None /\ records[i].status # "active"
                    => records'[i].status # "active"]_rvars
=============================================================================
