----------------------------- MODULE Reranking ------------------------------
(***************************************************************************)
(* search() of src/service.ts with a reranker: overlapping searches share  *)
(* a cooldown, disabledUntil, and the counters.  A step is the code        *)
(* between two awaits.                                                     *)
(*                                                                         *)
(* The provider ranks Hit by score; what it holds of them may change from  *)
(* one search to the next.  A reranker answers any rows: ids it was not    *)
(* given, twice the same, scores that are no number (NaN).                 *)
(***************************************************************************)
EXTENDS Integers, SequencesExt

CONSTANTS
  Searcher,
  Hit,
  Score,          \* [Hit -> Nat], the provider's scores
  Rankings,       \* what the provider may find, best first
  TopK,           \* of the query
  MinScores,      \* minScore of a query, or the provider's default
  Gate,           \* rerankerMinScore
  Cooldown,
  Rows,           \* the answers a reranker may give
  MaxSearches,    \* bound on the searches
  MaxClock,       \* bound on the clock
  NaN

VARIABLES
  searching,     \* each search
  disabledUntil, \* rerankerDisabledUntil
  stats,         \* rerankerStats
  clock,
  settled        \* history: the last rerank to end, and when

breakerVars == <<searching, disabledUntil, stats, clock, settled>>

ASSUME BreakerConstants ==
  /\ Cooldown \in Nat /\ MaxSearches \in Nat /\ MaxClock \in Nat /\ TopK \in Nat
  /\ \A rows \in Rows : Len(rows) \in Nat /\ DOMAIN rows = 1 .. Len(rows)

Idle == [at |-> "idle"]

\* The provider's answer: a prefix of its ranking.
ProviderSearch(ranked, limit, min) ==
  LET above == SelectSeq(ranked, LAMBDA h : Score[h] >= min) IN
  SubSeq(above, 1, IF Len(above) < limit THEN Len(above) ELSE limit)

Count(field) == [stats EXCEPT ![field] = @ + 1]

(***************************************************************************)
(* A search.                                                               *)
(***************************************************************************)
Disabled == clock < disabledUntil

\* The reranker is left alone: the provider's own search.
SearchSkips(s) ==
  /\ searching[s].at # "asked" /\ stats.requests < MaxSearches
  /\ Disabled
  /\ stats' = [stats EXCEPT !.requests = @ + 1, !.fallbacks = @ + 1]
  /\ \E ranked \in Rankings, min \in MinScores :
       searching' = [searching EXCEPT ![s] =
         [at |-> "plain", from |-> ranked, min |-> min,
          answer |-> ProviderSearch(ranked, TopK, min)]]
  /\ UNCHANGED <<disabledUntil, clock, settled>>

\* The awaited candidates: as many as a rerank may take, whatever their score.
SearchStarts(s) ==
  /\ searching[s].at \notin {"found", "asked"} /\ stats.requests < MaxSearches
  /\ ~Disabled
  /\ stats' = Count("requests")
  /\ \E ranked \in Rankings, min \in MinScores :
       searching' = [searching EXCEPT ![s] = [at |-> "found", from |-> ranked, min |-> min]]
  /\ UNCHANGED <<disabledUntil, clock, settled>>

SearchFindsNothing(s) ==
  /\ searching[s].at = "found" /\ searching[s].from = <<>>
  /\ searching' = [searching EXCEPT ![s] = Idle]
  /\ UNCHANGED <<disabledUntil, stats, clock, settled>>

ProviderFails(s) ==
  /\ searching[s].at = "found"
  /\ searching' = [searching EXCEPT ![s] = Idle]
  /\ UNCHANGED <<disabledUntil, stats, clock, settled>>

RerankStarts(s) ==
  /\ searching[s].at = "found" /\ searching[s].from # <<>>
  /\ stats' = Count("attempts")
  /\ searching' = [searching EXCEPT ![s].at = "asked"]
  /\ UNCHANGED <<disabledUntil, clock, settled>>

\* The rows that count: known, a number, and the first of their id.
KnownRow(s, row) == row.score # NaN /\ Contains(searching[s].from, row.id)
Recognized(s, rows) ==
  {i \in DOMAIN rows : KnownRow(s, rows[i])
                       /\ \A j \in 1 .. i - 1 : KnownRow(s, rows[j]) => rows[j].id # rows[i].id}

\* The first TopK of those above the gate.
AboveGate(s, rows) == {i \in Recognized(s, rows) : rows[i].score >= Gate}
Nth(S, n) == CHOOSE i \in S : Cardinality({j \in S : j <= i}) = n

Output(s, rows) ==
  LET above == AboveGate(s, rows)
      count == Cardinality(above) IN
  [n \in 1 .. (IF count < TopK THEN count ELSE TopK) |-> rows[Nth(above, n)].id]

RerankAnswers(s, rows) ==
  /\ searching[s].at = "asked"
  /\ Recognized(s, rows) # {}
  /\ stats' = Count("successes")
  /\ disabledUntil' = 0
  /\ settled' = [by |-> "success", at |-> clock]
  /\ searching' = [searching EXCEPT ![s] =
       [at |-> "reranked", from |-> @.from, rows |-> rows, answer |-> Output(s, rows)]]
  /\ UNCHANGED clock

\* mutant: a failure lengthens the cooldown that is left
CooldownExtended == (IF Disabled THEN disabledUntil ELSE clock) + Cooldown
CooldownFrom == clock + Cooldown

\* It threw, timed out, or answered nothing of use.
Degraded(s) == ProviderSearch(searching[s].from, TopK, searching[s].min)

RerankFails(s) ==
  /\ searching[s].at = "asked"
  /\ stats' = [stats EXCEPT !.failures = @ + 1, !.fallbacks = @ + 1]
  /\ disabledUntil' = CooldownFrom
  /\ settled' = [by |-> "failure", at |-> clock]
  /\ searching' = [searching EXCEPT ![s] =
       [at |-> "plain", from |-> @.from, min |-> @.min, answer |-> Degraded(s)]]
  /\ UNCHANGED clock

ClockTicks ==
  /\ clock < MaxClock
  /\ clock' = clock + 1
  /\ UNCHANGED <<searching, disabledUntil, stats, settled>>

BreakerInit ==
  /\ searching = [s \in Searcher |-> Idle]
  /\ disabledUntil = 0
  /\ stats = [requests |-> 0, attempts |-> 0, successes |-> 0, failures |-> 0, fallbacks |-> 0]
  /\ clock = 0
  /\ settled = [by |-> "none", at |-> 0]

BreakerNext ==
  \/ ClockTicks
  \/ \E s \in Searcher :
       \/ SearchSkips(s) \/ SearchStarts(s) \/ SearchFindsNothing(s) \/ ProviderFails(s)
       \/ RerankStarts(s) \/ RerankFails(s)
       \/ \E rows \in Rows : RerankAnswers(s, rows)

BreakerSpec == BreakerInit /\ [][BreakerNext]_breakerVars

(***************************************************************************)
(* Properties.                                                             *)
(***************************************************************************)

\* A search the reranker fails answers what the provider alone would have answered; a
\* reranked one each of its candidates at most once, by a row above the gate.
SearchesAnswerWell ==
  \A s \in Searcher :
    /\ searching[s].at = "plain" =>
         searching[s].answer = ProviderSearch(searching[s].from, TopK, searching[s].min)
    /\ searching[s].at = "reranked" =>
         /\ Len(searching[s].answer) <= TopK /\ IsInjective(searching[s].answer)
         /\ \A h \in ToSet(searching[s].answer) :
              /\ Contains(searching[s].from, h)
              /\ \E row \in ToSet(searching[s].rows) : row.id = h /\ row.score # NaN /\ row.score >= Gate

\* However searches overlap, the cooldown runs from the failure that ended last, unless a
\* success ended since, and the counters an operator reads add up.
BreakerHolds ==
  LET at(st) == Cardinality({s \in Searcher : searching[s].at = st}) IN
  /\ disabledUntil = IF settled.by = "failure" THEN settled.at + Cooldown ELSE 0
  /\ stats.attempts = stats.successes + stats.failures + at("asked")
  /\ stats.requests >= stats.attempts + (stats.fallbacks - stats.failures) + at("found")
  /\ stats.fallbacks >= stats.failures

\* Both.
RerankingHolds == SearchesAnswerWell /\ BreakerHolds
=============================================================================
