--------------------------- MODULE PostgresSearch ---------------------------
(***************************************************************************)
(* search() of src/providers/postgres-provider.ts: a lexical and a vector  *)
(* ranking fused in one statement, and the embedder it may have to do      *)
(* without.                                                                *)
(*                                                                         *)
(* The statement sees one snapshot, so what it answers is a function of    *)
(* the rows a filter lets through: each ranker's order of them, their      *)
(* priors (recency, confidence, importance and feedback, weighted, in      *)
(* hundredths of the score) and when they were last seen (a row's number). *)
(* Scores are exact here: they are multiplied by the same positive number. *)
(***************************************************************************)
EXTENDS Integers, FiniteSets, SequencesExt

CONSTANTS
  Finder,            \* searches in flight
  RrfK, LexWeight, VecWeight,
  VectorCooldown,    \* embedderCooldownMs
  MaxFinds,          \* bound on the searches
  MaxMoment,         \* bound on the clock
  Queries            \* what the statement may find, and is asked for

\* Weights and scores are multiplied until they are whole.
ASSUME WeightsPositive == RrfK \in Nat /\ LexWeight \in Nat \ {0} /\ VecWeight \in Nat \ {0}

IsQuery(q) ==
  /\ q.lex \in Seq(Nat) /\ IsInjective(q.lex) /\ q.vec \in Seq(Nat) /\ IsInjective(q.vec)
  /\ \A row \in ToSet(q.lex) \cup ToSet(q.vec) : q.priors[row] \in Int
  /\ q.minScore \in Nat /\ q.limit \in Nat \ {0} /\ q.cap \in Nat \ {0}

ASSUME QueriesAssumption == \A q \in Queries : IsQuery(q)

VARIABLES
  finding,         \* each search
  vectorPromise,   \* "none", "resolving" or "resolved"
  provisioned,     \* the embedding table exists
  vectorDisabledUntil,
  moment,
  finds,           \* searches so far
  embedded         \* history: how the last call for a query's vector ended, and when

searchVars == <<finding, vectorPromise, provisioned, vectorDisabledUntil, moment, finds, embedded>>

(***************************************************************************)
(* The statement.  q.lex and q.vec rank rows, best first; q.priors is in   *)
(* hundredths; q.cap bounds the candidates of a ranker.                    *)
(***************************************************************************)
Candidates(ranking, cap) == SubSeq(ranking, 1, IF Len(ranking) < cap THEN Len(ranking) ELSE cap)
Lex(q) == Candidates(q.lex, q.cap)
Vec(q) == Candidates(q.vec, q.cap)
Fused(q) == ToSet(Lex(q)) \cup ToSet(Vec(q))

Rank(ranking, row) == CHOOSE i \in DOMAIN ranking : ranking[i] = row

\* Every share is a multiple of 1 / Unit.
Unit(q) == FoldLeft(LAMBDA u, i : u * (RrfK + i), 1, [i \in 1 .. q.cap |-> i])
Share(q, weight, ranking, row) ==
  IF Contains(ranking, row) THEN weight * (Unit(q) \div (RrfK + Rank(ranking, row))) ELSE 0
Rrf(q, row) == Share(q, LexWeight, Lex(q), row) + Share(q, VecWeight, Vec(q), row)

\* mutant: a ranker that found nothing counts
EveryRankerCounts(q) == (LexWeight + VecWeight) * (Unit(q) \div (RrfK + 1))
RrfMax(q) ==
  (IF Lex(q) # <<>> THEN LexWeight * (Unit(q) \div (RrfK + 1)) ELSE 0)
  + (IF Vec(q) # <<>> THEN VecWeight * (Unit(q) \div (RrfK + 1)) ELSE 0)

\* relevance * 0.55 and the priors, between 0 and 1; all times 100 * RrfMax.
Relevance(q, row) == IF Rrf(q, row) < RrfMax(q) THEN Rrf(q, row) ELSE RrfMax(q)
InRange(score, most) == IF score < 0 THEN 0 ELSE IF score > most THEN most ELSE score
FusedScore(q, row) == InRange(55 * Relevance(q, row) + q.priors[row] * RrfMax(q), 100 * RrfMax(q))

\* Those of the highest score first, then the newest.
InOrder(s, score) ==
  \A i, j \in DOMAIN s : i < j =>
    score[s[i]] > score[s[j]] \/ (score[s[i]] = score[s[j]] /\ s[i] > s[j])
Ranked(rows, score) ==
  CHOOSE s \in [1 .. Cardinality(rows) -> rows] : IsInjective(s) /\ InOrder(s, score)

Above(q) == {row \in Fused(q) : FusedScore(q, row) >= q.minScore * RrfMax(q)}
HybridHits(q) == Candidates(Ranked(Above(q), [row \in Above(q) |-> FusedScore(q, row)]), q.limit)

\* A blank query: the newest rows the filter lets through, by their priors alone.
Prior(q, row) == InRange(q.priors[row], 100)
Newest(q, rows) == ToSet(Candidates(Ranked(rows, [row \in rows |-> row]), q.cap))
RecentAbove(q, rows) == {row \in Newest(q, rows) : Prior(q, row) >= q.minScore}
RecentHits(q, rows) ==
  Candidates(Ranked(RecentAbove(q, rows), [row \in RecentAbove(q, rows) |-> Prior(q, row)]), q.limit)

(***************************************************************************)
(* A search: the vector of its text is awaited before the statement runs.  *)
(***************************************************************************)
FindEnds(f, vectors) == [finding EXCEPT ![f] = [at |-> "answered", vectors |-> vectors]]

SearchBegins(f) ==
  /\ finding[f].at \in {"idle", "answered"} /\ finds < MaxFinds
  /\ finds' = finds + 1
  /\ \E blank \in BOOLEAN :
       LET skips == blank \/ moment < vectorDisabledUntil IN
       /\ finding' = [finding EXCEPT ![f] =
            [at |-> IF skips THEN "answered" ELSE IF vectorPromise = "resolved" THEN "embedding" ELSE "resolving",
             vectors |-> FALSE]]
       /\ vectorPromise' = IF ~skips /\ vectorPromise = "none" THEN "resolving" ELSE vectorPromise
  /\ UNCHANGED <<provisioned, vectorDisabledUntil, moment, embedded>>

\* The searches that wait for the table all go on at once.
VectorTarget ==
  /\ vectorPromise = "resolving" /\ provisioned
  /\ vectorPromise' = "resolved"
  /\ finding' = [f \in Finder |->
       IF finding[f].at = "resolving" THEN [finding[f] EXCEPT !.at = "embedding"] ELSE finding[f]]
  /\ UNCHANGED <<provisioned, vectorDisabledUntil, moment, finds, embedded>>

Degrades ==
  /\ vectorDisabledUntil' = moment + VectorCooldown
  /\ embedded' = [by |-> "failure", at |-> moment]

VectorTargetFails ==
  /\ vectorPromise = "resolving"
  /\ vectorPromise' = "none"
  /\ finding' = [f \in Finder |->
       IF finding[f].at = "resolving" THEN FindEnds(f, FALSE)[f] ELSE finding[f]]
  /\ Degrades
  /\ UNCHANGED <<provisioned, moment, finds>>

QueryEmbedded(f) ==
  /\ finding[f].at = "embedding"
  /\ finding' = FindEnds(f, TRUE)
  /\ vectorDisabledUntil' = 0
  /\ embedded' = [by |-> "success", at |-> moment]
  /\ UNCHANGED <<vectorPromise, provisioned, moment, finds>>

\* It threw, or answered a vector of another width, or none.
EmbeddingFails(f) ==
  /\ finding[f].at = "embedding"
  /\ finding' = FindEnds(f, FALSE)
  /\ Degrades
  /\ UNCHANGED <<vectorPromise, provisioned, moment, finds>>

\* A deployment runs memory_core_ensure_embedding_dim().
TableProvisioned ==
  /\ ~provisioned
  /\ provisioned' = TRUE
  /\ UNCHANGED <<finding, vectorPromise, vectorDisabledUntil, moment, finds, embedded>>

MomentPasses ==
  /\ moment < MaxMoment
  /\ moment' = moment + 1
  /\ UNCHANGED <<finding, vectorPromise, provisioned, vectorDisabledUntil, finds, embedded>>

SearchInit ==
  /\ finding = [f \in Finder |-> [at |-> "idle", vectors |-> FALSE]]
  /\ vectorPromise = "none"
  /\ provisioned \in BOOLEAN
  /\ vectorDisabledUntil = 0
  /\ moment = 0 /\ finds = 0
  /\ embedded = [by |-> "nobody", at |-> 0]

SearchNext ==
  \/ VectorTarget \/ VectorTargetFails \/ TableProvisioned \/ MomentPasses
  \/ \E f \in Finder : SearchBegins(f) \/ QueryEmbedded(f) \/ EmbeddingFails(f)

SearchSpec == SearchInit /\ [][SearchNext]_searchVars

(***************************************************************************)
(* Properties.                                                             *)
(***************************************************************************)

\* However searches overlap, a table that was not there is looked for again, nobody waits for
\* a look-up that nobody makes, and the embedder is left alone from the failure that ended
\* last for a whole cooldown, unless a success ended since: see vectorTarget() and search().
VectorsDegrade ==
  /\ vectorPromise = "resolved" => provisioned
  /\ (vectorPromise = "resolving") = (\E f \in Finder : finding[f].at = "resolving")
  /\ vectorDisabledUntil = IF embedded.by = "failure" THEN embedded.at + VectorCooldown ELSE 0
  /\ \A f \in Finder : finding[f].vectors => provisioned

\* a is at least as good as b for every ranker that found b, and by its priors.
Dominates(q, a, b) ==
  /\ q.priors[a] >= q.priors[b]
  /\ \A ranking \in {q.lex, q.vec} : Contains(ranking, b) =>
       Contains(ranking, a) /\ Rank(ranking, a) <= Rank(ranking, b)

\* Fusion never answers a row instead of one that is better in every respect, and losing a
\* ranker (the embedder is down, or the words occur nowhere) does not take the best row of the
\* other below a threshold that its relevance alone would pass.
FusionFair(q) ==
  LET answer == ToSet(HybridHits(q)) IN
  /\ \A a \in Fused(q), b \in answer :
       Dominates(q, a, b) => a \in answer \/ FusedScore(q, a) = FusedScore(q, b)
  /\ (q.lex = <<>>) # (q.vec = <<>>) =>
       LET best == Head(q.lex \o q.vec) IN
       q.priors[best] >= 0 /\ q.minScore <= 55 => answer # {}
  /\ LET rows == ToSet(q.lex) \cup ToSet(q.vec)
         recent == ToSet(RecentHits(q, rows)) IN
     \A a \in rows, b \in recent : q.priors[a] >= q.priors[b] /\ a >= b => a \in recent
FusionsFair == \A q \in Queries : FusionFair(q)

\* A search that loses a ranker still answers, and fairly.
HybridSearchHolds == VectorsDegrade /\ FusionsFair
=============================================================================
