----------------------------- MODULE Embedding ------------------------------
(***************************************************************************)
(* src/retrieval/embedder.ts: texts are embedded by a local pipeline that  *)
(* is loaded once for all callers, or by a hosted API, a batch at a time;  *)
(* CachedEmbedder keeps the vectors of CacheSize texts, oldest first.      *)
(*                                                                         *)
(* The vector of a text is the text.  The API labels its rows with the     *)
(* index of their text, in any order, or sends them unlabelled in order;   *)
(* what it answers may be short of a row or of the wrong width.            *)
(***************************************************************************)
EXTENDS Integers, Selecting

CONSTANTS
  EmbedCaller,
  TextLists,     \* the texts of a call
  EmbedBatch,    \* batchSize
  CacheSize,     \* maxEntries
  MaxEmbeds,     \* bound on the calls
  ZeroVector     \* new Float32Array(dims)

\* A cache of no entries would keep one, and batches of no texts would never end.
ASSUME EmbeddingAssumption ==
  /\ EmbedBatch \in Nat \ {0} /\ CacheSize \in Nat \ {0}
  /\ \A texts \in TextLists : texts \in Seq(ToSet(texts))

VARIABLES
  embedderKind,  \* "local" or "hosted"
  pipeline,      \* pipelinePromise: "none", "loading" or "ready"
  embeds,        \* each call
  cached,        \* the Map's keys and vectors, in its order
  embedsBegun,
  lost           \* history: the texts evicted since each call began

embedVars == <<embedderKind, pipeline, embeds, cached, embedsBegun, lost>>

CachedTexts(cache) == {cache[i][1] : i \in DOMAIN cache}
VectorOf(cache, text) ==
  IF text \in CachedTexts(cache)
  THEN LET i == CHOOSE i \in DOMAIN cache : cache[i][1] = text IN cache[i][2]
  ELSE ZeroVector

\* A full Map first loses its oldest entry, even one that set() would only renew.
PutVector(cache, text, vector) ==
  LET room == IF Len(cache) >= CacheSize THEN Tail(cache) ELSE cache IN
  IF text \in CachedTexts(room)
  THEN [i \in DOMAIN room |-> IF room[i][1] = text THEN <<text, vector>> ELSE room[i]]
  ELSE Append(room, <<text, vector>>)

\* The texts the cache does not have, each once.
Missing(texts) == Once(Among(texts, ToSet(texts) \ CachedTexts(cached)))

NextBatch(call) ==
  LET from == Len(call.got) IN
  SubSeq(call.missing, from + 1, IF from + EmbedBatch < Len(call.missing) THEN from + EmbedBatch
                                 ELSE Len(call.missing))

(***************************************************************************)
(* The API's rows for a batch, and what the code makes of them.            *)
(***************************************************************************)
LabelledRows(batch) ==
  {[i \in DOMAIN batch |-> [index |-> p[i], vector |-> batch[p[i]]]] : p \in Bijection(DOMAIN batch, DOMAIN batch)}
UnlabelledRows(batch) == [i \in DOMAIN batch |-> [index |-> 0, vector |-> batch[i]]]
Responses(batch) == LabelledRows(batch) \cup {UnlabelledRows(batch), Tail(UnlabelledRows(batch))}

\* A stable sort by index.
SortsRows(order, rows) ==
  \A i, j \in DOMAIN rows : i < j =>
    \/ rows[order[i]].index < rows[order[j]].index
    \/ rows[order[i]].index = rows[order[j]].index /\ order[i] < order[j]
ToVectors(rows) ==
  LET order == CHOOSE p \in Bijection(DOMAIN rows, DOMAIN rows) : SortsRows(p, rows) IN
  [i \in DOMAIN rows |-> rows[order[i]].vector]

(***************************************************************************)
(* embed().                                                                *)
(***************************************************************************)
EmbedBegins(c, texts) ==
  /\ embeds[c].at \in {"none", "done", "failed"} /\ embedsBegun < MaxEmbeds
  /\ embedsBegun' = embedsBegun + 1
  /\ lost' = [lost EXCEPT ![c] = {}]
  /\ LET missing == Missing(texts)
         waits == embedderKind = "local" /\ pipeline # "ready" IN
     IF missing = <<>>
     THEN /\ embeds' = [embeds EXCEPT ![c] =
               [at |-> "done", texts |-> texts, answer |-> [i \in DOMAIN texts |-> VectorOf(cached, texts[i])]]]
          /\ UNCHANGED pipeline
     ELSE /\ embeds' = [embeds EXCEPT ![c] =
               [at |-> IF waits THEN "loading" ELSE "embedding", texts |-> texts,
                missing |-> missing, got |-> <<>>]]
          /\ pipeline' = IF waits THEN "loading" ELSE pipeline
  /\ UNCHANGED <<embedderKind, cached>>

LoadEnds(to) ==
  embeds' = [c \in EmbedCaller |->
    IF embeds[c].at # "loading" THEN embeds[c]
    ELSE IF to = "failed" THEN [at |-> "failed"] ELSE [embeds[c] EXCEPT !.at = to]]

PipelineLoads ==
  /\ pipeline = "loading"
  /\ pipeline' = "ready" /\ LoadEnds("embedding")
  /\ UNCHANGED <<embedderKind, cached, embedsBegun, lost>>

\* The promise is dropped, so that the next call loads again.
PipelineFails ==
  /\ pipeline = "loading"
  /\ pipeline' = "none" /\ LoadEnds("failed")
  /\ UNCHANGED <<embedderKind, cached, embedsBegun, lost>>

\* The last batch: every vector is put, then every text is read back.
EmbedAnswers(c, got) ==
  LET call == embeds[c]
      cache == FoldLeft(LAMBDA m, i : PutVector(m, call.missing[i], got[i]), cached,
                        [i \in DOMAIN call.missing |-> i]) IN
  /\ cached' = cache
  /\ lost' = [d \in EmbedCaller |->
       lost[d] \cup ((CachedTexts(cached) \cup ToSet(call.missing)) \ CachedTexts(cache))]
  /\ embeds' = [embeds EXCEPT ![c] =
       [at |-> "done", texts |-> call.texts,
        answer |-> [i \in DOMAIN call.texts |-> VectorOf(cache, call.texts[i])]]]

BatchArrives(c) ==
  /\ embeds[c].at = "embedding"
  /\ LET batch == NextBatch(embeds[c]) IN
     \E rows \in IF embedderKind = "hosted" THEN Responses(batch) ELSE {UnlabelledRows(batch)} :
       LET got == embeds[c].got \o ToVectors(rows) IN
       IF Len(rows) # Len(batch)
       THEN embeds' = [embeds EXCEPT ![c] = [at |-> "failed"]] /\ UNCHANGED <<cached, lost>>
       ELSE IF Len(got) < Len(embeds[c].missing)
            THEN embeds' = [embeds EXCEPT ![c].got = got] /\ UNCHANGED <<cached, lost>>
            ELSE EmbedAnswers(c, got)
  /\ UNCHANGED <<embedderKind, pipeline, embedsBegun>>

\* The call fails, or its vectors have another width.
BatchFails(c) ==
  /\ embeds[c].at = "embedding"
  /\ embeds' = [embeds EXCEPT ![c] = [at |-> "failed"]]
  /\ UNCHANGED <<embedderKind, pipeline, cached, embedsBegun, lost>>

EmbeddingInit ==
  /\ embedderKind \in {"local", "hosted"}
  /\ pipeline = "none" /\ cached = <<>> /\ embedsBegun = 0
  /\ embeds = [c \in EmbedCaller |-> [at |-> "none"]]
  /\ lost = [c \in EmbedCaller |-> {}]

EmbeddingNext ==
  \/ PipelineLoads \/ PipelineFails
  \/ \E c \in EmbedCaller :
       \/ \E texts \in TextLists : EmbedBegins(c, texts)
       \/ BatchArrives(c) \/ BatchFails(c)

EmbeddingSpec == EmbeddingInit /\ [][EmbeddingNext]_embedVars

(***************************************************************************)
(* Properties.                                                             *)
(***************************************************************************)

\* However calls overlap, each is answered in its own order with the vectors of its own
\* texts, except for texts that the cache evicted while the call was under way: those come
\* back as zeros.  A failed load is nobody's for ever, and the cache keeps its bound.
VectorsMatch ==
  /\ \A c \in EmbedCaller : embeds[c].at = "done" =>
       \A i \in DOMAIN embeds[c].texts :
         embeds[c].answer[i] # embeds[c].texts[i] =>
           embeds[c].answer[i] = ZeroVector /\ embeds[c].texts[i] \in lost[c]
  /\ (pipeline = "loading") = (\E c \in EmbedCaller : embeds[c].at = "loading")
  /\ Len(cached) <= CacheSize /\ \A i \in DOMAIN cached : cached[i][2] = cached[i][1]
=============================================================================
