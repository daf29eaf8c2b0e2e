----------------------------- MODULE Extraction -----------------------------
(***************************************************************************)
(* Observations become facts: extractObservations() of src/service.ts over *)
(* the extractors of src/extraction/.                                      *)
(*                                                                         *)
(* A request x is a record:                                                *)
(*   key      the extraction group of each observation                     *)
(*   kind     "llm", "none" (the passthrough), or "throws": an extractor   *)
(*            of an embedding application that fails                       *)
(*   replies  for a group and the first turn of a batch, what the model    *)
(*            answered: a status, "failed" (the call), "unusable" (several *)
(*            payloads or none) or "ok", and facts                         *)
(*   names    for a group, the words of its actor's and its thread's name  *)
(*   raw      extractionFallback = "raw"                                   *)
(*   passes   failureMode = "passthrough"                                  *)
(* A fact of the model cites turns (cites, its numbers of turns) and has   *)
(* words: those that count, that is neither calendar and attribution words *)
(* nor stop words.  The text of the n-th turn of a request is its words,   *)
(* OwnWords, and LabelWords those of its role and the numbers of its date. *)
(* Types, importance, dates and the prompt's wording are left out.         *)
(***************************************************************************)
EXTENDS Integers, Selecting

CONSTANTS
  OwnWords,     \* [Nat -> SUBSET Word]
  LabelWords,   \* [Nat -> SUBSET Word]
  BatchSize,    \* turns per call (16)
  ContextTurns, \* turns of lookback (4)
  MaxFacts,     \* facts kept of a reply (4 * BatchSize)
  Extractions   \* the requests that are asked about

VARIABLE extracting  \* the request in hand

Turns(x) == 1 .. Len(x.key)

\* Batches are not empty; texts and facts have finitely many words, and a fact cites numbers.
IsReply(reply) ==
  reply.status = "ok" =>
    /\ reply.facts \in Seq(ToSet(reply.facts))
    /\ \A fact \in ToSet(reply.facts) : IsFiniteSet(fact.words) /\ fact.cites \subseteq Int
IsExtraction(x) ==
  /\ x.key \in Seq(ToSet(x.key)) /\ x.kind \in {"llm", "none", "throws"}
  /\ \A n \in Turns(x) : IsFiniteSet(OwnWords[n])
  /\ \A g \in ToSet(x.key), start \in 0 .. Len(x.key) - 1 :
       start % BatchSize = 0 => IsReply(x.replies[<<g, start>>])

ASSUME ExtractionAssumption ==
  /\ BatchSize \in Nat \ {0} /\ ContextTurns \in Nat /\ MaxFacts \in Nat
  /\ \A x \in Extractions : IsExtraction(x)

\* The positions of a window's turns: its turn i, counted from 0, is at WindowOf(x, g)[i + 1].
WindowOf(x, g) == Among([n \in Turns(x) |-> n], {n \in Turns(x) : x.key[n] = g})
Groups(x) == Once(x.key)

(***************************************************************************)
(* LlmExtractor: a window w in batches [start, end).                       *)
(***************************************************************************)
Starts(w) == Among([n \in 1 .. Len(w) |-> n - 1], {i \in 0 .. Len(w) : i % BatchSize = 0})
End(w, start) == IF start + BatchSize < Len(w) THEN start + BatchSize ELSE Len(w)

\* What the model is shown with a batch: its group's names, its turns and a few before them.
Vocabulary(x, w, start) ==
  x.names[x.key[w[1]]]
    \cup UNION {OwnWords[w[i + 1]] \cup LabelWords[w[i + 1]] :
                 i \in {k \in 0 .. End(w, start) - 1 : k >= start - ContextTurns}}

\* At least two words, and at least half of them seen.
Grounded(words, vocabulary) ==
  Cardinality(words) >= 2 /\ 2 * Cardinality(words \cap vocabulary) >= Cardinality(words)

Cited(w, start, cites) ==
  LET own == {i \in cites : i >= start /\ i < End(w, start)} IN
  IF own = {} /\ End(w, start) - start = 1 THEN {start} ELSE own

Valid(x, w, start, fact) ==
  Cited(w, start, fact.cites) # {} /\ Grounded(fact.words, Vocabulary(x, w, start))

ValidateFact(w, start, fact) ==
  [sources |-> Cited(w, start, fact.cites), words |-> fact.words, origin |-> "extracted"]

RawTurns(w, start, end, origin) ==
  [n \in 1 .. end - start |->
     [sources |-> {start + n - 1}, words |-> OwnWords[w[start + n]], origin |-> origin]]

ExtractBatch(x, w, start) ==
  LET reply == x.replies[<<x.key[w[1]], start>>] IN
  IF reply.status # "ok"
  THEN IF x.passes THEN RawTurns(w, start, End(w, start), "fallback") ELSE <<>>
  ELSE LET kept == Among(SubSeq(reply.facts, 1, IF Len(reply.facts) < MaxFacts THEN Len(reply.facts) ELSE MaxFacts),
                         {fact \in ToSet(reply.facts) : Valid(x, w, start, fact)}) IN
       [n \in DOMAIN kept |-> ValidateFact(w, start, kept[n])]

\* What the extractor returns for a window; nothing if it throws.
Extract(x, w) ==
  CASE x.kind = "none"   -> RawTurns(w, 0, Len(w), "passthrough")
    [] x.kind = "throws" -> <<>>
    [] x.kind = "llm"    -> Concat([b \in DOMAIN Starts(w) |-> ExtractBatch(x, w, Starts(w)[b])])

(***************************************************************************)
(* extractObservations().  An entry stands for an observation to store: at *)
(* is the one it was derived from, mark its extractionOrigin.              *)
(***************************************************************************)
Least(S) == CHOOSE i \in S : \A j \in S : i <= j

Derived(w, fact) ==
  LET base == Least(fact.sources)
      same == Cardinality(fact.sources) = 1 /\ fact.words = OwnWords[w[base + 1]] IN
  [at |-> w[base + 1], words |-> fact.words,
   mark |-> IF same /\ fact.origin # "fallback" THEN "none" ELSE fact.origin,
   sources |-> IF same THEN {} ELSE {w[i + 1] : i \in fact.sources}]

Originals(w, mark) ==
  [n \in DOMAIN w |-> [at |-> w[n], words |-> OwnWords[w[n]], mark |-> mark, sources |-> {}]]

\* mutant: only a window that threw is kept
KeptIfThrown(x, w) == IF x.raw /\ x.kind = "throws" THEN Originals(w, "fallback") ELSE <<>>
KeptOf(x, w) ==
  IF x.raw THEN Originals(w, IF x.kind = "throws" THEN "fallback" ELSE "no_facts") ELSE <<>>

WindowEntries(x, w) ==
  LET facts == Extract(x, w) IN
  IF facts = <<>> THEN KeptOf(x, w) ELSE [n \in DOMAIN facts |-> Derived(w, facts[n])]

AllEntries(x) == Concat([k \in DOMAIN Groups(x) |-> WindowEntries(x, WindowOf(x, Groups(x)[k]))])
ExtractObservations(x) ==
  LET all == AllEntries(x) IN
  Concat([n \in Turns(x) |-> Among(all, {e \in ToSet(all) : e.at = n})])

IsUnverified(e) == e.mark \in {"fallback", "no_facts"}

(***************************************************************************)
(* Properties of a request.                                                *)
(***************************************************************************)
\* A turn's place in its window.
Place(x, n) == Cardinality({k \in 1 .. n - 1 : x.key[k] = x.key[n]})

\* The batch a turn is sent in: its group and the batch's first turn.
BatchStart(x, n) == Place(x, n) - (Place(x, n) % BatchSize)
BatchOf(x, n) == <<x.key[n], BatchStart(x, n)>>

\* The turns that are shown with it.
Shown(x, n) ==
  {k \in Turns(x) : /\ x.key[k] = x.key[n]
                    /\ Place(x, k) >= BatchStart(x, n) - ContextTurns
                    /\ Place(x, k) < BatchStart(x, n) + BatchSize}

Said(x, n) == x.names[x.key[n]] \cup UNION {OwnWords[k] \cup LabelWords[k] : k \in Shown(x, n)}

\* A turn as it came, stored because no extraction vouches for it.
KeptRaw(x, n) ==
  \E e \in ToSet(ExtractObservations(x)) : e.at = n /\ e.words = OwnWords[n] /\ IsUnverified(e)

\* By default no failure loses a turn: a window that throws or yields nothing and a batch
\* whose call or answer fails leave their turns as they came, marked unverified; and the
\* passthrough stores every turn, unmarked.
NothingLost(x) ==
  x.raw /\ x.passes =>
    \A n \in Turns(x) :
      /\ x.kind = "throws" => KeptRaw(x, n)
      /\ x.kind = "llm" /\ x.replies[BatchOf(x, n)].status # "ok" => KeptRaw(x, n)
      /\ WindowEntries(x, WindowOf(x, x.key[n])) # <<>>
      /\ x.kind = "none" =>
           [at |-> n, words |-> OwnWords[n], mark |-> "none", sources |-> {}]
             \in ToSet(ExtractObservations(x))

\* Entries keep the order of their observations.  Of what is not marked unverified, at least
\* half was there to be read with the batch it is attributed to: in its turns or the few
\* before them, with their roles and dates, or in the names of the actor and the thread.
\* What is derived is attributed to turns of one batch of one window, and the first of them
\* dates it.
FactsAttributed(x) ==
  LET out == ExtractObservations(x) IN
  /\ \A a, b \in DOMAIN out : a < b => out[a].at <= out[b].at
  /\ \A e \in ToSet(out) :
       /\ ~IsUnverified(e) => 2 * Cardinality(e.words \cap Said(x, e.at)) >= Cardinality(e.words)
       /\ e.sources # {} =>
            /\ e.at = Least(e.sources)
            /\ \A n \in e.sources : BatchOf(x, n) = BatchOf(x, e.at)
       /\ IsUnverified(e) => e.words = OwnWords[e.at] /\ e.sources = {}

(***************************************************************************)
(* One request after another; nothing is remembered.                       *)
(***************************************************************************)
ExtractionInit == extracting = {}
BeginExtraction == extracting = {} /\ \E x \in Extractions : extracting' = {x}
EndExtraction == extracting # {} /\ extracting' = {}
ExtractionNext == BeginExtraction \/ EndExtraction
ExtractionSpec == ExtractionInit /\ [][ExtractionNext]_extracting

\* Extraction loses no turn to a failure, and attributes what it derives.
TurnsKept == \A x \in extracting : NothingLost(x)
DerivationsHold == \A x \in extracting : FactsAttributed(x)
ExtractionKeeps == TurnsKept /\ DerivationsHold
=============================================================================
