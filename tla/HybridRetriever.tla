--------------------------- MODULE HybridRetriever ---------------------------
(***************************************************************************)
(* HybridRetriever of src/retrieval/index.ts over BM25Index of             *)
(* src/retrieval/bm25.ts: the index a host keeps of its own documents.     *)
(* index() is lexical at once and vectorial after the embedder answers;    *)
(* remove() may come in between.  A vector is the text it was made from.   *)
(* Metadata follows texts and is left out; so are the ranking formulas.    *)
(***************************************************************************)
EXTENDS Integers, FiniteSetsExt

CONSTANTS
  Doc,
  Texts,       \* texts: [Term -> Nat], how often each term occurs
  Term,
  Indexer,     \* calls of index() in flight at once
  MaxIndexed   \* bound on the calls

CONSTANT NoText

ASSUME RetrieverAssumption ==
  /\ IsFiniteSet(Doc) /\ IsFiniteSet(Term)
  /\ Texts \subseteq [Term -> Nat]
  /\ NoText \notin Texts /\ NoText \notin [length : Nat, terms : SUBSET Term]

VARIABLES
  texts,     \* texts: Doc -> text, or NoText
  postings,  \* Term -> Doc -> term frequency
  docs,      \* Doc -> length and terms, or NoText
  totalLength,
  vectors,   \* Doc -> the text embedded, or NoText
  indexers,  \* each call: idle, or the document it awaits a vector of
  indexed,   \* calls so far
  raced      \* history: documents whose present text no call of index() gave its vector: they
             \* changed while a vector was awaited, or the embedder failed

retrieverVars == <<texts, postings, docs, totalLength, vectors, indexers, indexed, raced>>

Waiting == [at |-> "idle"]

TermsOf(text) == {t \in Term : text[t] > 0}
SumOver(f) == MapThenSumSet(LAMBDA x : f[x], DOMAIN f)
LengthOf(text) == SumOver(text)

(***************************************************************************)
(* BM25Index.                                                              *)
(***************************************************************************)
Lexical == [postings |-> postings, docs |-> docs, total |-> totalLength]

Removed(x, id) ==
  IF x.docs[id] = NoText THEN x
  ELSE LET left == [x.docs EXCEPT ![id] = NoText] IN
       [postings |-> [t \in Term |->
          IF t \in x.docs[id].terms THEN [x.postings[t] EXCEPT ![id] = 0] ELSE x.postings[t]],
        docs     |-> left,
        total    |-> IF \A i \in Doc : left[i] = NoText THEN 0 ELSE x.total - x.docs[id].length]

\* mutant: a document that is there is overwritten
AddedAsNew(x, id, text) ==
  [postings |-> [t \in Term |-> [x.postings[t] EXCEPT ![id] = @ + text[t]]],
   docs     |-> [x.docs EXCEPT ![id] = [length |-> LengthOf(text), terms |-> TermsOf(text)]],
   total    |-> x.total + LengthOf(text)]
Added(x, id, text) ==
  LET clean == Removed(x, id) IN
  [postings |-> [t \in Term |-> [clean.postings[t] EXCEPT ![id] = @ + text[t]]],
   docs     |-> [clean.docs EXCEPT ![id] = [length |-> LengthOf(text), terms |-> TermsOf(text)]],
   total    |-> clean.total + LengthOf(text)]

LexicalIs(x) == postings' = x.postings /\ docs' = x.docs /\ totalLength' = x.total

(***************************************************************************)
(* HybridRetriever: index() of one document, remove(), clear().            *)
(***************************************************************************)
Awaited == {indexers[c].id : c \in {x \in Indexer : indexers[x].at = "embedding"}}

Index(c) ==
  /\ indexers[c].at = "idle" /\ indexed < MaxIndexed
  /\ indexed' = indexed + 1
  /\ \E id \in Doc, text \in Texts, given \in BOOLEAN :
       /\ LexicalIs(Added(Lexical, id, text))
       /\ texts' = [texts EXCEPT ![id] = text]
       /\ vectors' = IF given THEN [vectors EXCEPT ![id] = text] ELSE vectors
       /\ indexers' = IF given THEN indexers
                      ELSE [indexers EXCEPT ![c] = [at |-> "embedding", id |-> id, text |-> text]]
       /\ raced' = IF id \in Awaited THEN raced \cup {id} ELSE raced \ {id}

VectorsArrive(c) ==
  /\ indexers[c].at = "embedding"
  /\ vectors' = [vectors EXCEPT ![indexers[c].id] = indexers[c].text]
  /\ indexers' = [indexers EXCEPT ![c] = Waiting]
  /\ UNCHANGED <<texts, postings, docs, totalLength, indexed, raced>>

\* index() throws: the document stays, with the vector it had, if any.
EmbedderFails(c) ==
  /\ indexers[c].at = "embedding"
  /\ indexers' = [indexers EXCEPT ![c] = Waiting]
  /\ raced' = raced \cup {indexers[c].id}
  /\ UNCHANGED <<texts, postings, docs, totalLength, vectors, indexed>>

RemoveDoc(id) ==
  /\ texts[id] # NoText
  /\ LexicalIs(Removed(Lexical, id))
  /\ texts' = [texts EXCEPT ![id] = NoText]
  /\ vectors' = [vectors EXCEPT ![id] = NoText]
  /\ raced' = IF id \in Awaited THEN raced \cup {id} ELSE raced \ {id}
  /\ UNCHANGED <<indexers, indexed>>

EmptyIndex ==
  [postings |-> [t \in Term |-> [id \in Doc |-> 0]], docs |-> [id \in Doc |-> NoText], total |-> 0]

Clear ==
  /\ \E id \in Doc : texts[id] # NoText
  /\ LexicalIs(EmptyIndex)
  /\ texts' = [id \in Doc |-> NoText] /\ vectors' = [id \in Doc |-> NoText]
  /\ raced' = Awaited
  /\ UNCHANGED <<indexers, indexed>>

RetrieverInit ==
  /\ texts = [id \in Doc |-> NoText] /\ vectors = [id \in Doc |-> NoText]
  /\ postings = EmptyIndex.postings /\ docs = EmptyIndex.docs /\ totalLength = EmptyIndex.total
  /\ indexers = [c \in Indexer |-> Waiting]
  /\ indexed = 0
  /\ raced = {}

RetrieverNext ==
  \/ \E c \in Indexer : Index(c) \/ VectorsArrive(c) \/ EmbedderFails(c)
  \/ \E id \in Doc : RemoveDoc(id)
  \/ Clear

RetrieverSpec == RetrieverInit /\ [][RetrieverNext]_retrieverVars

(***************************************************************************)
(* Properties.                                                             *)
(***************************************************************************)

\* The statistics BM25 ranks by are those of the documents held, after any sequence of
\* additions, replacements and removals: a term's document frequency, a document's terms and
\* length, the total length; a lexical search finds no document that is gone.  And a vector is
\* of its document's present text, unless the document last changed while index() awaited one
\* for it, or the embedder failed on it since.
RetrieverCurrent ==
  /\ \A t \in Term, id \in Doc : postings[t][id] = IF texts[id] = NoText THEN 0 ELSE texts[id][t]
  /\ \A id \in Doc : docs[id] =
       IF texts[id] = NoText THEN NoText ELSE [length |-> LengthOf(texts[id]), terms |-> TermsOf(texts[id])]
  /\ totalLength = SumOver([id \in {i \in Doc : texts[i] # NoText} |-> LengthOf(texts[id])])
  /\ \A id \in Doc \ (raced \cup Awaited) : vectors[id] = texts[id]
=============================================================================
