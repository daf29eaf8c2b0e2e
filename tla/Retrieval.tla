------------------------------ MODULE Retrieval ------------------------------
(***************************************************************************)
(* A host's own index and the embedder below it (src/retrieval/): index()  *)
(* awaits an embed() and takes its vectors or its failure, and the two     *)
(* share no state.                                                         *)
(***************************************************************************)
EXTENDS HybridRetriever, Embedding

\* What either keeps of a text is that text's own: the statistics and vectors of the index
\* (RetrieverCurrent) and the vectors a call of embed() is answered with (VectorsMatch).
RetrievalHolds == RetrieverCurrent /\ VectorsMatch
=============================================================================
