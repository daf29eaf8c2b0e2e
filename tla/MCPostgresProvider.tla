------------------------- MODULE MCPostgresProvider -------------------------
(* Small instances of PostgresProvider. *)
EXTENDS PostgresProvider, TLC

CONSTANTS m1, m2, m3, tea, Tea, rye

MCNormKey == tea :> "tea" @@ Tea :> "tea" @@ rye :> "rye"

\* No order between ids (a fresh uuid is any of them), or the order of their names.
MCUnordered == [i \in Id |-> 0]
MCRank == m1 :> 1 @@ m2 :> 2 @@ m3 :> 3

Candidate(t) == NewRow(t, CHOOSE d \in DecayKind : TRUE, 0)

\* Both memories, whichever has which text.
MCPairs ==
  {b \in [Id -> {Candidate(t) : t \in Content}] : \A i, j \in Id : i # j => b[i] # b[j]}

IdSymmetry == Permutations(Id)
SessionSymmetry == Permutations(Session)
StoreSymmetry == IdSymmetry \cup SessionSymmetry
=============================================================================
