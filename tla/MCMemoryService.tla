--------------------------- MODULE MCMemoryService ---------------------------
(* Small instances of MemoryService: one owner, texts of two keys. *)
EXTENDS MemoryService, TLC

CONSTANTS alice, tea, Tea, rye

MCLocus == alice :> "alice"
MCNormKey == tea :> "tea" @@ Tea :> "tea" @@ rye :> "rye"

RequestSymmetry == Permutations(Id) \cup Permutations(Writer)
=============================================================================
