------------------------- MODULE MCInMemoryProvider -------------------------
(* Small instances of InMemoryProvider. *)
EXTENDS InMemoryProvider, TLC

CONSTANTS m1, m2, m3, alice, aliceApp2, bob, tea, Tea, rye

MCLocus == alice :> "alice" @@ aliceApp2 :> "alice" @@ bob :> "bob"
MCNormKey == tea :> "tea" @@ Tea :> "tea" @@ rye :> "rye"

\* Owners that share nothing and texts without variants: any may stand for any other.
MCOwnLocus == [o \in Owner |-> <<o>>]
MCOwnKey == [t \in Content |-> <<t>>]

Stored(o, t, s, at) ==
  [content |-> t, owner |-> o, status |-> s, createdAt |-> at, lastSeenAt |-> at,
   decay |-> CHOOSE d \in DecayKind : TRUE, supersededBy |-> None]

\* Two active duplicates written at once, and a retired record beside an active one.
MCSnapshots ==
  {[i \in Id |-> Stored(o, t, IF i = gone THEN "archived" ELSE "active", 0)] :
     gone \in Id \cup {None}, o \in Owner, t \in Content}

\* What the service leaves behind: a fact observed again after its record expired.
MCServiceSnapshots ==
  {[i \in Id |-> CASE i = m1 -> [Stored(alice, tea, "active", 0) EXCEPT !.decay = "time"]
                  [] i = m2 -> [Stored(alice, tea, "active", 1) EXCEPT !.decay = "time"]
                  [] OTHER -> None]}

IdSymmetry == Permutations(Id)
ClientSymmetry == IdSymmetry \cup Permutations(Owner) \cup Permutations(Content)
WriterSymmetry == Permutations(Writer)
=============================================================================
