-------------------------- MODULE Retrieval_proofs --------------------------
(***************************************************************************)
(* What callers are given back: the hybrid retriever's index, the enhanced *)
(* provider's searches, the prompt that buildContext() makes, and the      *)
(* dual-layer provider's cache.  Loops of the code are folds in the        *)
(* modules; what they compute is proved by induction on the elements they  *)
(* have gone through.                                                      *)
(***************************************************************************)
EXTENDS HybridRetriever, EnhancedProvider, Context, DualLayer, FiniteSetTheorems, WellFoundedInduction, TLAPS

KeepFold == INSTANCE FoldLemmas WITH Op <- KeepIf

(***************************************************************************)
(* What a filter yields.                                                   *)
(***************************************************************************)
Distinct(s, n) == \A i, j \in 1 .. n : s[i] = s[j] => i = j
Picked(S, t, s, n, keep) ==
  /\ t \in Seq(S) /\ Len(t) <= n
  /\ \A k \in 1 .. Len(t) : t[k] \in keep /\ \E i \in 1 .. n : s[i] = t[k]
  /\ \A i \in 1 .. n : s[i] \in keep => \E k \in 1 .. Len(t) : t[k] = s[i]
  /\ Distinct(s, n) => Distinct(t, Len(t))

\* A sequence with one element more.
LEMMA Appended ==
  ASSUME NEW S, NEW t \in Seq(S), NEW x \in S
  PROVE  /\ Append(t, x) \in Seq(S) /\ Len(Append(t, x)) = Len(t) + 1 /\ Len(t) \in Nat
         /\ Append(t, x)[Len(t) + 1] = x
         /\ \A k \in 1 .. Len(t) : Append(t, x)[k] = t[k]
OBVIOUS

\* One element more is kept or left out.
LEMMA PickedStep ==
  ASSUME NEW S, NEW s \in Seq(S), NEW keep, NEW n \in Nat, n + 1 <= Len(s), NEW t, Picked(S, t, s, n, keep)
  PROVE  Picked(S, KeepIf(keep, t, s[n + 1]), s, n + 1, keep)
<1> DEFINE x == s[n + 1]  u == KeepIf(keep, t, x)
<1>1. x \in S /\ t \in Seq(S) /\ Len(t) \in Nat /\ Len(t) <= n  BY DEF Picked
<1>2. 1 .. (n + 1) = (1 .. n) \cup {n + 1}  OBVIOUS
<1>3. CASE x \in keep
  <2>1. /\ u \in Seq(S) /\ Len(u) = Len(t) + 1 /\ u[Len(t) + 1] = x
        /\ \A k \in 1 .. Len(t) : u[k] = t[k]
    BY <1>1, <1>3, Appended DEF KeepIf
  <2> HIDE DEF u
  <2>2. 1 .. Len(u) = (1 .. Len(t)) \cup {Len(t) + 1}  BY <1>1, <2>1
  <2>3. \A k \in 1 .. Len(u) : u[k] \in keep /\ \E i \in 1 .. (n + 1) : s[i] = u[k]
    <3>1. \A k \in 1 .. Len(t) : u[k] \in keep /\ \E i \in 1 .. n : s[i] = u[k]  BY <2>1 DEF Picked
    <3>2. n + 1 \in 1 .. (n + 1) /\ s[n + 1] = x  OBVIOUS
    <3> HIDE DEF x
    <3> QED BY <3>1, <3>2, <2>1, <2>2, <1>2, <1>3
  <2>4. \A i \in 1 .. (n + 1) : s[i] \in keep => \E k \in 1 .. Len(u) : u[k] = s[i]
    <3>1. \A i \in 1 .. n : s[i] \in keep => \E k \in 1 .. Len(t) : u[k] = s[i]  BY <2>1 DEF Picked
    <3>2. Len(t) + 1 \in 1 .. Len(u) /\ u[Len(t) + 1] = s[n + 1]  BY <2>1, <1>1
    <3> QED BY <3>1, <3>2, <2>2, <1>2
  <2>5. Distinct(s, n + 1) => Distinct(u, Len(u))
    <3> SUFFICES ASSUME Distinct(s, n + 1) PROVE Distinct(u, Len(u))  OBVIOUS
    <3>1. Distinct(s, n)  BY <1>2 DEF Distinct
    <3>2. Distinct(t, Len(t))  BY <3>1 DEF Picked
    <3>3. \A i \in 1 .. n : s[i] # x  BY <1>2 DEF Distinct
    <3>4. \A k \in 1 .. Len(t) : u[k] # x
      <4>1. \A k \in 1 .. Len(t) : \E i \in 1 .. n : s[i] = t[k]  BY DEF Picked
      <4> QED BY <4>1, <3>3, <2>1
    <3>5. \A k, l \in 1 .. Len(t) : u[k] = u[l] => k = l  BY <3>2, <2>1 DEF Distinct
    <3> HIDE DEF x
    <3> QED BY <3>4, <3>5, <2>1, <2>2 DEF Distinct
  <2>6. Len(u) <= n + 1  BY <2>1, <1>1
  <2> HIDE DEF x
  <2>7. Picked(S, u, s, n + 1, keep)  BY <2>1, <2>3, <2>4, <2>5, <2>6 DEF Picked
  <2> QED BY <2>7 DEF u, x
<1>4. CASE x \notin keep
  <2>1. u = t  BY <1>4 DEF KeepIf
  <2>2. \A k \in 1 .. Len(t) : t[k] \in keep /\ \E i \in 1 .. (n + 1) : s[i] = t[k]
    BY <1>2 DEF Picked
  <2>3. \A i \in 1 .. (n + 1) : s[i] \in keep => \E k \in 1 .. Len(t) : t[k] = s[i]
    BY <1>2, <1>4 DEF Picked
  <2>4. Distinct(s, n + 1) => Distinct(t, Len(t))
    <3>1. Distinct(s, n + 1) => Distinct(s, n)  BY <1>2 DEF Distinct
    <3> QED BY <3>1 DEF Picked
  <2>5. Len(t) <= n + 1  BY <1>1
  <2>6. Picked(S, t, s, n + 1, keep)  BY <1>1, <2>2, <2>3, <2>4, <2>5 DEF Picked
  <2> QED BY <2>1, <2>6
<1> QED BY <1>3, <1>4

\* A filter of a sequence holds what the sequence holds of what is kept, and nothing twice that
\* was not there twice.
LEMMA AmongIs ==
  ASSUME NEW S, NEW s \in Seq(S), NEW keep
  PROVE  Picked(S, Among(s, keep), s, Len(s), keep)
<1>1. Len(s) \in Nat /\ DOMAIN s = 1 .. Len(s)  OBVIOUS
<1>2. Among(s, keep) = KeepFold!After(keep, <<>>, s, Len(s))
  BY <1>1 DEF Among, FoldLeft, MapThenFoldSet, KeepFold!After, KeepFold!Over, KeepFold!Solves, KeepFold!Top, Max
<1> DEFINE N == {n \in Nat : n <= Len(s) => Picked(S, KeepFold!After(keep, <<>>, s, n), s, n, keep)}
<1>3. 0 \in N
  <2>1. KeepFold!After(keep, <<>>, s, 0) = <<>>  BY KeepFold!AfterNone
  <2>2. Picked(S, <<>>, s, 0, keep)  BY DEF Picked, Distinct
  <2> QED BY <2>1, <2>2
<1>4. ASSUME NEW n \in N  PROVE n + 1 \in N
  <2> SUFFICES ASSUME n + 1 <= Len(s) PROVE Picked(S, KeepFold!After(keep, <<>>, s, n + 1), s, n + 1, keep)
    BY <1>4
  <2>1. n \in Nat /\ Picked(S, KeepFold!After(keep, <<>>, s, n), s, n, keep)  BY <1>1, <1>4
  <2>2. KeepFold!After(keep, <<>>, s, n + 1) = KeepIf(keep, KeepFold!After(keep, <<>>, s, n), s[n + 1])
    BY <2>1, KeepFold!AfterOne
  <2> QED BY <2>1, <2>2, PickedStep
<1>5. N = Nat
  <2>1. N \in SUBSET Nat  OBVIOUS
  <2> HIDE DEF N
  <2> QED BY <1>3, <1>4, <2>1, KeepFold!Climbs
<1>6. Picked(S, KeepFold!After(keep, <<>>, s, Len(s)), s, Len(s), keep)  BY <1>1, <1>5
<1> QED BY <1>2, <1>6

\* A set of numbers that has one has a least one.
LEMMA LeastNat ==
  ASSUME NEW S \in SUBSET Nat, S # {}
  PROVE  \E x \in S : \A y \in S : x <= y
<1> DEFINE Less == OpToRel(<, Nat)
<1>1. \A x, y \in Nat : y < x => <<y, x>> \in Less  BY Zenon DEF OpToRel
<1>2. IsWellFoundedOn(Less, Nat)  BY NatLessThanWellFounded
<1> HIDE DEF Less
<1>3. PICK x \in S : \A y \in S : <<y, x>> \notin Less  BY <1>2, WFMin
<1>4. x \in Nat /\ \A y \in S : y \in Nat /\ ~(y < x)  BY <1>1, <1>3
<1> QED BY <1>4

(***************************************************************************)
(* Sequences as the arrays of the code: their elements, and how many.      *)
(***************************************************************************)
ElementsOf(s, n) == {s[i] : i \in 1 .. n}

\* The elements of a sequence.
LEMMA SeqElements ==
  ASSUME NEW S, NEW s \in Seq(S)
  PROVE  /\ DOMAIN s = 1 .. Len(s) /\ Len(s) \in Nat
         /\ ToSet(s) = ElementsOf(s, Len(s)) /\ ToSet(s) \subseteq S
         /\ \A m : m \in ToSet(s) <=> \E i \in 1 .. Len(s) : s[i] = m
BY DEF ToSet, ElementsOf

\* The elements of a filter.
LEMMA AmongElements ==
  ASSUME NEW S, NEW s \in Seq(S), NEW keep
  PROVE  /\ Among(s, keep) \in Seq(S)
         /\ ToSet(Among(s, keep)) = ToSet(s) \cap keep
         /\ Len(Among(s, keep)) <= Len(s)
         /\ Distinct(s, Len(s)) => Distinct(Among(s, keep), Len(Among(s, keep)))
<1> DEFINE t == Among(s, keep)
<1>1. Picked(S, t, s, Len(s), keep)  BY AmongIs
<1> HIDE DEF t
<1>2. t \in Seq(S)  BY <1>1 DEF Picked
<1>3. \A m : m \in ToSet(s) <=> \E i \in 1 .. Len(s) : s[i] = m  BY SeqElements
<1>4. \A m : m \in ToSet(t) <=> \E i \in 1 .. Len(t) : t[i] = m  BY <1>2, SeqElements
<1>5. ToSet(t) = ToSet(s) \cap keep
  <2>1. \A m \in ToSet(t) : m \in ToSet(s) \cap keep  BY <1>1, <1>3, <1>4 DEF Picked
  <2>2. \A m \in ToSet(s) \cap keep : m \in ToSet(t)  BY <1>1, <1>3, <1>4 DEF Picked
  <2> QED BY <2>1, <2>2
<1> QED BY <1>1, <1>2, <1>5 DEF Picked, t

\* The first n elements.
LEMMA FirstOfIs ==
  ASSUME NEW S, NEW s \in Seq(S), NEW n \in Nat
  PROVE  /\ FirstOf(s, n) \in Seq(S) /\ Len(FirstOf(s, n)) <= n /\ Len(FirstOf(s, n)) <= Len(s)
         /\ \A i \in 1 .. Len(FirstOf(s, n)) : FirstOf(s, n)[i] = s[i]
         /\ Len(FirstOf(s, n)) = Len(s) \/ Len(FirstOf(s, n)) = n
<1> DEFINE k == IF Len(s) < n THEN Len(s) ELSE n
<1>1. k \in Nat /\ k <= Len(s) /\ k <= n /\ (k = Len(s) \/ k = n) /\ Len(s) \in Nat  OBVIOUS
<1> HIDE DEF k
<1>2. /\ SubSeq(s, 1, k) \in Seq(S) /\ Len(SubSeq(s, 1, k)) = k
      /\ \A i \in 1 .. k : SubSeq(s, 1, k)[i] = s[i]
  BY <1>1
<1>3. FirstOf(s, n) = SubSeq(s, 1, k)  BY DEF FirstOf, k
<1> QED BY <1>1, <1>2, <1>3

\* They are elements of the sequence, and none is there twice that was not.
LEMMA FirstOfElements ==
  ASSUME NEW S, NEW s \in Seq(S), NEW n \in Nat
  PROVE  /\ ToSet(FirstOf(s, n)) \subseteq ToSet(s)
         /\ Distinct(s, Len(s)) => Distinct(FirstOf(s, n), Len(FirstOf(s, n)))
<1> DEFINE t == FirstOf(s, n)
<1>1. /\ t \in Seq(S) /\ Len(t) <= Len(s) /\ \A i \in 1 .. Len(t) : t[i] = s[i]
  BY FirstOfIs
<1> HIDE DEF t
<1>2. Len(s) \in Nat /\ Len(t) \in Nat  BY <1>1
<1>3. \A m : m \in ToSet(s) <=> \E i \in 1 .. Len(s) : s[i] = m  BY SeqElements
<1>4. \A m : m \in ToSet(t) <=> \E i \in 1 .. Len(t) : t[i] = m  BY <1>1, SeqElements
<1>5. \A i \in 1 .. Len(t) : i \in 1 .. Len(s)  BY <1>1, <1>2
<1>6. ToSet(t) \subseteq ToSet(s)  BY <1>1, <1>3, <1>4, <1>5
<1>7. Distinct(s, Len(s)) => Distinct(t, Len(t))  BY <1>1, <1>5 DEF Distinct
<1> QED BY <1>6, <1>7 DEF t

\* Two sequences, one after the other.
LEMMA Concatenated ==
  ASSUME NEW S, NEW s \in Seq(S), NEW t \in Seq(S)
  PROVE  /\ s \o t \in Seq(S) /\ Len(s \o t) = Len(s) + Len(t)
         /\ ToSet(s \o t) = ToSet(s) \cup ToSet(t)
         /\ Distinct(s, Len(s)) /\ Distinct(t, Len(t)) /\ ToSet(s) \cap ToSet(t) = {} =>
              Distinct(s \o t, Len(s \o t))
<1> DEFINE u == s \o t
<1>1. /\ u \in Seq(S) /\ Len(u) = Len(s) + Len(t) /\ Len(s) \in Nat /\ Len(t) \in Nat
      /\ \A i \in 1 .. Len(s) : u[i] = s[i]
      /\ \A i \in 1 .. Len(t) : u[Len(s) + i] = t[i]
  OBVIOUS
<1> HIDE DEF u
<1>2. \A i \in 1 .. Len(u) : i \in 1 .. Len(s) \/ (i - Len(s) \in 1 .. Len(t) /\ i = Len(s) + (i - Len(s)))
  BY <1>1
<1>3. \A m : m \in ToSet(s) <=> \E i \in 1 .. Len(s) : s[i] = m  BY SeqElements
<1>4. \A m : m \in ToSet(t) <=> \E i \in 1 .. Len(t) : t[i] = m  BY SeqElements
<1>5. \A m : m \in ToSet(u) <=> \E i \in 1 .. Len(u) : u[i] = m  BY <1>1, SeqElements
<1>6. ToSet(u) = ToSet(s) \cup ToSet(t)
  <2>1. \A i \in 1 .. Len(t) : Len(s) + i \in 1 .. Len(u)  BY <1>1
  <2>2. \A i \in 1 .. Len(s) : i \in 1 .. Len(u)  BY <1>1
  <2>3. \A m \in ToSet(s) : m \in ToSet(u)  BY <1>1, <1>3, <1>5, <2>2
  <2>4. \A m \in ToSet(t) : m \in ToSet(u)  BY <1>1, <1>4, <1>5, <2>1
  <2>5. \A m \in ToSet(u) : m \in ToSet(s) \/ m \in ToSet(t)
    <3> TAKE m \in ToSet(u)
    <3>1. PICK i \in 1 .. Len(u) : u[i] = m  BY <1>5
    <3>2. CASE i \in 1 .. Len(s)  BY <3>1, <3>2, <1>1, <1>3
    <3>3. CASE i - Len(s) \in 1 .. Len(t) /\ i = Len(s) + (i - Len(s))
      <4>1. u[i] = t[i - Len(s)]
        <5> DEFINE j == i - Len(s)
        <5>1. j \in 1 .. Len(t) /\ i = Len(s) + j  BY <3>3
        <5> HIDE DEF j
        <5>2. u[i] = t[j]  BY <5>1, <1>1
        <5> QED BY <5>2 DEF j
      <4> QED BY <4>1, <3>1, <3>3, <1>4
    <3> QED BY <3>2, <3>3, <1>2
  <2> QED BY <2>3, <2>4, <2>5
<1>7. ASSUME Distinct(s, Len(s)), Distinct(t, Len(t)), ToSet(s) \cap ToSet(t) = {}
      PROVE  Distinct(u, Len(u))
  <2>1. \A i \in 1 .. Len(s) : \A j \in 1 .. Len(t) : s[i] # t[j]  BY <1>3, <1>4, <1>7
  <2> SUFFICES ASSUME NEW i \in 1 .. Len(u), NEW j \in 1 .. Len(u), u[i] = u[j]  PROVE i = j
    BY DEF Distinct
  <2>2. CASE i \in 1 .. Len(s) /\ j \in 1 .. Len(s)  BY <2>2, <1>1, <1>7 DEF Distinct
  <2>3. CASE i \in 1 .. Len(s) /\ j \notin 1 .. Len(s)
    <3>1. j - Len(s) \in 1 .. Len(t) /\ u[j] = t[j - Len(s)]  BY <2>3, <1>1, <1>2
    <3> QED BY <3>1, <2>1, <2>3, <1>1
  <2>4. CASE i \notin 1 .. Len(s) /\ j \in 1 .. Len(s)
    <3>1. i - Len(s) \in 1 .. Len(t) /\ u[i] = t[i - Len(s)]  BY <2>4, <1>1, <1>2
    <3> QED BY <3>1, <2>1, <2>4, <1>1
  <2>5. CASE i \notin 1 .. Len(s) /\ j \notin 1 .. Len(s)
    <3>1. /\ i - Len(s) \in 1 .. Len(t) /\ u[i] = t[i - Len(s)]
          /\ j - Len(s) \in 1 .. Len(t) /\ u[j] = t[j - Len(s)]
      BY <2>5, <1>1, <1>2
    <3>2. i - Len(s) = j - Len(s)  BY <3>1, <1>7 DEF Distinct
    <3> QED BY <3>2, <1>1
  <2> QED BY <2>2, <2>3, <2>4, <2>5
<1> QED BY <1>1, <1>6, <1>7 DEF u

\* As many elements as indices, if none is there twice.
LEMMA DistinctCount ==
  ASSUME NEW S, NEW s \in Seq(S)
  PROVE  /\ IsFiniteSet(ToSet(s))
         /\ Distinct(s, Len(s)) => Cardinality(ToSet(s)) = Len(s)
<1>1. /\ DOMAIN s = 1 .. Len(s) /\ Len(s) \in Nat /\ ToSet(s) \subseteq S
      /\ \A m : m \in ToSet(s) <=> \E i \in 1 .. Len(s) : s[i] = m
  BY SeqElements
<1>2. s \in [1 .. Len(s) -> ToSet(s)]
  <2>1. s = [i \in 1 .. Len(s) |-> s[i]]  BY <1>1
  <2>2. \A i \in 1 .. Len(s) : s[i] \in ToSet(s)  BY <1>1
  <2> DEFINE T == ToSet(s)  n == Len(s)
  <2> HIDE DEF T, n
  <2>3. s \in [1 .. n -> T]  BY <2>1, <2>2 DEF T, n
  <2> QED BY <2>3 DEF T, n
<1>3. s \in Surjection(1 .. Len(s), ToSet(s))  BY <1>1, <1>2 DEF Surjection
<1>4. IsFiniteSet(1 .. Len(s)) /\ Cardinality(1 .. Len(s)) = Len(s)  BY <1>1, FS_Interval
<1>5. IsFiniteSet(ToSet(s)) /\ (Cardinality(ToSet(s)) = Len(s) <=> s \in Injection(1 .. Len(s), ToSet(s)))
  BY <1>3, <1>4, FS_Surjection
<1>6. Distinct(s, Len(s)) => s \in Injection(1 .. Len(s), ToSet(s))
  BY <1>2 DEF Distinct, Injection, IsInjective
<1> QED BY <1>5, <1>6

(***************************************************************************)
(* A sum over a finite set is the same in whatever order it is taken.      *)
(***************************************************************************)
AnyOf(s) == CHOOSE x \in s : TRUE
Sums(g, f, D) == g = [s \in SUBSET D |-> IF s = {} THEN 0 ELSE f[AnyOf(s)] + g[s \ {AnyOf(s)}]]
Sum(f, D) == (CHOOSE g : Sums(g, f, D))[D]

\* A sum of the community modules is the value of the recursion they choose.
LEMMA SumIs == ASSUME NEW f PROVE SumOver(f) = Sum(f, DOMAIN f)
BY DEF SumOver, MapThenSumSet, MapThenFoldSet, Sum, Sums, AnyOf

\* A set of sets of elements of a finite set has one that contains no other.
LEMMA MinimalSet ==
  ASSUME NEW S, IsFiniteSet(S), NEW B \in SUBSET (SUBSET S), B # {}
  PROVE  \E T \in B : \A U \in B : U \subseteq T => U = T
<1>1. IsWellFoundedOn(StrictSubsetOrdering(S), FiniteSubsetsOf(S))
  BY FS_StrictSubsetOrderingWellFounded
<1>2. FiniteSubsetsOf(S) = SUBSET S
  BY FS_Subset DEF FiniteSubsetsOf
<1>3. \E T \in B : \A U \in B : ~ (<<U, T>> \in StrictSubsetOrdering(S))
  BY <1>1, <1>2, WFMin
<1>4. QED BY <1>3 DEF StrictSubsetOrdering

\* Two sums agree where both are defined.
LEMMA SumsAgree ==
  ASSUME NEW f, NEW D, NEW E, NEW g, NEW h, Sums(g, f, D), Sums(h, f, E),
         NEW S \in SUBSET D, S \subseteq E, IsFiniteSet(S)
  PROVE  g[S] = h[S]
<1> DEFINE B == {T \in SUBSET S : g[T] # h[T]}
<1>1. SUFFICES ASSUME B # {} PROVE FALSE  OBVIOUS
<1>2. PICK T \in B : \A U \in B : U \subseteq T => U = T
  <2>1. B \in SUBSET (SUBSET S)  OBVIOUS
  <2> HIDE DEF B
  <2> QED BY <1>1, <2>1, MinimalSet
<1>3. /\ T \in SUBSET S /\ T \in SUBSET D /\ T \in SUBSET E /\ g[T] # h[T]  BY <1>2
<1>4. CASE T = {}
  <2>1. g[T] = 0 /\ h[T] = 0  BY <1>3, <1>4 DEF Sums
  <2> QED BY <2>1, <1>3
<1>5. CASE T # {}
  <2> DEFINE U == T \ {AnyOf(T)}
  <2>1. AnyOf(T) \in T  BY <1>5 DEF AnyOf
  <2>2. U \in SUBSET S /\ U \subseteq T /\ U # T  BY <2>1, <1>3
  <2>3. g[U] = h[U]  BY <1>2, <2>2
  <2>4. g[T] = f[AnyOf(T)] + g[U] /\ h[T] = f[AnyOf(T)] + h[U]  BY <1>3, <1>5 DEF Sums
  <2> QED BY <2>3, <2>4, <1>3
<1> QED BY <1>4, <1>5

\* The recursion of a sum over a finite set has a solution, and it is unfolded in one step.
LEMMA SumStep ==
  ASSUME NEW f, NEW D, IsFiniteSet(D)
  PROVE  \A S \in SUBSET D :
           /\ Sums([T \in SUBSET S |-> Sum(f, T)], f, S)
           /\ Sum(f, S) = IF S = {} THEN 0 ELSE f[AnyOf(S)] + Sum(f, S \ {AnyOf(S)})
<1> DEFINE G(S) == [T \in SUBSET S |-> Sum(f, T)]
           V(S) == IF S = {} THEN 0 ELSE f[AnyOf(S)] + Sum(f, S \ {AnyOf(S)})
           OK(S) == Sums(G(S), f, S) /\ Sum(f, S) = V(S)
           B == {S \in SUBSET D : ~OK(S)}
<1>1. SUFFICES ASSUME B # {} PROVE FALSE  OBVIOUS
<1>2. PICK S \in B : \A U \in B : U \subseteq S => U = S
  <2>1. B \in SUBSET (SUBSET D)  OBVIOUS
  <2> HIDE DEF B
  <2> QED BY <1>1, <2>1, MinimalSet
<1>3. S \in SUBSET D /\ ~OK(S)  BY <1>2
<1>4. \A T \in SUBSET S : T # S => OK(T)
  <2> TAKE T \in SUBSET S
  <2> HAVE T # S
  <2>1. T \in SUBSET D /\ T \notin B  BY <1>2, <1>3
  <2> QED BY <2>1
<1> DEFINE g == [T \in SUBSET S |-> V(T)]
<1>5. Sums(g, f, S)
  <2>1. \A T \in SUBSET S : T # {} => g[T \ {AnyOf(T)}] = Sum(f, T \ {AnyOf(T)})
    <3> TAKE T \in SUBSET S
    <3> HAVE T # {}
    <3> DEFINE U == T \ {AnyOf(T)}
    <3>1. AnyOf(T) \in T  BY DEF AnyOf
    <3>2. U \in SUBSET S /\ U # S  BY <3>1
    <3>3. Sum(f, U) = V(U)  BY <3>2, <1>4
    <3>4. g[U] = V(U)  BY <3>2
    <3> QED BY <3>3, <3>4
  <2>2. g = [T \in SUBSET S |-> IF T = {} THEN 0 ELSE f[AnyOf(T)] + g[T \ {AnyOf(T)}]]  BY <2>1
  <2> HIDE DEF g
  <2> QED BY <2>2 DEF Sums
<1>6. \A h : Sums(h, f, S) => h[S] = g[S]
  <2> HIDE DEF g
  <2> SUFFICES ASSUME NEW h, Sums(h, f, S) PROVE h[S] = g[S]  OBVIOUS
  <2>1. IsFiniteSet(S)  BY <1>3, FS_Subset
  <2> QED BY <1>5, <2>1, SumsAgree
<1>7. Sum(f, S) = V(S)
  <2>1. Sums(CHOOSE h : Sums(h, f, S), f, S)  BY <1>5
  <2>2. Sum(f, S) = g[S]  BY <2>1, <1>6 DEF Sum
  <2> QED BY <2>2
<1>8. Sums(G(S), f, S)
  <2>1. \A T \in SUBSET S : Sum(f, T) = V(T)  BY <1>4, <1>7
  <2>2. G(S) = g  BY <2>1
  <2> QED BY <2>2, <1>5
<1> QED BY <1>3, <1>7, <1>8

\* The empty sum.
LEMMA SumEmpty == ASSUME NEW f PROVE Sum(f, {}) = 0
BY SumStep, FS_EmptySet

\* A sum of naturals is a natural.
LEMMA SumNat ==
  ASSUME NEW f, NEW D, IsFiniteSet(D), \A x \in D : f[x] \in Nat
  PROVE  Sum(f, D) \in Nat
<1> DEFINE B == {S \in SUBSET D : Sum(f, S) \notin Nat}
<1>1. SUFFICES ASSUME B # {} PROVE FALSE  OBVIOUS
<1>2. PICK S \in B : \A U \in B : U \subseteq S => U = S
  <2>1. B \in SUBSET (SUBSET D)  OBVIOUS
  <2> HIDE DEF B
  <2> QED BY <1>1, <2>1, MinimalSet
<1> DEFINE U == S \ {AnyOf(S)}
<1>3. S # {}
  <2>1. Sum(f, {}) \in Nat  BY SumEmpty
  <2> QED BY <1>2, <2>1
<1>4. AnyOf(S) \in S  BY <1>3 DEF AnyOf
<1>5. Sum(f, U) \in Nat  BY <1>2, <1>4
<1>6. Sum(f, S) = f[AnyOf(S)] + Sum(f, U)  BY <1>2, <1>3, SumStep
<1>7. f[AnyOf(S)] \in Nat  BY <1>2, <1>4
<1> QED BY <1>2, <1>5, <1>6, <1>7

\* Which element is added last does not matter.
LEMMA SumWithout ==
  ASSUME NEW f, NEW D, IsFiniteSet(D), \A x \in D : f[x] \in Nat, NEW x \in D
  PROVE  Sum(f, D) = f[x] + Sum(f, D \ {x})
<1> DEFINE B == {S \in SUBSET D : \E y \in S : Sum(f, S) # f[y] + Sum(f, S \ {y})}
<1>1. SUFFICES ASSUME B # {} PROVE FALSE  OBVIOUS
<1>2. PICK S \in B : \A U \in B : U \subseteq S => U = S
  <2>1. B \in SUBSET (SUBSET D)  OBVIOUS
  <2> HIDE DEF B
  <2> QED BY <1>1, <2>1, MinimalSet
<1>3. PICK y \in S : Sum(f, S) # f[y] + Sum(f, S \ {y})  BY <1>2
<1> DEFINE c == AnyOf(S)
           U == S \ {c}
           W == S \ {y}
           R == (S \ {c}) \ {y}
<1>4. S \in SUBSET D /\ c \in S  BY <1>2, <1>3 DEF AnyOf
<1>5. Sum(f, S) = f[c] + Sum(f, U)  BY <1>4, SumStep
<1>6. c # y  BY <1>3, <1>5
<1>7. Sum(f, U) = f[y] + Sum(f, R)
  <2>1. U \notin B  BY <1>2, <1>4
  <2> QED BY <2>1, <1>4, <1>6, <1>3
<1>8. Sum(f, W) = f[c] + Sum(f, R)
  <2>1. W \notin B  BY <1>2, <1>3
  <2>2. W \ {c} = R  OBVIOUS
  <2> QED BY <2>1, <2>2, <1>4, <1>6, <1>3
<1>9. f[y] \in Nat /\ f[c] \in Nat /\ Sum(f, R) \in Nat
  <2>1. IsFiniteSet(R) /\ R \subseteq D  BY <1>4, FS_Subset
  <2> QED BY <2>1, <1>4, <1>3, SumNat
<1> QED BY ONLY <1>3, <1>5, <1>7, <1>8, <1>9

\* A sum depends on the summands alone.
LEMMA SumSame ==
  ASSUME NEW f, NEW g, NEW D, IsFiniteSet(D), \A x \in D : f[x] = g[x]
  PROVE  Sum(f, D) = Sum(g, D)
<1> DEFINE B == {S \in SUBSET D : Sum(f, S) # Sum(g, S)}
<1>1. SUFFICES ASSUME B # {} PROVE FALSE  OBVIOUS
<1>2. PICK S \in B : \A U \in B : U \subseteq S => U = S
  <2>1. B \in SUBSET (SUBSET D)  OBVIOUS
  <2> HIDE DEF B
  <2> QED BY <1>1, <2>1, MinimalSet
<1> DEFINE U == S \ {AnyOf(S)}
<1>3. S # {}  BY <1>2, SumEmpty
<1>4. AnyOf(S) \in S  BY <1>3 DEF AnyOf
<1>5. Sum(f, U) = Sum(g, U)  BY <1>2, <1>4
<1>6. Sum(f, S) = f[AnyOf(S)] + Sum(f, U) /\ Sum(g, S) = g[AnyOf(S)] + Sum(g, U)  BY <1>2, <1>3, SumStep
<1> QED BY <1>2, <1>4, <1>5, <1>6

(***************************************************************************)
(* The hybrid retriever.  The statistics of the index are a function of    *)
(* the texts it holds; a call that awaits a vector of a document that did  *)
(* not change meanwhile is the only one, and has the present text.         *)
(***************************************************************************)
Held(ts) == {id \in Doc : ts[id] # NoText}
Lengths(ts) == [id \in Held(ts) |-> LengthOf(ts[id])]
DocOf(text) == IF text = NoText THEN NoText ELSE [length |-> LengthOf(text), terms |-> TermsOf(text)]
Row(ts, t) == [id \in Doc |-> IF ts[id] = NoText THEN 0 ELSE ts[id][t]]
StatsOf(ts) ==
  [postings |-> [t \in Term |-> Row(ts, t)],
   docs     |-> [id \in Doc |-> DocOf(ts[id])],
   total    |-> SumOver(Lengths(ts))]
TextsOrNone == [Doc -> Texts \cup {NoText}]

Waits(c, id) == indexers[c].at = "embedding" /\ indexers[c].id = id
CallsMatch ==
  \A c \in Indexer : indexers[c].at = "embedding" =>
    /\ indexers[c].id \in Doc /\ indexers[c].text \in Texts
    /\ indexers[c].id \notin raced =>
         /\ indexers[c].text = texts[indexers[c].id]
         /\ \A d \in Indexer : Waits(d, indexers[c].id) => d = c
RetrieverInv ==
  /\ texts \in TextsOrNone /\ vectors \in TextsOrNone
  /\ indexers = [c \in Indexer |-> indexers[c]]
  /\ Lexical = StatsOf(texts)
  /\ \A id \in Doc \ (raced \cup Awaited) : vectors[id] = texts[id]
  /\ CallsMatch

\* A term's postings when a document goes or comes; a term the document lacks is not touched.
LEMMA RowWithout ==
  ASSUME NEW ts \in TextsOrNone, NEW id \in Doc, NEW t
  PROVE  /\ Row([ts EXCEPT ![id] = NoText], t) = [Row(ts, t) EXCEPT ![id] = 0]
         /\ Row([ts EXCEPT ![id] = NoText], t)[id] = 0
         /\ ts[id] # NoText /\ ts[id][t] = 0 => Row([ts EXCEPT ![id] = NoText], t) = Row(ts, t)
<1> DEFINE us == [ts EXCEPT ![id] = NoText]
<1>1. \A i \in Doc : us[i] = IF i = id THEN NoText ELSE ts[i]  BY DEF TextsOrNone
<1> HIDE DEF us
<1>2. \A i \in Doc : Row(us, t)[i] = IF i = id THEN 0 ELSE Row(ts, t)[i]  BY <1>1 DEF Row
<1>3. Row(us, t) = [i \in Doc |-> Row(us, t)[i]] /\ Row(ts, t) = [i \in Doc |-> Row(ts, t)[i]]
  BY DEF Row
<1>4. ts[id] # NoText /\ ts[id][t] = 0 => Row(ts, t)[id] = 0  BY DEF Row
<1>5. Row(us, t) = [Row(ts, t) EXCEPT ![id] = 0]  BY ONLY <1>2, <1>3
<1>6. Row(ts, t)[id] = 0 => Row(us, t) = Row(ts, t)  BY ONLY <1>2, <1>3
<1> QED BY <1>2, <1>4, <1>5, <1>6 DEF us

RowGains(ts, id, text, t) ==
  Row([ts EXCEPT ![id] = text], t) = [Row([ts EXCEPT ![id] = NoText], t) EXCEPT ![id] = text[t]]

\* And when a text comes where there was none.
LEMMA RowWith ==
  ASSUME NEW ts \in TextsOrNone, NEW id \in Doc, NEW text \in Texts, NEW t \in Term
  PROVE  RowGains(ts, id, text, t)
<1> DEFINE us == [ts EXCEPT ![id] = NoText]
           vs == [ts EXCEPT ![id] = text]
<1>1. \A i \in Doc : us[i] = (IF i = id THEN NoText ELSE ts[i]) /\ vs[i] = (IF i = id THEN text ELSE ts[i])
  BY DEF TextsOrNone
<1> HIDE DEF us, vs
<1>2. \A i \in Doc : Row(vs, t)[i] = IF i = id THEN text[t] ELSE Row(us, t)[i]
  BY <1>1, RetrieverAssumption DEF Row
<1>3. Row(us, t) = [i \in Doc |-> Row(us, t)[i]] /\ Row(vs, t) = [i \in Doc |-> Row(vs, t)[i]]
  BY DEF Row
<1>4. Row(vs, t) = [Row(us, t) EXCEPT ![id] = text[t]]  BY ONLY <1>2, <1>3
<1> QED BY <1>4 DEF RowGains, us, vs

\* The length of a text is a number.
LEMMA LengthNat == ASSUME NEW text \in Texts PROVE LengthOf(text) \in Nat
<1>1. text \in [Term -> Nat] /\ IsFiniteSet(Term)  BY RetrieverAssumption
<1>2. DOMAIN text = Term /\ \A t \in Term : text[t] \in Nat  BY <1>1
<1> QED BY <1>1, <1>2, SumNat, SumIs DEF LengthOf

\* A document that goes takes its length with it.
LEMMA TotalWithout ==
  ASSUME NEW ts \in TextsOrNone, NEW id \in Doc, ts[id] # NoText
  PROVE  /\ SumOver(Lengths(ts)) = LengthOf(ts[id]) + SumOver(Lengths([ts EXCEPT ![id] = NoText]))
         /\ SumOver(Lengths(ts)) \in Nat /\ SumOver(Lengths([ts EXCEPT ![id] = NoText])) \in Nat
         /\ LengthOf(ts[id]) \in Nat
<1> DEFINE us == [ts EXCEPT ![id] = NoText]
           f == Lengths(ts)
           g == Lengths(us)
<1>1. Held(us) = Held(ts) \ {id} /\ id \in Held(ts) /\ \A i \in Held(us) : us[i] = ts[i]
  BY DEF Held, TextsOrNone
<1>2. IsFiniteSet(Held(ts)) /\ IsFiniteSet(Held(us))
  BY RetrieverAssumption, FS_Subset DEF Held
<1>3. \A i \in Held(ts) : ts[i] \in Texts  BY DEF Held, TextsOrNone
<1>4. /\ DOMAIN f = Held(ts) /\ DOMAIN g = Held(us)
      /\ \A i \in Held(ts) : f[i] = LengthOf(ts[i])
      /\ \A i \in Held(us) : g[i] = LengthOf(us[i])
  BY DEF Lengths
<1>5. /\ \A i \in Held(ts) : f[i] \in Nat
      /\ \A i \in Held(us) : g[i] = f[i] /\ g[i] \in Nat
  BY <1>1, <1>3, <1>4, LengthNat
<1> HIDE DEF f, g, us
<1>6. SumOver(f) = Sum(f, Held(ts)) /\ SumOver(g) = Sum(g, Held(us))  BY <1>4, SumIs
<1>7. Sum(f, Held(ts)) = f[id] + Sum(f, Held(us))  BY <1>1, <1>2, <1>5, SumWithout
<1>8. Sum(f, Held(us)) = Sum(g, Held(us))  BY <1>2, <1>5, SumSame
<1>9. Sum(f, Held(ts)) \in Nat /\ Sum(g, Held(us)) \in Nat  BY <1>2, <1>5, SumNat
<1> QED BY <1>1, <1>3, <1>4, <1>6, <1>7, <1>8, <1>9, LengthNat DEF f, g, us

\* An index without documents has no length.
LEMMA TotalNone == ASSUME NEW ts, \A id \in Doc : ts[id] = NoText PROVE SumOver(Lengths(ts)) = 0
<1>1. Held(ts) = {}  BY DEF Held
<1>2. DOMAIN Lengths(ts) = {}  BY <1>1 DEF Lengths
<1> QED BY <1>2, SumIs, SumEmpty

\* clear() leaves the statistics of no documents.
LEMMA EmptyStats == EmptyIndex = StatsOf([id \in Doc |-> NoText])
<1> DEFINE none == [id \in Doc |-> NoText]
<1>1. SumOver(Lengths(none)) = 0  BY TotalNone
<1>2. /\ [t \in Term |-> Row(none, t)] = [t \in Term |-> [id \in Doc |-> 0]]
      /\ [id \in Doc |-> DocOf(none[id])] = [id \in Doc |-> NoText]
  BY DEF DocOf, Row
<1> QED BY <1>1, <1>2 DEF EmptyIndex, StatsOf

\* The index's remove() leaves the statistics of the documents that are left.
LEMMA RemovedStats ==
  ASSUME NEW ts \in TextsOrNone, NEW id \in Doc
  PROVE  Removed(StatsOf(ts), id) = StatsOf([ts EXCEPT ![id] = NoText])
<1> DEFINE us == [ts EXCEPT ![id] = NoText]
           x == StatsOf(ts)
           y == StatsOf(us)
<1>1. x.docs[id] = DocOf(ts[id])  BY DEF StatsOf
<1>2. \A text \in Texts : DocOf(text) # NoText
  <2> TAKE text \in Texts
  <2>1. text # NoText /\ LengthOf(text) \in Nat /\ TermsOf(text) \in SUBSET Term
    BY RetrieverAssumption, LengthNat DEF TermsOf
  <2>2. [length |-> LengthOf(text), terms |-> TermsOf(text)] \in [length : Nat, terms : SUBSET Term]
    BY <2>1
  <2> QED BY <2>1, <2>2, RetrieverAssumption DEF DocOf
<1>3. CASE ts[id] = NoText
  <2>1. us = ts  BY <1>3 DEF TextsOrNone
  <2> QED BY <2>1, <1>1, <1>3 DEF Removed, DocOf
<1>4. CASE ts[id] # NoText
  <2>1. ts[id] \in Texts /\ x.docs[id] # NoText  BY <1>1, <1>2, <1>4 DEF TextsOrNone
  <2>2. x.docs[id].terms = TermsOf(ts[id]) /\ x.docs[id].length = LengthOf(ts[id])
    BY <1>1, <1>4 DEF DocOf
  <2>3. \A i \in Doc : us[i] = IF i = id THEN NoText ELSE ts[i]  BY DEF TextsOrNone
  <2>4. y.docs = [x.docs EXCEPT ![id] = NoText]  BY <2>3 DEF StatsOf, DocOf
  <2>5. y.postings = [t \in Term |-> IF t \in x.docs[id].terms THEN [x.postings[t] EXCEPT ![id] = 0]
                                     ELSE x.postings[t]]
    <3>1. ts[id] \in [Term -> Nat]  BY <2>1, RetrieverAssumption
    <3>2. \A t \in Term : t \notin TermsOf(ts[id]) => ts[id][t] = 0  BY <3>1 DEF TermsOf
    <3>3. \A t \in Term : x.postings[t] = Row(ts, t) /\ y.postings[t] = Row(us, t)  BY DEF StatsOf
    <3>4. y.postings = [t \in Term |-> y.postings[t]]  BY DEF StatsOf
    <3> HIDE DEF x, y
    <3>5. \A t \in Term : y.postings[t] = [x.postings[t] EXCEPT ![id] = 0]  BY <3>3, RowWithout
    <3>6. \A t \in Term : t \notin TermsOf(ts[id]) => y.postings[t] = x.postings[t]
      BY <3>2, <3>3, <1>4, RowWithout
    <3> QED BY <3>4, <3>5, <3>6, <2>2
  <2>6. (\A i \in Doc : y.docs[i] = NoText) => y.total = 0
    <3>1. \A i \in Doc : us[i] \in Texts \cup {NoText}  BY DEF TextsOrNone
    <3>2. \A i \in Doc : y.docs[i] = DocOf(us[i])  BY DEF StatsOf
    <3>3. (\A i \in Doc : y.docs[i] = NoText) => \A i \in Doc : us[i] = NoText  BY <3>1, <3>2, <1>2
    <3>4. y.total = SumOver(Lengths(us))  BY DEF StatsOf
    <3> QED BY <3>3, <3>4, TotalNone
  <2>7. y.total = x.total - x.docs[id].length
    <3>1. x.total = SumOver(Lengths(ts)) /\ y.total = SumOver(Lengths(us))  BY DEF StatsOf
    <3> HIDE DEF x, y
    <3> QED BY <3>1, <2>2, <1>4, TotalWithout
  <2>8. y = [postings |-> y.postings, docs |-> y.docs, total |-> y.total]  BY DEF StatsOf
  <2> HIDE DEF x, y
  <2>9. Removed(x, id) = [postings |-> y.postings, docs |-> y.docs, total |-> y.total]
    BY <2>1, <2>4, <2>5, <2>6, <2>7 DEF Removed
  <2> QED BY <2>8, <2>9 DEF x, y
<1> QED BY <1>3, <1>4

\* The index's add() leaves the statistics of the documents with the new text among them.
LEMMA AddedStats ==
  ASSUME NEW ts \in TextsOrNone, NEW id \in Doc, NEW text \in Texts
  PROVE  Added(StatsOf(ts), id, text) = StatsOf([ts EXCEPT ![id] = text])
<1> DEFINE us == [ts EXCEPT ![id] = NoText]
           vs == [ts EXCEPT ![id] = text]
           x == StatsOf(us)
           y == StatsOf(vs)
<1>1. Removed(StatsOf(ts), id) = x  BY RemovedStats
<1>2. us \in TextsOrNone /\ vs \in TextsOrNone /\ us = [vs EXCEPT ![id] = NoText] /\ vs[id] = text
  BY DEF TextsOrNone
<1>3. text # NoText /\ text \in [Term -> Nat]  BY RetrieverAssumption
<1>4. \A i \in Doc : us[i] = (IF i = id THEN NoText ELSE ts[i]) /\ vs[i] = (IF i = id THEN text ELSE ts[i])
  BY DEF TextsOrNone
<1>5. y.docs = [x.docs EXCEPT ![id] = [length |-> LengthOf(text), terms |-> TermsOf(text)]]
  BY <1>3, <1>4 DEF StatsOf, DocOf
<1>6. y.postings = [t \in Term |-> [x.postings[t] EXCEPT ![id] = x.postings[t][id] + text[t]]]
  <2>1. \A t \in Term : x.postings[t] = Row(us, t) /\ y.postings[t] = Row(vs, t)  BY DEF StatsOf
  <2>2. y.postings = [t \in Term |-> y.postings[t]]  BY DEF StatsOf
  <2> HIDE DEF x, y
  <2>9. \A t \in Term : Row(us, t)[id] = 0 /\ Row(vs, t) = [Row(us, t) EXCEPT ![id] = text[t]]
    <3> TAKE t \in Term
    <3>1. Row(us, t)[id] = 0  BY RowWithout
    <3>2. Row(vs, t) = [Row(us, t) EXCEPT ![id] = text[t]]
      <4>1. RowGains(ts, id, text, t)  BY RowWith
      <4> QED BY <4>1 DEF RowGains
    <3> QED BY <3>1, <3>2
  <2> HIDE DEF us, vs
  <2>3. \A t \in Term : x.postings[t][id] + text[t] = text[t]
    <3> TAKE t \in Term
    <3>1. x.postings[t][id] = 0  BY <2>1, <2>9
    <3>2. text[t] \in Nat  BY <1>3
    <3> QED BY ONLY <3>1, <3>2
  <2>4. \A t \in Term : y.postings[t] = [x.postings[t] EXCEPT ![id] = text[t]]
    BY <2>1, <2>9
  <2> QED BY <2>2, <2>3, <2>4
<1>7. y.total = x.total + LengthOf(text)
  <2>1. x.total = SumOver(Lengths(us)) /\ y.total = SumOver(Lengths(vs))  BY DEF StatsOf
  <2>2. /\ SumOver(Lengths(vs)) = LengthOf(text) + SumOver(Lengths(us))
        /\ SumOver(Lengths(us)) \in Nat /\ LengthOf(text) \in Nat
    <3> HIDE DEF us, vs
    <3> QED BY <1>2, <1>3, TotalWithout
  <2> QED BY ONLY <2>1, <2>2
<1>8. y = [postings |-> y.postings, docs |-> y.docs, total |-> y.total]  BY DEF StatsOf
<1> HIDE DEF x, y
<1>9. Added(StatsOf(ts), id, text) = [postings |-> y.postings, docs |-> y.docs, total |-> y.total]
  BY <1>1, <1>5, <1>6, <1>7 DEF Added
<1> QED BY <1>8, <1>9 DEF x, y

\* Which documents are awaited.
LEMMA AwaitedIs == \A id : id \in Awaited <=> \E c \in Indexer : Waits(c, id)
BY DEF Awaited, Waits

\* An empty index has the statistics of no documents.
LEMMA RetrieverStarts == RetrieverInit => RetrieverInv
<1> SUFFICES ASSUME RetrieverInit PROVE RetrieverInv  OBVIOUS
<1>1. texts \in TextsOrNone /\ vectors \in TextsOrNone /\ indexers = [c \in Indexer |-> indexers[c]]
  BY DEF RetrieverInit, TextsOrNone
<1>2. Lexical = StatsOf(texts)
  <2>1. Lexical = EmptyIndex  BY DEF RetrieverInit, Lexical, EmptyIndex
  <2> QED BY <2>1, EmptyStats DEF RetrieverInit
<1>3. \A c \in Indexer : indexers[c].at # "embedding"  BY DEF RetrieverInit, Waiting
<1> QED BY <1>1, <1>2, <1>3 DEF RetrieverInv, CallsMatch, RetrieverInit

\* The index after a step is the index the step computes.
LEMMA LexicalStep ==
  ASSUME NEW ts, LexicalIs(StatsOf(ts)) PROVE Lexical' = StatsOf(ts)
BY DEF LexicalIs, Lexical, StatsOf

\* index(): a document another call awaits is raced; else this call is its only one.
LEMMA IndexKeeps ==
  ASSUME RetrieverInv, NEW c \in Indexer, Index(c) PROVE RetrieverInv'
<1> USE DEF RetrieverInv
<1>1. PICK id \in Doc, text \in Texts, given \in BOOLEAN :
       /\ LexicalIs(Added(Lexical, id, text))
       /\ texts' = [texts EXCEPT ![id] = text]
       /\ vectors' = IF given THEN [vectors EXCEPT ![id] = text] ELSE vectors
       /\ indexers' = IF given THEN indexers
                      ELSE [indexers EXCEPT ![c] = [at |-> "embedding", id |-> id, text |-> text]]
       /\ raced' = IF id \in Awaited THEN raced \cup {id} ELSE raced \ {id}
  BY DEF Index
<1>2. indexers[c].at # "embedding"  BY DEF Index
<1>3. texts' \in TextsOrNone /\ vectors' \in TextsOrNone /\ (indexers = [d \in Indexer |-> indexers[d]])'
  BY <1>1 DEF TextsOrNone
<1>4. (Lexical = StatsOf(texts))'
  <2>1. LexicalIs(StatsOf([texts EXCEPT ![id] = text]))  BY <1>1, AddedStats
  <2>2. Lexical' = StatsOf([texts EXCEPT ![id] = text])  BY <2>1, LexicalStep
  <2>3. StatsOf(texts)' = StatsOf([texts EXCEPT ![id] = text])  BY <1>1 DEF StatsOf, Row, Lengths, Held
  <2> QED BY <2>2, <2>3
<1>5. \A i \in Doc : texts'[i] = (IF i = id THEN text ELSE texts[i])
                     /\ (vectors'[i] = IF given /\ i = id THEN text ELSE vectors[i])
  BY <1>1 DEF TextsOrNone
<1>6. \A d \in Indexer : indexers'[d] = (IF d = c /\ ~given THEN [at |-> "embedding", id |-> id, text |-> text]
                                         ELSE indexers[d])
  BY <1>1
<1>7. \A i : i \in raced' <=> IF i = id THEN id \in Awaited ELSE i \in raced  BY <1>1
<1>8. \A d \in Indexer : \A i : Waits(d, i)' <=> IF d = c /\ ~given THEN i = id ELSE Waits(d, i)
  BY <1>6 DEF Waits
<1>9. \A i \in Doc \ (raced' \cup Awaited') : vectors'[i] = texts'[i]
  <2> TAKE i \in Doc \ (raced' \cup Awaited')
  <2>1. \A d \in Indexer : ~Waits(d, i)'  BY AwaitedIs DEF Waits, Awaited
  <2>2. \A d \in Indexer : ~Waits(d, i)  BY <2>1, <1>8, <1>2 DEF Waits
  <2>3. i \notin Awaited  BY <2>2, AwaitedIs
  <2>4. i = id => given  BY <2>1, <1>8
  <2> QED BY <2>3, <2>4, <1>5, <1>7
<1>10. CallsMatch'
  <2> SUFFICES ASSUME NEW d \in Indexer, indexers'[d].at = "embedding"
               PROVE  /\ indexers'[d].id \in Doc /\ indexers'[d].text \in Texts
                      /\ indexers'[d].id \notin raced' =>
                           /\ indexers'[d].text = texts'[indexers'[d].id]
                           /\ \A e \in Indexer : Waits(e, indexers[d].id)' => e = d
    BY DEF CallsMatch, Waits
  <2>1. CASE d = c /\ ~given
    <3>1. indexers'[d].id = id /\ indexers'[d].text = text  BY <2>1, <1>6
    <3>2. id \notin raced' => \A e \in Indexer : ~Waits(e, id)  BY <1>7, AwaitedIs
    <3>3. id \notin raced' => \A e \in Indexer : Waits(e, id)' => e = c  BY <3>2, <1>8
    <3> QED BY <3>1, <3>3, <1>5, <2>1 DEF Waits
  <2>2. CASE ~(d = c /\ ~given)
    <3>1. indexers'[d] = indexers[d]  BY <2>2, <1>6
    <3>2. indexers[d].at = "embedding" /\ Waits(d, indexers[d].id)  BY <3>1 DEF Waits
    <3>3. indexers[d].id = id => id \in raced'  BY <3>2, <1>7, AwaitedIs
    <3>4. indexers[d].id \notin raced' =>
            /\ indexers[d].id # id /\ indexers[d].id \notin raced
      BY <3>3, <1>7
    <3>5. indexers[d].id \in Doc /\ indexers[d].text \in Texts  BY <3>2 DEF CallsMatch
    <3>6. indexers[d].id \notin raced' =>
            /\ indexers[d].text = texts[indexers[d].id]
            /\ \A e \in Indexer : Waits(e, indexers[d].id) => e = d
      BY <3>2, <3>4 DEF CallsMatch
    <3>7. indexers[d].id \notin raced' => \A e \in Indexer : Waits(e, indexers[d].id)' => e = d
      <4> SUFFICES ASSUME indexers[d].id \notin raced', NEW e \in Indexer, Waits(e, indexers[d].id)'
                   PROVE  e = d
        BY <3>1
      <4>1. indexers'[e].id = indexers[d].id /\ indexers'[e].at = "embedding"  BY <3>1 DEF Waits
      <4>2. ~(e = c /\ ~given)  BY <4>1, <3>4, <1>6
      <4> QED BY <4>1, <4>2, <3>6, <1>6 DEF Waits
    <3> QED BY <3>1, <3>4, <3>5, <3>6, <3>7, <1>5 DEF Waits
  <2> QED BY <2>1, <2>2
<1> QED BY <1>3, <1>4, <1>9, <1>10

\* A vector that arrives for a document nobody raced is of its present text.
LEMMA ArriveKeeps ==
  ASSUME RetrieverInv, NEW c \in Indexer, VectorsArrive(c) \/ EmbedderFails(c) PROVE RetrieverInv'
<1> USE DEF RetrieverInv
<1>1. /\ indexers[c].at = "embedding" /\ indexers' = [indexers EXCEPT ![c] = Waiting]
      /\ UNCHANGED <<texts, postings, docs, totalLength>>
      /\ raced \subseteq raced'
  BY DEF VectorsArrive, EmbedderFails
<1> DEFINE id == indexers[c].id
<1>2. id \in Doc /\ indexers[c].text \in Texts /\ (id \notin raced => indexers[c].text = texts[id])
  BY <1>1 DEF CallsMatch
<1>3. /\ id \notin raced' => vectors' = [vectors EXCEPT ![id] = indexers[c].text]
      /\ vectors' = vectors \/ vectors' = [vectors EXCEPT ![id] = indexers[c].text]
  BY DEF VectorsArrive, EmbedderFails
<1>4. texts' \in TextsOrNone /\ vectors' \in TextsOrNone /\ (indexers = [d \in Indexer |-> indexers[d]])'
  BY <1>1, <1>2, <1>3 DEF TextsOrNone
<1>5. (Lexical = StatsOf(texts))'  BY <1>1 DEF Lexical, StatsOf, Row, Lengths, Held
<1>6. \A d \in Indexer : indexers'[d] = IF d = c THEN Waiting ELSE indexers[d]  BY <1>1
<1>7. \A d \in Indexer : indexers'[d].at = "embedding" => d # c /\ indexers'[d] = indexers[d]
  BY <1>6 DEF Waiting
<1>8. \A i \in Doc \ (raced' \cup Awaited') : vectors'[i] = texts'[i]
  <2> TAKE i \in Doc \ (raced' \cup Awaited')
  <2>1. \A d \in Indexer : ~Waits(d, i)'  BY DEF Waits, Awaited
  <2>2. i # id => \A d \in Indexer : ~Waits(d, i)  BY <2>1, <1>6 DEF Waits
  <2>3. i # id => vectors[i] = texts[i]  BY <2>2, <1>1, AwaitedIs
  <2>4. i # id => vectors'[i] = vectors[i]  BY <1>3 DEF TextsOrNone
  <2>5. i = id => vectors'[i] = indexers[c].text /\ id \notin raced  BY <1>1, <1>3 DEF TextsOrNone
  <2> QED BY <2>3, <2>4, <2>5, <1>1, <1>2
<1>9. CallsMatch'
  <2> SUFFICES ASSUME NEW d \in Indexer, indexers'[d].at = "embedding"
               PROVE  /\ indexers'[d].id \in Doc /\ indexers'[d].text \in Texts
                      /\ indexers'[d].id \notin raced' =>
                           /\ indexers'[d].text = texts'[indexers'[d].id]
                           /\ \A e \in Indexer : Waits(e, indexers[d].id)' => e = d
    BY DEF CallsMatch, Waits
  <2>1. indexers'[d] = indexers[d]  BY <1>7
  <2>2. \A e \in Indexer : Waits(e, indexers[d].id)' => Waits(e, indexers[d].id)
    BY <2>1, <1>7 DEF Waits
  <2> QED BY <2>1, <2>2, <1>1 DEF CallsMatch
<1> QED BY <1>4, <1>5, <1>8, <1>9

\* remove() takes the vector with the text, and races whoever awaits one.
LEMMA RemoveKeeps ==
  ASSUME RetrieverInv, NEW id \in Doc, RemoveDoc(id) PROVE RetrieverInv'
<1> USE DEF RetrieverInv
<1>1. /\ LexicalIs(Removed(Lexical, id)) /\ indexers' = indexers
      /\ texts' = [texts EXCEPT ![id] = NoText] /\ vectors' = [vectors EXCEPT ![id] = NoText]
      /\ raced' = IF id \in Awaited THEN raced \cup {id} ELSE raced \ {id}
  BY DEF RemoveDoc
<1>2. texts' \in TextsOrNone /\ vectors' \in TextsOrNone /\ (indexers = [d \in Indexer |-> indexers[d]])'
  BY <1>1 DEF TextsOrNone
<1>3. (Lexical = StatsOf(texts))'
  <2>1. LexicalIs(StatsOf([texts EXCEPT ![id] = NoText]))  BY <1>1, RemovedStats
  <2>2. Lexical' = StatsOf([texts EXCEPT ![id] = NoText])  BY <2>1, LexicalStep
  <2>3. StatsOf(texts)' = StatsOf([texts EXCEPT ![id] = NoText])  BY <1>1 DEF StatsOf, Row, Lengths, Held
  <2> QED BY <2>2, <2>3
<1>4. \A i \in Doc : (texts'[i] = IF i = id THEN NoText ELSE texts[i])
                     /\ (vectors'[i] = IF i = id THEN NoText ELSE vectors[i])
  BY <1>1 DEF TextsOrNone
<1>5. Awaited' = Awaited /\ \A d \in Indexer : \A i : Waits(d, i)' <=> Waits(d, i)  BY <1>1 DEF Awaited, Waits
<1>6. \A i \in Doc \ (raced' \cup Awaited') : vectors'[i] = texts'[i]  BY <1>1, <1>4, <1>5
<1>7. CallsMatch'
  <2> SUFFICES ASSUME NEW d \in Indexer, indexers[d].at = "embedding"
               PROVE  /\ indexers[d].id \in Doc /\ indexers[d].text \in Texts
                      /\ indexers[d].id \notin raced' =>
                           /\ indexers[d].text = texts'[indexers[d].id]
                           /\ \A e \in Indexer : Waits(e, indexers[d].id) => e = d
    BY <1>1 DEF CallsMatch, Waits
  <2>1. indexers[d].id \in Awaited  BY AwaitedIs DEF Waits
  <2>2. indexers[d].id \notin raced' => indexers[d].id # id /\ indexers[d].id \notin raced
    BY <2>1, <1>1
  <2> QED BY <2>2, <1>4 DEF CallsMatch
<1> QED BY <1>2, <1>3, <1>6, <1>7

\* clear() leaves no text and no vector, and races every call.
LEMMA ClearKeeps ==
  ASSUME RetrieverInv, Clear PROVE RetrieverInv'
<1> USE DEF RetrieverInv
<1> DEFINE none == [id \in Doc |-> NoText]
<1>1. /\ LexicalIs(EmptyIndex) /\ indexers' = indexers
      /\ texts' = none /\ vectors' = none /\ raced' = Awaited
  BY DEF Clear
<1>2. texts' \in TextsOrNone /\ vectors' \in TextsOrNone /\ (indexers = [d \in Indexer |-> indexers[d]])'
  BY <1>1 DEF TextsOrNone
<1>3. (Lexical = StatsOf(texts))'
  <2>1. Lexical' = StatsOf(none)  BY <1>1, EmptyStats, LexicalStep
  <2>2. StatsOf(texts)' = StatsOf(none)  BY <1>1 DEF StatsOf, Row, Lengths, Held
  <2> QED BY <2>1, <2>2
<1>4. \A i \in Doc : vectors'[i] = texts'[i]  BY <1>1
<1>5. CallsMatch'
  <2> SUFFICES ASSUME NEW d \in Indexer, indexers[d].at = "embedding"
               PROVE  indexers[d].id \in Doc /\ indexers[d].text \in Texts /\ indexers[d].id \in raced'
    BY <1>1 DEF CallsMatch
  <2>1. indexers[d].id \in Awaited  BY AwaitedIs DEF Waits
  <2> QED BY <2>1, <1>1 DEF CallsMatch
<1> QED BY <1>2, <1>3, <1>4, <1>5

\* Every step of the retriever keeps the invariant.
LEMMA RetrieverSteps == RetrieverInv /\ [RetrieverNext]_retrieverVars => RetrieverInv'
<1> SUFFICES ASSUME RetrieverInv, [RetrieverNext]_retrieverVars PROVE RetrieverInv'  OBVIOUS
<1>1. CASE UNCHANGED retrieverVars
  <2>1. UNCHANGED <<texts, postings, docs, totalLength, vectors, indexers, raced>>
    BY <1>1 DEF retrieverVars
  <2>2. (Lexical = StatsOf(texts))'  BY <2>1 DEF RetrieverInv, Lexical, StatsOf, Row, Lengths, Held
  <2> QED BY <2>1, <2>2 DEF RetrieverInv, CallsMatch, Waits, Awaited, TextsOrNone
<1> QED BY <1>1, IndexKeeps, ArriveKeeps, RemoveKeeps, ClearKeeps DEF RetrieverNext

\* The invariant holds the statistics and the vectors the retriever promises.
LEMMA RetrieverInvCurrent == RetrieverInv => RetrieverCurrent
<1> SUFFICES ASSUME RetrieverInv PROVE RetrieverCurrent  OBVIOUS
<1>1. postings = StatsOf(texts).postings /\ docs = StatsOf(texts).docs /\ totalLength = StatsOf(texts).total
  BY DEF RetrieverInv, Lexical
<1>2. \A t \in Term, id \in Doc : postings[t][id] = IF texts[id] = NoText THEN 0 ELSE texts[id][t]
  BY <1>1 DEF StatsOf, Row
<1>3. \A id \in Doc : docs[id] =
        IF texts[id] = NoText THEN NoText ELSE [length |-> LengthOf(texts[id]), terms |-> TermsOf(texts[id])]
  BY <1>1 DEF StatsOf, DocOf
<1>4. totalLength = SumOver([id \in {i \in Doc : texts[i] # NoText} |-> LengthOf(texts[id])])
  BY <1>1 DEF StatsOf, Lengths, Held
<1> QED BY <1>2, <1>3, <1>4 DEF RetrieverCurrent, RetrieverInv

\* RetrieverCurrent: over any documents and texts, and any calls of index() in flight, the
\* statistics the index ranks by are those of the documents it holds, and a vector is of its
\* document's present text unless the document changed while one was awaited.
THEOREM RetrieverKeepsCurrent == RetrieverSpec => []RetrieverCurrent
BY RetrieverStarts, RetrieverSteps, RetrieverInvCurrent, PTL DEF RetrieverSpec

(***************************************************************************)
(* The enhanced provider: an id keeps the scope that had it first, unless  *)
(* it was free when two batches were checked.  A batch notes what was free *)
(* when it was checked, and nothing held is ever dropped.                  *)
(***************************************************************************)
HeldEntry == [owner : Scoped, status : {"active", "archived", "retired"}, kind : Kind]
Batch == [left : Seq(RecordId), owner : Scoped, free : SUBSET RecordId]
EntriesHeld == \A id \in RecordId : entries[id] = Unheld \/ entries[id] \in HeldEntry
BatchesUnderWay ==
  \A b \in Batcher : batches[b] = NoBatch \/ (batches[b] \in Batch /\ Len(batches[b].left) > 0)
FreeIsNoted ==
  \A b \in Batcher : batches[b] # NoBatch =>
    \A i \in DOMAIN batches[b].left : Taken(batches[b].left[i]) \/ batches[b].left[i] \in batches[b].free

OwnersInv ==
  /\ DOMAIN entries = RecordId /\ EntriesHeld
  /\ DOMAIN batches = Batcher /\ BatchesUnderWay
  /\ DOMAIN firstOwner = RecordId
  /\ FreeIsNoted /\ OwnersStay /\ BatchesCheckedWhole

\* A record is held if it has a status.
LEMMA TakenHasStatus ==
  \A held \in HeldEntry : held # Unheld
<1> SUFFICES ASSUME NEW held \in HeldEntry  PROVE held.status # Unheld.status  OBVIOUS
<1> QED BY DEF HeldEntry, Unheld

\* What is left of a batch, index by index.
LEMMA BatchTail ==
  ASSUME NEW s \in Seq(RecordId), Len(s) > 0
  PROVE  /\ Head(s) \in RecordId /\ Head(s) = s[1] /\ 1 \in DOMAIN s
         /\ Tail(s) \in Seq(RecordId)
         /\ Len(s) # 1 => Len(Tail(s)) > 0
         /\ \A i \in DOMAIN Tail(s) : i + 1 \in DOMAIN s /\ Tail(s)[i] = s[i + 1]
<1>1. Len(s) \in Nat /\ DOMAIN s = 1 .. Len(s)  OBVIOUS
<1>2. Tail(s) \in Seq(RecordId) /\ Len(Tail(s)) = Len(s) - 1  BY <1>1
<1>3. DOMAIN Tail(s) = 1 .. Len(s) - 1  BY <1>2
<1>4. \A i \in 1 .. Len(s) - 1 : Tail(s)[i] = s[i + 1]  BY <1>1
<1> QED BY <1>1, <1>2, <1>3, <1>4

\* No step but a batch's own changes what it has left: what others write keeps the invariant
\* if every record they replace stays with its owner.
LEMMA WritesKeepOwners ==
  ASSUME OwnersInv, DOMAIN entries' = RecordId, DOMAIN firstOwner' = RecordId, EntriesHeld',
         \A id \in RecordId : Taken(id) =>
           Taken(id)' /\ entries'[id].owner = entries[id].owner /\ firstOwner'[id] = firstOwner[id],
         \A id \in RecordId : ~Taken(id) /\ Taken(id)' => entries'[id].owner = firstOwner'[id],
         UNCHANGED <<batches, contested>>
  PROVE  OwnersInv'
<1>1. OwnersStay'  BY DEF OwnersInv, OwnersStay
<1>2. \A b \in Batcher : batches[b] # NoBatch =>
        \A i \in DOMAIN batches[b].left : batches[b].left[i] \in RecordId
  BY DEF OwnersInv, BatchesUnderWay, Batch
<1>3. FreeIsNoted'  BY <1>2 DEF OwnersInv, FreeIsNoted
<1>4. BatchesCheckedWhole'
  <2> SUFFICES ASSUME NEW b \in Batcher, batches[b] # NoBatch, NEW i \in DOMAIN batches[b].left
               PROVE  \/ SameOwner(batches[b].left[i], batches[b].owner)'
                      \/ batches[b].left[i] \in batches[b].free \cup contested
    BY DEF BatchesCheckedWhole
  <2>1. batches[b].left[i] \in RecordId  BY <1>2
  <2>2. CASE Taken(batches[b].left[i])
    BY <2>1, <2>2 DEF OwnersInv, BatchesCheckedWhole, SameOwner
  <2>3. CASE ~Taken(batches[b].left[i])  BY <2>3 DEF OwnersInv, FreeIsNoted
  <2> QED BY <2>2, <2>3
<1> QED BY <1>1, <1>3, <1>4 DEF OwnersInv, BatchesUnderWay

\* What a batch stores for another's id was contested by then.
LEMMA IngestStoresKeeps ==
  ASSUME OwnersInv, NEW b \in Batcher, IngestStores(b)
  PROVE  OwnersInv'
<1> DEFINE id == Head(batches[b].left)  owner == batches[b].owner
<1>1. batches[b] # NoBatch /\ batches[b] \in Batch /\ Len(batches[b].left) > 0
  BY DEF IngestStores, OwnersInv, BatchesUnderWay
<1>2. /\ batches[b].left \in Seq(RecordId) /\ owner \in Scoped /\ id \in RecordId
      /\ 1 \in DOMAIN batches[b].left /\ id = batches[b].left[1]
  BY <1>1, BatchTail DEF Batch
<1>3. PICK kind \in Kind :
        /\ entries' = [entries EXCEPT ![id] = [owner |-> owner, status |-> "active", kind |-> kind]]
        /\ firstOwner' = IF Taken(id) THEN firstOwner ELSE [firstOwner EXCEPT ![id] = owner]
  BY DEF IngestStores, Hold
<1>4. contested' = IF ~SameOwner(id, owner) /\ id \in batches[b].free THEN contested \cup {id} ELSE contested
  BY DEF IngestStores
<1>5. /\ DOMAIN batches' = Batcher /\ \A a \in Batcher : a # b => batches'[a] = batches[a]
      /\ batches'[b] = IF Len(batches[b].left) = 1 THEN NoBatch
                       ELSE [batches[b] EXCEPT !.left = Tail(batches[b].left)]
  <2>1. batches' = [batches EXCEPT ![b] =
          IF Len(@.left) = 1 THEN NoBatch ELSE [@ EXCEPT !.left = Tail(batches[b].left)]]
    BY DEF IngestStores
  <2>2. DOMAIN batches = Batcher  BY DEF OwnersInv
  <2> QED BY <2>1, <2>2
<1>6. SameOwner(id, owner) \/ id \in contested'
  BY <1>1, <1>2, <1>4 DEF OwnersInv, BatchesCheckedWhole
<1>7. /\ DOMAIN entries' = RecordId /\ DOMAIN firstOwner' = RecordId /\ DOMAIN batches' = Batcher
      /\ \A x \in RecordId : x # id => entries'[x] = entries[x] /\ firstOwner'[x] = firstOwner[x]
      /\ entries'[id] = [owner |-> owner, status |-> "active", kind |-> kind]
      /\ firstOwner'[id] = IF Taken(id) THEN firstOwner[id] ELSE owner
      /\ \A a \in Batcher : a # b => batches'[a] = batches[a]
      /\ contested \subseteq contested'
  BY <1>2, <1>3, <1>4, <1>5 DEF OwnersInv
<1>8. entries'[id] \in HeldEntry  BY <1>2, <1>7 DEF HeldEntry
<1>9. /\ entries'[id] # Unheld /\ entries'[id].owner = owner
      /\ \A x \in RecordId : Taken(x) => Taken(x)'
  <2>1. entries'[id] # Unheld  BY <1>8, TakenHasStatus
  <2>2. entries'[id].owner = owner  BY <1>7
  <2> QED BY <1>7, <2>1, <2>2 DEF Taken
<1>10. \/ batches'[b] = NoBatch
       \/ /\ batches'[b] = [left |-> Tail(batches[b].left), owner |-> owner, free |-> batches[b].free]
          /\ Len(batches[b].left) # 1
  BY <1>1, <1>2, <1>5 DEF OwnersInv, Batch
<1>11. \A a \in Batcher : batches'[a] # NoBatch =>
         /\ batches[a] # NoBatch /\ batches[a] \in Batch
         /\ batches'[a] \in Batch /\ Len(batches'[a].left) > 0
         /\ batches'[a].owner = batches[a].owner /\ batches'[a].free = batches[a].free
         /\ \A i \in DOMAIN batches'[a].left : \E k \in DOMAIN batches[a].left :
              batches'[a].left[i] = batches[a].left[k]
  <2> SUFFICES ASSUME NEW a \in Batcher, batches'[a] # NoBatch
               PROVE  /\ batches[a] # NoBatch /\ batches[a] \in Batch
                      /\ batches'[a] \in Batch /\ Len(batches'[a].left) > 0
                      /\ batches'[a].owner = batches[a].owner /\ batches'[a].free = batches[a].free
                      /\ \A i \in DOMAIN batches'[a].left : \E k \in DOMAIN batches[a].left :
                           batches'[a].left[i] = batches[a].left[k]
    OBVIOUS
  <2>1. CASE a # b  BY <1>7, <2>1 DEF OwnersInv, BatchesUnderWay
  <2>2. CASE a = b
    <3>1. /\ batches'[b] = [left |-> Tail(batches[b].left), owner |-> owner, free |-> batches[b].free]
          /\ Len(batches[b].left) # 1
      BY <1>10, <2>2
    <3>2. /\ Tail(batches[b].left) \in Seq(RecordId) /\ Len(Tail(batches[b].left)) > 0
          /\ \A i \in DOMAIN Tail(batches[b].left) : \E k \in DOMAIN batches[b].left :
               Tail(batches[b].left)[i] = batches[b].left[k]
      BY <1>1, <1>2, <3>1, BatchTail
    <3>3. batches'[b] \in Batch  BY <1>1, <3>1, <3>2 DEF Batch
    <3> QED BY <1>1, <2>2, <3>1, <3>2, <3>3
  <2> QED BY <2>1, <2>2
<1> HIDE DEF id, owner
<1>12. EntriesHeld' /\ BatchesUnderWay'
  BY <1>7, <1>8, <1>11 DEF OwnersInv, EntriesHeld, BatchesUnderWay
<1>13. OwnersStay'
  <2> SUFFICES ASSUME NEW x \in RecordId, Taken(x)', entries'[x].owner # firstOwner'[x]
               PROVE  x \in contested'
    BY DEF OwnersStay
  <2>1. CASE x # id  BY <1>7, <2>1 DEF OwnersInv, OwnersStay, Taken
  <2>2. CASE x = id
    <3>1. Taken(id) /\ firstOwner[id] # owner  BY <1>7, <1>9, <2>2 DEF Taken
    <3>2. CASE SameOwner(id, owner)
      <4>1. entries[id].owner # firstOwner[id]  BY <3>1, <3>2 DEF SameOwner
      <4> QED BY <1>2, <1>7, <2>2, <3>1, <4>1 DEF OwnersInv, OwnersStay
    <3> QED BY <1>6, <2>2, <3>2
  <2> QED BY <2>1, <2>2
<1>14. \A a \in Batcher : batches'[a] # NoBatch =>
         \A i \in DOMAIN batches'[a].left :
           LET x == batches'[a].left[i] IN
           /\ x \in RecordId /\ (Taken(x) \/ x \in batches'[a].free)
           /\ SameOwner(x, batches'[a].owner) \/ x \in batches'[a].free \cup contested
  BY <1>11 DEF OwnersInv, FreeIsNoted, BatchesCheckedWhole, Batch
<1>15. FreeIsNoted'  BY <1>9, <1>14 DEF FreeIsNoted
<1>16. ASSUME NEW a \in Batcher, NEW x \in RecordId, NEW mine, NEW free,
              SameOwner(x, mine) \/ x \in free \cup contested, Taken(x) \/ x \in free
       PROVE  (entries'[x] # Unheld => entries'[x].owner = mine) \/ x \in free \cup contested'
  <2>1. CASE x # id  BY <1>7, <1>16, <2>1 DEF SameOwner, Taken
  <2>2. CASE x = id /\ mine = owner  BY <1>9, <2>2
  <2>3. CASE x = id /\ mine # owner /\ x \notin free \cup contested
    <3>1. Taken(id) /\ entries[id].owner = mine  BY <1>16, <2>3 DEF SameOwner
    <3>2. ~SameOwner(id, owner)  BY <2>3, <3>1 DEF SameOwner
    <3> QED BY <1>6, <2>3, <3>2
  <2>4. CASE x \in free \cup contested  BY <1>7, <2>4
  <2> QED BY <2>1, <2>2, <2>3, <2>4
<1>17. BatchesCheckedWhole'
  <2>1. \A a \in Batcher : batches'[a] # NoBatch =>
          \A i \in DOMAIN batches'[a].left :
            LET x == batches'[a].left[i] IN
            (entries'[x] # Unheld => entries'[x].owner = batches'[a].owner)
            \/ x \in batches'[a].free \cup contested'
    BY <1>14, <1>16
  <2> QED BY <2>1 DEF BatchesCheckedWhole, SameOwner, Taken
<1> QED BY <1>7, <1>12, <1>13, <1>15, <1>17 DEF OwnersInv

\* A batch is checked whole, and notes what is free.
LEMMA IngestChecksKeeps ==
  ASSUME OwnersInv, NEW b \in Batcher, NEW batch \in Seq(RecordId), batch # <<>>, NEW owner \in Scoped,
         IngestChecks(b, batch, owner)
  PROVE  OwnersInv'
<1>1. UNCHANGED <<entries, firstOwner, contested>>  BY DEF IngestChecks
<1> DEFINE new == [left |-> batch, owner |-> owner, free |-> {id \in RecordId : ~Taken(id)}]
<1>2. batches' = [batches EXCEPT ![b] = IF Unrefused(batch, owner) THEN new ELSE NoBatch]
  BY DEF IngestChecks
<1>3. /\ DOMAIN batches' = Batcher
      /\ \A a \in Batcher : a # b => batches'[a] = batches[a]
      /\ batches'[b] = IF Unrefused(batch, owner) THEN new ELSE NoBatch
  BY <1>2 DEF OwnersInv
<1>4. Len(batch) > 0 /\ (\A i \in DOMAIN batch : batch[i] \in RecordId)  OBVIOUS
<1>5. new \in Batch /\ new.left = batch /\ new.owner = owner /\ new.free = {id \in RecordId : ~Taken(id)}
  BY DEF Batch
<1> HIDE DEF new
<1>6. BatchesUnderWay'  BY <1>3, <1>4, <1>5 DEF OwnersInv, BatchesUnderWay
<1>7. FreeIsNoted'
  <2>1. \A i \in DOMAIN batch : Taken(batch[i]) \/ batch[i] \in new.free  BY <1>4, <1>5
  <2> QED BY <1>1, <1>3, <1>5, <2>1 DEF OwnersInv, FreeIsNoted, Taken
<1>8. BatchesCheckedWhole'
  <2>1. Unrefused(batch, owner) => \A i \in DOMAIN batch : SameOwner(batch[i], owner)  BY DEF Unrefused
  <2> QED BY <1>1, <1>3, <1>5, <2>1 DEF OwnersInv, BatchesCheckedWhole, SameOwner, Taken
<1> QED BY <1>1, <1>3, <1>6, <1>7, <1>8 DEF OwnersInv, EntriesHeld, OwnersStay, Taken

\* A prune changes a status, and so does a retirement.
LEMMA PruningKeeps ==
  ASSUME OwnersInv
  PROVE  \A x \in RecordId :
           /\ PrunedEntries[x] = Unheld \/ PrunedEntries[x] \in HeldEntry
           /\ PrunedEntries[x] = Unheld <=> ~Taken(x)
           /\ PrunedEntries[x].owner = entries[x].owner
<1> SUFFICES ASSUME NEW x \in RecordId
             PROVE  /\ PrunedEntries[x] = Unheld \/ PrunedEntries[x] \in HeldEntry
                    /\ PrunedEntries[x] = Unheld <=> ~Taken(x)
                    /\ PrunedEntries[x].owner = entries[x].owner
  OBVIOUS
<1>1. CASE PrunedEntries[x] = entries[x]
  BY <1>1 DEF OwnersInv, EntriesHeld, Taken
<1>2. CASE Taken(x) /\ PrunedEntries[x] = [entries[x] EXCEPT !.status = "archived"]
  <2>1. entries[x] \in HeldEntry  BY <1>2 DEF OwnersInv, EntriesHeld, Taken
  <2>2. PrunedEntries[x] = [owner |-> entries[x].owner, status |-> "archived", kind |-> entries[x].kind]
    BY <1>2, <2>1 DEF HeldEntry
  <2>3. PrunedEntries[x] \in HeldEntry  BY <2>1, <2>2 DEF HeldEntry
  <2> QED BY <1>2, <2>2, <2>3, TakenHasStatus
<1> QED BY <1>1, <1>2 DEF PrunedEntries

\* The other writes keep it.
LEMMA OtherWritesKeep ==
  ASSUME OwnersInv,
         \/ Prunes \/ (\E s \in Scorer, owner \in Scoped : SearchPrunes(s, owner))
         \/ (\E id \in RecordId, owner \in Scoped : UpdateEntry(id, owner) \/ RetireEntry(id, owner))
  PROVE  OwnersInv'
<1>1. CASE entries' = PrunedEntries /\ UNCHANGED <<batches, contested, firstOwner>>
  <2>1. DOMAIN entries' = RecordId  BY <1>1 DEF PrunedEntries
  <2>2. \A x \in RecordId : Taken(x)' <=> Taken(x)  BY <1>1, PruningKeeps DEF Taken
  <2>3. \A x \in RecordId : entries'[x].owner = entries[x].owner  BY <1>1, PruningKeeps
  <2>4. EntriesHeld'  BY <1>1, PruningKeeps DEF EntriesHeld
  <2>5. DOMAIN firstOwner' = RecordId  BY <1>1 DEF OwnersInv
  <2> QED BY <1>1, <2>1, <2>2, <2>3, <2>4, <2>5, WritesKeepOwners
<1>2. ASSUME NEW id \in RecordId, NEW owner \in Scoped, RetireEntry(id, owner)  PROVE OwnersInv'
  <2>1. /\ entries' = [PrunedEntries EXCEPT ![id].status = "retired"] /\ PrunedEntries[id].status = "active"
        /\ UNCHANGED <<batches, contested, firstOwner>>
    BY <1>2 DEF RetireEntry, VisibleIn
  <2>2. PrunedEntries[id] \in HeldEntry  BY <2>1, PruningKeeps DEF Unheld
  <2>3. DOMAIN PrunedEntries = RecordId  BY DEF PrunedEntries
  <2>4. /\ DOMAIN entries' = RecordId /\ \A x \in RecordId : x # id => entries'[x] = PrunedEntries[x]
        /\ entries'[id] =
             [owner |-> PrunedEntries[id].owner, status |-> "retired", kind |-> PrunedEntries[id].kind]
    BY <2>1, <2>2, <2>3 DEF HeldEntry
  <2>5. entries'[id] \in HeldEntry /\ entries'[id].owner = entries[id].owner
    BY <2>2, <2>4, PruningKeeps DEF HeldEntry
  <2>6. \A x \in RecordId : (Taken(x)' <=> Taken(x)) /\ entries'[x].owner = entries[x].owner
    BY <2>2, <2>4, <2>5, PruningKeeps, TakenHasStatus DEF Taken
  <2>7. EntriesHeld'  BY <2>4, <2>5, PruningKeeps DEF EntriesHeld
  <2>8. DOMAIN firstOwner' = RecordId  BY <2>1 DEF OwnersInv
  <2> QED BY <2>1, <2>4, <2>6, <2>7, <2>8, WritesKeepOwners
<1>3. ASSUME NEW id \in RecordId, NEW owner \in Scoped, UpdateEntry(id, owner)  PROVE OwnersInv'
  <2>1. PICK kind \in Kind :
          /\ entries' = [entries EXCEPT ![id] = [owner |-> owner, status |-> "active", kind |-> kind]]
          /\ firstOwner' = IF Taken(id) THEN firstOwner ELSE [firstOwner EXCEPT ![id] = owner]
    BY <1>3 DEF UpdateEntry, Hold
  <2>2. SameOwner(id, owner) /\ UNCHANGED <<batches, contested>>  BY <1>3 DEF UpdateEntry
  <2>3. /\ DOMAIN entries' = RecordId /\ DOMAIN firstOwner' = RecordId
        /\ \A x \in RecordId : x # id => entries'[x] = entries[x] /\ firstOwner'[x] = firstOwner[x]
        /\ entries'[id] = [owner |-> owner, status |-> "active", kind |-> kind]
        /\ firstOwner'[id] = IF Taken(id) THEN firstOwner[id] ELSE owner
    BY <2>1 DEF OwnersInv
  <2>4. entries'[id] \in HeldEntry /\ entries'[id].owner = owner  BY <2>3 DEF HeldEntry
  <2>5. Taken(id)' /\ \A x \in RecordId : x # id => (Taken(x)' <=> Taken(x))
    BY <2>3, <2>4, TakenHasStatus DEF Taken
  <2>6. EntriesHeld'  BY <2>3, <2>4 DEF OwnersInv, EntriesHeld
  <2>7. \A x \in RecordId : Taken(x) =>
          Taken(x)' /\ entries'[x].owner = entries[x].owner /\ firstOwner'[x] = firstOwner[x]
    BY <2>2, <2>3, <2>4, <2>5 DEF SameOwner
  <2>8. \A x \in RecordId : ~Taken(x) /\ Taken(x)' => entries'[x].owner = firstOwner'[x]
    BY <2>3, <2>4, <2>5
  <2> QED BY <2>2, <2>3, <2>6, <2>7, <2>8, WritesKeepOwners
<1> QED BY <1>1, <1>2, <1>3 DEF Prunes, SearchPrunes

\* An empty provider has no owners.
LEMMA OwnersStart == EnhancedInit => OwnersInv
<1> SUFFICES ASSUME EnhancedInit PROVE OwnersInv  OBVIOUS
<1>1. /\ DOMAIN entries = RecordId /\ DOMAIN batches = Batcher /\ DOMAIN firstOwner = RecordId
      /\ \A id \in RecordId : entries[id] = Unheld
      /\ \A b \in Batcher : batches[b] = NoBatch
  BY DEF EnhancedInit
<1> QED BY <1>1 DEF OwnersInv, EntriesHeld, BatchesUnderWay, FreeIsNoted, OwnersStay,
      BatchesCheckedWhole, Taken

\* Every step of the provider keeps the owners.
LEMMA OwnersSteps == OwnersInv /\ [EnhancedNext]_enhancedVars => OwnersInv'
<1> SUFFICES ASSUME OwnersInv, [EnhancedNext]_enhancedVars  PROVE OwnersInv'  OBVIOUS
<1>1. CASE \E s \in Scorer : SearchScores(s) \/ SearchAnswers(s)
  <2>1. UNCHANGED <<entries, batches, firstOwner, contested>>  BY <1>1 DEF SearchScores, SearchAnswers
  <2> QED BY <2>1 DEF OwnersInv, EntriesHeld, BatchesUnderWay, FreeIsNoted, OwnersStay,
          BatchesCheckedWhole, Taken, SameOwner
<1>2. CASE RecordsLapse \/ UNCHANGED enhancedVars
  <2>1. UNCHANGED <<entries, batches, firstOwner, contested>>  BY <1>2 DEF RecordsLapse, enhancedVars
  <2> QED BY <2>1 DEF OwnersInv, EntriesHeld, BatchesUnderWay, FreeIsNoted, OwnersStay,
          BatchesCheckedWhole, Taken, SameOwner
<1>3. ASSUME NEW owner \in Scoped, NEW b \in Batcher,
               NEW batch \in {ids \in SeqOf(RecordId, 2) : ids # <<>> /\ IsInjective(ids)},
               IngestChecks(b, batch, owner)
        PROVE  OwnersInv'
  <2>1. batch # <<>>  OBVIOUS
  <2>2. PICK m \in 0 .. 2 : batch \in [1 .. m -> RecordId]  BY DEF SeqOf
  <2>3. batch \in Seq(RecordId)  BY <2>2
  <2> QED BY <1>3, <2>1, <2>3, IngestChecksKeeps
<1>4. CASE \E b \in Batcher : IngestStores(b)  BY <1>4, IngestStoresKeeps
<1> QED BY <1>1, <1>2, <1>3, <1>4, OtherWritesKeep DEF EnhancedNext

(***************************************************************************)
(* A search walks the Map in the order of its first insertions, and an id  *)
(* is in it once: what it has found so far lies before its cursor.         *)
(***************************************************************************)
FoundHit == [id : RecordId, owner : Scoped, grounded : BOOLEAN]
IdsDistinct(hits) == \A k, l \in 1 .. Len(hits) : hits[k].id = hits[l].id => k = l

\* The hits are the owner's, and of different ones of the first n insertions.
FoundBy(ins, hits, n, owner) ==
  /\ hits \in Seq(FoundHit) /\ IdsDistinct(hits)
  /\ \A k \in 1 .. Len(hits) : hits[k].owner = owner /\ \E j \in 1 .. n : ins[j] = hits[k].id

AllGrounded(hits) == \A k \in 1 .. Len(hits) : hits[k].grounded
Walks(w, ins) ==
  \/ w = [at |-> "none"]
  \/ /\ w = [at |-> "walking", owner |-> w.owner, cursor |-> w.cursor, hits |-> w.hits]
     /\ w.cursor \in 0 .. Len(ins) /\ FoundBy(ins, w.hits, w.cursor, w.owner)
  \/ /\ w = [at |-> "answered", owner |-> w.owner, context |-> w.context, hits |-> w.hits]
     /\ FoundBy(ins, w.hits, Len(ins), w.owner)
     /\ w.context => AllGrounded(w.hits)

MapInOrder(ins) ==
  /\ ins \in Seq(RecordId) /\ Distinct(ins, Len(ins))
  /\ \A id \in RecordId : Taken(id) <=> \E i \in 1 .. Len(ins) : ins[i] = id
WalksInv ==
  /\ OwnersInv
  /\ MapInOrder(inserted)
  /\ DOMAIN scoring = Scorer /\ \A s \in Scorer : Walks(scoring[s], inserted)

\* What was found stays found when the Map grows.
LEMMA GrownWalks ==
  ASSUME NEW ins \in Seq(RecordId), NEW id \in RecordId, NEW w, Walks(w, ins)
  PROVE  Walks(w, Append(ins, id))
<1> DEFINE more == Append(ins, id)
<1>1. /\ Len(ins) \in Nat /\ Len(more) = Len(ins) + 1
      /\ \A i \in 1 .. Len(ins) : more[i] = ins[i]
  BY Appended
<1> HIDE DEF more
<1>2. \A hits, owner : \A n \in 0 .. Len(ins) : FoundBy(ins, hits, n, owner) => FoundBy(more, hits, n, owner)
  BY <1>1 DEF FoundBy
<1>3. \A hits, owner : FoundBy(more, hits, Len(ins), owner) => FoundBy(more, hits, Len(more), owner)
  BY <1>1 DEF FoundBy
<1>4. CASE w.at = "walking"
  <2>1. FoundBy(more, w.hits, w.cursor, w.owner) /\ w.cursor \in 0 .. Len(more)
    BY <1>1, <1>2, <1>4 DEF Walks
  <2> QED BY <2>1, <1>4 DEF Walks, more
<1>5. CASE w.at = "answered"
  <2>1. FoundBy(ins, w.hits, Len(ins), w.owner)  BY <1>5 DEF Walks
  <2>2. FoundBy(more, w.hits, Len(more), w.owner)
    <3>1. Len(ins) \in 0 .. Len(ins)  BY <1>1
    <3> QED BY <2>1, <3>1, <1>2, <1>3
  <2> QED BY <2>2, <1>5 DEF Walks, more
<1> QED BY <1>4, <1>5 DEF Walks

\* Who sets a record appends its id unless it is there.
LEMMA HoldKeepsOrder ==
  ASSUME WalksInv, NEW id \in RecordId, NEW owner \in Scoped, NEW kind \in Kind, Hold(id, owner, kind)
  PROVE  MapInOrder(inserted)' /\ \A w : Walks(w, inserted) => Walks(w, inserted')
<1>1. /\ DOMAIN entries' = RecordId
      /\ entries'[id] = [owner |-> owner, status |-> "active", kind |-> kind]
      /\ \A x \in RecordId : x # id => entries'[x] = entries[x]
      /\ inserted' = IF Taken(id) THEN inserted ELSE Append(inserted, id)
  BY DEF Hold, WalksInv, OwnersInv
<1>2. Taken(id)' /\ \A x \in RecordId : x # id => (Taken(x)' <=> Taken(x))
  <2>1. entries'[id] \in HeldEntry  BY <1>1 DEF HeldEntry
  <2> QED BY <2>1, <1>1, TakenHasStatus DEF Taken
<1>3. MapInOrder(inserted)  BY DEF WalksInv
<1>4. CASE Taken(id)
  <2>1. inserted' = inserted  BY <1>1, <1>4
  <2> QED BY <2>1, <1>2, <1>3, <1>4 DEF MapInOrder
<1>5. CASE ~Taken(id)
  <2> DEFINE ins == inserted  more == Append(inserted, id)
  <2>1. inserted' = more  BY <1>1, <1>5
  <2>2. /\ ins \in Seq(RecordId) /\ more \in Seq(RecordId) /\ Len(ins) \in Nat
        /\ Len(more) = Len(ins) + 1 /\ more[Len(ins) + 1] = id
        /\ \A i \in 1 .. Len(ins) : more[i] = ins[i]
    BY <1>3, Appended DEF MapInOrder
  <2>3. \A w : Walks(w, ins) => Walks(w, more)  BY <2>2, GrownWalks
  <2>4. \A i \in 1 .. Len(ins) : ins[i] # id  BY <1>3, <1>5 DEF MapInOrder
  <2>5. Distinct(ins, Len(ins)) /\ \A x \in RecordId : Taken(x) <=> \E i \in 1 .. Len(ins) : ins[i] = x
    BY <1>3 DEF MapInOrder
  <2> HIDE DEF ins, more
  <2>6. 1 .. Len(more) = (1 .. Len(ins)) \cup {Len(ins) + 1}  BY <2>2
  <2>7. Distinct(more, Len(more))
    <3>1. \A i, j \in 1 .. Len(ins) : more[i] = more[j] => i = j  BY <2>2, <2>5 DEF Distinct
    <3>2. \A i \in 1 .. Len(ins) : more[i] # id  BY <2>2, <2>4
    <3> QED BY <3>1, <3>2, <2>2, <2>6 DEF Distinct
  <2>8. \A x \in RecordId : Taken(x)' <=> \E i \in 1 .. Len(more) : more[i] = x
    <3> TAKE x \in RecordId
    <3>1. (\E i \in 1 .. Len(more) : more[i] = x) <=> (x = id \/ \E i \in 1 .. Len(ins) : ins[i] = x)
      BY <2>2, <2>6
    <3> QED BY <3>1, <2>5, <1>2
  <2>9. MapInOrder(inserted)'
    <3>1. Distinct(inserted', Len(inserted')) /\ inserted' \in Seq(RecordId)  BY <2>1, <2>2, <2>7
    <3>2. \A x \in RecordId : Taken(x)' <=> \E i \in 1 .. Len(inserted') : inserted'[i] = x
      BY <2>1, <2>8
    <3> QED BY <3>1, <3>2 DEF MapInOrder
  <2> QED BY <2>9, <2>3, <2>1 DEF ins
<1> QED BY <1>4, <1>5

\* A search takes the next record of its reader's.
LEMMA ScoresKeep ==
  ASSUME WalksInv, OwnersInv', NEW s \in Scorer, SearchScores(s)
  PROVE  WalksInv'
<1> DEFINE w == scoring[s]
           i == CHOOSE x \in Onward(s) : \A j \in Onward(s) : x <= j
           id == inserted[i]
           grounded == entries[id].kind # "ungrounded"
           hit == [id |-> id, owner |-> entries[id].owner, grounded |-> grounded]
<1>1. w.at = "walking" /\ UNCHANGED <<entries, inserted>>  BY DEF SearchScores
<1>2. PICK reaches \in BOOLEAN :
        scoring' = [scoring EXCEPT ![s].cursor = i, ![s].hits = IF reaches THEN Append(@, hit) ELSE @]
  BY DEF SearchScores
<1>3. /\ w = [at |-> "walking", owner |-> w.owner, cursor |-> w.cursor, hits |-> w.hits]
      /\ w.cursor \in 0 .. Len(inserted) /\ FoundBy(inserted, w.hits, w.cursor, w.owner)
  BY <1>1 DEF WalksInv, Walks
<1>4. i \in Onward(s)
  <2> DEFINE S == Onward(s)
  <2>1. S # {} /\ S \in SUBSET Nat
    <3>1. inserted \in Seq(RecordId)  BY DEF WalksInv, MapInOrder
    <3>2. DOMAIN inserted \in SUBSET Nat  BY <3>1
    <3> QED BY <3>2 DEF SearchScores, Onward
  <2>2. \E x \in S : \A j \in S : x <= j
    <3> HIDE DEF S
    <3> QED BY <2>1, LeastNat
  <2> QED BY <2>2
<1>5. /\ i \in 1 .. Len(inserted) /\ i > w.cursor /\ id \in RecordId
      /\ entries[id].status = "active" /\ entries[id].owner = w.owner
  <2>1. inserted \in Seq(RecordId)  BY DEF WalksInv, MapInOrder
  <2> HIDE DEF i
  <2> QED BY <1>4, <2>1 DEF Onward, VisibleIn
<1>6. entries[id] \in HeldEntry
  BY <1>5 DEF WalksInv, OwnersInv, EntriesHeld, Unheld
<1>7. hit.id = id /\ hit.owner = w.owner /\ hit \in FoundHit
  <2>1. entries[id].owner \in Scoped  BY <1>6 DEF HeldEntry
  <2>2. hit \in FoundHit  BY <1>5, <2>1 DEF FoundHit
  <2> QED BY <2>2, <1>5
<1> HIDE DEF i, hit
<1> DEFINE hits == IF reaches THEN Append(w.hits, hit) ELSE w.hits
           v == [at |-> "walking", owner |-> w.owner, cursor |-> i, hits |-> hits]
<1>8. DOMAIN scoring' = Scorer /\ scoring'[s] = v /\ \A r \in Scorer : r # s => scoring'[r] = scoring[r]
  <2>1. DOMAIN scoring = Scorer  BY DEF WalksInv
  <2>2. /\ DOMAIN scoring' = Scorer /\ \A r \in Scorer : r # s => scoring'[r] = scoring[r]
        /\ scoring'[s] = [[w EXCEPT !.cursor = i] EXCEPT !.hits = hits]
    BY <1>2, <2>1
  <2> HIDE DEF w, hits
  <2>3. w = [at |-> "walking", owner |-> w.owner, cursor |-> w.cursor, hits |-> w.hits]  BY <1>3
  <2> DEFINE u == [w EXCEPT !.cursor = i]
  <2>4. u = [at |-> "walking", owner |-> w.owner, cursor |-> i, hits |-> w.hits]  BY <2>3
  <2>5. scoring'[s] = [u EXCEPT !.hits = hits]  BY <2>2
  <2> HIDE DEF u
  <2>6. [u EXCEPT !.hits = hits] = [at |-> "walking", owner |-> w.owner, cursor |-> i, hits |-> hits]
    BY <2>4
  <2> QED BY <2>2, <2>5, <2>6
<1>9. FoundBy(inserted, hits, i, w.owner)
  <2> DEFINE old == w.hits
  <2>1. /\ old \in Seq(FoundHit) /\ IdsDistinct(old)
        /\ \A k \in 1 .. Len(old) : old[k].owner = w.owner /\ \E j \in 1 .. w.cursor : inserted[j] = old[k].id
    BY <1>3 DEF FoundBy
  <2>2. w.cursor \in Nat /\ i \in Nat /\ w.cursor < i /\ i <= Len(inserted) /\ Len(inserted) \in Nat
    <3>1. inserted \in Seq(RecordId)  BY DEF WalksInv, MapInOrder
    <3>2. Len(inserted) \in Nat  BY <3>1
    <3> QED BY <3>2, <1>3, <1>5
  <2>3. \A k \in 1 .. Len(old) : \E j \in 1 .. i : inserted[j] = old[k].id /\ j # i
    BY <2>1, <2>2
  <2>4. CASE ~reaches  BY <2>1, <2>3, <2>4 DEF FoundBy
  <2>5. CASE reaches
    <3> DEFINE new == Append(old, hit)
    <3>1. /\ new \in Seq(FoundHit) /\ Len(new) = Len(old) + 1 /\ Len(old) \in Nat
          /\ new[Len(old) + 1] = hit /\ \A k \in 1 .. Len(old) : new[k] = old[k]
      BY <2>1, <1>7, Appended
    <3> HIDE DEF new
    <3>2. 1 .. Len(new) = (1 .. Len(old)) \cup {Len(old) + 1}  BY <3>1
    <3>3. Distinct(inserted, Len(inserted))  BY DEF WalksInv, MapInOrder
    <3>4. \A k \in 1 .. Len(old) : new[k].id # hit.id
      <4> TAKE k \in 1 .. Len(old)
      <4>1. PICK j \in 1 .. i : inserted[j] = old[k].id /\ j # i  BY <2>3
      <4>2. inserted[j] # inserted[i]  BY <4>1, <2>2, <3>3 DEF Distinct
      <4> QED BY <4>1, <4>2, <3>1, <1>7
    <3>5. \A k, l \in 1 .. Len(old) : new[k].id = new[l].id => k = l  BY <2>1, <3>1 DEF IdsDistinct
    <3>6. IdsDistinct(new)  BY <3>1, <3>2, <3>4, <3>5 DEF IdsDistinct
    <3>7. \A k \in 1 .. Len(new) : new[k].owner = w.owner /\ \E j \in 1 .. i : inserted[j] = new[k].id
      <4>1. i \in 1 .. i /\ inserted[i] = hit.id  BY <2>2, <1>7
      <4>2. \A k \in 1 .. Len(old) : new[k].owner = w.owner /\ \E j \in 1 .. i : inserted[j] = new[k].id
        BY <2>1, <2>3, <3>1
      <4> QED BY <4>1, <4>2, <3>1, <3>2, <1>7
    <3>8. hits = new  BY <2>5 DEF new
    <3> QED BY <3>1, <3>6, <3>7, <3>8 DEF FoundBy
  <2> QED BY <2>4, <2>5
<1> HIDE DEF hits
<1>10. Walks(v, inserted)
  <2>1. i \in 0 .. Len(inserted)  BY <1>5
  <2>2. v.owner = w.owner /\ v.cursor = i /\ v.hits = hits  OBVIOUS
  <2> QED BY <2>1, <2>2, <1>9 DEF Walks
<1> HIDE DEF v
<1>11. \A r \in Scorer : Walks(scoring'[r], inserted')  BY <1>1, <1>8, <1>10 DEF WalksInv
<1>12. MapInOrder(inserted)'  BY <1>1 DEF WalksInv, MapInOrder, Taken
<1> QED BY <1>8, <1>11, <1>12 DEF WalksInv

\* What the context leaves out is left out of distinct hits.
LEMMA AnswersKeep ==
  ASSUME WalksInv, OwnersInv', NEW s \in Scorer, SearchAnswers(s)
  PROVE  WalksInv'
<1> DEFINE w == scoring[s]
<1>1. w.at = "walking" /\ UNCHANGED <<entries, inserted>>  BY DEF SearchAnswers
<1>2. PICK context \in BOOLEAN :
        scoring' = [scoring EXCEPT ![s] =
          [at |-> "answered", owner |-> @.owner, context |-> context,
           hits |-> IF context THEN GroundedHits(@.hits) ELSE @.hits]]
  BY DEF SearchAnswers
<1>3. w.cursor \in 0 .. Len(inserted) /\ FoundBy(inserted, w.hits, w.cursor, w.owner)
  BY <1>1 DEF WalksInv, Walks
<1> DEFINE hits == IF context THEN GroundedHits(w.hits) ELSE w.hits
           v == [at |-> "answered", owner |-> w.owner, context |-> context, hits |-> hits]
<1>4. DOMAIN scoring' = Scorer /\ scoring'[s] = v /\ \A r \in Scorer : r # s => scoring'[r] = scoring[r]
  BY <1>2 DEF WalksInv
<1>5. FoundBy(inserted, w.hits, Len(inserted), w.owner)
  <2>1. inserted \in Seq(RecordId)  BY DEF WalksInv, MapInOrder
  <2>2. Len(inserted) \in Nat  BY <2>1
  <2> QED BY <1>3, <2>2 DEF FoundBy
<1>6. FoundBy(inserted, GroundedHits(w.hits), Len(inserted), w.owner) /\ AllGrounded(GroundedHits(w.hits))
  <2> DEFINE old == w.hits
             keep == {hit \in ToSet(old) : hit.grounded}
             new == Among(old, keep)
  <2>1. /\ old \in Seq(FoundHit) /\ IdsDistinct(old)
        /\ \A k \in 1 .. Len(old) :
             old[k].owner = w.owner /\ \E j \in 1 .. Len(inserted) : inserted[j] = old[k].id
    BY <1>5 DEF FoundBy
  <2>2. GroundedHits(w.hits) = new  BY DEF GroundedHits
  <2>3. Picked(FoundHit, new, old, Len(old), keep)  BY <2>1, AmongIs
  <2>4. \A x \in keep : x.grounded  OBVIOUS
  <2> HIDE DEF old, keep, new
  <2>5. Distinct(old, Len(old))  BY <2>1 DEF IdsDistinct, Distinct
  <2>6. new \in Seq(FoundHit) /\ Distinct(new, Len(new))  BY <2>3, <2>5 DEF Picked
  <2>7. \A k \in 1 .. Len(new) : new[k] \in keep /\ \E i \in 1 .. Len(old) : old[i] = new[k]
    BY <2>3 DEF Picked
  <2>8. IdsDistinct(new)
    <3> SUFFICES ASSUME NEW k \in 1 .. Len(new), NEW l \in 1 .. Len(new), new[k].id = new[l].id PROVE k = l
      BY DEF IdsDistinct
    <3>1. PICK i \in 1 .. Len(old) : old[i] = new[k]  BY <2>7
    <3>2. PICK j \in 1 .. Len(old) : old[j] = new[l]  BY <2>7
    <3>3. i = j  BY <3>1, <3>2, <2>1 DEF IdsDistinct
    <3>4. new[k] = new[l]  BY <3>1, <3>2, <3>3
    <3> QED BY <3>4, <2>6 DEF Distinct
  <2>9. \A k \in 1 .. Len(new) :
          new[k].owner = w.owner /\ \E j \in 1 .. Len(inserted) : inserted[j] = new[k].id
    <3> TAKE k \in 1 .. Len(new)
    <3>1. PICK i \in 1 .. Len(old) : old[i] = new[k]  BY <2>7
    <3> QED BY <3>1, <2>1
  <2>10. AllGrounded(new)  BY ZenonT(30), <2>4, <2>7 DEF AllGrounded
  <2>11. FoundBy(inserted, new, Len(inserted), w.owner)  BY <2>6, <2>8, <2>9 DEF FoundBy
  <2> QED BY <2>2, <2>10, <2>11
<1>7. FoundBy(inserted, hits, Len(inserted), w.owner) /\ (context => AllGrounded(hits))
  BY <1>5, <1>6
<1> HIDE DEF hits
<1>8. Walks(v, inserted)
  <2>1. v.owner = w.owner /\ v.context = context /\ v.hits = hits  OBVIOUS
  <2>2. v = [at |-> "answered", owner |-> v.owner, context |-> v.context, hits |-> v.hits]  OBVIOUS
  <2> HIDE DEF v
  <2> QED BY <2>1, <2>2, <1>7 DEF Walks
<1> HIDE DEF v
<1>9. \A r \in Scorer : Walks(scoring'[r], inserted')  BY <1>1, <1>4, <1>8 DEF WalksInv
<1>10. MapInOrder(inserted)'  BY <1>1 DEF WalksInv, MapInOrder, Taken
<1> QED BY <1>4, <1>9, <1>10 DEF WalksInv

\* Every step of the provider keeps the walks.
LEMMA WalksSteps == WalksInv /\ [EnhancedNext]_enhancedVars => WalksInv'
<1> SUFFICES ASSUME WalksInv, [EnhancedNext]_enhancedVars PROVE WalksInv'  OBVIOUS
<1>1. OwnersInv'  BY OwnersSteps DEF WalksInv
<1>2. ASSUME NEW id \in RecordId, NEW owner \in Scoped, NEW kind \in Kind, Hold(id, owner, kind),
             scoring' = scoring
      PROVE  WalksInv'
  BY <1>1, <1>2, HoldKeepsOrder DEF WalksInv
<1>3. CASE \E b \in Batcher : IngestStores(b)
  <2>1. PICK b \in Batcher : IngestStores(b)  BY <1>3
  <2>2. batches[b] \in Batch /\ Len(batches[b].left) > 0
    BY <2>1 DEF IngestStores, WalksInv, OwnersInv, BatchesUnderWay
  <2>3. Head(batches[b].left) \in RecordId /\ batches[b].owner \in Scoped
    BY <2>2, BatchTail DEF Batch
  <2>4. PICK kind \in Kind : Hold(Head(batches[b].left), batches[b].owner, kind)
    BY <2>1 DEF IngestStores
  <2>5. scoring' = scoring  BY <2>1 DEF IngestStores
  <2> QED BY <2>3, <2>4, <2>5, <1>2
<1>4. CASE \E id \in RecordId, owner \in Scoped : UpdateEntry(id, owner)
  BY <1>2, <1>4 DEF UpdateEntry
<1>5. ASSUME inserted' = inserted, \A x \in RecordId : Taken(x)' <=> Taken(x)
      PROVE  MapInOrder(inserted)'
  BY <1>5 DEF WalksInv, MapInOrder
<1>6. PrunedEntries = entries' => \A x \in RecordId : Taken(x)' <=> Taken(x)
  <2>1. OwnersInv  BY DEF WalksInv
  <2> QED BY <2>1, PruningKeeps DEF Taken
<1>7. CASE Prunes
  <2>1. entries' = PrunedEntries /\ UNCHANGED <<inserted, scoring>>  BY <1>7 DEF Prunes
  <2> QED BY <2>1, <1>1, <1>5, <1>6 DEF WalksInv
<1>8. CASE \E id \in RecordId, owner \in Scoped : RetireEntry(id, owner)
  <2>1. PICK id \in RecordId, owner \in Scoped : RetireEntry(id, owner)  BY <1>8
  <2>2. /\ entries' = [PrunedEntries EXCEPT ![id].status = "retired"] /\ PrunedEntries[id].status = "active"
        /\ UNCHANGED <<inserted, scoring>>
    BY <2>1 DEF RetireEntry, VisibleIn
  <2>3. OwnersInv  BY DEF WalksInv
  <2>4. DOMAIN PrunedEntries = RecordId  BY DEF PrunedEntries
  <2>5. PrunedEntries[id] \in HeldEntry  BY <2>2, <2>3, PruningKeeps DEF Unheld
  <2>6. /\ \A x \in RecordId : x # id => entries'[x] = PrunedEntries[x]
        /\ entries'[id] =
             [owner |-> PrunedEntries[id].owner, status |-> "retired", kind |-> PrunedEntries[id].kind]
    BY <2>2, <2>4, <2>5 DEF HeldEntry
  <2>7. entries'[id] \in HeldEntry  BY <2>5, <2>6 DEF HeldEntry
  <2>8. \A x \in RecordId : Taken(x)' <=> Taken(x)
    BY <2>3, <2>5, <2>6, <2>7, PruningKeeps, TakenHasStatus DEF Taken
  <2> QED BY <2>2, <2>8, <1>1, <1>5 DEF WalksInv
<1>9. CASE \E s \in Scorer, owner \in Scoped : SearchPrunes(s, owner)
  <2>1. PICK s \in Scorer, owner \in Scoped : SearchPrunes(s, owner)  BY <1>9
  <2> DEFINE v == [at |-> "walking", owner |-> owner, cursor |-> 0, hits |-> <<>>]
  <2>2. entries' = PrunedEntries /\ inserted' = inserted /\ scoring' = [scoring EXCEPT ![s] = v]
    BY <2>1 DEF SearchPrunes
  <2>3. MapInOrder(inserted)'  BY <2>2, <1>5, <1>6
  <2>4. Walks(v, inserted)
    <3>1. FoundBy(inserted, <<>>, 0, owner)  BY DEF FoundBy, IdsDistinct
    <3>2. inserted \in Seq(RecordId)  BY DEF WalksInv, MapInOrder
    <3>3. 0 \in 0 .. Len(inserted)  BY <3>2
    <3>4. v.owner = owner /\ v.cursor = 0 /\ v.hits = <<>>  OBVIOUS
    <3>5. v = [at |-> "walking", owner |-> v.owner, cursor |-> v.cursor, hits |-> v.hits]  OBVIOUS
    <3> HIDE DEF v
    <3> QED BY <3>1, <3>3, <3>4, <3>5 DEF Walks
  <2> HIDE DEF v
  <2>5. DOMAIN scoring' = Scorer /\ \A r \in Scorer : scoring'[r] = IF r = s THEN v ELSE scoring[r]
    BY <2>2 DEF WalksInv
  <2>6. \A r \in Scorer : Walks(scoring'[r], inserted')  BY <2>2, <2>4, <2>5 DEF WalksInv
  <2> QED BY <1>1, <2>3, <2>5, <2>6 DEF WalksInv
<1>10. CASE UNCHANGED <<entries, inserted, scoring>>
  BY <1>1, <1>10 DEF WalksInv, MapInOrder, Taken
<1>11. CASE \E s \in Scorer : SearchScores(s) \/ SearchAnswers(s)
  BY <1>1, <1>11, ScoresKeep, AnswersKeep
<1>12. CASE RecordsLapse \/ UNCHANGED enhancedVars  BY <1>10, <1>12 DEF RecordsLapse, enhancedVars
<1>13. ASSUME NEW b \in Batcher, NEW batch, NEW owner, IngestChecks(b, batch, owner)  PROVE WalksInv'
  BY <1>10, <1>13 DEF IngestChecks
<1> QED BY <1>3, <1>4, <1>7, <1>8, <1>9, <1>11, <1>12, <1>13 DEF EnhancedNext

\* The invariant holds what a search answers.
LEMMA WalksInvAnswers == WalksInv => WalksAnswerWell
<1> SUFFICES ASSUME WalksInv, NEW s \in Scorer, scoring[s].at = "answered"
             PROVE  LET ids == [i \in DOMAIN scoring[s].hits |-> scoring[s].hits[i].id] IN
                    /\ IsInjective(ids) /\ ToSet(ids) \subseteq ToSet(inserted)
                    /\ \A hit \in ToSet(scoring[s].hits) :
                         /\ hit.owner = scoring[s].owner
                         /\ scoring[s].context => hit.grounded
  BY DEF WalksAnswerWell
<1> DEFINE w == scoring[s]  hits == w.hits
           ids == [i \in DOMAIN hits |-> hits[i].id]
<1>1. FoundBy(inserted, hits, Len(inserted), w.owner) /\ (w.context => AllGrounded(hits))
  BY DEF WalksInv, Walks
<1>2. /\ hits \in Seq(FoundHit) /\ IdsDistinct(hits)
      /\ \A k \in 1 .. Len(hits) :
           hits[k].owner = w.owner /\ \E j \in 1 .. Len(inserted) : inserted[j] = hits[k].id
  BY <1>1 DEF FoundBy
<1>3. DOMAIN hits = 1 .. Len(hits)  BY <1>2
<1>4. DOMAIN inserted = 1 .. Len(inserted)
  <2>1. inserted \in Seq(RecordId)  BY DEF WalksInv, MapInOrder
  <2> QED BY <2>1
<1>5. ToSet(hits) = {hits[i] : i \in 1 .. Len(hits)}  BY <1>3 DEF ToSet
<1>6. DOMAIN ids = 1 .. Len(hits) /\ \A i \in 1 .. Len(hits) : ids[i] = hits[i].id  BY <1>3
<1> HIDE DEF ids, hits, w
<1>7. IsInjective(ids)  BY <1>2, <1>6 DEF IsInjective, IdsDistinct
<1>8. ToSet(ids) \subseteq ToSet(inserted)  BY <1>2, <1>4, <1>6 DEF ToSet
<1>9. \A hit \in ToSet(hits) : hit.owner = w.owner  BY <1>2, <1>5
<1>10. w.context => \A hit \in ToSet(hits) : hit.grounded
  BY ZenonT(30), <1>1, <1>5 DEF AllGrounded
<1> QED BY <1>7, <1>8, <1>9, <1>10 DEF ids, hits, w

\* For any number of records, scopes, batches and searches: an id stays with the scope that had
\* it first unless it was free when two batches were checked, no batch that was let in meets an
\* id of somebody else that was not, and a search that walks the changing Map answers each
\* record once, and its reader's alone.
THEOREM EnhancedKeeps == EnhancedSpec => []EnhancedHolds
<1>1. EnhancedInit => WalksInv
  <2> SUFFICES ASSUME EnhancedInit PROVE WalksInv  OBVIOUS
  <2>1. /\ inserted = <<>> /\ \A id \in RecordId : ~Taken(id)
        /\ DOMAIN scoring = Scorer /\ \A s \in Scorer : scoring[s] = [at |-> "none"]
    BY DEF EnhancedInit, Taken
  <2>2. MapInOrder(<<>>)  BY <2>1 DEF MapInOrder, Distinct
  <2>3. \A s \in Scorer : Walks(scoring[s], inserted)  BY <2>1 DEF Walks
  <2> QED BY <2>1, <2>2, <2>3, OwnersStart DEF WalksInv
<1>2. WalksInv => EnhancedHolds
  BY WalksInvAnswers DEF WalksInv, OwnersInv, EnhancedHolds
<1> QED BY <1>1, <1>2, WalksSteps, PTL DEF EnhancedSpec

(***************************************************************************)
(* buildContext(): the memories found.  The loop takes what the budgets    *)
(* let in, so what it left out did not fit, or would not fit any more.     *)
(***************************************************************************)
ChoiceFold == INSTANCE FoldLemmas WITH Op <- SelectIfFits

\* What search() and listVisible() return: each memory once.
PromptRequest(M, r) ==
  /\ r.hits \in Seq(M) /\ Distinct(r.hits, Len(r.hits))
  /\ r.own \in Seq(M) /\ Distinct(r.own, Len(r.own))
  /\ r.length \in [M -> Nat]
  /\ r.items \in Int /\ r.chars \in Int

NothingChosen == [ids |-> <<>>, spent |-> HitsHeader]
Offered(r) == FirstOf(ExactEvidence(r), 1) \o Eligible(r)

\* The choice c after the first n of the memories s.
ChosenWell(M, r, c, s, n) ==
  /\ c = [ids |-> c.ids, spent |-> c.spent]
  /\ c.ids \in Seq(M) /\ Distinct(c.ids, Len(c.ids)) /\ Len(c.ids) <= ItemBudget(r)
  /\ c.spent \in Nat /\ HitsHeader <= c.spent
  /\ c.ids = <<>> => c.spent = HitsHeader
  /\ c.ids # <<>> => c.spent <= CharBudget(r)
  /\ \A k \in 1 .. Len(c.ids) : \E i \in 1 .. n : s[i] = c.ids[k]
  /\ \A i \in 1 .. n :
       \/ \E k \in 1 .. Len(c.ids) : c.ids[k] = s[i]
       \/ Len(c.ids) = ItemBudget(r)
       \/ Spent(r, c.spent, s[i]) > CharBudget(r)
  /\ n > 0 /\ Spent(r, HitsHeader, s[1]) <= CharBudget(r) => \E k \in 1 .. Len(c.ids) : c.ids[k] = s[1]

\* The budgets are numbers, and let something in.
LEMMA BudgetsAre ==
  ASSUME NEW M, NEW r, PromptRequest(M, r)
  PROVE  /\ ItemBudget(r) \in Nat /\ ItemBudget(r) >= 1 /\ CharBudget(r) \in Nat /\ HitsHeader \in Nat
         /\ \A m \in M : \A spent \in Nat : Spent(r, spent, m) \in Nat /\ Spent(r, spent, m) >= spent
<1>1. MaxItems \in Nat \ {0} /\ LeastChars \in Nat /\ MostChars \in Nat /\ HitsHeader \in Nat
  BY ContextAssumption
<1>2. r.items \in Int /\ r.chars \in Int /\ r.length \in [M -> Nat]  BY DEF PromptRequest
<1>3. ItemBudget(r) \in Nat /\ ItemBudget(r) >= 1  BY <1>1, <1>2 DEF ItemBudget, Clamped
<1>4. CharBudget(r) \in Nat  BY <1>1, <1>2 DEF CharBudget, Clamped
<1>5. \A m \in M : \A spent \in Nat : Spent(r, spent, m) \in Nat /\ Spent(r, spent, m) >= spent
  <2> TAKE m \in M
  <2> TAKE spent \in Nat
  <2>1. r.length[m] \in Nat  BY <1>2
  <2> QED BY <2>1 DEF Spent
<1> QED BY <1>1, <1>3, <1>4, <1>5

\* One memory more.
LEMMA ChoiceStep ==
  ASSUME NEW M, NEW r, PromptRequest(M, r), NEW s \in Seq(M), NEW n \in Nat, n + 1 <= Len(s),
         NEW c, ChosenWell(M, r, c, s, n)
  PROVE  ChosenWell(M, r, SelectIfFits(r, c, s[n + 1]), s, n + 1)
<1> DEFINE m == s[n + 1]  I == ItemBudget(r)  B == CharBudget(r)
           Has(ids, x) == \E k \in 1 .. Len(ids) : ids[k] = x
<1>1. /\ m \in M /\ I \in Nat /\ I >= 1 /\ B \in Nat /\ HitsHeader \in Nat
      /\ \A i \in 1 .. Len(s) : s[i] \in M
  <2>1. n + 1 \in 1 .. Len(s)  OBVIOUS
  <2>2. \A i \in 1 .. Len(s) : s[i] \in M  OBVIOUS
  <2> QED BY <2>1, <2>2, BudgetsAre
<1>2. \A spent \in Nat : \A i \in 1 .. (n + 1) :
        Spent(r, spent, s[i]) \in Nat /\ Spent(r, spent, s[i]) >= spent
  <2>1. \A i \in 1 .. (n + 1) : i \in 1 .. Len(s)  OBVIOUS
  <2> QED BY <2>1, <1>1, BudgetsAre
<1>3. 1 .. (n + 1) = (1 .. n) \cup {n + 1} /\ (n > 0 => 1 \in 1 .. n) /\ (n = 0 => s[1] = m)  OBVIOUS
<1>4. /\ c = [ids |-> c.ids, spent |-> c.spent]
      /\ c.ids \in Seq(M) /\ Distinct(c.ids, Len(c.ids)) /\ Len(c.ids) <= I /\ Len(c.ids) \in Nat
      /\ c.spent \in Nat /\ HitsHeader <= c.spent
      /\ (c.ids = <<>> => c.spent = HitsHeader) /\ (c.ids # <<>> => c.spent <= B)
  BY DEF ChosenWell
<1>5. /\ \A k \in 1 .. Len(c.ids) : \E i \in 1 .. n : s[i] = c.ids[k]
      /\ \A i \in 1 .. n : Has(c.ids, s[i]) \/ Len(c.ids) = I \/ Spent(r, c.spent, s[i]) > B
      /\ n > 0 /\ Spent(r, HitsHeader, s[1]) <= B => Has(c.ids, s[1])
  BY DEF ChosenWell
<1>6. Contains(c.ids, m) <=> Has(c.ids, m)  BY DEF Contains
<1>7. Len(c.ids) = 0 <=> c.ids = <<>>  BY <1>4
<1> DEFINE skips == Len(c.ids) >= I \/ Has(c.ids, m) \/ Spent(r, c.spent, m) > B
           d == SelectIfFits(r, c, m)
<1>8. CASE skips
  <2>1. d = c  BY <1>6, <1>8 DEF SelectIfFits
  <2>2. \A k \in 1 .. Len(c.ids) : \E i \in 1 .. (n + 1) : s[i] = c.ids[k]  BY <1>3, <1>5
  <2>3. Len(c.ids) >= I => Len(c.ids) = I  BY <1>1, <1>4
  <2>4. Has(c.ids, m) \/ Len(c.ids) = I \/ Spent(r, c.spent, m) > B  BY <1>8, <2>3
  <2>5. \A i \in 1 .. (n + 1) : Has(c.ids, s[i]) \/ Len(c.ids) = I \/ Spent(r, c.spent, s[i]) > B
    BY <1>3, <1>5, <2>4
  <2>6. Spent(r, HitsHeader, s[1]) <= B => Has(c.ids, s[1])
    <3>1. CASE n > 0  BY <3>1, <1>5
    <3>2. CASE n = 0
      <4>1. Len(c.ids) = 0
        <5>1. 1 .. n = {}  BY <3>2
        <5>2. ~(1 \in 1 .. Len(c.ids))  BY <1>5, <5>1
        <5> QED BY <5>2, <1>4
      <4>2. c.spent = HitsHeader /\ s[1] = m  BY <4>1, <1>3, <1>4, <1>7, <3>2
      <4>3. Spent(r, c.spent, m) > B  BY <2>4, <4>1, <1>1
      <4>4. Spent(r, c.spent, m) \in Nat
        <5>1. n + 1 \in 1 .. (n + 1)  OBVIOUS
        <5> QED BY <5>1, <1>2, <1>4
      <4> HIDE DEF B
      <4> QED BY <4>2, <4>3, <4>4, <1>1
    <3> QED BY <3>1, <3>2
  <2>7. ChosenWell(M, r, c, s, n + 1)  BY <1>4, <2>2, <2>5, <2>6 DEF ChosenWell
  <2> QED BY <2>1, <2>7
<1>9. CASE ~skips
  <2> DEFINE ids == Append(c.ids, m)  spent == Spent(r, c.spent, m)
  <2>1. d = [ids |-> ids, spent |-> spent]  BY <1>6, <1>9 DEF SelectIfFits
  <2>2. /\ ids \in Seq(M) /\ Len(ids) = Len(c.ids) + 1 /\ ids[Len(c.ids) + 1] = m
        /\ \A k \in 1 .. Len(c.ids) : ids[k] = c.ids[k]
    BY <1>1, <1>4, Appended
  <2>3. Len(c.ids) < I /\ ~Has(c.ids, m) /\ spent <= B /\ spent \in Nat /\ spent >= c.spent
    <3>1. spent \in Nat /\ spent >= c.spent
      <4>1. n + 1 \in 1 .. (n + 1)  OBVIOUS
      <4> QED BY <4>1, <1>2, <1>4
    <3>2. ~(spent > B) /\ ~(Len(c.ids) >= I) /\ ~Has(c.ids, m)  BY <1>9
    <3> HIDE DEF spent, I, B
    <3> QED BY <3>1, <3>2, <1>1, <1>4
  <2>4. \A i \in 1 .. n : Spent(r, spent, s[i]) >= Spent(r, c.spent, s[i])
    <3> TAKE i \in 1 .. n
    <3>1. s[i] \in M
      <4>1. i \in 1 .. Len(s)  OBVIOUS
      <4> QED BY <4>1, <1>1
    <3>2. r.length[s[i]] \in Nat  BY <3>1 DEF PromptRequest
    <3> HIDE DEF spent
    <3> QED BY <3>2, <2>3, <1>4 DEF Spent
  <2> HIDE DEF ids, spent
  <2>5. 1 .. Len(ids) = (1 .. Len(c.ids)) \cup {Len(c.ids) + 1}  BY <2>2, <1>4
  <2>6. \A x : Has(c.ids, x) => Has(ids, x)  BY <2>2, <2>5
  <2>7. Has(ids, m)  BY <2>2, <2>5
  <2>8. Distinct(ids, Len(ids))
    <3>1. \A k \in 1 .. Len(c.ids) : ids[k] # m  BY <2>2, <2>3
    <3>2. \A k, l \in 1 .. Len(c.ids) : ids[k] = ids[l] => k = l  BY <2>2, <1>4 DEF Distinct
    <3> HIDE DEF m
    <3> QED BY <3>1, <3>2, <2>2, <2>5 DEF Distinct
  <2>9. \A k \in 1 .. Len(ids) : \E i \in 1 .. (n + 1) : s[i] = ids[k]
    <3>1. \A k \in 1 .. Len(c.ids) : \E i \in 1 .. n : s[i] = ids[k]  BY <2>2, <1>5
    <3>2. s[n + 1] = ids[Len(c.ids) + 1] /\ n + 1 \in 1 .. (n + 1)  BY <2>2
    <3> QED BY <3>1, <3>2, <2>5, <1>3
  <2>10. \A i \in 1 .. (n + 1) : Has(ids, s[i]) \/ Len(ids) = I \/ Spent(r, spent, s[i]) > B
    <3> TAKE i \in 1 .. (n + 1)
    <3>1. CASE i = n + 1  BY <3>1, <2>7
    <3>2. CASE i \in 1 .. n
      <4>1. Has(c.ids, s[i]) \/ Len(c.ids) = I \/ Spent(r, c.spent, s[i]) > B  BY <3>2, <1>5
      <4>2. CASE Has(c.ids, s[i])  BY <4>2, <2>6
      <4>3. CASE Spent(r, c.spent, s[i]) > B
        <5>1. Spent(r, c.spent, s[i]) \in Nat /\ Spent(r, spent, s[i]) \in Nat  BY <1>2, <1>4, <2>3
        <5>2. Spent(r, spent, s[i]) >= Spent(r, c.spent, s[i])  BY <3>2, <2>4
        <5> HIDE DEF B
        <5> QED BY <5>1, <5>2, <4>3, <1>1
      <4> HIDE DEF I
      <4> QED BY <4>1, <4>2, <4>3, <2>3, <1>4
    <3> QED BY <3>1, <3>2, <1>3
  <2>11. Spent(r, HitsHeader, s[1]) <= B => Has(ids, s[1])
    <3>1. CASE n > 0  BY <3>1, <1>5, <2>6
    <3>2. CASE n = 0  BY <3>2, <1>3, <2>7
    <3> QED BY <3>1, <3>2
  <2>12. Len(ids) <= I /\ ids # <<>> /\ HitsHeader <= spent
    <3>1. ids # <<>>  BY <2>2, <1>4
    <3> HIDE DEF I
    <3> QED BY <3>1, <2>2, <2>3, <1>1, <1>4
  <2>13. d.ids = ids /\ d.spent = spent /\ d = [ids |-> d.ids, spent |-> d.spent]  BY <2>1
  <2> HIDE DEF d
  <2>14. ChosenWell(M, r, d, s, n + 1)
    BY <2>2, <2>3, <2>8, <2>9, <2>10, <2>11, <2>12, <2>13 DEF ChosenWell
  <2> QED BY <2>14 DEF d
<1> QED BY <1>8, <1>9

\* The choice after all of them.
LEMMA ChosenIs ==
  ASSUME NEW M, NEW r, PromptRequest(M, r), Offered(r) \in Seq(M)
  PROVE  ChosenWell(M, r, Chosen(r), Offered(r), Len(Offered(r)))
<1> DEFINE s == Offered(r)
<1>1. Len(s) \in Nat /\ DOMAIN s = 1 .. Len(s)  OBVIOUS
<1>2. Chosen(r) = ChoiceFold!After(r, NothingChosen, s, Len(s))
  <2>1. Chosen(r) = FoldLeft(LAMBDA chosen, m : SelectIfFits(r, chosen, m), NothingChosen, s)
    BY DEF Chosen, NothingChosen, Offered
  <2> HIDE DEF s
  <2> QED BY <1>1, <2>1 DEF FoldLeft, MapThenFoldSet, ChoiceFold!After, ChoiceFold!Over,
             ChoiceFold!Solves, ChoiceFold!Top, Max
<1> DEFINE N == {n \in Nat : n <= Len(s) => ChosenWell(M, r, ChoiceFold!After(r, NothingChosen, s, n), s, n)}
<1>3. 0 \in N
  <2>1. ChoiceFold!After(r, NothingChosen, s, 0) = NothingChosen  BY ChoiceFold!AfterNone
  <2> DEFINE c == NothingChosen
  <2>2. c.ids = <<>> /\ c.spent = HitsHeader /\ c = [ids |-> c.ids, spent |-> c.spent]
    BY DEF NothingChosen
  <2> HIDE DEF c
  <2>3. <<>> \in Seq(M) /\ Len(<<>>) = 0 /\ Distinct(<<>>, 0)  BY DEF Distinct
  <2>4. ChosenWell(M, r, c, s, 0)  BY <2>2, <2>3, BudgetsAre DEF ChosenWell
  <2> QED BY <2>1, <2>4 DEF c
<1>4. ASSUME NEW n \in N  PROVE n + 1 \in N
  <2> SUFFICES ASSUME n + 1 <= Len(s)
               PROVE  ChosenWell(M, r, ChoiceFold!After(r, NothingChosen, s, n + 1), s, n + 1)
    BY <1>4
  <2>1. n \in Nat /\ ChosenWell(M, r, ChoiceFold!After(r, NothingChosen, s, n), s, n)  BY <1>1, <1>4
  <2>2. ChoiceFold!After(r, NothingChosen, s, n + 1)
        = SelectIfFits(r, ChoiceFold!After(r, NothingChosen, s, n), s[n + 1])
    BY <2>1, ChoiceFold!AfterOne
  <2> QED BY <2>1, <2>2, ChoiceStep
<1>5. N = Nat
  <2>1. N \in SUBSET Nat  OBVIOUS
  <2> HIDE DEF N
  <2> QED BY <1>3, <1>4, <2>1, KeepFold!Climbs
<1>6. ChosenWell(M, r, ChoiceFold!After(r, NothingChosen, s, Len(s)), s, Len(s))  BY <1>1, <1>5
<1> QED BY <1>2, <1>6

(***************************************************************************)
(* The profile: what is left of the budget, type by type.                  *)
(***************************************************************************)
EntryFold == INSTANCE FoldLemmas WITH Op <- AddEntry
TypeFold == INSTANCE FoldLemmas WITH Op <- AddType

\* A profile of distinct memories within the allowance, all of them among those of D.
ProfileWell(M, r, p, D) ==
  /\ DOMAIN p = {"ids", "size", "titled"}
  /\ p.ids \in Seq(M) /\ Distinct(p.ids, Len(p.ids))
  /\ p.size \in Nat /\ p.size <= ProfileAllowance(r)
  /\ p.titled \in BOOLEAN
  /\ \A k \in 1 .. Len(p.ids) : p.ids[k] \in D

\* One entry more, of a memory that is not there.
LEMMA EntryStep ==
  ASSUME NEW M, NEW r, PromptRequest(M, r), ProfileAllowance(r) \in Int,
         NEW D, NEW p, ProfileWell(M, r, p, D), NEW m \in M, m \notin D
  PROVE  ProfileWell(M, r, AddEntry(r, p, m), D \cup {m})
<1> DEFINE size == p.size + (IF p.titled THEN 1 ELSE Title) + r.length[m]
           q == AddEntry(r, p, m)
<1>1. /\ DOMAIN p = {"ids", "size", "titled"}
      /\ p.ids \in Seq(M) /\ Distinct(p.ids, Len(p.ids)) /\ Len(p.ids) \in Nat
      /\ p.size \in Nat /\ p.size <= ProfileAllowance(r) /\ p.titled \in BOOLEAN
      /\ \A k \in 1 .. Len(p.ids) : p.ids[k] \in D
  BY DEF ProfileWell
<1>2. size \in Nat
  <2>1. r.length[m] \in Nat /\ Title \in Nat  BY ContextAssumption DEF PromptRequest
  <2>2. (IF p.titled THEN 1 ELSE Title) \in Nat  BY <2>1
  <2> QED BY <2>1, <2>2, <1>1
<1>3. q = IF size > ProfileAllowance(r) THEN p ELSE [ids |-> Append(p.ids, m), size |-> size, titled |-> TRUE]
  BY DEF AddEntry
<1> HIDE DEF size, q
<1>4. CASE size > ProfileAllowance(r)
  <2>1. q = p  BY <1>3, <1>4
  <2>2. ProfileWell(M, r, p, D \cup {m})  BY <1>1 DEF ProfileWell
  <2> QED BY <2>1, <2>2 DEF q
<1>5. CASE ~(size > ProfileAllowance(r))
  <2> DEFINE ids == Append(p.ids, m)
  <2>1. q = [ids |-> ids, size |-> size, titled |-> TRUE]  BY <1>3, <1>5
  <2>2. /\ ids \in Seq(M) /\ Len(ids) = Len(p.ids) + 1 /\ ids[Len(p.ids) + 1] = m
        /\ \A k \in 1 .. Len(p.ids) : ids[k] = p.ids[k]
    BY <1>1, Appended
  <2> HIDE DEF ids
  <2>3. 1 .. Len(ids) = (1 .. Len(p.ids)) \cup {Len(p.ids) + 1}  BY <2>2, <1>1
  <2>4. Distinct(ids, Len(ids))
    <3>1. \A k \in 1 .. Len(p.ids) : ids[k] # m  BY <2>2, <1>1
    <3>2. \A k, l \in 1 .. Len(p.ids) : ids[k] = ids[l] => k = l  BY <2>2, <1>1 DEF Distinct
    <3> QED BY <3>1, <3>2, <2>2, <2>3 DEF Distinct
  <2>5. \A k \in 1 .. Len(ids) : ids[k] \in D \cup {m}  BY <2>2, <2>3, <1>1
  <2>6. size <= ProfileAllowance(r)  BY <1>2, <1>5
  <2>7. /\ q.ids = ids /\ q.size = size /\ q.titled = TRUE
        /\ DOMAIN q = {"ids", "size", "titled"}
    BY <2>1
  <2>8. ProfileWell(M, r, q, D \cup {m})  BY <1>2, <2>2, <2>4, <2>5, <2>6, <2>7 DEF ProfileWell
  <2> QED BY <2>8 DEF q
<1> QED BY <1>4, <1>5

\* The entries of a type, which is not in the profile yet.
LEMMA TypeStep ==
  ASSUME NEW M, NEW r, PromptRequest(M, r), ProfileAllowance(r) \in Int,
         NEW D, NEW p, ProfileWell(M, r, p, D),
         NEW type, Considered(r, type) \in Seq(M), Distinct(Considered(r, type), Len(Considered(r, type))),
         ToSet(Considered(r, type)) \cap D = {}
  PROVE  ProfileWell(M, r, AddType(r, p, type), D \cup ToSet(Considered(r, type)))
<1> DEFINE s == Considered(r, type)
           base == [p EXCEPT !.titled = FALSE]
<1>1. Len(s) \in Nat /\ DOMAIN s = 1 .. Len(s)  OBVIOUS
<1>2. AddType(r, p, type) = EntryFold!After(r, base, s, Len(s))
  <2>1. AddType(r, p, type) = FoldLeft(LAMBDA x, m : AddEntry(r, x, m), base, s)
    BY DEF AddType
  <2> HIDE DEF s, base
  <2> QED BY <1>1, <2>1 DEF FoldLeft, MapThenFoldSet, EntryFold!After, EntryFold!Over,
             EntryFold!Solves, EntryFold!Top, Max
<1>3. ProfileWell(M, r, base, D)
  <2>1. DOMAIN p = {"ids", "size", "titled"}  BY DEF ProfileWell
  <2>2. /\ DOMAIN base = {"ids", "size", "titled"}
        /\ base.ids = p.ids /\ base.size = p.size /\ base.titled = FALSE
    BY <2>1
  <2> HIDE DEF base
  <2> QED BY <2>2 DEF ProfileWell
<1> HIDE DEF base
<1> DEFINE Entered(n) == D \cup ElementsOf(s, n)
           N == {n \in Nat : n <= Len(s) => ProfileWell(M, r, EntryFold!After(r, base, s, n), Entered(n))}
<1>4. 0 \in N
  <2>1. EntryFold!After(r, base, s, 0) = base  BY EntryFold!AfterNone
  <2>2. Entered(0) = D  BY DEF ElementsOf
  <2> QED BY <2>1, <2>2, <1>3
<1>5. ASSUME NEW n \in N  PROVE n + 1 \in N
  <2> SUFFICES ASSUME n + 1 <= Len(s)
               PROVE  ProfileWell(M, r, EntryFold!After(r, base, s, n + 1), Entered(n + 1))
    BY <1>5
  <2>1. n \in Nat /\ ProfileWell(M, r, EntryFold!After(r, base, s, n), Entered(n))  BY <1>1, <1>5
  <2>2. EntryFold!After(r, base, s, n + 1) = AddEntry(r, EntryFold!After(r, base, s, n), s[n + 1])
    BY <2>1, EntryFold!AfterOne
  <2>3. Entered(n + 1) = Entered(n) \cup {s[n + 1]}
    <3>1. 1 .. (n + 1) = (1 .. n) \cup {n + 1}  BY <2>1
    <3> QED BY <3>1 DEF ElementsOf
  <2>4. n + 1 \in 1 .. Len(s) /\ s[n + 1] \in M /\ s[n + 1] \in ToSet(s)
    <3>1. n + 1 \in 1 .. Len(s)  BY <2>1, <1>1
    <3> QED BY <3>1, SeqElements
  <2>5. s[n + 1] \notin Entered(n)
    <3>1. \A i \in 1 .. n : i \in 1 .. Len(s) /\ i # n + 1  BY <2>1, <1>1
    <3>2. \A i \in 1 .. n : s[i] # s[n + 1]  BY <3>1, <2>4 DEF Distinct
    <3>3. s[n + 1] \notin D  BY <2>4
    <3> QED BY <3>2, <3>3 DEF ElementsOf
  <2> HIDE DEF Entered, s
  <2> QED BY <2>1, <2>2, <2>3, <2>4, <2>5, EntryStep
<1>6. N = Nat
  <2>1. N \in SUBSET Nat  OBVIOUS
  <2> HIDE DEF N
  <2> QED BY <1>4, <1>5, <2>1, KeepFold!Climbs
<1>7. ProfileWell(M, r, EntryFold!After(r, base, s, Len(s)), Entered(Len(s)))  BY <1>1, <1>6
<1>8. Entered(Len(s)) = D \cup ToSet(s)  BY SeqElements
<1> QED BY <1>2, <1>7, <1>8

\* What the profile considers of a type: the actor's memories of that type, no unverified one,
\* none that was found.
LEMMA ConsideredIs ==
  ASSUME NEW M, NEW r, PromptRequest(M, r), NEW type
  PROVE  /\ Considered(r, type) \in Seq(M) /\ Distinct(Considered(r, type), Len(Considered(r, type)))
         /\ \A m \in ToSet(Considered(r, type)) :
              /\ m \in ToSet(ActorRecords(r)) /\ r.kind[m] = type /\ m \notin ToSet(Chosen(r).ids)
<1> DEFINE keep == {m \in ToSet(r.own) : r.kind[m] = type} \ ToSet(Chosen(r).ids)
           a == ActorRecords(r)
           s == Among(a, keep)
<1>1. a \in Seq(M) /\ Distinct(a, Len(a))
  BY AmongElements DEF ActorRecords, PromptRequest
<1> HIDE DEF a
<1>2. s \in Seq(M) /\ ToSet(s) = ToSet(a) \cap keep /\ Distinct(s, Len(s))
  <2> HIDE DEF keep
  <2> QED BY <1>1, AmongElements
<1>3. Considered(r, type) = FirstOf(s, PerType)  BY DEF Considered, a
<1>4. PerType \in Nat  BY ContextAssumption
<1> HIDE DEF s
<1>5. /\ FirstOf(s, PerType) \in Seq(M) /\ ToSet(FirstOf(s, PerType)) \subseteq ToSet(s)
      /\ Distinct(FirstOf(s, PerType), Len(FirstOf(s, PerType)))
  BY <1>2, <1>4, FirstOfIs, FirstOfElements
<1>6. \A m \in keep : r.kind[m] = type /\ m \notin ToSet(Chosen(r).ids)  OBVIOUS
<1> HIDE DEF keep
<1> QED BY <1>2, <1>3, <1>5, <1>6 DEF a

NoProfile == [ids |-> <<>>, size |-> 0, titled |-> FALSE]
EmptyProfile == [NoProfile EXCEPT !.size = ProfileHeader]
ConsideredUpTo(r, n) == UNION {ToSet(Considered(r, Sections[j])) : j \in 1 .. n}

\* A profile that is shown is within its allowance, and of what was considered.
LEMMA ProfileIs ==
  ASSUME NEW M, NEW r, PromptRequest(M, r), ProfileAllowance(r) \in Int, ProfileShown(r)
  PROVE  ProfileWell(M, r, TypeFold!After(r, EmptyProfile, Sections, Len(Sections)),
                     ConsideredUpTo(r, Len(Sections)))
<1> DEFINE s == Sections
           base == EmptyProfile
           D(n) == ConsideredUpTo(r, n)
           N == {n \in Nat : n <= Len(s) => ProfileWell(M, r, TypeFold!After(r, base, s, n), D(n))}
<1>1. /\ s \in Seq(ToSet(s)) /\ Len(s) \in Nat /\ ProfileHeader \in Nat
      /\ \A i, j \in 1 .. Len(s) : s[i] = s[j] => i = j
  <2>1. s \in Seq(ToSet(s)) /\ IsInjective(s) /\ ProfileHeader \in Nat  BY ContextAssumption
  <2>2. DOMAIN s = 1 .. Len(s) /\ Len(s) \in Nat  BY <2>1
  <2> QED BY <2>1, <2>2 DEF IsInjective
<1>2. 0 \in N
  <2>1. TypeFold!After(r, base, s, 0) = base  BY TypeFold!AfterNone
  <2>2. ProfileHeader <= ProfileAllowance(r)  BY <1>1 DEF ProfileShown
  <2>3. /\ base.ids = <<>> /\ base.size = ProfileHeader /\ base.titled = FALSE
        /\ DOMAIN base = {"ids", "size", "titled"}
    <3>1. /\ NoProfile.ids = <<>> /\ NoProfile.titled = FALSE
          /\ DOMAIN NoProfile = {"ids", "size", "titled"}
      BY DEF NoProfile
    <3> QED BY <3>1 DEF EmptyProfile
  <2> HIDE DEF base
  <2>4. <<>> \in Seq(M) /\ Len(<<>>) = 0 /\ Distinct(<<>>, 0)  BY DEF Distinct
  <2>5. base.titled \in BOOLEAN  BY <2>3
  <2>6. base.ids \in Seq(M) /\ Len(base.ids) = 0 /\ Distinct(base.ids, Len(base.ids))  BY <2>3, <2>4
  <2>7. base.size \in Nat /\ base.size <= ProfileAllowance(r)  BY <2>2, <2>3, <1>1
  <2>8. ProfileWell(M, r, base, D(0))
    <3>1. DOMAIN base = {"ids", "size", "titled"}  BY <2>3
    <3>2. \A k \in 1 .. Len(base.ids) : base.ids[k] \in D(0)  BY <2>6
    <3> QED BY <3>1, <3>2, <2>5, <2>6, <2>7 DEF ProfileWell
  <2> QED BY <2>1, <2>8
<1> HIDE DEF base
<1>3. ASSUME NEW n \in N  PROVE n + 1 \in N
  <2> SUFFICES ASSUME n + 1 <= Len(s)
               PROVE  ProfileWell(M, r, TypeFold!After(r, base, s, n + 1), D(n + 1))
    BY <1>3
  <2> DEFINE type == s[n + 1]
  <2>1. n \in Nat /\ ProfileWell(M, r, TypeFold!After(r, base, s, n), D(n))  BY <1>1, <1>3
  <2>2. TypeFold!After(r, base, s, n + 1) = AddType(r, TypeFold!After(r, base, s, n), type)
    BY <2>1, TypeFold!AfterOne
  <2>3. D(n + 1) = D(n) \cup ToSet(Considered(r, type))
    <3>1. 1 .. (n + 1) = (1 .. n) \cup {n + 1}  BY <2>1
    <3> QED BY <3>1 DEF ConsideredUpTo
  <2>4. /\ Considered(r, type) \in Seq(M) /\ Distinct(Considered(r, type), Len(Considered(r, type)))
        /\ \A m \in ToSet(Considered(r, type)) : r.kind[m] = type
    BY ConsideredIs
  <2>5. \A i \in 1 .. n : s[i] # type
    <3>1. n + 1 \in 1 .. Len(s) /\ \A i \in 1 .. n : i \in 1 .. Len(s) /\ i # n + 1  BY <2>1, <1>1
    <3> QED BY <3>1, <1>1
  <2>6. \A m \in D(n) : r.kind[m] # type
    <3> TAKE m \in D(n)
    <3>1. PICK i \in 1 .. n : m \in ToSet(Considered(r, s[i]))  BY DEF ConsideredUpTo
    <3>2. r.kind[m] = s[i]  BY <3>1, ConsideredIs
    <3> QED BY <3>2, <2>5
  <2>7. ToSet(Considered(r, type)) \cap D(n) = {}  BY <2>4, <2>6
  <2> HIDE DEF type, D
  <2> QED BY <2>1, <2>2, <2>3, <2>4, <2>7, TypeStep
<1>4. N = Nat
  <2>1. N \in SUBSET Nat  OBVIOUS
  <2> HIDE DEF N
  <2> QED BY <1>2, <1>3, <2>1, KeepFold!Climbs
<1>5. ProfileWell(M, r, TypeFold!After(r, base, s, Len(s)), D(Len(s)))  BY <1>1, <1>4
<1> QED BY <1>5 DEF base

(***************************************************************************)
(* The prompt: the memories chosen, then the profile, and what was left    *)
(* out of both.                                                            *)
(***************************************************************************)

\* Of a section to be filtered, what may be in a prompt.
LEMMA PromptableIs ==
  ASSUME NEW M, NEW r, PromptRequest(M, r)
  PROVE  /\ Eligible(r) \in Seq(M) /\ Distinct(Eligible(r), Len(Eligible(r)))
         /\ ToSet(Eligible(r)) \subseteq ToSet(r.hits)
         /\ ToSet(ActorRecords(r)) \subseteq ToSet(r.own)
         /\ ExactEvidence(r) \in Seq(M) /\ ToSet(ExactEvidence(r)) \subseteq ToSet(Eligible(r))
         /\ IncludeUnverified \/ (ToSet(Eligible(r)) \cup ToSet(ActorRecords(r))) \cap r.unverified = {}
<1>1. /\ Eligible(r) \in Seq(M) /\ Distinct(Eligible(r), Len(Eligible(r)))
      /\ ToSet(Eligible(r)) = ToSet(r.hits) \cap Promptable(r, ToSet(r.hits))
  BY AmongElements DEF Eligible, PromptRequest
<1>2. ToSet(ActorRecords(r)) = ToSet(r.own) \cap Promptable(r, ToSet(r.own))
  BY AmongElements DEF ActorRecords, PromptRequest
<1>3. ExactEvidence(r) \in Seq(M) /\ ToSet(ExactEvidence(r)) \subseteq ToSet(Eligible(r))
  BY <1>1, AmongElements DEF ExactEvidence
<1>4. \A ms : IncludeUnverified \/ Promptable(r, ms) \cap r.unverified = {}  BY DEF Promptable
<1> QED BY <1>1, <1>2, <1>3, <1>4

\* The section of memories found holds those chosen.
LEMMA SelectedIs ==
  ASSUME NEW M, NEW r, PromptRequest(M, r)
  PROVE  /\ Offered(r) \in Seq(M) /\ ToSet(Offered(r)) = ToSet(Eligible(r))
         /\ ChosenWell(M, r, Chosen(r), Offered(r), Len(Offered(r)))
         /\ Selected(r) \in Seq(M) /\ Distinct(Selected(r), Len(Selected(r)))
         /\ ToSet(Selected(r)) = ToSet(Chosen(r).ids) /\ ToSet(Selected(r)) \subseteq ToSet(Eligible(r))
         /\ Len(Selected(r)) = Len(Chosen(r).ids)
<1>1. /\ Eligible(r) \in Seq(M) /\ ToSet(Eligible(r)) \subseteq ToSet(r.hits)
      /\ ExactEvidence(r) \in Seq(M) /\ ToSet(ExactEvidence(r)) \subseteq ToSet(Eligible(r))
  BY PromptableIs
<1>2. /\ FirstOf(ExactEvidence(r), 1) \in Seq(M)
      /\ ToSet(FirstOf(ExactEvidence(r), 1)) \subseteq ToSet(ExactEvidence(r))
  BY <1>1, FirstOfIs, FirstOfElements
<1>3. Offered(r) \in Seq(M) /\ ToSet(Offered(r)) = ToSet(Eligible(r))
  <2> DEFINE f == FirstOf(ExactEvidence(r), 1)  e == Eligible(r)
  <2>1. Offered(r) = f \o e  BY DEF Offered
  <2> HIDE DEF f, e
  <2>2. f \o e \in Seq(M) /\ ToSet(f \o e) = ToSet(f) \cup ToSet(e)
    BY <1>1, <1>2, Concatenated DEF f, e
  <2> QED BY <2>1, <2>2, <1>1, <1>2 DEF f, e
<1>4. ChosenWell(M, r, Chosen(r), Offered(r), Len(Offered(r)))  BY <1>3, ChosenIs
<1> DEFINE ids == Chosen(r).ids
<1>5. /\ ids \in Seq(M) /\ Distinct(ids, Len(ids))
      /\ \A k \in 1 .. Len(ids) : \E i \in 1 .. Len(Offered(r)) : Offered(r)[i] = ids[k]
  BY <1>4 DEF ChosenWell
<1> HIDE DEF ids
<1>6. ToSet(ids) \subseteq ToSet(Eligible(r))
  <2>1. \A m : m \in ToSet(ids) <=> \E k \in 1 .. Len(ids) : ids[k] = m  BY <1>5, SeqElements
  <2>2. \A m : m \in ToSet(Offered(r)) <=> \E k \in 1 .. Len(Offered(r)) : Offered(r)[k] = m
    BY <1>3, SeqElements
  <2> QED BY <2>1, <2>2, <1>3, <1>5
<1>7. /\ Among(r.hits, ToSet(ids)) \in Seq(M)
      /\ Distinct(Among(r.hits, ToSet(ids)), Len(Among(r.hits, ToSet(ids))))
      /\ ToSet(Among(r.hits, ToSet(ids))) = ToSet(r.hits) \cap ToSet(ids)
  BY AmongElements DEF PromptRequest
<1>8. Selected(r) = Among(r.hits, ToSet(ids))  BY DEF Selected, ids
<1>9. ToSet(Selected(r)) = ToSet(ids)  BY <1>1, <1>6, <1>7, <1>8
<1>10. Len(Selected(r)) = Len(ids)
  <2>1. Cardinality(ToSet(ids)) = Len(ids)  BY <1>5, DistinctCount
  <2>2. Cardinality(ToSet(Selected(r))) = Len(Selected(r))  BY <1>7, <1>8, DistinctCount
  <2> QED BY <2>1, <2>2, <1>9
<1> QED BY <1>3, <1>4, <1>6, <1>7, <1>8, <1>9, <1>10 DEF ids

\* The section is within its budget, and leaves the profile a number.
LEMMA AllowanceIs ==
  ASSUME NEW M, NEW r, PromptRequest(M, r)
  PROVE  /\ HitsSection(r) \in Nat /\ HitsSection(r) <= CharBudget(r) /\ Separator(r) \in Nat
         /\ CharBudget(r) \in Nat
         /\ ProfileAllowance(r) \in Int
         /\ ProfileAllowance(r) = CharBudget(r) - HitsSection(r) - Separator(r)
<1>1. ChosenWell(M, r, Chosen(r), Offered(r), Len(Offered(r)))  BY SelectedIs
<1>2. Chosen(r).spent \in Nat /\ (Chosen(r).ids # <<>> => Chosen(r).spent <= CharBudget(r))
  BY <1>1 DEF ChosenWell
<1>3. CharBudget(r) \in Nat  BY BudgetsAre
<1>4. HitsSection(r) \in Nat /\ HitsSection(r) <= CharBudget(r)  BY <1>2, <1>3 DEF HitsSection
<1>5. Separator(r) \in Nat  BY DEF Separator
<1> QED BY <1>3, <1>4, <1>5 DEF ProfileAllowance

\* The profile is within what is left, of memories considered, or there is none.
LEMMA ProfileShownIs ==
  ASSUME NEW M, NEW r, PromptRequest(M, r)
  PROVE  /\ Profile(r).ids \in Seq(M) /\ Distinct(Profile(r).ids, Len(Profile(r).ids))
         /\ Profile(r).size \in Nat
         /\ Profile(r).ids = <<>> => Profile(r).size = 0
         /\ Profile(r).ids # <<>> => ProfileShown(r) /\ Profile(r).size <= ProfileAllowance(r)
         /\ \A m \in ToSet(Profile(r).ids) :
              ProfileShown(r) /\ \E type \in ToSet(Sections) : m \in ToSet(Considered(r, type))
<1> DEFINE base == EmptyProfile
           full == FoldLeft(LAMBDA p, type : AddType(r, p, type), base, Sections)
           s == Sections
<1>1. s \in Seq(ToSet(s))  BY ContextAssumption
<1>2. DOMAIN s = 1 .. Len(s) /\ Len(s) \in Nat  BY <1>1
<1>3. full = TypeFold!After(r, base, s, Len(s))
  <2> HIDE DEF base
  <2> QED BY <1>2 DEF FoldLeft, MapThenFoldSet, TypeFold!After, TypeFold!Over,
             TypeFold!Solves, TypeFold!Top, Max
<1> HIDE DEF full
<1>5. Profile(r) = IF ProfileShown(r) /\ full.ids # <<>> THEN full ELSE NoProfile
  BY DEF Profile, NoProfile, EmptyProfile, full
<1>6. CASE ProfileShown(r) /\ full.ids # <<>>
  <2>1. ProfileAllowance(r) \in Int  BY AllowanceIs
  <2>2. ProfileWell(M, r, full, ConsideredUpTo(r, Len(s)))  BY <1>3, <1>6, <2>1, ProfileIs
  <2>3. /\ full.ids \in Seq(M) /\ Distinct(full.ids, Len(full.ids))
        /\ full.size \in Nat /\ full.size <= ProfileAllowance(r)
        /\ \A k \in 1 .. Len(full.ids) : full.ids[k] \in ConsideredUpTo(r, Len(s))
    BY <2>2 DEF ProfileWell
  <2>4. \A m \in ToSet(full.ids) : \E type \in ToSet(Sections) : m \in ToSet(Considered(r, type))
    <3> TAKE m \in ToSet(full.ids)
    <3>1. PICK k \in 1 .. Len(full.ids) : full.ids[k] = m  BY <2>3, SeqElements
    <3>2. m \in ConsideredUpTo(r, Len(s))  BY <3>1, <2>3
    <3>3. PICK j \in 1 .. Len(s) : m \in ToSet(Considered(r, s[j]))  BY <3>2 DEF ConsideredUpTo
    <3>4. s[j] \in ToSet(s)  BY <1>1, <3>3, SeqElements
    <3> QED BY <3>3, <3>4
  <2>5. Profile(r) = full  BY <1>5, <1>6
  <2> QED BY <2>3, <2>4, <2>5, <1>6
<1>7. CASE ~(ProfileShown(r) /\ full.ids # <<>>)
  <2>1. Profile(r).ids = <<>> /\ Profile(r).size = 0  BY <1>5, <1>7 DEF NoProfile
  <2>2. <<>> \in Seq(M) /\ Len(<<>>) = 0 /\ Distinct(<<>>, 0)  BY DEF Distinct
  <2>3. ToSet(<<>>) = {}  BY DEF ToSet
  <2> QED BY <2>1, <2>2, <2>3
<1> QED BY <1>6, <1>7

\* A prompt holds what was available, nothing twice.
LEMMA EmittedIs ==
  ASSUME NEW M, NEW r, PromptRequest(M, r)
  PROVE  /\ Emitted(r) \in Seq(M) /\ Distinct(Emitted(r), Len(Emitted(r)))
         /\ ToSet(Emitted(r)) \subseteq Available(r)
         /\ ToSet(Emitted(r)) \subseteq ToSet(Eligible(r)) \cup ToSet(ActorRecords(r))
<1> DEFINE p == Profile(r).ids  s == Selected(r)
<1>1. /\ p \in Seq(M) /\ Distinct(p, Len(p))
      /\ \A m \in ToSet(p) :
           ProfileShown(r) /\ \E type \in ToSet(Sections) : m \in ToSet(Considered(r, type))
  BY ProfileShownIs
<1>2. /\ s \in Seq(M) /\ Distinct(s, Len(s)) /\ ToSet(s) = ToSet(Chosen(r).ids)
      /\ ToSet(s) \subseteq ToSet(Eligible(r))
  BY SelectedIs
<1>3. \A m \in ToSet(p) : m \in ToSet(ActorRecords(r)) /\ m \notin ToSet(Chosen(r).ids)
  BY <1>1, ConsideredIs
<1>4. Emitted(r) = s \o p  BY DEF Emitted
<1> HIDE DEF p, s
<1>5. ToSet(s) \cap ToSet(p) = {}  BY <1>2, <1>3
<1>6. /\ s \o p \in Seq(M) /\ ToSet(s \o p) = ToSet(s) \cup ToSet(p) /\ Distinct(s \o p, Len(s \o p))
  BY <1>1, <1>2, <1>5, Concatenated
<1>7. ToSet(p) \subseteq Available(r)  BY <1>1 DEF Available
<1>8. ToSet(s) \subseteq Available(r)  BY <1>2 DEF Available
<1> QED BY <1>2, <1>3, <1>4, <1>6, <1>7, <1>8

\* For any memories, lengths, kinds and budgets, whatever of the memories is unverified or answers
\* the query: the prompt of buildContext() holds no unverified text by either path, no memory
\* twice, and is within both budgets, headers, titles and separators included.
THEOREM PromptsAreClean ==
  ASSUME NEW M, NEW r, PromptRequest(M, r)
  PROVE  PromptIsClean(r)
<1>1. ContextLength(r) <= CharBudget(r)
  <2> DEFINE h == HitsSection(r)  b == CharBudget(r)  sep == Separator(r)  p == Profile(r)
  <2>1. h \in Nat /\ h <= b /\ sep \in Nat /\ b \in Nat /\ ProfileAllowance(r) = b - h - sep
    BY AllowanceIs
  <2>2. /\ p.size \in Nat /\ (p.ids = <<>> => p.size = 0)
        /\ (p.ids # <<>> => p.size <= ProfileAllowance(r))
    BY ProfileShownIs
  <2>3. ContextLength(r) = h + p.size + (IF p.ids = <<>> THEN 0 ELSE sep)  BY DEF ContextLength
  <2> HIDE DEF h, b, sep, p
  <2>4. CASE p.ids = <<>>
    <3>1. ContextLength(r) = h  BY <2>1, <2>2, <2>3, <2>4
    <3> QED BY <3>1, <2>1 DEF b
  <2>5. CASE p.ids # <<>>
    <3>1. ContextLength(r) = h + p.size + sep  BY <2>3, <2>5
    <3>2. p.size <= b - h - sep  BY <2>1, <2>2, <2>5
    <3>3. ContextLength(r) <= b  BY <3>1, <3>2, <2>1, <2>2
    <3> QED BY <3>3 DEF b
  <2> QED BY <2>4, <2>5
<1>2. Len(Selected(r)) <= ItemBudget(r)
  <2>1. ChosenWell(M, r, Chosen(r), Offered(r), Len(Offered(r))) /\ Len(Selected(r)) = Len(Chosen(r).ids)
    BY SelectedIs
  <2>2. Len(Chosen(r).ids) <= ItemBudget(r)  BY <2>1 DEF ChosenWell
  <2> QED BY <2>1, <2>2
<1>3. IncludeUnverified \/ ToSet(Emitted(r)) \cap r.unverified = {}
  BY EmittedIs, PromptableIs
<1>4. IsInjective(Emitted(r))
  <2>1. Emitted(r) \in Seq(M) /\ Distinct(Emitted(r), Len(Emitted(r)))  BY EmittedIs
  <2>2. DOMAIN Emitted(r) = 1 .. Len(Emitted(r))  BY <2>1
  <2> QED BY <2>1, <2>2 DEF IsInjective, Distinct
<1> QED BY <1>1, <1>2, <1>3, <1>4 DEF PromptIsClean

\* The element of a sequence that has one at most.
LEMMA AtMostOne == ASSUME NEW n \in Nat, n <= 1, NEW i \in 1 .. n PROVE n = 1 /\ i = 1
OBVIOUS

\* An array of one element at most has the one that it has.
LEMMA OnlyElement ==
  ASSUME NEW S, NEW f \in Seq(S), Len(f) <= 1, NEW i \in 1 .. Len(f)
  PROVE  Len(f) = 1 /\ f[1] = f[i]
<1>1. Len(f) \in Nat  OBVIOUS
<1> DEFINE n == Len(f)
<1>2. n \in Nat /\ n <= 1 /\ i \in 1 .. n  BY <1>1
<1> HIDE DEF n
<1>3. n = 1 /\ i = 1  BY <1>2, AtMostOne
<1> QED BY <1>3 DEF n

\* The first of two sequences in a row.
LEMMA Joined ==
  ASSUME NEW S, NEW f \in Seq(S), NEW t \in Seq(S)
  PROVE  /\ Len(f \o t) = Len(f) + Len(t) /\ Len(t) \in Nat /\ Len(f) \in Nat
         /\ \A k \in 1 .. Len(f) : (f \o t)[k] = f[k]
OBVIOUS

\* The first of two sequences comes first.
LEMMA HeadOfBoth ==
  ASSUME NEW S, NEW f \in Seq(S), Len(f) = 1, NEW t \in Seq(S)
  PROVE  (f \o t)[1] = f[1] /\ Len(f \o t) \in Nat /\ Len(f \o t) > 0
<1>1. /\ Len(f \o t) = Len(f) + Len(t) /\ Len(t) \in Nat
      /\ \A k \in 1 .. Len(f) : (f \o t)[k] = f[k]
  BY Joined
<1>2. 1 \in 1 .. Len(f)  OBVIOUS
<1> QED BY <1>1, <1>2

\* And the direct answer is not starved: it is in the prompt if it fits alone; a memory found is
\* left out only where the budgets do not let it in; what is left out is counted.
THEOREM EvidenceComesFirst ==
  ASSUME NEW M, NEW r, PromptRequest(M, r)
  PROVE  EvidenceFirst(r)
<1> DEFINE s == Offered(r)  c == Chosen(r)  sel == Selected(r)
<1>1. /\ s \in Seq(M) /\ ToSet(s) = ToSet(Eligible(r)) /\ ChosenWell(M, r, c, s, Len(s))
      /\ sel \in Seq(M) /\ ToSet(sel) = ToSet(c.ids) /\ Len(sel) = Len(c.ids)
  BY SelectedIs
<1>2. \A m : Contains(sel, m) <=> m \in ToSet(sel)
  <2>1. \A m : m \in ToSet(sel) <=> \E i \in 1 .. Len(sel) : sel[i] = m  BY <1>1, SeqElements
  <2> QED BY <2>1 DEF Contains
<1>3. c.ids \in Seq(M)  BY <1>1 DEF ChosenWell
<1>4. \A m : m \in ToSet(c.ids) <=> \E k \in 1 .. Len(c.ids) : c.ids[k] = m  BY <1>3, SeqElements
<1>5. \A m : m \in ToSet(s) <=> \E i \in 1 .. Len(s) : s[i] = m  BY <1>1, SeqElements
<1>6. \A m \in ToSet(FirstOf(ExactEvidence(r), 1)) :
        Spent(r, HitsHeader, m) <= CharBudget(r) => Contains(sel, m)
  <2> SUFFICES ASSUME NEW m \in ToSet(FirstOf(ExactEvidence(r), 1)),
                      Spent(r, HitsHeader, m) <= CharBudget(r)
               PROVE  m \in ToSet(c.ids)
    BY <1>1, <1>2
  <2> DEFINE f == FirstOf(ExactEvidence(r), 1)
  <2>1. f \in Seq(M) /\ Len(f) <= 1 /\ Eligible(r) \in Seq(M)
    BY PromptableIs, FirstOfIs
  <2>2. PICK i \in 1 .. Len(f) : f[i] = m  BY <2>1, SeqElements
  <2>3. Len(f) = 1 /\ f[1] = m
    <3> HIDE DEF f
    <3> QED BY <2>1, <2>2, OnlyElement
  <2>4. s = f \o Eligible(r)  BY DEF Offered
  <2>5. s[1] = m /\ Len(s) > 0 /\ Len(s) \in Nat
    <3> HIDE DEF f, s
    <3> QED BY <2>1, <2>3, <2>4, HeadOfBoth
  <2>6. \E k \in 1 .. Len(c.ids) : c.ids[k] = s[1]  BY <1>1, <2>5 DEF ChosenWell
  <2> QED BY <1>4, <2>5, <2>6
<1>7. \A m \in ToSet(Eligible(r)) \ ToSet(sel) :
        Len(sel) = ItemBudget(r) \/ Spent(r, c.spent, m) > CharBudget(r)
  <2> TAKE m \in ToSet(Eligible(r)) \ ToSet(sel)
  <2>1. PICK i \in 1 .. Len(s) : s[i] = m  BY <1>1, <1>5
  <2>2. \/ \E k \in 1 .. Len(c.ids) : c.ids[k] = s[i]
        \/ Len(c.ids) = ItemBudget(r)
        \/ Spent(r, c.spent, s[i]) > CharBudget(r)
    BY <1>1, <2>1 DEF ChosenWell
  <2>3. m \notin ToSet(c.ids)  BY <1>1
  <2> QED BY <1>1, <1>4, <2>1, <2>2, <2>3
<1>8. OmittedCount(r) + Len(Emitted(r)) = Cardinality(Available(r))
  <2> DEFINE A == Available(r)  e == Emitted(r)  X == ToSet(e)
  <2>1. e \in Seq(M) /\ Distinct(e, Len(e)) /\ X \subseteq A  BY EmittedIs
  <2>2. IsFiniteSet(X) /\ Cardinality(X) = Len(e)  BY <2>1, DistinctCount
  <2>3. IsFiniteSet(A)
    <3>1. IsFiniteSet(ToSet(r.hits)) /\ IsFiniteSet(ToSet(r.own))
      BY DistinctCount DEF PromptRequest
    <3>2. IsFiniteSet(ToSet(r.hits) \cup ToSet(r.own))  BY <3>1, FS_Union
    <3>3. ToSet(Eligible(r)) \subseteq ToSet(r.hits) /\ ToSet(ActorRecords(r)) \subseteq ToSet(r.own)
      BY PromptableIs
    <3>4. \A type : ToSet(Considered(r, type)) \subseteq ToSet(r.own)  BY <3>3, ConsideredIs
    <3>5. A \subseteq ToSet(r.hits) \cup ToSet(r.own)  BY <3>3, <3>4 DEF Available
    <3> HIDE DEF A
    <3> QED BY <3>2, <3>5, FS_Subset
  <2>4. OmittedCount(r) = Cardinality(A \ X)  BY DEF OmittedCount
  <2> HIDE DEF A, X
  <2>5. Cardinality(A \ X) = Cardinality(A) - Cardinality(X)
    <3>1. A \cap X = X  BY <2>1
    <3> QED BY <3>1, <2>3, FS_Difference
  <2>6. Cardinality(A) \in Nat /\ Len(e) \in Nat
    <3>1. Len(e) \in Nat  BY <2>1
    <3> QED BY <3>1, <2>3, FS_CardinalityType
  <2> QED BY <2>2, <2>4, <2>5, <2>6 DEF A, e
<1> QED BY <1>6, <1>7, <1>8 DEF EvidenceFirst

ContextInv == prompted \subseteq ContextRequests

\* Every prompt that may be asked for is clean, and starves no direct answer (buildContext()).
THEOREM ContextIsHonest == ContextSpec => []ContextHolds
<1>1. ASSUME NEW r \in ContextRequests
      PROVE  PromptRequest(DOMAIN r.length, r)
  <2> DEFINE M == DOMAIN r.length
  <2>1. IsContextRequest(r)  BY RequestsAssumption
  <2>2. /\ r.hits \in Seq(M) /\ r.own \in Seq(M) /\ r.length \in [M -> Nat]
        /\ r.items \in Int /\ r.chars \in Int
    BY <2>1 DEF IsContextRequest
  <2>3. DOMAIN r.hits = 1 .. Len(r.hits) /\ DOMAIN r.own = 1 .. Len(r.own)
    <3> HIDE DEF M
    <3> QED BY <2>2
  <2>4. Distinct(r.hits, Len(r.hits)) /\ Distinct(r.own, Len(r.own))
    <3>1. IsInjective(r.hits) /\ IsInjective(r.own)  BY <2>1 DEF IsContextRequest
    <3> QED BY <3>1, <2>3 DEF IsInjective, Distinct
  <2> QED BY <2>2, <2>4 DEF PromptRequest
<1>2. ContextInv => ContextHolds
  <2> SUFFICES ASSUME ContextInv PROVE ContextHolds  OBVIOUS
  <2>1. \A r \in prompted : PromptRequest(DOMAIN r.length, r)  BY <1>1 DEF ContextInv
  <2>2. PromptsClean  BY <2>1, PromptsAreClean DEF PromptsClean
  <2>3. AnswersFirst  BY <2>1, EvidenceComesFirst DEF AnswersFirst
  <2> QED BY <2>2, <2>3 DEF ContextHolds
<1>3. ContextInit => ContextInv  BY DEF ContextInit, ContextInv
<1>4. ContextInv /\ [ContextNext]_prompted => ContextInv'
  BY DEF ContextInv, ContextNext, BuildContext, ContextBuilt
<1> QED BY <1>2, <1>3, <1>4, PTL DEF ContextSpec

(***************************************************************************)
(* The dual-layer provider: a cached answer is what a fresh search would   *)
(* find.  Below it: an event that is kept has an active record, an insight *)
(* that is held has events of its owner's, each kept or forgotten while a  *)
(* job was under way, and what a job holds in its hands is of that kind.   *)
(***************************************************************************)
LayerNames == {"records", "events", "insights", "cache"}
RecordEntry == [status : {"absent", "active", "archived", "deleted"}, revision : {0, 1}]
Event == [memory : Memory, state : {"queued", "processed", "gone"}]
Topics == {"summary"} \cup UNION {ToSet(FactsOf[m]) : m \in Memory}
Owners == {Owner[m] : m \in Memory}
InsightEntry == [owner : Owners, topic : Topics, from : SUBSET Nat, state : {"held", "gone"}]

Layered(ls) ==
  /\ DOMAIN ls = LayerNames
  /\ ls.records \in [Memory -> RecordEntry]
  /\ ls.events \in Seq(Event) /\ ls.insights \in Seq(InsightEntry)
  /\ DOMAIN ls.cache = Space

\* The events that insights of an owner may rest on.
KnownEvent(ls, over, e) == e \in DOMAIN ls.events /\ (Kept(ls.events[e]) \/ e \in over)
Known(ls, over, owner) ==
  {e \in DOMAIN ls.events : KnownEvent(ls, over, e) /\ Owner[ls.events[e].memory] = owner}

RecordsLive(ls) ==
  \A e \in DOMAIN ls.events : Kept(ls.events[e]) => ls.records[ls.events[e].memory].status = "active"
InsightsRest(ls, over) ==
  \A i \in DOMAIN ls.insights :
    Kept(ls.insights[i]) => ls.insights[i].from \subseteq Known(ls, over, ls.insights[i].owner)
Fresh(ls, except) ==
  \A s \in Space \ except : Cached(ls.cache[s]) => ls.cache[s].hits = Found(ls, s)

\* What a job holds: the events it has left, its own among them until they are processed, the
\* event it is at, what it has found, and the groups it has still to merge.
IsAt(x, places) == x.at \in places
AtWork == {"draining", "facts", "summary", "storing"}
AtEvent == {"facts", "summary", "storing"}
InQueue(ls, e) == ls.events[e].state = "queued"
BatchIsHeld(x, ls) ==
  /\ x.batch \in Seq(DOMAIN ls.events) /\ x.own \subseteq DOMAIN ls.events
  /\ \A e \in x.own : InQueue(ls, e) => e \in ToSet(x.batch) \/ (IsAt(x, AtEvent) /\ e = x.event)
InsightRests(new, ls, over) == new.state = "held" /\ new.from \subseteq Known(ls, over, new.owner)
FoundRests(x, ls, over) ==
  /\ DOMAIN x = {"at", "batch", "own", "event", "found", "next"}
  /\ x.found \in Seq(InsightEntry)
  /\ \A k \in 1 .. Len(x.found) : InsightRests(x.found[k], ls, over)
GroupRests(g, ls, over) ==
  \E o \in Owners : \A i \in g :
    /\ i \in DOMAIN ls.insights /\ ls.insights[i].owner = o
    /\ ls.insights[i].from \subseteq Known(ls, over, o)
JobRests(x, ls, over) ==
  /\ IsAt(x, {"resting", "merging"} \cup AtWork)
  /\ IsAt(x, AtWork) => BatchIsHeld(x, ls)
  /\ IsAt(x, AtEvent) => KnownEvent(ls, over, x.event)
  /\ IsAt(x, {"storing"}) => FoundRests(x, ls, over)
  /\ IsAt(x, {"merging"}) => \A g \in x.groups : GroupRests(g, ls, over)

JobsRest(ls, over) ==
  /\ DOMAIN jobs = Job
  /\ \A j \in Job : JobRests(jobs[j], ls, over)
  /\ \A j \in Ingester : ~IsAt(jobs[j], {"merging"})

DualInv ==
  /\ Layered(layers) /\ RecordsLive(layers) /\ InsightsRest(layers, overtaken)
  /\ queue \in Seq(DOMAIN layers.events) /\ aging \subseteq Memory
  /\ JobsRest(layers, overtaken)
  /\ Fresh(layers, Unannounced \cup spoilt)

\* What a change leaves, of any record of maps.
Made(lt, records, events, insights) ==
  /\ DOMAIN lt = LayerNames
  /\ lt.records = records /\ lt.events = events /\ lt.insights = insights
Wiped(ls, lt, owners) ==
  lt.cache = [s \in Space |-> IF \E o \in owners : Visible(o, s) THEN Uncached ELSE ls.cache[s]]

\* An invalidation empties the caches that see one of the owners, and keeps the maps.
LEMMA InvalidateIs ==
  ASSUME NEW ls, DOMAIN ls = LayerNames, NEW owners
  PROVE  LET lt == InvalidateCacheForRecords(ls, owners) IN
         Made(lt, ls.records, ls.events, ls.insights) /\ Wiped(ls, lt, owners)
BY DEF InvalidateCacheForRecords, Made, Wiped, LayerNames

\* Marking elements as gone changes nothing else of them.
LEMMA EventsWithout ==
  ASSUME NEW s \in Seq(Event), NEW ids
  PROVE  LET w == Without(s, ids) IN
         /\ w \in Seq(Event) /\ Len(w) = Len(s) /\ DOMAIN w = DOMAIN s
         /\ \A e \in DOMAIN s : /\ w[e].memory = s[e].memory
                                /\ w[e].state = IF e \in ids THEN "gone" ELSE s[e].state
<1> DEFINE w == Without(s, ids)  put(e) == IF e \in ids THEN [s[e] EXCEPT !.state = "gone"] ELSE s[e]
<1>1. \A e \in 1 .. Len(s) : /\ put(e) \in Event /\ put(e).memory = s[e].memory
                             /\ put(e).state = IF e \in ids THEN "gone" ELSE s[e].state
  <2> TAKE e \in 1 .. Len(s)
  <2>1. s[e] \in Event  OBVIOUS
  <2> DEFINE x == s[e]
  <2>2. [x EXCEPT !.state = "gone"] \in Event /\ [x EXCEPT !.state = "gone"].memory = x.memory
        /\ [x EXCEPT !.state = "gone"].state = "gone"
    BY <2>1 DEF Event
  <2> QED BY <2>1, <2>2
<1> HIDE DEF put
<1>2. w = [e \in 1 .. Len(s) |-> put(e)]  BY DEF Without, put
<1>3. w \in Seq(Event) /\ Len(w) = Len(s) /\ DOMAIN w = DOMAIN s  BY <1>1, <1>2
<1> QED BY <1>1, <1>2, <1>3

\* The same of insights.
LEMMA InsightsWithout ==
  ASSUME NEW s \in Seq(InsightEntry), NEW ids
  PROVE  LET w == Without(s, ids) IN
         /\ w \in Seq(InsightEntry) /\ Len(w) = Len(s) /\ DOMAIN w = DOMAIN s
         /\ \A i \in DOMAIN s : /\ w[i].owner = s[i].owner /\ w[i].from = s[i].from
                                /\ w[i].state = IF i \in ids THEN "gone" ELSE s[i].state
<1> DEFINE w == Without(s, ids)  put(e) == IF e \in ids THEN [s[e] EXCEPT !.state = "gone"] ELSE s[e]
<1>1. \A e \in 1 .. Len(s) :
        /\ put(e) \in InsightEntry /\ put(e).owner = s[e].owner /\ put(e).from = s[e].from
        /\ put(e).state = IF e \in ids THEN "gone" ELSE s[e].state
  <2> TAKE e \in 1 .. Len(s)
  <2>1. s[e] \in InsightEntry  OBVIOUS
  <2> DEFINE x == s[e]
  <2>2. /\ [x EXCEPT !.state = "gone"] \in InsightEntry
        /\ [x EXCEPT !.state = "gone"].owner = x.owner /\ [x EXCEPT !.state = "gone"].from = x.from
        /\ [x EXCEPT !.state = "gone"].state = "gone"
    BY <2>1 DEF InsightEntry
  <2> QED BY <2>1, <2>2
<1> HIDE DEF put
<1>2. w = [e \in 1 .. Len(s) |-> put(e)]  BY DEF Without, put
<1>3. w \in Seq(InsightEntry) /\ Len(w) = Len(s) /\ DOMAIN w = DOMAIN s  BY <1>1, <1>2
<1> QED BY <1>1, <1>2, <1>3

\* What the types say of an event.
LEMMA EventIs ==
  ASSUME NEW ls, Layered(ls), NEW e \in DOMAIN ls.events
  PROVE  ls.events[e] \in Event /\ ls.events[e].memory \in Memory /\ e \in Nat
<1> DEFINE s == ls.events
<1>1. s \in Seq(Event)  BY DEF Layered
<1>2. e \in DOMAIN s  OBVIOUS
<1> HIDE DEF s
<1>3. s[e] \in Event /\ e \in Nat  BY <1>1, <1>2
<1>4. \A x \in Event : x.memory \in Memory  BY DEF Event
<1> QED BY <1>3, <1>4 DEF s

(***************************************************************************)
(* Searches.                                                               *)
(***************************************************************************)

\* A change touches the records and the insights of some owners only.
HeldOfOthers(ls, i, owners) ==
  i \in DOMAIN ls.insights /\ Kept(ls.insights[i]) /\ ls.insights[i].owner \notin owners
Touches(ls, lt, owners) ==
  /\ \A m \in Memory : Owner[m] \notin owners => lt.records[m] = ls.records[m]
  /\ \A i : HeldOfOthers(ls, i, owners) <=> HeldOfOthers(lt, i, owners)
  /\ \A i : HeldOfOthers(ls, i, owners) => lt.insights[i].owner = ls.insights[i].owner

\* Who sees nothing of those owners finds what he found.
LEMMA FoundSame ==
  ASSUME NEW ls, NEW lt, NEW owners, Touches(ls, lt, owners), NEW s,
         \A o \in owners : ~Visible(o, s)
  PROVE  Found(ls, s) = Found(lt, s)
<1> DEFINE R(x) == {m \in Memory : x.records[m].status = "active" /\ Visible(Owner[m], s)}
           N(x) == {i \in DOMAIN x.insights : Kept(x.insights[i]) /\ Visible(x.insights[i].owner, s)}
<1>1. \A m \in Memory : Visible(Owner[m], s) => lt.records[m] = ls.records[m]  BY DEF Touches
<1>2. R(ls) = R(lt) /\ \A m \in R(ls) : lt.records[m].revision = ls.records[m].revision  BY <1>1
<1>3. N(ls) = N(lt)
  <2>1. ASSUME NEW i \in N(ls) PROVE i \in N(lt)
    <3>1. HeldOfOthers(ls, i, owners)  BY <2>1 DEF HeldOfOthers
    <3> QED BY <3>1, <2>1 DEF Touches, HeldOfOthers
  <2>2. ASSUME NEW i \in N(lt) PROVE i \in N(ls)
    <3>1. HeldOfOthers(lt, i, owners)  BY <2>2 DEF HeldOfOthers
    <3> QED BY <3>1, <2>2 DEF Touches, HeldOfOthers
  <2> QED BY <2>1, <2>2
<1>4. Found(ls, s) = {<<"record", m, ls.records[m].revision>> : m \in R(ls)}
                      \cup {<<"insight", i, 0>> : i \in N(ls)}
  BY DEF Found
<1>5. Found(lt, s) = {<<"record", m, lt.records[m].revision>> : m \in R(lt)}
                      \cup {<<"insight", i, 0>> : i \in N(lt)}
  BY DEF Found
<1> HIDE DEF R, N
<1>6. {<<"record", m, ls.records[m].revision>> : m \in R(ls)}
        = {<<"record", m, lt.records[m].revision>> : m \in R(lt)}
  BY <1>2
<1> QED BY <1>3, <1>4, <1>5, <1>6

\* So the caches that a change leaves are as fresh as they were.
LEMMA FreshStays ==
  ASSUME NEW ls, NEW lt, NEW owners, NEW except, Fresh(ls, except),
         Touches(ls, lt, owners), Wiped(ls, lt, owners)
  PROVE  Fresh(lt, except)
<1> SUFFICES ASSUME NEW s \in Space \ except, Cached(lt.cache[s])
             PROVE  lt.cache[s].hits = Found(lt, s)
  BY DEF Fresh
<1>1. lt.cache[s] = IF \E o \in owners : Visible(o, s) THEN Uncached ELSE ls.cache[s]  BY DEF Wiped
<1>2. ~Cached(Uncached)  BY DEF Cached, Uncached
<1>3. (\A o \in owners : ~Visible(o, s)) /\ lt.cache[s] = ls.cache[s]  BY <1>1, <1>2
<1>4. Found(ls, s) = Found(lt, s)  BY <1>3, FoundSame
<1> QED BY <1>3, <1>4 DEF Fresh

\* The same found, for the same records and insights.
LEMMA FoundAlike ==
  ASSUME NEW ls, NEW lt, lt.records = ls.records, lt.insights = ls.insights, NEW s
  PROVE  Found(lt, s) = Found(ls, s)
BY DEF Found

(***************************************************************************)
(* Forgetting.                                                             *)
(***************************************************************************)

\* lt is ls with the events es gone, what rests on them, and perhaps more insights.
Shrinks(ls, lt, es) ==
  /\ Layered(lt) /\ RecordsLive(lt)
  /\ DOMAIN lt.events = DOMAIN ls.events /\ DOMAIN lt.insights = DOMAIN ls.insights
  /\ \A e \in DOMAIN ls.events :
       /\ lt.events[e].memory = ls.events[e].memory
       /\ lt.events[e].state = IF e \in es THEN "gone" ELSE ls.events[e].state
  /\ \A i \in DOMAIN ls.insights :
       /\ lt.insights[i].owner = ls.insights[i].owner /\ lt.insights[i].from = ls.insights[i].from
       /\ Kept(lt.insights[i]) => Kept(ls.insights[i]) /\ ls.insights[i].from \cap es = {}

\* removeEvents() marks events and what rests on them, and nothing else.
LEMMA RemoveEventsIs ==
  ASSUME NEW ls, Layered(ls), NEW es
  PROVE  LET lt == RemoveEvents(ls, es) IN
         /\ Made(lt, ls.records, Without(ls.events, es), Without(ls.insights, DerivedFrom(ls, es)))
         /\ lt.cache = ls.cache
<1> DEFINE ev == Without(ls.events, es)  ins == Without(ls.insights, DerivedFrom(ls, es))
<1>1. DOMAIN ls = LayerNames  BY DEF Layered
<1>2. RemoveEvents(ls, es) = [ls EXCEPT !.events = ev, !.insights = ins]  BY DEF RemoveEvents
<1> HIDE DEF ev, ins
<1>3. LET lt == [ls EXCEPT !.events = ev, !.insights = ins] IN
      Made(lt, ls.records, ev, ins) /\ lt.cache = ls.cache
  BY <1>1 DEF Made, LayerNames
<1> QED BY <1>2, <1>3 DEF ev, ins

\* Records that come to an end take their events and what rests on these with them.
LEMMA ForgetIs ==
  ASSUME NEW ls, Layered(ls), RecordsLive(ls), NEW over, InsightsRest(ls, over),
         NEW ms \in SUBSET Memory, NEW status \in {"archived", "deleted"}
  PROVE  LET lt == Forget(ls, ms, status)
             es == UNION {EventsOf(ls, m) : m \in ms}
             owners == {Owner[m] : m \in ms} IN
         Shrinks(ls, lt, es) /\ Touches(ls, lt, owners) /\ Wiped(ls, lt, owners)
<1> DEFINE lt == Forget(ls, ms, status)
           es == UNION {EventsOf(ls, m) : m \in ms}
           owners == {Owner[m] : m \in ms}
           left == RemoveEvents(ls, es)
           put(m) == IF m \in ms THEN [ls.records[m] EXCEPT !.status = status] ELSE ls.records[m]
           rec == [m \in Memory |-> put(m)]
           mid == [left EXCEPT !.records = rec]
           ev == Without(ls.events, es)
           ins == Without(ls.insights, DerivedFrom(ls, es))
<1>1. Made(left, ls.records, ev, ins) /\ left.cache = ls.cache
  <2> HIDE DEF es
  <2> QED BY RemoveEventsIs
<1>2. lt = InvalidateCacheForRecords(mid, owners)
  BY DEF Forget, RemoveDerivedForRecords
<1>3. Made(mid, rec, ev, ins) /\ mid.cache = ls.cache
  <2> HIDE DEF left, rec, ev, ins
  <2> QED BY <1>1 DEF Made, LayerNames
<1>4. Made(lt, rec, ev, ins) /\ Wiped(ls, lt, owners)
  <2> HIDE DEF lt, mid, rec, ev, ins, owners
  <2>1. DOMAIN mid = LayerNames  BY <1>3 DEF Made
  <2>2. Made(lt, mid.records, mid.events, mid.insights) /\ Wiped(mid, lt, owners)
    BY <1>2, <2>1, InvalidateIs
  <2> QED BY <1>3, <2>2 DEF Made, Wiped
<1>5. /\ ev \in Seq(Event) /\ DOMAIN ev = DOMAIN ls.events
      /\ \A e \in DOMAIN ls.events : /\ ev[e].memory = ls.events[e].memory
                                     /\ ev[e].state = IF e \in es THEN "gone" ELSE ls.events[e].state
  <2> HIDE DEF es
  <2>1. ls.events \in Seq(Event)  BY DEF Layered
  <2> QED BY <2>1, EventsWithout
<1>6. /\ ins \in Seq(InsightEntry) /\ DOMAIN ins = DOMAIN ls.insights
      /\ \A i \in DOMAIN ls.insights :
           /\ ins[i].owner = ls.insights[i].owner /\ ins[i].from = ls.insights[i].from
           /\ ins[i].state = IF i \in DerivedFrom(ls, es) THEN "gone" ELSE ls.insights[i].state
  <2> HIDE DEF es
  <2>1. ls.insights \in Seq(InsightEntry)  BY DEF Layered
  <2> QED BY <2>1, InsightsWithout
<1>7. \A m \in Memory : /\ rec[m] \in RecordEntry /\ (m \in ms => rec[m].status = status)
                        /\ (m \notin ms => rec[m] = ls.records[m])
  <2> TAKE m \in Memory
  <2>1. ls.records[m] \in RecordEntry  BY DEF Layered
  <2>2. [ls.records[m] EXCEPT !.status = status] \in RecordEntry
        /\ [ls.records[m] EXCEPT !.status = status].status = status
    BY <2>1 DEF RecordEntry
  <2> QED BY <2>1, <2>2
<1>8. rec \in [Memory -> RecordEntry]  BY <1>7
<1>9. \A e : e \in es <=> e \in DOMAIN ls.events /\ Kept(ls.events[e]) /\ ls.events[e].memory \in ms
  BY DEF EventsOf
<1>10. \A e \in DOMAIN ls.events : ls.events[e].memory \in Memory
  BY EventIs
<1> HIDE DEF lt, es, owners, rec, ev, ins
<1>11. DOMAIN lt.cache = Space  BY <1>4 DEF Wiped
<1>12. Layered(lt)  BY <1>4, <1>5, <1>6, <1>8, <1>11 DEF Made, Layered
<1>13. RecordsLive(lt)
  <2> SUFFICES ASSUME NEW e \in DOMAIN lt.events, Kept(lt.events[e])
               PROVE  lt.records[lt.events[e].memory].status = "active"
    BY DEF RecordsLive
  <2>1. lt.records = rec /\ lt.events = ev  BY <1>4 DEF Made
  <2>2. e \in DOMAIN ls.events /\ e \notin es /\ Kept(ls.events[e]) /\ ev[e].memory = ls.events[e].memory
    BY <2>1, <1>5 DEF Kept
  <2>3. ls.events[e].memory \notin ms  BY <2>2, <1>9
  <2>4. ls.records[ls.events[e].memory].status = "active"  BY <2>2 DEF RecordsLive
  <2> QED BY <2>1, <2>2, <2>3, <2>4, <1>7, <1>10
<1>14. \A i \in DOMAIN ls.insights :
         Kept(ins[i]) <=> Kept(ls.insights[i]) /\ ls.insights[i].from \cap es = {}
  BY <1>6 DEF DerivedFrom, Kept
<1>15. Shrinks(ls, lt, es)  BY <1>4, <1>5, <1>6, <1>12, <1>13, <1>14 DEF Made, Shrinks
<1>16. \A i \in DOMAIN ls.insights :
         Kept(ls.insights[i]) /\ ls.insights[i].owner \notin owners => ls.insights[i].from \cap es = {}
  <2> SUFFICES ASSUME NEW i \in DOMAIN ls.insights, Kept(ls.insights[i]),
                      NEW e \in ls.insights[i].from, e \in es
               PROVE  ls.insights[i].owner \in owners
    OBVIOUS
  <2>1. Owner[ls.events[e].memory] = ls.insights[i].owner  BY DEF InsightsRest, Known
  <2>2. ls.events[e].memory \in ms  BY <1>9
  <2> QED BY <2>1, <2>2 DEF owners
<1>17. Touches(ls, lt, owners)
  <2>1. lt.records = rec /\ lt.insights = ins  BY <1>4 DEF Made
  <2>2. \A m \in Memory : Owner[m] \notin owners => m \notin ms  BY DEF owners
  <2>3. \A m \in Memory : Owner[m] \notin owners => lt.records[m] = ls.records[m]  BY <2>1, <2>2, <1>7
  <2>4. \A i : HeldOfOthers(ls, i, owners) <=> HeldOfOthers(lt, i, owners)
    BY <2>1, <1>6, <1>14, <1>16 DEF HeldOfOthers
  <2>5. \A i : HeldOfOthers(ls, i, owners) => lt.insights[i].owner = ls.insights[i].owner
    BY <2>1, <1>6 DEF HeldOfOthers
  <2> QED BY <2>3, <2>4, <2>5 DEF Touches
<1> QED BY <1>4, <1>15, <1>17 DEF lt, es, owners

\* One after the other.
LEMMA ShrinksTwice ==
  ASSUME NEW ls, NEW lt, NEW lu, NEW ds, NEW es, Shrinks(ls, lt, ds), Shrinks(lt, lu, es)
  PROVE  Shrinks(ls, lu, ds \cup es)
<1>1. Layered(lu) /\ RecordsLive(lu)  BY DEF Shrinks
<1>2. DOMAIN lu.events = DOMAIN ls.events /\ DOMAIN lu.insights = DOMAIN ls.insights  BY DEF Shrinks
<1>3. \A e \in DOMAIN ls.events :
       /\ lu.events[e].memory = ls.events[e].memory
       /\ lu.events[e].state = IF e \in ds \cup es THEN "gone" ELSE ls.events[e].state
  BY DEF Shrinks
<1>4. \A i \in DOMAIN ls.insights :
       /\ lu.insights[i].owner = ls.insights[i].owner /\ lu.insights[i].from = ls.insights[i].from
       /\ Kept(lu.insights[i]) => Kept(ls.insights[i]) /\ ls.insights[i].from \cap (ds \cup es) = {}
  BY DEF Shrinks
<1> QED BY <1>1, <1>2, <1>3, <1>4 DEF Shrinks

\* What is left still rests on events of its owner's.
LEMMA ShrunkRests ==
  ASSUME NEW ls, NEW lt, NEW es, Shrinks(ls, lt, es), NEW over, InsightsRest(ls, over),
         NEW ov2, over \subseteq ov2
  PROVE  InsightsRest(lt, ov2)
<1> SUFFICES ASSUME NEW i \in DOMAIN lt.insights, Kept(lt.insights[i]), NEW e \in lt.insights[i].from
             PROVE  e \in Known(lt, ov2, lt.insights[i].owner)
  BY DEF InsightsRest
<1>1. /\ i \in DOMAIN ls.insights /\ Kept(ls.insights[i]) /\ e \in ls.insights[i].from /\ e \notin es
      /\ lt.insights[i].owner = ls.insights[i].owner
  BY DEF Shrinks
<1>2. e \in Known(ls, over, ls.insights[i].owner)  BY <1>1 DEF InsightsRest
<1>3. e \in DOMAIN lt.events /\ lt.events[e].memory = ls.events[e].memory
      /\ lt.events[e].state = ls.events[e].state
  BY <1>1, <1>2 DEF Shrinks, Known
<1> QED BY <1>1, <1>2, <1>3 DEF Known, KnownEvent, Kept

(***************************************************************************)
(* Jobs.                                                                   *)
(***************************************************************************)

\* What the jobs rest on goes on: events keep their memory, what was known stays known, and an
\* insight gains events of its owner's only.
GoesOn(ls, over, lt, ov2) ==
  /\ \A e \in DOMAIN ls.events :
       /\ e \in DOMAIN lt.events /\ lt.events[e].memory = ls.events[e].memory
       /\ InQueue(lt, e) => InQueue(ls, e)
       /\ KnownEvent(ls, over, e) => KnownEvent(lt, ov2, e)
  /\ \A i \in DOMAIN ls.insights :
       /\ i \in DOMAIN lt.insights /\ lt.insights[i].owner = ls.insights[i].owner
       /\ lt.insights[i].from \subseteq ls.insights[i].from \cup Known(lt, ov2, ls.insights[i].owner)

\* An event known to an owner's insights stays known.
LEMMA KnownStays ==
  ASSUME NEW ls, NEW over, NEW lt, NEW ov2, GoesOn(ls, over, lt, ov2), NEW o
  PROVE  Known(ls, over, o) \subseteq Known(lt, ov2, o)
BY DEF GoesOn, Known

\* A sequence of elements of a larger set.
LEMMA WiderSeq ==
  ASSUME NEW S, NEW T, S \subseteq T, NEW s \in Seq(S)
  PROVE  s \in Seq(T)
<1>1. s \in [1 .. Len(s) -> T] /\ Len(s) \in Nat  OBVIOUS
<1> QED BY <1>1

\* What a job holds is as good after a step of another.
LEMMA JobStays ==
  ASSUME NEW ls, NEW over, NEW lt, NEW ov2, GoesOn(ls, over, lt, ov2), NEW x, JobRests(x, ls, over)
  PROVE  JobRests(x, lt, ov2)
<1>1. DOMAIN ls.events \subseteq DOMAIN lt.events  BY DEF GoesOn
<1>2. BatchIsHeld(x, ls) => BatchIsHeld(x, lt)
  <2> SUFFICES ASSUME BatchIsHeld(x, ls) PROVE BatchIsHeld(x, lt)  OBVIOUS
  <2>1. x.batch \in Seq(DOMAIN ls.events) /\ x.own \subseteq DOMAIN ls.events  BY DEF BatchIsHeld
  <2>2. x.batch \in Seq(DOMAIN lt.events)  BY <1>1, <2>1, WiderSeq
  <2>3. \A e \in x.own : InQueue(lt, e) => InQueue(ls, e)  BY <2>1 DEF GoesOn
  <2> QED BY <1>1, <2>1, <2>2, <2>3 DEF BatchIsHeld
<1>3. KnownEvent(ls, over, x.event) => KnownEvent(lt, ov2, x.event)  BY DEF GoesOn, KnownEvent
<1>4. FoundRests(x, ls, over) => FoundRests(x, lt, ov2)
  <2>1. \A o : Known(ls, over, o) \subseteq Known(lt, ov2, o)  BY KnownStays
  <2>2. \A new : InsightRests(new, ls, over) => InsightRests(new, lt, ov2)  BY <2>1 DEF InsightRests
  <2> QED BY <2>2 DEF FoundRests
<1>5. \A g : GroupRests(g, ls, over) => GroupRests(g, lt, ov2)
  <2> SUFFICES ASSUME NEW g, GroupRests(g, ls, over) PROVE GroupRests(g, lt, ov2)  OBVIOUS
  <2>1. PICK o \in Owners : \A i \in g :
          /\ i \in DOMAIN ls.insights /\ ls.insights[i].owner = o
          /\ ls.insights[i].from \subseteq Known(ls, over, o)
    BY DEF GroupRests
  <2>2. Known(ls, over, o) \subseteq Known(lt, ov2, o)  BY KnownStays
  <2>3. \A i \in g :
          /\ i \in DOMAIN lt.insights /\ lt.insights[i].owner = o
          /\ lt.insights[i].from \subseteq Known(lt, ov2, o)
    BY <2>1, <2>2 DEF GoesOn
  <2> QED BY <2>3 DEF GroupRests
<1> QED BY <1>2, <1>3, <1>4, <1>5 DEF JobRests

\* Forgetting is such a step, once what it took is counted as overtaken.
LEMMA ShrunkGoesOn ==
  ASSUME NEW ls, NEW over, NEW lt, NEW es, Shrinks(ls, lt, es), NEW ov2, over \subseteq ov2,
         {e \in DOMAIN ls.events : Kept(ls.events[e]) /\ ~Kept(lt.events[e])} \subseteq ov2
  PROVE  GoesOn(ls, over, lt, ov2)
<1>1. \A e \in DOMAIN ls.events :
        /\ e \in DOMAIN lt.events /\ lt.events[e].memory = ls.events[e].memory
        /\ InQueue(lt, e) => InQueue(ls, e)
        /\ KnownEvent(ls, over, e) => KnownEvent(lt, ov2, e)
  BY DEF Shrinks, InQueue, KnownEvent
<1>2. \A i \in DOMAIN ls.insights :
        /\ i \in DOMAIN lt.insights /\ lt.insights[i].owner = ls.insights[i].owner
        /\ lt.insights[i].from = ls.insights[i].from
  BY DEF Shrinks
<1> QED BY <1>1, <1>2 DEF GoesOn

\* What an ingest has not announced yet depends on the owners of its events alone.
LEMMA UnannouncedSame ==
  ASSUME JobsRest(layers, overtaken),
         \A e \in DOMAIN layers.events : layers'.events[e].memory = layers.events[e].memory,
         \A j \in Ingester : /\ jobs'[j].at = "resting" <=> jobs[j].at = "resting"
                             /\ jobs[j].at # "resting" => jobs'[j].own = jobs[j].own
  PROVE  Unannounced' = Unannounced
<1> DEFINE tells(j, s) == jobs[j].at # "resting" /\ \E e \in jobs[j].own : Visible(OwnerOf(e), s)
           tellsNext(j, s) ==
             jobs'[j].at # "resting" /\ \E e \in jobs'[j].own : Visible(Owner[layers'.events[e].memory], s)
<1>1. ASSUME NEW j \in Ingester, NEW s PROVE tells(j, s) <=> tellsNext(j, s)
  <2>1. CASE jobs[j].at = "resting"  BY <2>1, <1>1
  <2>2. CASE jobs[j].at # "resting"
    <3>1. JobRests(jobs[j], layers, overtaken) /\ ~IsAt(jobs[j], {"merging"})
      BY <1>1 DEF JobsRest, Job
    <3>2. BatchIsHeld(jobs[j], layers)  BY <3>1, <2>2 DEF JobRests, IsAt, AtWork
    <3>3. \A e \in jobs[j].own : layers'.events[e].memory = layers.events[e].memory  BY <3>2 DEF BatchIsHeld
    <3>4. \A e \in jobs[j].own : OwnerOf(e) = Owner[layers'.events[e].memory]  BY <3>3 DEF OwnerOf, MemoryOf
    <3>5. jobs'[j].own = jobs[j].own /\ jobs'[j].at # "resting"  BY <1>1, <2>2
    <3> QED BY <3>4, <3>5, <2>2
  <2> QED BY <2>1, <2>2
<1>2. Unannounced = {s \in Space : \E j \in Ingester : tells(j, s)}  BY DEF Unannounced
<1>3. Unannounced' = {s \in Space : \E j \in Ingester : tellsNext(j, s)}
  BY DEF Unannounced, OwnerOf, MemoryOf
<1> HIDE DEF tells, tellsNext
<1> QED BY <1>1, <1>2, <1>3

\* A call that forgets something.
LEMMA ForgettingKeeps ==
  ASSUME DualInv, NEW es, Shrinks(layers, layers', es), Forgets,
         jobs' = jobs, aging' = aging, Fresh(layers', Unannounced \cup spoilt')
  PROVE  DualInv'
<1> DEFINE gone == {e \in DOMAIN layers.events : Kept(layers.events[e]) /\ ~Kept(layers'.events[e])}
<1>1. /\ Layered(layers) /\ RecordsLive(layers) /\ InsightsRest(layers, overtaken)
      /\ queue \in Seq(DOMAIN layers.events) /\ aging \subseteq Memory /\ JobsRest(layers, overtaken)
  BY DEF DualInv
<1>2. overtaken' = IF \A j \in Job : jobs[j].at = "resting" THEN overtaken ELSE overtaken \cup gone
  BY DEF Forgets
<1>3. overtaken \subseteq overtaken'
  <2> HIDE DEF gone
  <2> QED BY <1>2
<1>4. Layered(layers') /\ RecordsLive(layers')  BY DEF Shrinks
<1>5. InsightsRest(layers', overtaken')  BY <1>1, <1>3, ShrunkRests
<1>6. queue' \in Seq(DOMAIN layers'.events)
  <2>1. queue' = Among(queue, {e \in DOMAIN layers'.events : Kept(layers'.events[e])})
    BY DEF Forgets, StillQueued
  <2>2. \A keep : Among(queue, keep) \in Seq(DOMAIN layers.events)  BY <1>1, AmongIs DEF Picked
  <2>3. DOMAIN layers'.events = DOMAIN layers.events  BY DEF Shrinks
  <2> QED BY <2>1, <2>2, <2>3
<1>7. \A j \in Job : JobRests(jobs[j], layers', overtaken')
  <2>1. CASE \A j \in Job : jobs[j].at = "resting"
    BY <2>1 DEF JobRests, IsAt, AtWork, AtEvent
  <2>2. CASE ~\A j \in Job : jobs[j].at = "resting"
    <3>1. gone \subseteq overtaken'
      <4> HIDE DEF gone
      <4> QED BY <1>2, <2>2
    <3>2. GoesOn(layers, overtaken, layers', overtaken')  BY <1>3, <3>1, ShrunkGoesOn
    <3>3. \A j \in Job : JobRests(jobs[j], layers, overtaken)  BY <1>1 DEF JobsRest
    <3> QED BY <3>2, <3>3, JobStays
  <2> QED BY <2>1, <2>2
<1>8. Unannounced' = Unannounced
  <2>1. \A e \in DOMAIN layers.events : layers'.events[e].memory = layers.events[e].memory  BY DEF Shrinks
  <2> QED BY <2>1, <1>1, UnannouncedSame
<1>9. JobsRest(layers, overtaken)'  BY <1>1, <1>7 DEF JobsRest
<1> QED BY <1>1, <1>4, <1>5, <1>6, <1>8, <1>9 DEF DualInv

\* The pruning that every call begins with, on its own.
Pruned(ls, p, over, except) ==
  /\ \E es : Shrinks(ls, p, es)
  /\ Layered(p) /\ RecordsLive(p) /\ InsightsRest(p, over) /\ Fresh(p, except)

\* Pruning keeps every part of the invariant.
LEMMA PruneIs ==
  ASSUME DualInv
  PROVE  Pruned(layers, PruneExpired, overtaken, Unannounced \cup spoilt)
<1> DEFINE es == UNION {EventsOf(layers, m) : m \in Expired}
           owners == {Owner[m] : m \in Expired}
<1>1. /\ Layered(layers) /\ RecordsLive(layers) /\ InsightsRest(layers, overtaken)
      /\ Expired \in SUBSET Memory /\ Fresh(layers, Unannounced \cup spoilt)
  BY DEF DualInv, Expired
<1>2. /\ Shrinks(layers, PruneExpired, es) /\ Touches(layers, PruneExpired, owners)
      /\ Wiped(layers, PruneExpired, owners)
  BY <1>1, ForgetIs DEF PruneExpired
<1> HIDE DEF es, owners
<1>3. Fresh(PruneExpired, Unannounced \cup spoilt)  BY <1>1, <1>2, FreshStays
<1>4. InsightsRest(PruneExpired, overtaken)  BY <1>1, <1>2, ShrunkRests
<1>5. Layered(PruneExpired) /\ RecordsLive(PruneExpired)  BY <1>2 DEF Shrinks
<1> QED BY <1>2, <1>3, <1>4, <1>5 DEF Pruned

\* Other caches, the same maps.
LEMMA ShrinksToItself ==
  ASSUME NEW p, Layered(p), RecordsLive(p), NEW lt, Made(lt, p.records, p.events, p.insights),
         DOMAIN lt.cache = Space
  PROVE  Shrinks(p, lt, {})
<1>1. Layered(lt) /\ RecordsLive(lt)  BY DEF Layered, RecordsLive, Made
<1>2. lt.events = p.events /\ lt.insights = p.insights  BY DEF Made
<1> QED BY <1>1, <1>2 DEF Shrinks

\* What a call does after pruning: one step more of the same kind.
LEMMA ForgettingStep ==
  ASSUME DualInv, NEW p, Pruned(layers, p, overtaken, Unannounced \cup spoilt),
         NEW es, Shrinks(p, layers', es), Forgets, jobs' = jobs, aging' = aging,
         Fresh(layers', Unannounced \cup spoilt')
  PROVE  DualInv'
<1>1. PICK ds : Shrinks(layers, p, ds)  BY DEF Pruned
<1>2. Shrinks(layers, layers', ds \cup es)  BY <1>1, ShrinksTwice
<1> QED BY <1>2, ForgettingKeeps

\* search(): an answer is cached as it is found.
LEMMA SearchKeeps ==
  ASSUME DualInv, NEW s \in Space, Search(s)
  PROVE  DualInv'
<1> DEFINE except == Unannounced \cup spoilt
<1>1. PICK p : p = PruneExpired  OBVIOUS
<1>2. Pruned(layers, p, overtaken, except)  BY <1>1, PruneIs
<1>3. /\ layers' = IF Cached(p.cache[s]) THEN p
                   ELSE [p EXCEPT !.cache[s] = [at |-> "cached", hits |-> Found(p, s)]]
      /\ Forgets /\ jobs' = jobs /\ aging' = aging
      /\ spoilt' = IF Cached(p.cache[s]) THEN spoilt ELSE spoilt \ {s}
  BY <1>1 DEF Search
<1>4. Layered(p) /\ RecordsLive(p) /\ Fresh(p, except)  BY <1>2 DEF Pruned
<1>5. DOMAIN p = LayerNames /\ DOMAIN p.cache = Space  BY <1>4 DEF Layered
<1>6. CASE Cached(p.cache[s])
  <2>1. layers' = p /\ spoilt' = spoilt  BY <1>3, <1>6
  <2>2. Shrinks(p, layers', {})
    <3>1. Made(p, p.records, p.events, p.insights)  BY <1>5 DEF Made
    <3> QED BY <2>1, <3>1, <1>4, <1>5, ShrinksToItself
  <2>3. Fresh(layers', Unannounced \cup spoilt')  BY <2>1, <1>4
  <2> QED BY <2>2, <2>3, <1>2, <1>3, ForgettingStep
<1>7. CASE ~Cached(p.cache[s])
  <2> DEFINE entry == [at |-> "cached", hits |-> Found(p, s)]
  <2>1. /\ Made(layers', p.records, p.events, p.insights)
        /\ layers'.cache = [p.cache EXCEPT ![s] = entry]
    <3> HIDE DEF entry
    <3>1. layers' = [p EXCEPT !.cache = [p.cache EXCEPT ![s] = entry]]  BY <1>3, <1>7 DEF entry
    <3> QED BY <3>1, <1>5 DEF Made, LayerNames
  <2>2. entry.hits = Found(p, s)  OBVIOUS
  <2> HIDE DEF entry
  <2>3. Shrinks(p, layers', {})  BY <2>1, <1>4, <1>5, ShrinksToItself
  <2>4. \A t : Found(layers', t) = Found(p, t)
    <3>1. layers'.records = p.records /\ layers'.insights = p.insights  BY <2>1 DEF Made
    <3> QED BY <3>1, FoundAlike
  <2>5. Fresh(layers', Unannounced \cup spoilt')
    <3> SUFFICES ASSUME NEW t \in Space \ (Unannounced \cup spoilt'), Cached(layers'.cache[t])
                 PROVE  layers'.cache[t].hits = Found(layers', t)
      BY DEF Fresh
    <3>1. CASE t = s  BY <3>1, <2>1, <2>2, <2>4, <1>5
    <3>2. CASE t # s
      <4>1. layers'.cache[t] = p.cache[t]  BY <3>2, <2>1, <1>5
      <4>2. t \in Space \ except  BY <3>2, <1>3, <1>7
      <4> QED BY <4>1, <4>2, <1>4, <2>4 DEF Fresh
    <3> QED BY <3>1, <3>2
  <2> QED BY <2>3, <2>5, <1>2, <1>3, ForgettingStep
<1> QED BY <1>6, <1>7

\* retire() of a record.
LEMMA RetireKeeps ==
  ASSUME DualInv, NEW m \in Memory, Retire(m)
  PROVE  DualInv'
<1> DEFINE except == Unannounced \cup spoilt  ms == {m}
<1>1. PICK p : p = PruneExpired  OBVIOUS
<1> DEFINE es == UNION {EventsOf(p, x) : x \in ms}  owners == {Owner[x] : x \in ms}
<1>2. Pruned(layers, p, overtaken, except)  BY <1>1, PruneIs
<1>3. layers' = Forget(p, ms, "deleted") /\ Forgets /\ jobs' = jobs /\ aging' = aging /\ spoilt' = spoilt
  BY <1>1 DEF Retire
<1>4. /\ Layered(p) /\ RecordsLive(p) /\ InsightsRest(p, overtaken) /\ Fresh(p, except)
      /\ ms \in SUBSET Memory
  BY <1>2 DEF Pruned
<1> HIDE DEF ms
<1>5. Shrinks(p, layers', es) /\ Touches(p, layers', owners) /\ Wiped(p, layers', owners)
  BY <1>3, <1>4, ForgetIs
<1> HIDE DEF es, owners
<1>6. Fresh(layers', except)  BY <1>4, <1>5, FreshStays
<1> QED BY <1>2, <1>3, <1>5, <1>6, ForgettingStep

\* retire() of an insight.
LEMMA RetireInsightKeeps ==
  ASSUME DualInv, NEW i \in DOMAIN layers.insights, RetireInsight(i)
  PROVE  DualInv'
<1> DEFINE except == Unannounced \cup spoilt
<1>1. PICK p : p = PruneExpired  OBVIOUS
<1> DEFINE ins == Without(p.insights, {i})
           mid == [p EXCEPT !.insights = ins]
           owners == {p.insights[i].owner}
<1>2. Pruned(layers, p, overtaken, except)  BY <1>1, PruneIs
<1>3. /\ layers' = InvalidateCacheForRecords(mid, owners)
      /\ Forgets /\ jobs' = jobs /\ aging' = aging /\ spoilt' = spoilt
  BY <1>1 DEF RetireInsight
<1>4. Layered(p) /\ RecordsLive(p) /\ Fresh(p, except)  BY <1>2 DEF Pruned
<1>5. /\ ins \in Seq(InsightEntry) /\ DOMAIN ins = DOMAIN p.insights
      /\ \A k \in DOMAIN p.insights :
           /\ ins[k].owner = p.insights[k].owner /\ ins[k].from = p.insights[k].from
           /\ ins[k].state = IF k \in {i} THEN "gone" ELSE p.insights[k].state
  <2>1. p.insights \in Seq(InsightEntry)  BY <1>4 DEF Layered
  <2> QED BY <2>1, InsightsWithout
<1> HIDE DEF ins
<1>6. DOMAIN p = LayerNames  BY <1>4 DEF Layered
<1>7. Made(mid, p.records, p.events, ins) /\ mid.cache = p.cache  BY <1>6 DEF Made, LayerNames
<1> HIDE DEF mid, owners
<1>8. Made(layers', p.records, p.events, ins) /\ Wiped(p, layers', owners)
  <2>1. DOMAIN mid = LayerNames  BY <1>7 DEF Made
  <2>2. Made(layers', mid.records, mid.events, mid.insights) /\ Wiped(mid, layers', owners)
    BY <1>3, <2>1, InvalidateIs
  <2> QED BY <2>2, <1>7 DEF Made, Wiped
<1>9. Shrinks(p, layers', {})
  <2>1. DOMAIN layers'.cache = Space  BY <1>8 DEF Wiped
  <2>2. Layered(layers') /\ RecordsLive(layers')
    BY <2>1, <1>4, <1>5, <1>8 DEF Made, Layered, RecordsLive
  <2>3. \A k \in DOMAIN p.insights : Kept(ins[k]) => Kept(p.insights[k])  BY <1>5 DEF Kept
  <2> QED BY <2>2, <2>3, <1>5, <1>8 DEF Shrinks, Made
<1>10. Touches(p, layers', owners)
  <2>1. layers'.records = p.records /\ layers'.insights = ins  BY <1>8 DEF Made
  <2>2. \A k : HeldOfOthers(p, k, owners) <=> HeldOfOthers(layers', k, owners)
    BY <2>1, <1>5 DEF HeldOfOthers, owners, Kept
  <2>3. \A k : HeldOfOthers(p, k, owners) => layers'.insights[k].owner = p.insights[k].owner
    BY <2>1, <1>5 DEF HeldOfOthers
  <2> QED BY <2>1, <2>2, <2>3 DEF Touches
<1>11. Fresh(layers', except)  BY <1>4, <1>8, <1>10, FreshStays
<1> QED BY <1>2, <1>3, <1>9, <1>11, ForgettingStep

\* applyFeedback(): only caches change.
LEMMA ApplyFeedbackKeeps ==
  ASSUME DualInv, NEW owner, ApplyFeedback(owner)
  PROVE  DualInv'
<1> DEFINE except == Unannounced \cup spoilt  owners == {owner}
<1>1. PICK p : p = PruneExpired  OBVIOUS
<1>2. Pruned(layers, p, overtaken, except)  BY <1>1, PruneIs
<1>3. /\ layers' = InvalidateCacheForRecords(p, owners)
      /\ Forgets /\ jobs' = jobs /\ aging' = aging /\ spoilt' = spoilt
  BY <1>1 DEF ApplyFeedback
<1>4. Layered(p) /\ RecordsLive(p) /\ Fresh(p, except)  BY <1>2 DEF Pruned
<1> HIDE DEF owners
<1>5. Made(layers', p.records, p.events, p.insights) /\ Wiped(p, layers', owners)
  BY <1>3, <1>4, InvalidateIs DEF Layered
<1>6. Shrinks(p, layers', {})
  <2>1. DOMAIN layers'.cache = Space  BY <1>5 DEF Wiped
  <2> QED BY <2>1, <1>4, <1>5, ShrinksToItself
<1>7. Touches(p, layers', owners)  BY <1>5 DEF Made, Touches, HeldOfOthers
<1>8. Fresh(layers', except)  BY <1>4, <1>5, <1>7, FreshStays
<1> QED BY <1>2, <1>3, <1>6, <1>8, ForgettingStep

\* compact(): every cache goes.
LEMMA CompactKeeps ==
  ASSUME DualInv, Compact
  PROVE  DualInv'
<1> DEFINE except == Unannounced \cup spoilt
<1>1. PICK p : p = PruneExpired  OBVIOUS
<1>2. Pruned(layers, p, overtaken, except)  BY <1>1, PruneIs
<1>3. /\ \E old, doubted :
           layers' = [RemoveEvents(p, old) EXCEPT
                        !.insights = Without(RemoveEvents(p, old).insights, doubted),
                        !.cache = [s \in Space |-> Uncached]]
      /\ Forgets /\ jobs' = jobs /\ aging' = aging
  BY <1>1 DEF Compact
<1>4. PICK old, doubted :
        layers' = [RemoveEvents(p, old) EXCEPT
                     !.insights = Without(RemoveEvents(p, old).insights, doubted),
                     !.cache = [s \in Space |-> Uncached]]
  BY <1>3
<1> DEFINE kept == RemoveEvents(p, old)
           ev == Without(p.events, old)
           ins == Without(p.insights, DerivedFrom(p, old))
           ins2 == Without(ins, doubted)
           none == [s \in Space |-> Uncached]
<1>5. Layered(p) /\ RecordsLive(p)  BY <1>2 DEF Pruned
<1>6. Made(kept, p.records, ev, ins)  BY <1>5, RemoveEventsIs
<1>7. Made(layers', p.records, ev, ins2) /\ layers'.cache = none
  <2>1. layers' = [kept EXCEPT !.insights = ins2, !.cache = none]  BY <1>4, <1>6 DEF Made
  <2> HIDE DEF kept, ev, ins2, none, ins
  <2> QED BY <2>1, <1>6 DEF Made, LayerNames
<1>8. /\ ev \in Seq(Event) /\ DOMAIN ev = DOMAIN p.events
      /\ \A e \in DOMAIN p.events : /\ ev[e].memory = p.events[e].memory
                                    /\ ev[e].state = IF e \in old THEN "gone" ELSE p.events[e].state
  <2>1. p.events \in Seq(Event)  BY <1>5 DEF Layered
  <2> QED BY <2>1, EventsWithout
<1>9. /\ ins \in Seq(InsightEntry) /\ DOMAIN ins = DOMAIN p.insights
      /\ \A i \in DOMAIN p.insights :
           /\ ins[i].owner = p.insights[i].owner /\ ins[i].from = p.insights[i].from
           /\ ins[i].state = IF i \in DerivedFrom(p, old) THEN "gone" ELSE p.insights[i].state
  <2>1. p.insights \in Seq(InsightEntry)  BY <1>5 DEF Layered
  <2> QED BY <2>1, InsightsWithout
<1> HIDE DEF ins, ev
<1>10. /\ ins2 \in Seq(InsightEntry) /\ DOMAIN ins2 = DOMAIN p.insights
       /\ \A i \in DOMAIN p.insights :
            /\ ins2[i].owner = p.insights[i].owner /\ ins2[i].from = p.insights[i].from
            /\ Kept(ins2[i]) => Kept(p.insights[i]) /\ p.insights[i].from \cap old = {}
  <2>1. /\ ins2 \in Seq(InsightEntry) /\ DOMAIN ins2 = DOMAIN ins
        /\ \A i \in DOMAIN ins : /\ ins2[i].owner = ins[i].owner /\ ins2[i].from = ins[i].from
                                 /\ ins2[i].state = IF i \in doubted THEN "gone" ELSE ins[i].state
    BY <1>9, InsightsWithout
  <2> HIDE DEF ins2
  <2>2. \A i \in DOMAIN p.insights : Kept(ins2[i]) => Kept(p.insights[i]) /\ p.insights[i].from \cap old = {}
    BY <2>1, <1>9 DEF Kept, DerivedFrom
  <2> QED BY <2>1, <2>2, <1>9
<1> HIDE DEF ins2
<1>11. DOMAIN layers'.cache = Space  BY <1>7
<1>12. Layered(layers')  BY <1>5, <1>7, <1>8, <1>10, <1>11 DEF Made, Layered
<1>13. RecordsLive(layers')
  BY <1>5, <1>7, <1>8 DEF Made, RecordsLive, Kept
<1>14. Shrinks(p, layers', old)
  BY <1>7, <1>8, <1>10, <1>12, <1>13 DEF Made, Shrinks
<1>15. Fresh(layers', Unannounced \cup spoilt')
  <2>1. \A s \in Space : layers'.cache[s] = Uncached  BY <1>7
  <2> QED BY <2>1 DEF Fresh, Cached, Uncached
<1> QED BY <1>2, <1>3, <1>14, <1>15, ForgettingStep

(***************************************************************************)
(* The steps that forget nothing.                                          *)
(***************************************************************************)
\* Maps that stay go on.
LEMMA GoesOnItself == ASSUME NEW ls, NEW over PROVE GoesOn(ls, over, ls, over)
BY DEF GoesOn

\* One job moves, and the maps go on.
LEMMA StepKeeps ==
  ASSUME DualInv, NEW j \in Job, NEW x, jobs' = [jobs EXCEPT ![j] = x],
         JobRests(x, layers', overtaken), j \in Ingester => ~IsAt(x, {"merging"}),
         GoesOn(layers, overtaken, layers', overtaken), overtaken' = overtaken,
         Layered(layers'), RecordsLive(layers'), InsightsRest(layers', overtaken),
         queue' \in Seq(DOMAIN layers'.events), aging' \subseteq Memory,
         Fresh(layers', Unannounced' \cup spoilt')
  PROVE  DualInv'
<1>1. JobsRest(layers, overtaken)  BY DEF DualInv
<1>2. DOMAIN jobs = Job /\ \A k \in Job : JobRests(jobs[k], layers, overtaken)  BY <1>1 DEF JobsRest
<1>3. DOMAIN jobs' = Job /\ jobs'[j] = x /\ \A k \in Job : k # j => jobs'[k] = jobs[k]  BY <1>2
<1>4. \A k \in Job : JobRests(jobs'[k], layers', overtaken)
  <2>1. \A k \in Job : JobRests(jobs[k], layers', overtaken)  BY <1>2, JobStays
  <2> QED BY <2>1, <1>3
<1>5. \A k \in Ingester : ~IsAt(jobs'[k], {"merging"})
  <2>1. \A k \in Ingester : k \in Job /\ ~IsAt(jobs[k], {"merging"})  BY <1>1 DEF JobsRest, Job
  <2> QED BY <2>1, <1>3
<1>6. JobsRest(layers, overtaken)'  BY <1>3, <1>4, <1>5 DEF JobsRest
<1> QED BY <1>6 DEF DualInv

\* One job moves, and the maps stay.
LEMMA QuietKeeps ==
  ASSUME DualInv, NEW j \in Job, NEW x, jobs' = [jobs EXCEPT ![j] = x],
         JobRests(x, layers, overtaken), ~IsAt(x, {"merging"}),
         j \in Ingester => /\ x.at = "resting" <=> jobs[j].at = "resting"
                           /\ jobs[j].at # "resting" => x.own = jobs[j].own,
         layers' = layers, overtaken' = overtaken, spoilt' = spoilt,
         queue' \in Seq(DOMAIN layers.events), aging' \subseteq Memory
  PROVE  DualInv'
<1>1. JobsRest(layers, overtaken) /\ Layered(layers) /\ RecordsLive(layers) /\ InsightsRest(layers, overtaken)
      /\ Fresh(layers, Unannounced \cup spoilt)
  BY DEF DualInv
<1>2. \A k \in Ingester : /\ jobs'[k].at = "resting" <=> jobs[k].at = "resting"
                          /\ jobs[k].at # "resting" => jobs'[k].own = jobs[k].own
  BY <1>1 DEF JobsRest, Job
<1>3. Unannounced' = Unannounced  BY <1>1, <1>2, UnannouncedSame
<1> QED BY <1>1, <1>3, GoesOnItself, StepKeeps

\* Nothing of the jobs changes.
LEMMA MapsStep ==
  ASSUME DualInv, jobs' = jobs, GoesOn(layers, overtaken, layers', overtaken), overtaken' = overtaken,
         Layered(layers'), RecordsLive(layers'), InsightsRest(layers', overtaken),
         queue' \in Seq(DOMAIN layers'.events), aging' \subseteq Memory,
         Fresh(layers', Unannounced \cup spoilt')
  PROVE  DualInv'
<1>1. JobsRest(layers, overtaken)  BY DEF DualInv
<1>2. \A e \in DOMAIN layers.events : layers'.events[e].memory = layers.events[e].memory  BY DEF GoesOn
<1>3. Unannounced' = Unannounced  BY <1>1, <1>2, UnannouncedSame
<1>4. \A k \in Job : JobRests(jobs[k], layers', overtaken)  BY <1>1, JobStays DEF JobsRest
<1>5. JobsRest(layers, overtaken)'  BY <1>1, <1>4 DEF JobsRest
<1> QED BY <1>3, <1>5 DEF DualInv

\* The head and the rest of a batch.
LEMMA HeadAndTail ==
  ASSUME NEW S, NEW s \in Seq(S), s # <<>>
  PROVE  /\ Head(s) \in S /\ Tail(s) \in Seq(S) /\ Len(s) \in Nat \ {0} /\ Len(Tail(s)) = Len(s) - 1
         /\ Head(s) = s[1] /\ \A k \in 1 .. Len(Tail(s)) : Tail(s)[k] = s[k + 1]
         /\ ToSet(s) \subseteq {Head(s)} \cup ToSet(Tail(s))
<1>1. Head(s) \in S /\ Tail(s) \in Seq(S) /\ Len(s) \in Nat \ {0} /\ Len(Tail(s)) = Len(s) - 1
  OBVIOUS
<1>2. Head(s) = s[1] /\ \A k \in 1 .. Len(Tail(s)) : Tail(s)[k] = s[k + 1]
  OBVIOUS
<1>3. ToSet(s) \subseteq {Head(s)} \cup ToSet(Tail(s))
  <2> SUFFICES ASSUME NEW k \in 1 .. Len(s), k # 1 PROVE s[k] \in ToSet(Tail(s))
    <3>1. DOMAIN s = 1 .. Len(s)  OBVIOUS
    <3> QED BY <3>1, <1>2 DEF ToSet
  <2>1. k - 1 \in 1 .. Len(Tail(s)) /\ (k - 1) + 1 = k  BY <1>1
  <2>2. Tail(s)[k - 1] = s[k]  BY <2>1, <1>2
  <2>3. DOMAIN Tail(s) = 1 .. Len(Tail(s))  BY <1>1
  <2> QED BY <2>1, <2>2, <2>3 DEF ToSet
<1> QED BY <1>1, <1>2, <1>3

\* An event leaves the batch when it is taken, or when it needs nothing any more.
LEMMA NextEventKeeps ==
  ASSUME DualInv, NEW j \in Job, NextEvent(j)
  PROVE  DualInv'
<1> DEFINE y == jobs[j]  e == Head(y.batch)
           taken == [at |-> "facts", batch |-> Tail(y.batch), own |-> y.own, event |-> e]
           skipped == [at |-> "draining", batch |-> Tail(y.batch), own |-> y.own]
           x == IF Live(e) THEN taken ELSE skipped
<1>1. /\ y.at = "draining" /\ y.batch # <<>> /\ jobs' = [jobs EXCEPT ![j] = x]
      /\ layers' = layers /\ queue' = queue /\ aging' = aging /\ spoilt' = spoilt /\ overtaken' = overtaken
  BY DEF NextEvent
<1>2. queue \in Seq(DOMAIN layers.events) /\ aging \subseteq Memory /\ JobRests(y, layers, overtaken)
  BY DEF DualInv, JobsRest
<1>3. BatchIsHeld(y, layers) /\ ~IsAt(y, AtEvent)
  BY <1>1, <1>2 DEF JobRests, IsAt, AtWork, AtEvent
<1>4. /\ y.batch \in Seq(DOMAIN layers.events) /\ y.own \subseteq DOMAIN layers.events
      /\ \A d \in y.own : InQueue(layers, d) => d \in ToSet(y.batch)
  BY <1>3 DEF BatchIsHeld
<1>5. /\ e \in DOMAIN layers.events /\ Tail(y.batch) \in Seq(DOMAIN layers.events)
      /\ ToSet(y.batch) \subseteq {e} \cup ToSet(Tail(y.batch))
  BY <1>1, <1>4, HeadAndTail
<1>6. CASE Live(e)
  <2>1. x = taken  BY <1>6
  <2>2. x.at = "facts" /\ x.batch = Tail(y.batch) /\ x.own = y.own /\ x.event = e  BY <2>1
  <2> HIDE DEF x, e, y
  <2>3. BatchIsHeld(x, layers)  BY <2>2, <1>4, <1>5 DEF BatchIsHeld, IsAt, AtEvent
  <2>4. KnownEvent(layers, overtaken, e)  BY <1>5, <1>6 DEF KnownEvent, Live, Kept
  <2>5. JobRests(x, layers, overtaken) /\ ~IsAt(x, {"merging"})
    BY <2>2, <2>3, <2>4 DEF JobRests, IsAt, AtWork, AtEvent
  <2> QED BY <2>2, <2>5, <1>1, <1>2, QuietKeeps DEF y
<1>7. CASE ~Live(e)
  <2>1. x = skipped  BY <1>7
  <2>2. x.at = "draining" /\ x.batch = Tail(y.batch) /\ x.own = y.own  BY <2>1
  <2> HIDE DEF x, e, y
  <2>3. ~InQueue(layers, e)  BY <1>7 DEF Live, InQueue
  <2>4. BatchIsHeld(x, layers)  BY <2>2, <2>3, <1>4, <1>5 DEF BatchIsHeld
  <2>5. JobRests(x, layers, overtaken) /\ ~IsAt(x, {"merging"})
    BY <2>2, <2>4 DEF JobRests, IsAt, AtWork, AtEvent
  <2> QED BY <2>2, <2>5, <1>1, <1>2, QuietKeeps DEF y
<1> QED BY <1>6, <1>7

\* An insight of known events of its memory's owner.
LEMMA InsightIs ==
  ASSUME NEW m \in Memory, NEW topic \in Topics, NEW from \in SUBSET Nat, NEW ls, NEW over,
         from \subseteq Known(ls, over, Owner[m])
  PROVE  Insight(m, topic, from) \in InsightEntry /\ InsightRests(Insight(m, topic, from), ls, over)
BY DEF Insight, InsightEntry, Owners, InsightRests

\* A strategy's findings are put down, and each rests on known events.
LEMMA ApplyStrategyKeeps ==
  ASSUME DualInv, NEW j \in Job, NEW at \in {"facts", "summary"}, NEW found, NEW next,
         ApplyStrategy(j, at, found, next), found \in Seq(InsightEntry),
         \A k \in 1 .. Len(found) : InsightRests(found[k], layers, overtaken)
  PROVE  DualInv'
<1> DEFINE y == jobs[j]
           x == [at |-> "storing", batch |-> y.batch, own |-> y.own, event |-> y.event,
                 found |-> found, next |-> next]
<1>1. /\ y.at = at /\ jobs' = [jobs EXCEPT ![j] = x]
      /\ layers' = layers /\ queue' = queue /\ aging' = aging /\ spoilt' = spoilt /\ overtaken' = overtaken
  BY DEF ApplyStrategy
<1>2. queue \in Seq(DOMAIN layers.events) /\ aging \subseteq Memory /\ JobRests(y, layers, overtaken)
  BY DEF DualInv, JobsRest
<1>3. BatchIsHeld(y, layers) /\ KnownEvent(layers, overtaken, y.event)
  BY <1>1, <1>2 DEF JobRests, IsAt, AtWork, AtEvent
<1>4. /\ x.at = "storing" /\ x.batch = y.batch /\ x.own = y.own /\ x.event = y.event /\ x.found = found
      /\ DOMAIN x = {"at", "batch", "own", "event", "found", "next"}
  OBVIOUS
<1> HIDE DEF x, y
<1>5. BatchIsHeld(x, layers)  BY <1>3, <1>4 DEF BatchIsHeld, IsAt, AtEvent
<1>6. FoundRests(x, layers, overtaken)  BY <1>4 DEF FoundRests
<1>7. JobRests(x, layers, overtaken) /\ ~IsAt(x, {"merging"})
  BY <1>3, <1>4, <1>5, <1>6 DEF JobRests, IsAt, AtWork, AtEvent
<1> QED BY <1>1, <1>2, <1>4, <1>7, QuietKeeps DEF y

\* The facts of an event rest on it.
LEMMA ExtractFactsKeeps ==
  ASSUME DualAssumption, DualInv, NEW j \in Job, ExtractFacts(j)
  PROVE  DualInv'
<1> DEFINE e == jobs[j].event  m == MemoryOf(e)  found == ExtractedFacts(e)
<1>1. jobs[j].at = "facts" /\ ApplyStrategy(j, "facts", found, "summary")  BY DEF ExtractFacts
<1>2. JobRests(jobs[j], layers, overtaken) /\ Layered(layers)  BY DEF DualInv, JobsRest
<1>3. KnownEvent(layers, overtaken, e)  BY <1>1, <1>2 DEF JobRests, IsAt, AtEvent
<1>4. e \in DOMAIN layers.events /\ e \in Nat /\ m \in Memory
  BY <1>2, <1>3, EventIs DEF KnownEvent, MemoryOf
<1>5. {e} \in SUBSET Nat /\ {e} \subseteq Known(layers, overtaken, Owner[m])
  BY <1>3, <1>4 DEF Known, MemoryOf
<1> DEFINE facts == FactsOf[m]
<1>6. facts \in Seq(ToSet(facts)) /\ \A n \in DOMAIN facts : facts[n] \in Topics
  <2>1. FactsOf[m] \in Seq(ToSet(FactsOf[m]))  BY <1>4 DEF DualAssumption
  <2>2. \A n \in DOMAIN FactsOf[m] : FactsOf[m][n] \in ToSet(FactsOf[m])  BY DEF ToSet
  <2> QED BY <2>1, <2>2, <1>4 DEF Topics
<1>7. found = [n \in DOMAIN facts |-> Insight(m, facts[n], {e})]  BY DEF ExtractedFacts
<1> HIDE DEF e, m, found, facts
<1>8. \A n \in DOMAIN facts : /\ Insight(m, facts[n], {e}) \in InsightEntry
                              /\ InsightRests(Insight(m, facts[n], {e}), layers, overtaken)
  BY <1>4, <1>5, <1>6, InsightIs
<1>9. DOMAIN facts = 1 .. Len(facts) /\ Len(facts) \in Nat  BY <1>6
<1>10. found \in Seq(InsightEntry) /\ Len(found) = Len(facts)
  <2> DEFINE put(n) == Insight(m, facts[n], {e})
  <2>1. found = [n \in 1 .. Len(facts) |-> put(n)] /\ \A n \in 1 .. Len(facts) : put(n) \in InsightEntry
    BY <1>7, <1>8, <1>9
  <2> HIDE DEF put
  <2> QED BY <2>1, <1>9
<1>11. \A k \in 1 .. Len(found) : InsightRests(found[k], layers, overtaken)  BY <1>7, <1>8, <1>9, <1>10
<1> QED BY <1>1, <1>10, <1>11, ApplyStrategyKeeps

\* A summary rests on the events of its session that are kept.
LEMMA CreateSessionSummaryKeeps ==
  ASSUME DualInv, NEW j \in Job, CreateSessionSummary(j)
  PROVE  DualInv'
<1> DEFINE e == jobs[j].event  m == MemoryOf(e)  from == SessionEvents(e)  new == Insight(m, "summary", from)
<1>1. jobs[j].at = "summary" /\ ApplyStrategy(j, "summary", SessionSummary(e), "processed")
  BY DEF CreateSessionSummary
<1>2. JobRests(jobs[j], layers, overtaken) /\ Layered(layers)  BY DEF DualInv, JobsRest
<1>3. KnownEvent(layers, overtaken, e)  BY <1>1, <1>2 DEF JobRests, IsAt, AtEvent
<1>4. e \in DOMAIN layers.events /\ m \in Memory
  BY <1>2, <1>3, EventIs DEF KnownEvent, MemoryOf
<1>5. from \in SUBSET Nat
  <2>1. DOMAIN layers.events \subseteq Nat  BY <1>2 DEF Layered
  <2> QED BY <2>1 DEF SessionEvents
<1>6. from \subseteq Known(layers, overtaken, Owner[m])
  BY DEF SessionEvents, OwnerOf, MemoryOf, Known, KnownEvent
<1>7. SessionSummary(e) = <<>> \/ SessionSummary(e) = <<new>>  BY DEF SessionSummary
<1>8. "summary" \in Topics  BY DEF Topics
<1> HIDE DEF e, m, from
<1>9. new \in InsightEntry /\ InsightRests(new, layers, overtaken)
  BY <1>4, <1>5, <1>6, <1>8, InsightIs
<1> HIDE DEF new
<1>10. CASE SessionSummary(e) = <<>>
  <2> DEFINE found == SessionSummary(e)
  <2>1. found \in Seq(InsightEntry) /\ Len(found) = 0  BY <1>10
  <2> HIDE DEF found
  <2>2. \A k \in 1 .. Len(found) : InsightRests(found[k], layers, overtaken)  BY <2>1
  <2>3. ApplyStrategy(j, "summary", found, "processed")  BY <1>1 DEF found
  <2> QED BY <2>1, <2>2, <2>3, ApplyStrategyKeeps
<1>11. CASE SessionSummary(e) = <<new>>
  <2>1. <<new>> \in Seq(InsightEntry) /\ Len(<<new>>) = 1 /\ <<new>>[1] = new  BY <1>9
  <2>2. \A k \in 1 .. 1 : k = 1  OBVIOUS
  <2> QED BY <2>1, <2>2, <1>9, <1>11, <1>1, ApplyStrategyKeeps
<1> QED BY <1>7, <1>10, <1>11

\* An insight is added, or its events to the first that says the same.
LEMMA WithInsightIs ==
  ASSUME NEW held \in Seq(InsightEntry), NEW new \in InsightEntry, new.state = "held"
  PROVE  LET w == WithInsight(held, new) IN
         /\ w \in Seq(InsightEntry) /\ DOMAIN held \subseteq DOMAIN w
         /\ \A i \in DOMAIN held :
              /\ w[i].owner = held[i].owner /\ w[i].state = held[i].state
              /\ w[i].from = held[i].from
                 \/ (w[i].owner = new.owner /\ w[i].from = held[i].from \cup new.from)
         /\ \A i \in DOMAIN w : i \notin DOMAIN held => w[i] = new
<1> DEFINE same == {i \in DOMAIN held : Kept(held[i]) /\ Similar(held[i], new)}
           first == CHOOSE i \in same : \A k \in same : i <= k
           w == WithInsight(held, new)
<1>1. DOMAIN held = 1 .. Len(held) /\ Len(held) \in Nat  OBVIOUS
<1>2. CASE same = {}
  <2>1. w = Append(held, new)  BY <1>2 DEF WithInsight
  <2> HIDE DEF w
  <2>2. /\ w \in Seq(InsightEntry) /\ Len(w) = Len(held) + 1
        /\ w[Len(held) + 1] = new /\ \A k \in 1 .. Len(held) : w[k] = held[k]
    BY <2>1, Appended
  <2>3. DOMAIN w = (1 .. Len(held)) \cup {Len(held) + 1}  BY <2>2, <1>1
  <2> QED BY <2>2, <2>3, <1>1 DEF w
<1>3. CASE same # {}
  <2>1. first \in same
    <3>1. same \in SUBSET Nat  BY <1>1
    <3> HIDE DEF same
    <3>2. \E i \in same : \A k \in same : i <= k  BY <3>1, <1>3, LeastNat
    <3> QED BY <3>2
  <2>2. first \in DOMAIN held /\ held[first].owner = new.owner  BY <2>1 DEF Similar
  <2> DEFINE more == [held[first] EXCEPT !.from = held[first].from \cup new.from]
  <2>3. w = [held EXCEPT ![first] = more]  BY <1>3 DEF WithInsight
  <2> HIDE DEF w, first, same
  <2>4. held[first] \in InsightEntry  BY <2>2
  <2>5. /\ more \in InsightEntry /\ more.owner = held[first].owner /\ more.state = held[first].state
        /\ more.from = held[first].from \cup new.from
    BY <2>4 DEF InsightEntry
  <2> HIDE DEF more
  <2>6. w \in Seq(InsightEntry) /\ DOMAIN w = DOMAIN held  BY <2>2, <2>3, <2>5, <1>1
  <2>7. w[first] = more /\ \A i \in DOMAIN held : i # first => w[i] = held[i]  BY <2>2, <2>3
  <2> QED BY <2>2, <2>5, <2>6, <2>7 DEF w
<1> QED BY <1>2, <1>3

\* What was found is stored, and its owner's caches go.
LEMMA StoreInsightKeeps ==
  ASSUME DualInv, NEW j \in Job, StoreInsight(j)
  PROVE  DualInv'
<1> DEFINE y == jobs[j]  new == Head(y.found)
           ins == WithInsight(layers.insights, new)
           mid == [layers EXCEPT !.insights = ins]
           owners == {new.owner}
           x == [y EXCEPT !.found = Tail(y.found)]
<1>1. /\ y.at = "storing" /\ y.found # <<>>
      /\ layers' = InvalidateCacheForRecords(mid, owners) /\ jobs' = [jobs EXCEPT ![j] = x]
      /\ queue' = queue /\ aging' = aging /\ spoilt' = spoilt /\ overtaken' = overtaken
  BY DEF StoreInsight
<1>2. /\ Layered(layers) /\ RecordsLive(layers) /\ InsightsRest(layers, overtaken)
      /\ Fresh(layers, Unannounced \cup spoilt) /\ JobsRest(layers, overtaken)
      /\ queue \in Seq(DOMAIN layers.events) /\ aging \subseteq Memory
  BY DEF DualInv
<1>3. JobRests(y, layers, overtaken)  BY <1>2 DEF JobsRest
<1>4. BatchIsHeld(y, layers) /\ KnownEvent(layers, overtaken, y.event) /\ FoundRests(y, layers, overtaken)
  BY <1>1, <1>3 DEF JobRests, IsAt, AtWork, AtEvent
<1>5. /\ y.found \in Seq(InsightEntry)
      /\ \A k \in 1 .. Len(y.found) : InsightRests(y.found[k], layers, overtaken)
  BY <1>4 DEF FoundRests
<1>6. /\ new \in InsightEntry /\ new = y.found[1] /\ Tail(y.found) \in Seq(InsightEntry)
      /\ Len(y.found) \in Nat \ {0} /\ Len(Tail(y.found)) = Len(y.found) - 1
      /\ \A k \in 1 .. Len(Tail(y.found)) : Tail(y.found)[k] = y.found[k + 1]
  <2> DEFINE found == y.found
  <2>1. found \in Seq(InsightEntry) /\ found # <<>>  BY <1>1, <1>5
  <2> HIDE DEF found
  <2>2. /\ Head(found) \in InsightEntry /\ Tail(found) \in Seq(InsightEntry) /\ Len(found) \in Nat \ {0}
        /\ Len(Tail(found)) = Len(found) - 1 /\ Head(found) = found[1]
        /\ \A k \in 1 .. Len(Tail(found)) : Tail(found)[k] = found[k + 1]
    BY <2>1, HeadAndTail
  <2> QED BY <2>2 DEF found
<1>7. InsightRests(new, layers, overtaken)  BY <1>5, <1>6
<1>8. new.state = "held" /\ new.from \subseteq Known(layers, overtaken, new.owner)  BY <1>7 DEF InsightRests
<1>9. layers.insights \in Seq(InsightEntry) /\ DOMAIN layers = LayerNames  BY <1>2 DEF Layered
<1>10. /\ ins \in Seq(InsightEntry) /\ DOMAIN layers.insights \subseteq DOMAIN ins
       /\ \A i \in DOMAIN layers.insights :
            /\ ins[i].owner = layers.insights[i].owner /\ ins[i].state = layers.insights[i].state
            /\ ins[i].from = layers.insights[i].from
               \/ (ins[i].owner = new.owner /\ ins[i].from = layers.insights[i].from \cup new.from)
       /\ \A i \in DOMAIN ins : i \notin DOMAIN layers.insights => ins[i] = new
  <2> HIDE DEF new
  <2> QED BY <1>6, <1>8, <1>9, WithInsightIs
<1> HIDE DEF ins
<1>11. Made(mid, layers.records, layers.events, ins) /\ mid.cache = layers.cache
  BY <1>9 DEF Made, LayerNames
<1> HIDE DEF mid, owners, new
<1>12. Made(layers', layers.records, layers.events, ins) /\ Wiped(layers, layers', owners)
  <2>1. DOMAIN mid = LayerNames  BY <1>11 DEF Made
  <2>2. Made(layers', mid.records, mid.events, mid.insights) /\ Wiped(mid, layers', owners)
    BY <1>1, <2>1, InvalidateIs
  <2> QED BY <2>2, <1>11 DEF Made, Wiped
<1>13. layers'.records = layers.records /\ layers'.events = layers.events /\ layers'.insights = ins
  BY <1>12 DEF Made
<1>14. \A o : Known(layers', overtaken, o) = Known(layers, overtaken, o)
  BY <1>13 DEF Known, KnownEvent
<1>15. GoesOn(layers, overtaken, layers', overtaken)
  <2>1. \A e \in DOMAIN layers.events :
          /\ e \in DOMAIN layers'.events /\ layers'.events[e].memory = layers.events[e].memory
          /\ InQueue(layers', e) => InQueue(layers, e)
          /\ KnownEvent(layers, overtaken, e) => KnownEvent(layers', overtaken, e)
    BY <1>13 DEF InQueue, KnownEvent
  <2>2. \A i \in DOMAIN layers.insights :
          /\ i \in DOMAIN layers'.insights /\ layers'.insights[i].owner = layers.insights[i].owner
          /\ layers'.insights[i].from
               \subseteq layers.insights[i].from \cup Known(layers', overtaken, layers.insights[i].owner)
    BY <1>8, <1>10, <1>13, <1>14
  <2> QED BY <2>1, <2>2 DEF GoesOn
<1>16. InsightsRest(layers', overtaken)
  <2> SUFFICES ASSUME NEW i \in DOMAIN layers'.insights, Kept(layers'.insights[i])
               PROVE  layers'.insights[i].from \subseteq Known(layers', overtaken, layers'.insights[i].owner)
    BY DEF InsightsRest
  <2>1. CASE i \in DOMAIN layers.insights
    <3>1. Kept(layers.insights[i])  BY <2>1, <1>10, <1>13 DEF Kept
    <3>2. layers.insights[i].from \subseteq Known(layers, overtaken, layers.insights[i].owner)
      BY <2>1, <3>1, <1>2 DEF InsightsRest
    <3> QED BY <2>1, <3>2, <1>8, <1>10, <1>13, <1>14
  <2>2. CASE i \notin DOMAIN layers.insights
    <3>1. layers'.insights[i] = new  BY <2>2, <1>10, <1>13
    <3> QED BY <3>1, <1>8, <1>14
  <2> QED BY <2>1, <2>2
<1>17. Layered(layers') /\ RecordsLive(layers')
  <2>1. DOMAIN layers'.cache = Space  BY <1>12 DEF Wiped
  <2> QED BY <2>1, <1>2, <1>10, <1>12 DEF Made, Layered, RecordsLive
<1>18. Touches(layers, layers', owners)
  <2>1. \A i : HeldOfOthers(layers, i, owners) <=> HeldOfOthers(layers', i, owners)
    BY <1>10, <1>13 DEF HeldOfOthers, owners, Kept
  <2>2. \A i : HeldOfOthers(layers, i, owners) => layers'.insights[i].owner = layers.insights[i].owner
    BY <1>10, <1>13 DEF HeldOfOthers
  <2> QED BY <2>1, <2>2, <1>13 DEF Touches
<1>19. Fresh(layers', Unannounced \cup spoilt)  BY <1>2, <1>12, <1>18, FreshStays
<1>20. /\ x.at = y.at /\ x.batch = y.batch /\ x.own = y.own /\ x.event = y.event /\ x.found = Tail(y.found)
       /\ DOMAIN x = {"at", "batch", "own", "event", "found", "next"}
  <2>1. DOMAIN y = {"at", "batch", "own", "event", "found", "next"}  BY <1>4 DEF FoundRests
  <2> HIDE DEF y
  <2> QED BY <2>1
<1> HIDE DEF x
<1>21. JobRests(x, layers, overtaken)
  <2>1. BatchIsHeld(x, layers)  BY <1>4, <1>20 DEF BatchIsHeld, IsAt
  <2>2. FoundRests(x, layers, overtaken)
    <3>1. \A k \in 1 .. Len(Tail(y.found)) : k + 1 \in 1 .. Len(y.found)  BY <1>6
    <3>2. \A k \in 1 .. Len(Tail(y.found)) : InsightRests(Tail(y.found)[k], layers, overtaken)
      BY <3>1, <1>5, <1>6
    <3> QED BY <3>2, <1>6, <1>20 DEF FoundRests
  <2> QED BY <2>1, <2>2, <1>1, <1>4, <1>20 DEF JobRests, IsAt, AtWork, AtEvent
<1>22. JobRests(x, layers', overtaken)  BY <1>15, <1>21, JobStays
<1>23. Unannounced' = Unannounced
  <2>1. DOMAIN jobs = Job  BY <1>2 DEF JobsRest
  <2>2. \A k \in Job : jobs'[k] = IF k = j THEN x ELSE jobs[k]  BY <2>1, <1>1
  <2>3. \A k \in Ingester : /\ jobs'[k].at = "resting" <=> jobs[k].at = "resting"
                            /\ jobs[k].at # "resting" => jobs'[k].own = jobs[k].own
    BY <2>2, <1>20 DEF Job
  <2> QED BY <2>3, <1>2, <1>13, UnannouncedSame
<1>24. ~IsAt(x, {"merging"})  BY <1>1, <1>20 DEF IsAt
<1> QED BY <1>1, <1>2, <1>13, <1>15, <1>16, <1>17, <1>19, <1>22, <1>23, <1>24, StepKeeps

\* The next strategy, or the event is processed.
LEMMA StrategyDoneKeeps ==
  ASSUME DualInv, NEW j \in Job, StrategyDone(j)
  PROVE  DualInv'
<1> DEFINE y == jobs[j]
<1>1. /\ y.at = "storing"
      /\ queue' = queue /\ aging' = aging /\ spoilt' = spoilt /\ overtaken' = overtaken
  BY DEF StrategyDone
<1>2. /\ Layered(layers) /\ RecordsLive(layers) /\ InsightsRest(layers, overtaken)
      /\ Fresh(layers, Unannounced \cup spoilt) /\ JobsRest(layers, overtaken)
      /\ queue \in Seq(DOMAIN layers.events) /\ aging \subseteq Memory
  BY DEF DualInv
<1>3. JobRests(y, layers, overtaken)  BY <1>2 DEF JobsRest
<1>4. BatchIsHeld(y, layers) /\ KnownEvent(layers, overtaken, y.event)
  BY <1>1, <1>3 DEF JobRests, IsAt, AtWork, AtEvent
<1>5. CASE y.next = "summary"
  <2> DEFINE x == [at |-> "summary", batch |-> y.batch, own |-> y.own, event |-> y.event]
  <2>1. jobs' = [jobs EXCEPT ![j] = x] /\ layers' = layers  BY <1>5 DEF StrategyDone
  <2>2. x.at = "summary" /\ x.batch = y.batch /\ x.own = y.own /\ x.event = y.event  OBVIOUS
  <2> HIDE DEF x
  <2>3. JobRests(x, layers, overtaken) /\ ~IsAt(x, {"merging"})
    <3>1. BatchIsHeld(x, layers)  BY <1>4, <2>2 DEF BatchIsHeld, IsAt, AtEvent
    <3> QED BY <3>1, <1>4, <2>2 DEF JobRests, IsAt, AtWork, AtEvent
  <2> QED BY <2>1, <2>2, <2>3, <1>1, <1>2, QuietKeeps
<1>6. CASE y.next # "summary"
  <2> DEFINE x == [at |-> "draining", batch |-> y.batch, own |-> y.own]
             d == y.event
             ev == [layers.events EXCEPT ![d] = Processed(d)]
  <2>1. jobs' = [jobs EXCEPT ![j] = x] /\ layers' = [layers EXCEPT !.events = ev]
    BY <1>6 DEF StrategyDone
  <2>2. d \in DOMAIN layers.events /\ layers.events \in Seq(Event) /\ DOMAIN layers = LayerNames
    BY <1>2, <1>4 DEF KnownEvent, Layered
  <2>3. /\ Processed(d) \in Event /\ Processed(d).memory = layers.events[d].memory
        /\ Processed(d).state # "queued" /\ (Kept(Processed(d)) <=> Kept(layers.events[d]))
    <3> DEFINE old == layers.events[d]
    <3>1. old \in Event  BY <2>2
    <3>2. CASE old.state = "queued"
      <4>1. Processed(d) = [old EXCEPT !.state = "processed"]  BY <3>2 DEF Processed, Live
      <4> QED BY <3>1, <3>2, <4>1 DEF Event, Kept
    <3>3. CASE old.state # "queued"
      <4>1. Processed(d) = [old EXCEPT !.state = old.state]  BY <3>3 DEF Processed, Live
      <4>2. Processed(d) = old  BY <3>1, <4>1 DEF Event
      <4> QED BY <3>1, <3>3, <4>2
    <3> QED BY <3>2, <3>3
  <2>4. /\ ev \in Seq(Event) /\ DOMAIN ev = DOMAIN layers.events
        /\ ev[d] = Processed(d) /\ \A e \in DOMAIN layers.events : e # d => ev[e] = layers.events[e]
    <3>1. DOMAIN layers.events = 1 .. Len(layers.events) /\ Len(layers.events) \in Nat  BY <2>2
    <3> QED BY <3>1, <2>2, <2>3
  <2>5. x.at = "draining" /\ x.batch = y.batch /\ x.own = y.own  OBVIOUS
  <2> HIDE DEF x, ev, d
  <2>6. /\ Made(layers', layers.records, ev, layers.insights) /\ layers'.cache = layers.cache
    BY <2>1, <2>2 DEF Made, LayerNames
  <2>7. layers'.records = layers.records /\ layers'.events = ev /\ layers'.insights = layers.insights
    BY <2>6 DEF Made
  <2>8. \A e \in DOMAIN layers.events :
          /\ ev[e].memory = layers.events[e].memory /\ (Kept(ev[e]) <=> Kept(layers.events[e]))
          /\ ev[e].state = "queued" => layers.events[e].state = "queued" /\ e # d
    BY <2>3, <2>4
  <2>9. Layered(layers') /\ RecordsLive(layers')
    BY <1>2, <2>4, <2>6, <2>8 DEF Made, Layered, RecordsLive
  <2>10. \A o : Known(layers', overtaken, o) = Known(layers, overtaken, o)
    BY <2>4, <2>7, <2>8 DEF Known, KnownEvent
  <2>11. InsightsRest(layers', overtaken)  BY <1>2, <2>7, <2>10 DEF InsightsRest
  <2>12. GoesOn(layers, overtaken, layers', overtaken)
    BY <2>4, <2>7, <2>8 DEF GoesOn, KnownEvent, InQueue
  <2>13. Fresh(layers', Unannounced \cup spoilt)
    <3>1. \A s : Found(layers', s) = Found(layers, s)  BY <2>7, FoundAlike
    <3> QED BY <3>1, <2>6, <1>2 DEF Fresh
  <2>14. JobRests(x, layers', overtaken) /\ ~IsAt(x, {"merging"})
    <3>1. BatchIsHeld(y, layers')
      <4>1. JobRests(y, layers', overtaken)  BY <1>3, <2>12, JobStays
      <4> QED BY <4>1, <1>1 DEF JobRests, IsAt, AtWork
    <3>2. ~InQueue(layers', d)  BY <2>2, <2>7, <2>8 DEF InQueue
    <3>3. BatchIsHeld(x, layers')  BY <3>1, <3>2, <2>5 DEF BatchIsHeld, d
    <3> QED BY <3>3, <2>5 DEF JobRests, IsAt, AtWork, AtEvent
  <2>15. Unannounced' = Unannounced
    <3>1. DOMAIN jobs = Job  BY <1>2 DEF JobsRest
    <3>2. \A k \in Job : jobs'[k] = IF k = j THEN x ELSE jobs[k]  BY <3>1, <2>1
    <3>3. \A k \in Ingester : /\ jobs'[k].at = "resting" <=> jobs[k].at = "resting"
                              /\ jobs[k].at # "resting" => jobs'[k].own = jobs[k].own
      BY <3>2, <2>5, <1>1 DEF Job
    <3>4. \A e \in DOMAIN layers.events : layers'.events[e].memory = layers.events[e].memory
      BY <2>7, <2>8
    <3> QED BY <3>3, <3>4, <1>2, UnannouncedSame
  <2>16. queue' \in Seq(DOMAIN layers'.events)  BY <1>1, <1>2, <2>4, <2>7
  <2>17. Fresh(layers', Unannounced' \cup spoilt')  BY <2>13, <2>15, <1>1
  <2> QED BY <1>1, <1>2, <2>1, <2>9, <2>11, <2>12, <2>14, <2>16, <2>17, StepKeeps
<1> QED BY <1>5, <1>6

\* The pass takes the queue.
LEMMA BackgroundPassKeeps ==
  ASSUME DualAssumption, DualInv, BackgroundPass
  PROVE  DualInv'
<1> DEFINE x == [at |-> "draining", batch |-> queue, own |-> {}]
<1>1. /\ jobs' = [jobs EXCEPT ![Timer] = x] /\ queue' = <<>>
      /\ layers' = layers /\ aging' = aging /\ spoilt' = spoilt /\ overtaken' = overtaken
  BY DEF BackgroundPass
<1>2. queue \in Seq(DOMAIN layers.events) /\ aging \subseteq Memory  BY DEF DualInv
<1>3. x.at = "draining" /\ x.batch = queue /\ x.own = {}  OBVIOUS
<1> HIDE DEF x
<1>4. JobRests(x, layers, overtaken) /\ ~IsAt(x, {"merging"})
  BY <1>2, <1>3 DEF JobRests, BatchIsHeld, IsAt, AtWork, AtEvent
<1>5. Timer \in Job /\ Timer \notin Ingester  BY DEF Job, DualAssumption
<1>6. queue' \in Seq(DOMAIN layers.events)
  <2>1. \A S : <<>> \in Seq(S)  OBVIOUS
  <2> QED BY <2>1, <1>1
<1> QED BY <1>1, <1>2, <1>4, <1>5, <1>6, QuietKeeps

\* The pass ends.
LEMMA NothingToConsolidateKeeps ==
  ASSUME DualAssumption, DualInv, NothingToConsolidate
  PROVE  DualInv'
<1>1. /\ jobs' = [jobs EXCEPT ![Timer] = Resting] /\ queue' = queue
      /\ layers' = layers /\ aging' = aging /\ spoilt' = spoilt /\ overtaken' = overtaken
  BY DEF NothingToConsolidate
<1>2. queue \in Seq(DOMAIN layers.events) /\ aging \subseteq Memory  BY DEF DualInv
<1>3. JobRests(Resting, layers, overtaken) /\ ~IsAt(Resting, {"merging"})
  BY DEF Resting, JobRests, IsAt, AtWork, AtEvent
<1>4. Timer \in Job /\ Timer \notin Ingester  BY DEF Job, DualAssumption
<1> QED BY <1>1, <1>2, <1>3, <1>4, QuietKeeps

\* An ingest announces its records: the caches that see them go.
LEMMA IngestReturnsKeeps ==
  ASSUME DualInv, NEW j \in Ingester, IngestReturns(j)
  PROVE  DualInv'
<1> DEFINE y == jobs[j]  owners == {OwnerOf(e) : e \in y.own}
<1>1. /\ y.at = "draining" /\ layers' = InvalidateCacheForRecords(layers, owners)
      /\ jobs' = [jobs EXCEPT ![j] = Resting]
      /\ queue' = queue /\ aging' = aging /\ spoilt' = spoilt /\ overtaken' = overtaken
  BY DEF IngestReturns
<1>2. /\ Layered(layers) /\ RecordsLive(layers) /\ InsightsRest(layers, overtaken)
      /\ Fresh(layers, Unannounced \cup spoilt) /\ JobsRest(layers, overtaken)
      /\ queue \in Seq(DOMAIN layers.events) /\ aging \subseteq Memory
  BY DEF DualInv
<1>3. DOMAIN layers = LayerNames  BY <1>2 DEF Layered
<1>4. Made(layers', layers.records, layers.events, layers.insights) /\ Wiped(layers, layers', owners)
  <2> HIDE DEF owners
  <2> QED BY <1>1, <1>3, InvalidateIs
<1>5. layers'.records = layers.records /\ layers'.events = layers.events /\ layers'.insights = layers.insights
  BY <1>4 DEF Made
<1>6. Layered(layers') /\ RecordsLive(layers') /\ InsightsRest(layers', overtaken)
  <2>1. DOMAIN layers'.cache = Space  BY <1>4 DEF Wiped
  <2>2. Layered(layers')  BY <2>1, <1>2, <1>4 DEF Made, Layered
  <2> QED BY <2>2, <1>2, <1>5 DEF RecordsLive, InsightsRest, Known, KnownEvent
<1>7. GoesOn(layers, overtaken, layers', overtaken)
  BY <1>5 DEF GoesOn, KnownEvent, InQueue
<1>8. j \in Job /\ DOMAIN jobs = Job  BY <1>2 DEF Job, JobsRest
<1>9. Fresh(layers', Unannounced' \cup spoilt)
  <2> SUFFICES ASSUME NEW s \in Space \ (Unannounced' \cup spoilt), Cached(layers'.cache[s])
               PROVE  layers'.cache[s].hits = Found(layers', s)
    BY DEF Fresh
  <2>1. layers'.cache[s] = IF \E o \in owners : Visible(o, s) THEN Uncached ELSE layers.cache[s]
    BY <1>4 DEF Wiped
  <2>2. (\A o \in owners : ~Visible(o, s)) /\ layers'.cache[s] = layers.cache[s]
    BY <2>1 DEF Cached, Uncached
  <2>3. s \notin Unannounced
    <3> SUFFICES ASSUME NEW k \in Ingester, jobs[k].at # "resting",
                        NEW e \in jobs[k].own, Visible(OwnerOf(e), s)
                 PROVE  s \in Unannounced'
      BY DEF Unannounced
    <3>1. k # j  BY <2>2
    <3>2. jobs'[k] = jobs[k]  BY <3>1, <1>1, <1>8 DEF Job
    <3>3. Visible(Owner[layers'.events[e].memory], s)  BY <1>5 DEF OwnerOf, MemoryOf
    <3>4. jobs'[k].at # "resting" /\ e \in jobs'[k].own  BY <3>2
    <3> QED BY <3>3, <3>4 DEF Unannounced, OwnerOf, MemoryOf
  <2>4. layers.cache[s].hits = Found(layers, s)  BY <2>2, <2>3, <1>2 DEF Fresh
  <2> QED BY <2>2, <2>4, <1>5, FoundAlike
<1>10. JobRests(Resting, layers', overtaken) /\ ~IsAt(Resting, {"merging"})
  BY DEF Resting, JobRests, IsAt, AtWork, AtEvent
<1>11. queue' \in Seq(DOMAIN layers'.events)  BY <1>1, <1>2, <1>5
<1> QED BY <1>1, <1>2, <1>6, <1>7, <1>8, <1>9, <1>10, <1>11, StepKeeps

\* update(): the record is another, the caches that see it go.
LEMMA UpdateKeeps ==
  ASSUME DualInv, NEW m \in Memory, Update(m)
  PROVE  DualInv'
<1> DEFINE r == layers.records[m]
           more == [r EXCEPT !.revision = 1 - r.revision]
           rec == [layers.records EXCEPT ![m] = more]
           mid == [layers EXCEPT !.records = rec]
           owners == {Owner[m]}
<1>1. /\ layers' = InvalidateCacheForRecords(mid, owners)
      /\ queue' = queue /\ jobs' = jobs /\ aging' = aging /\ spoilt' = spoilt /\ overtaken' = overtaken
  BY DEF Update
<1>2. /\ Layered(layers) /\ RecordsLive(layers) /\ InsightsRest(layers, overtaken)
      /\ Fresh(layers, Unannounced \cup spoilt)
      /\ queue \in Seq(DOMAIN layers.events) /\ aging \subseteq Memory
  BY DEF DualInv
<1>3. DOMAIN layers = LayerNames /\ r \in RecordEntry /\ layers.records \in [Memory -> RecordEntry]
  BY <1>2 DEF Layered
<1>4. more \in RecordEntry /\ more.status = r.status
  <2> HIDE DEF r
  <2> QED BY <1>3 DEF RecordEntry
<1> HIDE DEF more
<1>5. /\ rec \in [Memory -> RecordEntry] /\ \A k \in Memory : rec[k].status = layers.records[k].status
      /\ \A k \in Memory : k # m => rec[k] = layers.records[k]
  BY <1>3, <1>4
<1> HIDE DEF rec
<1>6. Made(mid, rec, layers.events, layers.insights) /\ mid.cache = layers.cache
  BY <1>3 DEF Made, LayerNames
<1> HIDE DEF mid, owners
<1>7. Made(layers', rec, layers.events, layers.insights) /\ Wiped(layers, layers', owners)
  <2>1. DOMAIN mid = LayerNames  BY <1>6 DEF Made
  <2>2. Made(layers', mid.records, mid.events, mid.insights) /\ Wiped(mid, layers', owners)
    BY <1>1, <2>1, InvalidateIs
  <2> QED BY <2>2, <1>6 DEF Made, Wiped
<1>8. layers'.records = rec /\ layers'.events = layers.events /\ layers'.insights = layers.insights
  BY <1>7 DEF Made
<1>9. Layered(layers')
  <2>1. DOMAIN layers'.cache = Space  BY <1>7 DEF Wiped
  <2> QED BY <2>1, <1>2, <1>5, <1>7 DEF Made, Layered
<1>10. RecordsLive(layers')
  <2>1. \A e \in DOMAIN layers.events : layers.events[e].memory \in Memory  BY <1>2, EventIs
  <2> QED BY <2>1, <1>2, <1>5, <1>8 DEF RecordsLive
<1>11. InsightsRest(layers', overtaken) /\ GoesOn(layers, overtaken, layers', overtaken)
  BY <1>2, <1>8 DEF InsightsRest, GoesOn, Known, KnownEvent, InQueue
<1>12. Touches(layers, layers', owners)
  BY <1>5, <1>8 DEF Touches, HeldOfOthers, owners
<1>13. Fresh(layers', Unannounced \cup spoilt)  BY <1>2, <1>7, <1>12, FreshStays
<1>14. queue' \in Seq(DOMAIN layers'.events)  BY <1>1, <1>2, <1>8
<1> QED BY <1>1, <1>2, <1>9, <1>10, <1>11, <1>13, <1>14, MapsStep

\* A record's time runs out; nobody has noticed yet.
LEMMA RunsOutKeeps ==
  ASSUME DualInv, NEW m \in Memory, RunsOut(m)
  PROVE  DualInv'
<1>1. /\ aging' = aging \cup {m} /\ layers' = layers /\ queue' = queue /\ jobs' = jobs
      /\ spoilt' = spoilt /\ overtaken' = overtaken
  BY DEF RunsOut
<1>2. aging' \subseteq Memory  BY <1>1 DEF DualInv
<1> QED BY <1>1, <1>2, GoesOnItself, MapsStep DEF DualInv

\* An answer's time runs out.
LEMMA CacheAgesKeeps ==
  ASSUME DualInv, NEW s \in Space, CacheAges(s)
  PROVE  DualInv'
<1> DEFINE cache == [layers.cache EXCEPT ![s] = Uncached]
<1>1. /\ layers' = [layers EXCEPT !.cache = cache] /\ spoilt' = spoilt \ {s}
      /\ queue' = queue /\ jobs' = jobs /\ aging' = aging /\ overtaken' = overtaken
  BY DEF CacheAges
<1>2. /\ Layered(layers) /\ RecordsLive(layers) /\ InsightsRest(layers, overtaken)
      /\ Fresh(layers, Unannounced \cup spoilt)
      /\ queue \in Seq(DOMAIN layers.events) /\ aging \subseteq Memory
  BY DEF DualInv
<1>3. DOMAIN layers = LayerNames /\ DOMAIN layers.cache = Space  BY <1>2 DEF Layered
<1>4. Made(layers', layers.records, layers.events, layers.insights) /\ layers'.cache = cache
  <2> HIDE DEF cache
  <2> QED BY <1>1, <1>3 DEF Made, LayerNames
<1>5. layers'.records = layers.records /\ layers'.events = layers.events /\ layers'.insights = layers.insights
  BY <1>4 DEF Made
<1>6. Layered(layers') /\ RecordsLive(layers') /\ InsightsRest(layers', overtaken)
  <2>1. DOMAIN layers'.cache = Space  BY <1>3, <1>4
  <2>2. Layered(layers')  BY <2>1, <1>2, <1>4 DEF Made, Layered
  <2> QED BY <2>2, <1>2, <1>5 DEF RecordsLive, InsightsRest, Known, KnownEvent
<1>7. GoesOn(layers, overtaken, layers', overtaken)
  BY <1>5 DEF GoesOn, KnownEvent, InQueue
<1>8. Fresh(layers', Unannounced \cup spoilt')
  <2> SUFFICES ASSUME NEW t \in Space \ (Unannounced \cup spoilt'), Cached(layers'.cache[t])
               PROVE  layers'.cache[t].hits = Found(layers', t)
    BY DEF Fresh
  <2>1. t # s  BY <1>3, <1>4 DEF Cached, Uncached
  <2>2. layers'.cache[t] = layers.cache[t] /\ t \in Space \ (Unannounced \cup spoilt)
    BY <2>1, <1>1, <1>3, <1>4
  <2>3. layers.cache[t].hits = Found(layers, t)  BY <2>2, <1>2 DEF Fresh
  <2> QED BY <2>2, <2>3, <1>5, FoundAlike
<1>9. queue' \in Seq(DOMAIN layers'.events) /\ aging' \subseteq Memory  BY <1>1, <1>2, <1>5
<1> QED BY <1>1, <1>6, <1>7, <1>8, <1>9, MapsStep

(***************************************************************************)
(* ingest().                                                               *)
(***************************************************************************)
StoreOne(none, ls, m) == Store(ls, m)
StoreFold == INSTANCE FoldLemmas WITH Op <- StoreOne

\* The records ms[1 .. n] and their events are stored.
StoredUpTo(ls, lt, ms, n) ==
  /\ Layered(lt) /\ RecordsLive(lt)
  /\ lt.insights = ls.insights /\ lt.cache = ls.cache
  /\ Len(lt.events) = Len(ls.events) + n
  /\ \A e \in DOMAIN ls.events : lt.events[e] = ls.events[e]
  /\ \A k \in 1 .. n : lt.events[Len(ls.events) + k].memory = ms[k]
  /\ \A m \in Memory : (\A k \in 1 .. n : ms[k] # m) => lt.records[m] = ls.records[m]

\* Numbers of the events, once one more is stored.
LEMMA OneMoreEvent ==
  ASSUME NEW a \in Nat, NEW n \in Nat, NEW b, b = a + n, NEW c, c = b + 1
  PROVE  /\ b \in Nat /\ c = a + (n + 1) /\ 1 .. c = (1 .. b) \cup {c} /\ c \notin 1 .. b
         /\ \A e \in 1 .. a : e \in 1 .. b
         /\ \A k \in 1 .. (n + 1) : k # n + 1 => k \in 1 .. n /\ a + k \in 1 .. b
OBVIOUS

\* One more record is stored, and its event.
LEMMA StoreStep ==
  ASSUME NEW ls, Layered(ls), NEW lt, NEW ms \in Seq(Memory), NEW n \in Nat, n + 1 <= Len(ms),
         StoredUpTo(ls, lt, ms, n)
  PROVE  StoredUpTo(ls, Store(lt, ms[n + 1]), ms, n + 1)
<1> DEFINE m == ms[n + 1]
           entry == [status |-> "active", revision |-> 1 - lt.records[m].revision]
           new == [memory |-> m, state |-> "queued"]
           rec == [lt.records EXCEPT ![m] = entry]
           ev == Append(lt.events, new)
           lu == Store(lt, m)
<1>1. m \in Memory  OBVIOUS
<1>2. /\ Layered(lt) /\ RecordsLive(lt) /\ lt.insights = ls.insights /\ lt.cache = ls.cache
      /\ Len(lt.events) = Len(ls.events) + n
      /\ \A e \in DOMAIN ls.events : lt.events[e] = ls.events[e]
      /\ \A k \in 1 .. n : lt.events[Len(ls.events) + k].memory = ms[k]
      /\ \A x \in Memory : (\A k \in 1 .. n : ms[k] # x) => lt.records[x] = ls.records[x]
  BY DEF StoredUpTo
<1>3. /\ DOMAIN lt = LayerNames /\ lt.records \in [Memory -> RecordEntry] /\ lt.events \in Seq(Event)
      /\ ls.events \in Seq(Event)
  BY <1>2 DEF Layered
<1>4. lu = [lt EXCEPT !.records = rec, !.events = ev]  BY DEF Store
<1>5. entry \in RecordEntry /\ entry.status = "active"
  <2>1. lt.records[m] \in RecordEntry  BY <1>1, <1>3
  <2>2. \A x \in RecordEntry : 1 - x.revision \in {0, 1}  BY DEF RecordEntry
  <2>3. 1 - lt.records[m].revision \in {0, 1}  BY <2>1, <2>2
  <2> QED BY <2>3 DEF RecordEntry
<1>6. new \in Event /\ new.memory = m  BY <1>1 DEF Event
<1> HIDE DEF entry, new, m
<1>7. /\ rec \in [Memory -> RecordEntry] /\ rec[m].status = "active"
      /\ \A x \in Memory : x # m => rec[x] = lt.records[x]
  BY <1>1, <1>3, <1>5
<1>8. /\ ev \in Seq(Event) /\ Len(ev) = Len(lt.events) + 1 /\ Len(lt.events) \in Nat
      /\ ev[Len(lt.events) + 1] = new /\ \A k \in 1 .. Len(lt.events) : ev[k] = lt.events[k]
  BY <1>3, <1>6, Appended
<1> HIDE DEF rec, ev, lu
<1>9. Made(lu, rec, ev, lt.insights) /\ lu.cache = lt.cache
  BY <1>3, <1>4 DEF Made, LayerNames
<1>10. Layered(lu)  BY <1>2, <1>7, <1>8, <1>9 DEF Made, Layered
<1>11. /\ DOMAIN ev = (1 .. Len(lt.events)) \cup {Len(ev)} /\ DOMAIN lt.events = 1 .. Len(lt.events)
       /\ DOMAIN ls.events = 1 .. Len(ls.events) /\ Len(ev) = Len(ls.events) + (n + 1)
       /\ \A e \in 1 .. Len(ls.events) : e \in 1 .. Len(lt.events)
       /\ \A k \in 1 .. (n + 1) : k # n + 1 => k \in 1 .. n /\ Len(ls.events) + k \in 1 .. Len(lt.events)
  <2>1. DOMAIN lt.events = 1 .. Len(lt.events) /\ DOMAIN ls.events = 1 .. Len(ls.events)
        /\ Len(ls.events) \in Nat
    BY <1>3
  <2>2. DOMAIN ev = 1 .. Len(ev)
    <3>1. ev \in Seq(Event)  BY <1>8
    <3> QED BY <3>1
  <2>3. Len(lt.events) = Len(ls.events) + n  BY <1>2
  <2>4. Len(ev) = Len(lt.events) + 1  BY <1>8
  <2> DEFINE a == Len(ls.events)  b == Len(lt.events)  c == Len(ev)
  <2>5. a \in Nat /\ b = a + n /\ c = b + 1  BY <2>1, <2>3, <2>4
  <2>6. DOMAIN ev = 1 .. c /\ DOMAIN lt.events = 1 .. b /\ DOMAIN ls.events = 1 .. a  BY <2>1, <2>2
  <2> HIDE DEF a, b, c
  <2>7. /\ c = a + (n + 1) /\ 1 .. c = (1 .. b) \cup {c}
        /\ \A e \in 1 .. a : e \in 1 .. b
        /\ \A k \in 1 .. (n + 1) : k # n + 1 => k \in 1 .. n /\ a + k \in 1 .. b
    BY <2>5, OneMoreEvent
  <2> QED BY <2>6, <2>7 DEF a, b, c
<1>12. RecordsLive(lu)
  <2> SUFFICES ASSUME NEW e \in DOMAIN ev, Kept(ev[e]) PROVE rec[ev[e].memory].status = "active"
    BY <1>9 DEF RecordsLive, Made
  <2>1. CASE e = Len(ev)  BY <2>1, <1>6, <1>7, <1>8
  <2>2. CASE e \in 1 .. Len(lt.events)
    <3>1. e \in DOMAIN lt.events /\ ev[e] = lt.events[e]  BY <2>2, <1>8, <1>11
    <3>2. lt.events[e].memory \in Memory  BY <3>1, <1>2, EventIs
    <3>3. lt.records[lt.events[e].memory].status = "active"  BY <3>1, <1>2 DEF RecordsLive
    <3> QED BY <3>1, <3>2, <3>3, <1>7
  <2> QED BY <2>1, <2>2, <1>11
<1>13. \A e \in DOMAIN ls.events : ev[e] = ls.events[e]  BY <1>2, <1>8, <1>11
<1>14. \A k \in 1 .. (n + 1) : ev[Len(ls.events) + k].memory = ms[k]
  <2> TAKE k \in 1 .. (n + 1)
  <2>1. CASE k = n + 1
    <3>1. ev[Len(ls.events) + k] = new  BY <2>1, <1>8, <1>11
    <3> QED BY <2>1, <3>1, <1>6 DEF m
  <2>2. CASE k # n + 1
    <3>1. k \in 1 .. n /\ ev[Len(ls.events) + k] = lt.events[Len(ls.events) + k]  BY <2>2, <1>8, <1>11
    <3> QED BY <3>1, <1>2
  <2> QED BY <2>1, <2>2
<1>15. \A x \in Memory : (\A k \in 1 .. (n + 1) : ms[k] # x) => rec[x] = ls.records[x]
  <2> SUFFICES ASSUME NEW x \in Memory, \A k \in 1 .. (n + 1) : ms[k] # x PROVE rec[x] = ls.records[x]
    OBVIOUS
  <2>1. n + 1 \in 1 .. (n + 1) /\ \A k \in 1 .. n : k \in 1 .. (n + 1)  OBVIOUS
  <2>2. x # m  BY <2>1 DEF m
  <2>3. \A k \in 1 .. n : ms[k] # x  BY <2>1
  <2>4. rec[x] = lt.records[x]  BY <2>2, <1>7
  <2>5. lt.records[x] = ls.records[x]  BY <2>3, <1>2
  <2> QED BY <2>4, <2>5
<1>16. StoredUpTo(ls, lu, ms, n + 1)
  BY <1>9, <1>10, <1>11, <1>12, <1>13, <1>14, <1>15, <1>2 DEF Made, StoredUpTo
<1> QED BY <1>16 DEF lu, m

\* A batch of records, one after the other.
LEMMA AllStoredIs ==
  ASSUME DualInv, NEW ms \in Seq(Memory)
  PROVE  StoredUpTo(layers, AllStored(ms), ms, Len(ms))
<1> DEFINE After(n) == StoreFold!After(0, layers, ms, n)
<1>1. DOMAIN ms = 1 .. Len(ms) /\ Len(ms) \in Nat  OBVIOUS
<1>2. AllStored(ms) = After(Len(ms))
  BY <1>1 DEF AllStored, StoreOne, FoldLeft, MapThenFoldSet, StoreFold!After, StoreFold!Over,
       StoreFold!Solves, StoreFold!Top, Max
<1>3. Layered(layers) /\ RecordsLive(layers)  BY DEF DualInv
<1> DEFINE N == {n \in Nat : n <= Len(ms) => StoredUpTo(layers, After(n), ms, n)}
<1>4. 0 \in N
  <2>1. After(0) = layers  BY StoreFold!AfterNone
  <2> HIDE DEF After
  <2>2. Len(layers.events) + 0 = Len(layers.events)
    <3>1. layers.events \in Seq(Event)  BY <1>3 DEF Layered
    <3> QED BY <3>1
  <2>3. StoredUpTo(layers, layers, ms, 0)  BY <1>3, <2>2 DEF StoredUpTo
  <2> QED BY <2>1, <2>3
<1>5. ASSUME NEW n \in N PROVE n + 1 \in N
  <2> SUFFICES ASSUME n + 1 <= Len(ms) PROVE StoredUpTo(layers, After(n + 1), ms, n + 1)
    BY <1>5
  <2>1. n \in Nat /\ StoredUpTo(layers, After(n), ms, n)  BY <1>1, <1>5
  <2>2. After(n + 1) = Store(After(n), ms[n + 1])  BY <2>1, StoreFold!AfterOne DEF StoreOne
  <2> HIDE DEF After
  <2> QED BY <2>1, <2>2, <1>3, StoreStep
<1>6. N = Nat
  <2>1. N \in SUBSET Nat  OBVIOUS
  <2> HIDE DEF N
  <2> QED BY <1>4, <1>5, <2>1, StoreFold!Climbs
<1>7. StoredUpTo(layers, After(Len(ms)), ms, Len(ms))  BY <1>1, <1>6
<1> HIDE DEF After
<1> QED BY <1>2, <1>7

\* What goes on after records were stored, whoever stores them.
LEMMA StoringGoesOn ==
  ASSUME DualInv, NEW ms \in Seq(Memory), layers' = AllStored(ms)
  PROVE  LET owners == {Owner[m] : m \in ToSet(ms)}  n == Len(layers.events) IN
         /\ Layered(layers') /\ RecordsLive(layers') /\ InsightsRest(layers', overtaken)
         /\ GoesOn(layers, overtaken, layers', overtaken)
         /\ Touches(layers, layers', owners) /\ layers'.cache = layers.cache
         /\ n \in Nat /\ Len(layers'.events) = n + Len(ms)
         /\ DOMAIN layers.events = 1 .. n /\ DOMAIN layers'.events = 1 .. (n + Len(ms))
         /\ \A k \in 1 .. Len(ms) : layers'.events[n + k].memory = ms[k]
<1> DEFINE owners == {Owner[m] : m \in ToSet(ms)}
<1>1. StoredUpTo(layers, layers', ms, Len(ms))  BY AllStoredIs
<1>2. /\ Layered(layers) /\ InsightsRest(layers, overtaken)  BY DEF DualInv
<1>3. /\ Layered(layers') /\ RecordsLive(layers')
      /\ layers'.insights = layers.insights /\ layers'.cache = layers.cache
      /\ Len(layers'.events) = Len(layers.events) + Len(ms)
      /\ \A e \in DOMAIN layers.events : layers'.events[e] = layers.events[e]
      /\ \A k \in 1 .. Len(ms) : layers'.events[Len(layers.events) + k].memory = ms[k]
      /\ \A m \in Memory : (\A k \in 1 .. Len(ms) : ms[k] # m) => layers'.records[m] = layers.records[m]
  BY <1>1 DEF StoredUpTo
<1>4. /\ Len(layers.events) \in Nat /\ DOMAIN layers.events = 1 .. Len(layers.events)
      /\ DOMAIN layers'.events = 1 .. Len(layers'.events) /\ Len(ms) \in Nat
  <2>1. layers.events \in Seq(Event) /\ layers'.events \in Seq(Event)  BY <1>2, <1>3 DEF Layered
  <2> QED BY <2>1
<1>5. DOMAIN layers.events \subseteq DOMAIN layers'.events  BY <1>3, <1>4
<1>6. \A o : Known(layers, overtaken, o) \subseteq Known(layers', overtaken, o)
  BY <1>3, <1>5 DEF Known, KnownEvent
<1>7. InsightsRest(layers', overtaken)
  <2> SUFFICES ASSUME NEW i \in DOMAIN layers'.insights, Kept(layers'.insights[i])
               PROVE  layers'.insights[i].from \subseteq Known(layers', overtaken, layers'.insights[i].owner)
    BY DEF InsightsRest
  <2>1. layers.insights[i].from \subseteq Known(layers, overtaken, layers.insights[i].owner)
    BY <1>2, <1>3 DEF InsightsRest
  <2> QED BY <2>1, <1>3, <1>6
<1>8. GoesOn(layers, overtaken, layers', overtaken)
  BY <1>3, <1>5 DEF GoesOn, InQueue, KnownEvent
<1>9. Touches(layers, layers', owners)
  <2>1. \A m : m \in ToSet(ms) <=> \E k \in 1 .. Len(ms) : ms[k] = m  BY SeqElements
  <2>2. \A m \in Memory : Owner[m] \notin owners => m \notin ToSet(ms)  OBVIOUS
  <2> HIDE DEF owners
  <2>3. \A m \in Memory : Owner[m] \notin owners => layers'.records[m] = layers.records[m]
    BY <2>1, <2>2, <1>3
  <2> QED BY <2>3, <1>3 DEF Touches, HeldOfOthers
<1>10. Len(layers'.events) = Len(layers.events) + Len(ms)  BY <1>3
<1> QED BY <1>3, <1>4, <1>7, <1>8, <1>9, <1>10

\* The new events' numbers.
LEMMA NewEventsAre ==
  ASSUME NEW M, NEW ms \in Seq(M), Len(layers.events) \in Nat
  PROVE  LET n == Len(layers.events) IN
         /\ NewEvents(ms) \in Seq(1 .. (n + Len(ms)))
         /\ \A e \in ToSet(NewEvents(ms)) : \E k \in 1 .. Len(ms) : e = n + k
         /\ \A k \in 1 .. Len(ms) : n + k \in ToSet(NewEvents(ms))
         /\ Len(NewEvents(ms)) = Len(ms)
<1> DEFINE n == Len(layers.events)  s == NewEvents(ms)
<1>1. s = [k \in 1 .. Len(ms) |-> n + k] /\ Len(ms) \in Nat  BY DEF NewEvents
<1> HIDE DEF s, n
<1>2. n \in Nat  BY DEF n
<1>3. s \in Seq(1 .. (n + Len(ms))) /\ Len(s) = Len(ms)
  <2>1. \A k \in 1 .. Len(ms) : n + k \in 1 .. (n + Len(ms))  BY <1>1, <1>2
  <2> QED BY <1>1, <2>1
<1>4. ToSet(s) = {n + k : k \in 1 .. Len(ms)}
  <2>1. \A k \in 1 .. Len(ms) : s[k] = n + k  BY <1>1
  <2>2. DOMAIN s = 1 .. Len(ms)  BY <1>1
  <2> QED BY <2>1, <2>2 DEF ToSet
<1> QED BY <1>3, <1>4 DEF s, n

\* The new events as their ingest holds them.
LEMMA NewEventsHeld ==
  ASSUME DualInv, NEW ms \in Seq(Memory), layers' = AllStored(ms)
  PROVE  LET new == NewEvents(ms)  D == DOMAIN layers'.events IN
         /\ queue \o new \in Seq(D)
         /\ ToSet(new) \subseteq D /\ ToSet(new) \subseteq ToSet(queue \o new)
         /\ \A m \in ToSet(ms) : \E e \in ToSet(new) : layers'.events[e].memory = m
<1> DEFINE new == NewEvents(ms)  D == DOMAIN layers'.events  n == Len(layers.events)
<1>1. /\ n \in Nat /\ DOMAIN layers.events = 1 .. n /\ D = 1 .. (n + Len(ms))
      /\ \A k \in 1 .. Len(ms) : layers'.events[n + k].memory = ms[k]
  BY StoringGoesOn
<1>2. /\ new \in Seq(1 .. (n + Len(ms))) /\ \A k \in 1 .. Len(ms) : n + k \in ToSet(new)
  BY <1>1, NewEventsAre
<1>3. queue \in Seq(DOMAIN layers.events)  BY DEF DualInv
<1>4. DOMAIN layers.events \subseteq D
  <2>1. Len(ms) \in Nat  OBVIOUS
  <2> HIDE DEF n, D
  <2> QED BY <1>1, <2>1
<1>5. \A m : m \in ToSet(ms) <=> \E k \in 1 .. Len(ms) : ms[k] = m  BY SeqElements
<1> HIDE DEF new, D, n
<1>6. queue \in Seq(D)  BY <1>3, <1>4, WiderSeq
<1>7. new \in Seq(D)  BY <1>1, <1>2
<1>8. queue \o new \in Seq(D) /\ ToSet(queue \o new) = ToSet(queue) \cup ToSet(new)
  BY <1>6, <1>7, Concatenated
<1>9. ToSet(new) \subseteq D  BY <1>7, SeqElements
<1>10. \A m \in ToSet(ms) : \E e \in ToSet(new) : layers'.events[e].memory = m  BY <1>1, <1>2, <1>5
<1> QED BY <1>8, <1>9, <1>10 DEF new, D

\* The records an ingest stores are of one batch.
LEMMA BatchFor ==
  ASSUME NEW ms, ms \in Batches
  PROVE  ms \in Seq(Memory) /\ ToSet(ms) \subseteq Memory
<1>1. \A m, n \in Memory : <<m>> \in Seq(Memory) /\ <<m, n>> \in Seq(Memory)  OBVIOUS
<1>2. (\E m \in Memory : ms = <<m>>) \/ (\E m, n \in Memory : ms = <<m, n>>)  BY DEF Batches
<1>3. ms \in Seq(Memory)  BY <1>1, <1>2
<1> QED BY <1>3, SeqElements

\* ingest(): the caches wait, since the spaces of the new records are not announced yet.
LEMMA IngestKeeps ==
  ASSUME DualInv, NEW j \in Ingester, Ingest(j)
  PROVE  DualInv'
<1>1. PICK ms :
        /\ ms \in Batches
        /\ layers' = AllStored(ms)
        /\ jobs' = [jobs EXCEPT ![j] =
             [at |-> "draining", batch |-> queue \o NewEvents(ms), own |-> ToSet(NewEvents(ms))]]
        /\ queue' = <<>> /\ aging' = aging \ ToSet(ms)
  BY DEF Ingest
<1> DEFINE new == NewEvents(ms)  all == queue \o new  own == ToSet(new)
           x == [at |-> "draining", batch |-> all, own |-> own]
           owners == {Owner[m] : m \in ToSet(ms)}
<1>2. jobs[j].at = "resting" /\ spoilt' = spoilt /\ overtaken' = overtaken  BY DEF Ingest
<1>3. ms \in Seq(Memory) /\ ToSet(ms) \subseteq Memory  BY <1>1, BatchFor
<1> HIDE DEF x
<1>4. /\ Layered(layers') /\ RecordsLive(layers') /\ InsightsRest(layers', overtaken)
      /\ GoesOn(layers, overtaken, layers', overtaken)
      /\ Touches(layers, layers', owners) /\ layers'.cache = layers.cache
  BY <1>1, <1>3, StoringGoesOn
<1>5. /\ all \in Seq(DOMAIN layers'.events) /\ own \subseteq DOMAIN layers'.events /\ own \subseteq ToSet(all)
      /\ \A m \in ToSet(ms) : \E e \in own : layers'.events[e].memory = m
  BY <1>1, <1>3, NewEventsHeld
<1>6. x.at = "draining" /\ x.batch = all /\ x.own = own  BY DEF x
<1>7. jobs' = [jobs EXCEPT ![j] = x]  BY <1>1 DEF x
<1>8. /\ Fresh(layers, Unannounced \cup spoilt) /\ JobsRest(layers, overtaken) /\ aging \subseteq Memory
  BY DEF DualInv
<1>9. DOMAIN jobs = Job /\ j \in Job  BY <1>8 DEF JobsRest, Job
<1> HIDE DEF all, own, owners, new
<1>10. BatchIsHeld(x, layers')  BY <1>5, <1>6 DEF BatchIsHeld
<1>11. JobRests(x, layers', overtaken) /\ ~IsAt(x, {"merging"})
  BY <1>6, <1>10 DEF JobRests, IsAt, AtWork, AtEvent
<1>12. jobs'[j] = x /\ \A k \in Ingester : k # j => jobs'[k] = jobs[k]  BY <1>7, <1>9 DEF Job
<1>13. Fresh(layers', Unannounced' \cup spoilt')
  <2> SUFFICES ASSUME NEW s \in Space \ (Unannounced' \cup spoilt'), Cached(layers'.cache[s])
               PROVE  layers'.cache[s].hits = Found(layers', s)
    BY DEF Fresh
  <2>1. \A k \in Ingester : jobs'[k].at # "resting" =>
          \A e \in jobs'[k].own : ~Visible(Owner[layers'.events[e].memory], s)
    BY DEF Unannounced, OwnerOf, MemoryOf
  <2>2. \A o \in owners : ~Visible(o, s)
    <3>1. \A e \in own : ~Visible(Owner[layers'.events[e].memory], s)  BY <2>1, <1>6, <1>12
    <3> QED BY <3>1, <1>5 DEF owners
  <2>3. s \notin Unannounced
    <3> SUFFICES ASSUME NEW k \in Ingester, jobs[k].at # "resting",
                        NEW e \in jobs[k].own, Visible(OwnerOf(e), s)
                 PROVE  FALSE
      BY DEF Unannounced
    <3>1. k # j  BY <1>2
    <3>2. jobs'[k] = jobs[k]  BY <3>1, <1>12
    <3>3. JobRests(jobs[k], layers, overtaken) /\ ~IsAt(jobs[k], {"merging"})  BY <1>8 DEF JobsRest, Job
    <3>4. BatchIsHeld(jobs[k], layers)  BY <3>3 DEF JobRests, IsAt, AtWork
    <3>5. layers'.events[e].memory = layers.events[e].memory  BY <3>4, <1>4 DEF BatchIsHeld, GoesOn
    <3>6. ~Visible(Owner[layers'.events[e].memory], s)  BY <2>1, <3>2
    <3> QED BY <3>5, <3>6 DEF OwnerOf, MemoryOf
  <2>4. layers.cache[s].hits = Found(layers, s)  BY <2>3, <1>2, <1>4, <1>8 DEF Fresh
  <2>5. Found(layers, s) = Found(layers', s)  BY <2>2, <1>4, FoundSame
  <2> QED BY <2>4, <2>5, <1>4
<1>14. queue' \in Seq(DOMAIN layers'.events) /\ aging' \subseteq Memory  BY <1>1, <1>8
<1> QED BY <1>2, <1>4, <1>7, <1>9, <1>11, <1>13, <1>14, StepKeeps

\* A batch that is refused midway: the spaces of the record it stored are spoilt.
LEMMA IngestRefusedKeeps ==
  ASSUME DualInv, NEW j \in Ingester, IngestRefused(j)
  PROVE  DualInv'
<1>1. PICK m \in Memory :
        /\ layers' = AllStored(<<m>>) /\ queue' = queue \o NewEvents(<<m>>) /\ aging' = aging \ {m}
        /\ spoilt' = spoilt \cup {s \in Space : Cached(layers.cache[s]) /\ Visible(Owner[m], s)}
  BY DEF IngestRefused
<1> DEFINE ms == <<m>>  owners == {Owner[x] : x \in ToSet(ms)}
<1>2. jobs' = jobs /\ overtaken' = overtaken  BY DEF IngestRefused
<1>3. ms \in Seq(Memory) /\ \A x \in ToSet(ms) : x = m
  <2>1. ms \in Seq(Memory) /\ DOMAIN ms = {1} /\ ms[1] = m  OBVIOUS
  <2> QED BY <2>1 DEF ToSet
<1>4. layers' = AllStored(ms) /\ queue' = queue \o NewEvents(ms)  BY <1>1
<1> HIDE DEF ms
<1>5. /\ Layered(layers') /\ RecordsLive(layers') /\ InsightsRest(layers', overtaken)
      /\ GoesOn(layers, overtaken, layers', overtaken)
      /\ Touches(layers, layers', owners) /\ layers'.cache = layers.cache
  BY <1>3, <1>4, StoringGoesOn
<1>6. queue' \in Seq(DOMAIN layers'.events)  BY <1>3, <1>4, NewEventsHeld
<1>7. Fresh(layers, Unannounced \cup spoilt) /\ aging \subseteq Memory  BY DEF DualInv
<1>8. \A o \in owners : o = Owner[m]  BY <1>3
<1> HIDE DEF owners
<1>9. Fresh(layers', Unannounced \cup spoilt')
  <2> SUFFICES ASSUME NEW s \in Space \ (Unannounced \cup spoilt'), Cached(layers'.cache[s])
               PROVE  layers'.cache[s].hits = Found(layers', s)
    BY DEF Fresh
  <2>1. ~Visible(Owner[m], s) /\ s \notin Unannounced \cup spoilt  BY <1>1, <1>5
  <2>2. Found(layers, s) = Found(layers', s)  BY <2>1, <1>5, <1>8, FoundSame
  <2> QED BY <2>1, <2>2, <1>5, <1>7 DEF Fresh
<1> QED BY <1>1, <1>2, <1>5, <1>6, <1>7, <1>9, MapsStep

(***************************************************************************)
(* consolidateInsights().                                                  *)
(***************************************************************************)
MergeFold == INSTANCE FoldLemmas WITH Op <- Absorb

\* A merge of the group g of insights: all rests on the events in known, nothing comes back, and
\* no insight of another group changes.
MergeStays(held, g, known, all, removed) ==
  /\ all \in Seq(InsightEntry) /\ DOMAIN all = DOMAIN held /\ removed \subseteq g
  /\ \A i \in DOMAIN held :
       /\ all[i].owner = held[i].owner /\ (Kept(all[i]) => Kept(held[i]))
       /\ i \notin g => all[i] = held[i]
       /\ i \in g => all[i].from \subseteq known

Merges(held, g, known) ==
  {merge \in [removed : SUBSET g, insights : Seq(InsightEntry)] :
     MergeStays(held, g, known, merge.insights, merge.removed)}

\* One insight of the group absorbs the younger ones near it.
LEMMA AbsorbKeeps ==
  ASSUME NEW held \in Seq(InsightEntry), NEW g, g \subseteq DOMAIN held, NEW known \in SUBSET Nat,
         NEW merge \in Merges(held, g, known), NEW i \in DOMAIN held
  PROVE  Absorb(g, merge, i) \in Merges(held, g, known)
<1> DEFINE all == merge.insights  old == merge.removed
           js == {j \in g \ old : j > i /\ {all[i].topic, all[j].topic} \in Near}
           more == all[i].from \cup UNION {all[j].from : j \in js}
           new == [all[i] EXCEPT !.from = more]
           w == Without(all, js)
           last == [w EXCEPT ![i] = new]
<1>1. MergeStays(held, g, known, all, old)  BY DEF Merges
<1>2. /\ all \in Seq(InsightEntry) /\ DOMAIN all = DOMAIN held /\ old \subseteq g
      /\ \A k \in DOMAIN held :
           /\ all[k].owner = held[k].owner /\ (Kept(all[k]) => Kept(held[k]))
           /\ k \notin g => all[k] = held[k]
           /\ k \in g => all[k].from \subseteq known
  BY <1>1 DEF MergeStays
<1>3. CASE i \notin g \ old
  <2>1. Absorb(g, merge, i) = merge  BY <1>3 DEF Absorb
  <2> QED BY <2>1
<1>4. CASE i \in g \ old
  <2>1. Absorb(g, merge, i) = [removed |-> old \cup js, insights |-> last]  BY <1>4 DEF Absorb
  <2>2. js \subseteq g
    <3> HIDE DEF all, old
    <3> QED OBVIOUS
  <2>3. i \notin js
    <3>1. i \in Nat  OBVIOUS
    <3>2. ~(i > i)  BY <3>1
    <3> HIDE DEF all, old
    <3> QED BY <3>2
  <2>4. more \in SUBSET known
    <3>1. all[i].from \subseteq known /\ \A j \in js : all[j].from \subseteq known
      <4> HIDE DEF js, all, old
      <4> QED BY <1>2, <1>4, <2>2
    <3> HIDE DEF js, all
    <3> QED BY <3>1
  <2> HIDE DEF js, more
  <2>5. /\ w \in Seq(InsightEntry) /\ DOMAIN w = DOMAIN all
        /\ \A k \in DOMAIN all : /\ w[k].owner = all[k].owner /\ w[k].from = all[k].from
                                 /\ w[k].state = IF k \in js THEN "gone" ELSE all[k].state
    BY <1>2, InsightsWithout
  <2>6. \A k \in DOMAIN held : k \notin js => w[k] = all[k]  BY <1>2 DEF Without
  <2>7. new \in InsightEntry /\ new.owner = all[i].owner /\ new.state = all[i].state /\ new.from = more
    <3>1. all[i] \in InsightEntry  BY <1>2
    <3>2. more \in SUBSET Nat  BY <2>4
    <3> HIDE DEF all
    <3> QED BY <3>1, <3>2 DEF InsightEntry
  <2> HIDE DEF w, new, all, old
  <2>8. last \in Seq(InsightEntry) /\ DOMAIN last = DOMAIN held  BY <1>2, <2>5, <2>7
  <2>9. last[i] = new /\ \A k \in DOMAIN held : k # i => last[k] = w[k]  BY <1>2, <2>5
  <2> HIDE DEF last
  <2>10. \A k \in DOMAIN held :
           /\ last[k].owner = held[k].owner /\ (Kept(last[k]) => Kept(held[k]))
           /\ k \notin g => last[k] = held[k]
           /\ k \in g => last[k].from \subseteq known
    <3> TAKE k \in DOMAIN held
    <3>1. CASE k = i  BY <3>1, <1>2, <1>4, <2>4, <2>7, <2>9 DEF Kept
    <3>2. CASE k # i
      <4>1. last[k] = w[k] /\ k \in DOMAIN all  BY <3>2, <1>2, <2>9
      <4>2. last[k].owner = held[k].owner /\ (Kept(last[k]) => Kept(held[k]))
        BY <4>1, <1>2, <2>5 DEF Kept
      <4>3. k \notin g => last[k] = held[k]  BY <4>1, <1>2, <2>2, <2>6
      <4>4. k \in g => last[k].from \subseteq known  BY <4>1, <1>2, <2>5
      <4> QED BY <4>2, <4>3, <4>4
    <3> QED BY <3>1, <3>2
  <2>11. MergeStays(held, g, known, last, old \cup js)  BY <1>2, <2>2, <2>8, <2>10 DEF MergeStays
  <2> DEFINE result == [removed |-> old \cup js, insights |-> last]
  <2>12. /\ result \in [removed : SUBSET g, insights : Seq(InsightEntry)]
         /\ result.insights = last /\ result.removed = old \cup js
    BY <1>2, <2>2, <2>8
  <2> HIDE DEF result
  <2>13. result \in Merges(held, g, known)  BY <2>11, <2>12 DEF Merges
  <2> QED BY <2>1, <2>13 DEF result
<1> QED BY <1>3, <1>4

\* A whole group.
LEMMA MergedIs ==
  ASSUME Layered(layers), NEW g, g \subseteq DOMAIN layers.insights, NEW known \in SUBSET Nat,
         \A i \in g : layers.insights[i].from \subseteq known
  PROVE  Merged(g) \in Merges(layers.insights, g, known)
<1> DEFINE held == layers.insights
           base == [removed |-> {}, insights |-> held]
           each == [i \in DOMAIN held |-> i]
           A == Merges(held, g, known)
<1>1. held \in Seq(InsightEntry) /\ DOMAIN held = 1 .. Len(held) /\ Len(held) \in Nat
  <2>1. held \in Seq(InsightEntry)  BY DEF Layered
  <2> HIDE DEF held
  <2> QED BY <2>1
<1>2. \A i \in g : held[i].from \subseteq known  OBVIOUS
<1>3. g \subseteq DOMAIN held  OBVIOUS
<1>4. Merged(g) = FoldLeft(LAMBDA merge, i : Absorb(g, merge, i), base, each)  BY DEF Merged
<1> HIDE DEF held
<1>5. DOMAIN each = 1 .. Len(held) /\ Len(each) = Len(held) /\ \A i \in 1 .. Len(held) : each[i] = i
  BY <1>1
<1>6. Merged(g) = MergeFold!After(g, base, each, Len(held))
  <2> HIDE DEF base, each
  <2> QED BY <1>4, <1>5 DEF FoldLeft, MapThenFoldSet, MergeFold!After, MergeFold!Over,
             MergeFold!Solves, MergeFold!Top, Max
<1>7. base \in A
  <2>1. base.removed = {} /\ base.insights = held
        /\ base \in [removed : SUBSET g, insights : Seq(InsightEntry)]
    BY <1>1
  <2> HIDE DEF base
  <2>2. MergeStays(held, g, known, held, {})  BY <1>1, <1>2 DEF MergeStays
  <2> QED BY <2>1, <2>2 DEF Merges
<1>8. \A i \in 1 .. Len(held) : \A a \in A : Absorb(g, a, each[i]) \in A
  <2> TAKE i \in 1 .. Len(held)
  <2>1. each[i] = i /\ i \in DOMAIN held  BY <1>1, <1>5
  <2> HIDE DEF each
  <2>2. \A a \in A : Absorb(g, a, i) \in A  BY <2>1, <1>1, <1>3, AbsorbKeeps
  <2> QED BY <2>1, <2>2
<1> HIDE DEF base, each, A
<1>9. \A n \in 0 .. Len(held) : MergeFold!After(g, base, each, n) \in A
  BY <1>1, <1>7, <1>8, MergeFold!FoldKeeps
<1>10. Len(held) \in 0 .. Len(held)  BY <1>1
<1> QED BY <1>6, <1>9, <1>10 DEF A, held

\* A group merged, and the groups that are left.
LEMMA DeduplicateKeeps ==
  ASSUME DualAssumption, DualInv, NEW g, NEW later, DeduplicateAndConsolidate(g, later),
         GroupRests(g, layers, overtaken), \A h \in later : GroupRests(h, layers, overtaken)
  PROVE  DualInv'
<1> DEFINE held == layers.insights  owners == {held[i].owner : i \in g}
           merge == Merged(g)
           x == IF later = {} THEN Resting ELSE [at |-> "merging", groups |-> later]
<1>1. /\ layers' = IF merge.removed = {} THEN layers
                   ELSE InvalidateCacheForRecords([layers EXCEPT !.insights = merge.insights], owners)
      /\ jobs' = [jobs EXCEPT ![Timer] = x]
      /\ queue' = queue /\ aging' = aging /\ spoilt' = spoilt /\ overtaken' = overtaken
  BY DEF DeduplicateAndConsolidate
<1>2. /\ Layered(layers) /\ RecordsLive(layers) /\ InsightsRest(layers, overtaken)
      /\ Fresh(layers, Unannounced \cup spoilt) /\ JobsRest(layers, overtaken)
      /\ queue \in Seq(DOMAIN layers.events) /\ aging \subseteq Memory
  BY DEF DualInv
<1>3. PICK o \in Owners : \A i \in g :
        i \in DOMAIN held /\ held[i].owner = o /\ held[i].from \subseteq Known(layers, overtaken, o)
  BY DEF GroupRests
<1> DEFINE known == Known(layers, overtaken, o)
<1>4. known \in SUBSET Nat
  <2>1. DOMAIN layers.events \subseteq Nat  BY <1>2 DEF Layered
  <2> QED BY <2>1 DEF Known
<1> HIDE DEF known
<1>5. merge \in Merges(held, g, known)
  <2>1. g \subseteq DOMAIN layers.insights /\ \A i \in g : layers.insights[i].from \subseteq known
    BY <1>3 DEF known
  <2> QED BY <2>1, <1>2, <1>4, MergedIs
<1> DEFINE all == merge.insights  mid == [layers EXCEPT !.insights = all]
<1>6. /\ all \in Seq(InsightEntry) /\ DOMAIN all = DOMAIN held
      /\ \A i \in DOMAIN held :
           /\ all[i].owner = held[i].owner /\ (Kept(all[i]) => Kept(held[i]))
           /\ i \notin g => all[i] = held[i]
           /\ i \in g => all[i].from \subseteq known
  <2> HIDE DEF merge
  <2> QED BY <1>5 DEF Merges, MergeStays
<1>7. DOMAIN layers = LayerNames  BY <1>2 DEF Layered
<1>8. Made(mid, layers.records, layers.events, all) /\ mid.cache = layers.cache
  <2> HIDE DEF all
  <2> QED BY <1>7 DEF Made, LayerNames
<1>9. JobRests(x, layers, overtaken)
  <2>1. CASE later = {}
    <3>1. x = Resting  BY <2>1
    <3> QED BY <3>1 DEF Resting, JobRests, IsAt, AtWork, AtEvent
  <2>2. CASE later # {}
    <3>1. x.at = "merging" /\ x.groups = later  BY <2>2
    <3> HIDE DEF x
    <3> QED BY <3>1 DEF JobRests, IsAt, AtWork, AtEvent
  <2> QED BY <2>1, <2>2
<1>10. Timer \in Job /\ Timer \notin Ingester  BY DEF Job, DualAssumption
<1>11. CASE merge.removed = {}
  <2>1. layers' = layers  BY <1>1, <1>11
  <2>2. Unannounced' = Unannounced
    <3>1. \A k \in Ingester : jobs'[k] = jobs[k]
      <4> HIDE DEF x
      <4> QED BY <1>1, <1>2 DEF JobsRest, Job, DualAssumption
    <3> QED BY <3>1, <2>1, <1>2, UnannouncedSame
  <2> HIDE DEF x, merge
  <2> QED BY <2>1, <2>2, <1>1, <1>2, <1>9, <1>10, GoesOnItself, StepKeeps
<1>12. CASE merge.removed # {}
  <2> HIDE DEF mid, all, owners
  <2>1. Made(layers', layers.records, layers.events, all) /\ Wiped(layers, layers', owners)
    <3>1. DOMAIN mid = LayerNames  BY <1>8 DEF Made
    <3>2. layers' = InvalidateCacheForRecords(mid, owners)  BY <1>1, <1>12 DEF mid, all
    <3>3. Made(layers', mid.records, mid.events, mid.insights) /\ Wiped(mid, layers', owners)
      BY <3>1, <3>2, InvalidateIs
    <3> QED BY <3>3, <1>8 DEF Made, Wiped
  <2>2. layers'.records = layers.records /\ layers'.events = layers.events /\ layers'.insights = all
    BY <2>1 DEF Made
  <2>3. Layered(layers') /\ RecordsLive(layers')
    <3>1. DOMAIN layers'.cache = Space  BY <2>1 DEF Wiped
    <3> QED BY <3>1, <1>2, <1>6, <2>1 DEF Made, Layered, RecordsLive
  <2>4. \A a : Known(layers', overtaken, a) = Known(layers, overtaken, a)
    BY <2>2 DEF Known, KnownEvent
  <2>5. InsightsRest(layers', overtaken)
    <3> SUFFICES ASSUME NEW i \in DOMAIN held, Kept(all[i])
                 PROVE  all[i].from \subseteq Known(layers, overtaken, all[i].owner)
      BY <1>6, <2>2, <2>4 DEF InsightsRest
    <3>1. CASE i \in g  BY <3>1, <1>3, <1>6 DEF known
    <3>2. CASE i \notin g  BY <3>2, <1>2, <1>6 DEF InsightsRest
    <3> QED BY <3>1, <3>2
  <2>6. GoesOn(layers, overtaken, layers', overtaken)
    <3>1. \A i \in DOMAIN held : all[i].from \subseteq held[i].from \cup Known(layers, overtaken, held[i].owner)
      <4> TAKE i \in DOMAIN held
      <4>1. CASE i \in g  BY <4>1, <1>3, <1>6 DEF known
      <4>2. CASE i \notin g  BY <4>2, <1>6
      <4> QED BY <4>1, <4>2
    <3>2. \A e \in DOMAIN layers.events :
            /\ e \in DOMAIN layers'.events /\ layers'.events[e].memory = layers.events[e].memory
            /\ InQueue(layers', e) => InQueue(layers, e)
            /\ KnownEvent(layers, overtaken, e) => KnownEvent(layers', overtaken, e)
      BY <2>2 DEF InQueue, KnownEvent
    <3> QED BY <3>1, <3>2, <2>2, <2>4, <1>6 DEF GoesOn
  <2>7. Touches(layers, layers', owners)
    <3>1. \A i : HeldOfOthers(layers, i, owners) => i \notin g  BY DEF HeldOfOthers, owners
    <3>2. \A i : HeldOfOthers(layers', i, owners) => i \notin g
      BY <1>6, <2>2 DEF HeldOfOthers, owners
    <3>3. \A i : HeldOfOthers(layers, i, owners) <=> HeldOfOthers(layers', i, owners)
      BY <3>1, <3>2, <1>6, <2>2 DEF HeldOfOthers
    <3>4. \A i : HeldOfOthers(layers, i, owners) => layers'.insights[i].owner = layers.insights[i].owner
      BY <1>6, <2>2 DEF HeldOfOthers
    <3> QED BY <3>3, <3>4, <2>2 DEF Touches
  <2>8. Fresh(layers', Unannounced \cup spoilt)  BY <2>1, <2>7, <1>2, FreshStays
  <2> HIDE DEF x
  <2>9. JobRests(x, layers', overtaken)  BY <2>6, <1>9, JobStays
  <2>10. \A k \in Ingester : jobs'[k] = jobs[k]
    BY <1>1, <1>2 DEF JobsRest, Job, DualAssumption
  <2>11. Unannounced' = Unannounced  BY <2>2, <2>10, <1>2, UnannouncedSame
  <2>12. queue' \in Seq(DOMAIN layers'.events)  BY <1>1, <1>2, <2>2
  <2> QED BY <2>3, <2>5, <2>6, <2>8, <2>9, <2>11, <2>12, <1>1, <1>2, <1>10, StepKeeps
<1> QED BY <1>11, <1>12

\* The groups are taken from the insights that are held.
LEMMA ConsolidateInsightsKeeps ==
  ASSUME DualAssumption, DualInv, ConsolidateInsights
  PROVE  DualInv'
<1>1. PICK g \in InsightGroups : DeduplicateAndConsolidate(g, InsightGroups \ {g})
  BY DEF ConsolidateInsights
<1>2. InsightsRest(layers, overtaken)  BY DEF DualInv
<1>3. \A h \in InsightGroups : GroupRests(h, layers, overtaken)
  <2> SUFFICES ASSUME NEW m \in Memory,
                      NEW h, h = {i \in DOMAIN layers.insights :
                                    Kept(layers.insights[i]) /\ layers.insights[i].owner = Owner[m]}
               PROVE  GroupRests(h, layers, overtaken)
    BY DEF InsightGroups
  <2>1. Owner[m] \in Owners  BY DEF Owners
  <2> QED BY <2>1, <1>2 DEF GroupRests, InsightsRest
<1>4. \A h \in InsightGroups \ {g} : h \in InsightGroups  OBVIOUS
<1> QED BY <1>1, <1>3, <1>4, DeduplicateKeeps

\* A later group is what it was, though some of its insights are gone.
LEMMA NextGroupKeeps ==
  ASSUME DualAssumption, DualInv, NextGroup
  PROVE  DualInv'
<1>1. PICK g \in jobs[Timer].groups : DeduplicateAndConsolidate(g, jobs[Timer].groups \ {g})
  BY DEF NextGroup
<1>2. jobs[Timer].at = "merging" /\ JobRests(jobs[Timer], layers, overtaken)
  BY DEF NextGroup, DualInv, JobsRest, Job
<1>3. \A h \in jobs[Timer].groups : GroupRests(h, layers, overtaken)  BY <1>2 DEF JobRests, IsAt
<1>4. \A h \in jobs[Timer].groups \ {g} : h \in jobs[Timer].groups  OBVIOUS
<1> QED BY <1>1, <1>3, <1>4, DeduplicateKeeps

(***************************************************************************)
(* The whole provider.                                                     *)
(***************************************************************************)

\* It begins with nothing.
LEMMA DualBegins == ASSUME DualInit PROVE DualInv
<1>1. /\ layers = [records |-> [m \in Memory |-> [status |-> "absent", revision |-> 0]],
                   events |-> <<>>, insights |-> <<>>, cache |-> [s \in Space |-> Uncached]]
      /\ queue = <<>> /\ jobs = [j \in Job |-> Resting] /\ aging = {}
  BY DEF DualInit
<1>2. /\ DOMAIN layers = LayerNames /\ layers.events = <<>> /\ layers.insights = <<>>
      /\ layers.records = [m \in Memory |-> [status |-> "absent", revision |-> 0]]
      /\ layers.cache = [s \in Space |-> Uncached]
  BY <1>1 DEF LayerNames
<1>3. Layered(layers)
  <2>1. [status |-> "absent", revision |-> 0] \in RecordEntry  BY DEF RecordEntry
  <2>2. layers.records \in [Memory -> RecordEntry]  BY <2>1, <1>2
  <2>3. layers.events \in Seq(Event) /\ layers.insights \in Seq(InsightEntry) /\ DOMAIN layers.cache = Space
    BY <1>2
  <2> QED BY <2>2, <2>3, <1>2 DEF Layered
<1>4. DOMAIN layers.events = {} /\ DOMAIN layers.insights = {}  BY <1>2
<1>5. RecordsLive(layers) /\ InsightsRest(layers, overtaken)  BY <1>4 DEF RecordsLive, InsightsRest
<1>6. queue \in Seq(DOMAIN layers.events)  BY <1>1
<1>7. JobsRest(layers, overtaken)
  <2>1. DOMAIN jobs = Job /\ \A j \in Job : jobs[j] = Resting  BY <1>1
  <2>2. \A j \in Ingester : j \in Job  BY DEF Job
  <2>3. JobRests(Resting, layers, overtaken) /\ ~IsAt(Resting, {"merging"})
    BY DEF Resting, JobRests, IsAt, AtWork, AtEvent
  <2> QED BY <2>1, <2>2, <2>3 DEF JobsRest
<1>8. Fresh(layers, Unannounced \cup spoilt)
  <2>1. \A s \in Space : layers.cache[s] = Uncached  BY <1>2
  <2> QED BY <2>1 DEF Fresh, Cached, Uncached
<1> QED BY <1>1, <1>3, <1>5, <1>6, <1>7, <1>8 DEF DualInv

\* Nothing changes.
LEMMA DualStutters == ASSUME DualInv, UNCHANGED dualVars PROVE DualInv'
<1>1. /\ layers' = layers /\ queue' = queue /\ jobs' = jobs /\ aging' = aging
      /\ spoilt' = spoilt /\ overtaken' = overtaken
  BY DEF dualVars
<1> QED BY <1>1, GoesOnItself, MapsStep DEF DualInv

\* Every step keeps the invariant.
LEMMA DualKeeps == ASSUME DualAssumption, DualInv, [DualNext]_dualVars PROVE DualInv'
<1>1. ASSUME NEW j \in Ingester, Ingest(j) \/ IngestRefused(j) \/ IngestReturns(j) PROVE DualInv'
  BY <1>1, IngestKeeps, IngestRefusedKeeps, IngestReturnsKeeps
<1>2. ASSUME NEW j \in Job,
             \/ NextEvent(j) \/ ExtractFacts(j) \/ CreateSessionSummary(j)
             \/ StoreInsight(j) \/ StrategyDone(j)
      PROVE  DualInv'
  BY <1>2, NextEventKeeps, ExtractFactsKeeps, CreateSessionSummaryKeeps, StoreInsightKeeps, StrategyDoneKeeps
<1>3. ASSUME BackgroundPass \/ ConsolidateInsights \/ NextGroup \/ NothingToConsolidate PROVE DualInv'
  BY <1>3, BackgroundPassKeeps, ConsolidateInsightsKeeps, NextGroupKeeps, NothingToConsolidateKeeps
<1>4. ASSUME NEW s \in Space, Search(s) \/ CacheAges(s) PROVE DualInv'
  BY <1>4, SearchKeeps, CacheAgesKeeps
<1>5. ASSUME NEW m \in Memory, Retire(m) \/ Update(m) \/ RunsOut(m) \/ ApplyFeedback(Owner[m])
      PROVE  DualInv'
  BY <1>5, RetireKeeps, UpdateKeeps, RunsOutKeeps, ApplyFeedbackKeeps
<1>6. ASSUME NEW i \in DOMAIN layers.insights, RetireInsight(i) PROVE DualInv'
  BY <1>6, RetireInsightKeeps
<1>7. CASE Compact  BY <1>7, CompactKeeps
<1>8. CASE UNCHANGED dualVars  BY <1>8, DualStutters
<1> QED BY <1>1, <1>2, <1>3, <1>4, <1>5, <1>6, <1>7, <1>8 DEF DualNext

\* The invariant gives the three promises.
LEMMA DualPromises == ASSUME DualInv PROVE ProjectionsCurrent
<1>1. /\ Layered(layers) /\ RecordsLive(layers) /\ InsightsRest(layers, overtaken)
      /\ JobsRest(layers, overtaken)
  BY DEF DualInv
<1>2. \A s \in Space :
        LET p == PruneExpired IN
        Cached(p.cache[s]) /\ s \notin Unannounced \cup spoilt => p.cache[s].hits = Found(p, s)
  BY PruneIs DEF Pruned, Fresh
<1>3. \A j \in Ingester : jobs[j].at = "draining" /\ jobs[j].batch = <<>> => \A e \in jobs[j].own : ~Live(e)
  <2> SUFFICES ASSUME NEW j \in Ingester, jobs[j].at = "draining", jobs[j].batch = <<>>,
                      NEW e \in jobs[j].own, Live(e)
               PROVE  FALSE
    OBVIOUS
  <2>1. JobRests(jobs[j], layers, overtaken)  BY <1>1 DEF JobsRest, Job
  <2>2. BatchIsHeld(jobs[j], layers) /\ ~IsAt(jobs[j], AtEvent)  BY <2>1 DEF JobRests, IsAt, AtWork, AtEvent
  <2>3. e \in ToSet(jobs[j].batch)  BY <2>2 DEF BatchIsHeld, InQueue, Live
  <2>4. DOMAIN <<>> = {}  OBVIOUS
  <2> QED BY <2>3, <2>4 DEF ToSet
<1>4. \A i \in DOMAIN layers.insights : Kept(layers.insights[i]) =>
        \A e \in layers.insights[i].from \ overtaken :
          layers.records[MemoryOf(e)].status \notin {"deleted", "archived"}
  <2> SUFFICES ASSUME NEW i \in DOMAIN layers.insights, Kept(layers.insights[i]),
                      NEW e \in layers.insights[i].from \ overtaken
               PROVE  layers.records[MemoryOf(e)].status = "active"
    OBVIOUS
  <2>1. e \in DOMAIN layers.events /\ Kept(layers.events[e])  BY <1>1 DEF InsightsRest, Known, KnownEvent
  <2> QED BY <2>1, <1>1 DEF RecordsLive, MemoryOf
<1> QED BY <1>2, <1>3, <1>4 DEF ProjectionsCurrent

\* For every set of memories, spaces and callers, and every order of their calls: what a search
\* takes from the cache is what it would have found without it, an ingest returns with its own
\* events processed, and no insight rests on a record that came to an end, the exceptions of
\* ProjectionsCurrent apart.
THEOREM ProjectionsStayCurrent == DualSpec => []ProjectionsCurrent
<1>1. DualInit => DualInv  BY DualBegins
<1>2. DualInv /\ [DualNext]_dualVars => DualInv'  BY DualAssumption, DualKeeps
<1>3. DualInv => ProjectionsCurrent  BY DualPromises
<1> QED BY <1>1, <1>2, <1>3, PTL DEF DualSpec
=============================================================================
