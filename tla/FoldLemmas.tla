----------------------------- MODULE FoldLemmas -----------------------------
(***************************************************************************)
(* What a fold over a sequence computes, for any operator: FoldLeft of the *)
(* community modules chooses a function of all sets of positions; its      *)
(* value for the first n positions is that for the first n - 1, with the   *)
(* n-th element taken into it.  A module that proves something of a loop   *)
(* of the code instantiates this one with the loop's body.                 *)
(***************************************************************************)
EXTENDS Integers, FiniteSetTheorems, WellFoundedInduction, TLAPS

CONSTANT Op(_, _, _)  \* the body: of what it may read, of what is accumulated, of an element

Numbers(D) == D \in SUBSET Nat
Top(T) == CHOOSE x \in T : \A y \in T : x >= y

\* The recursion of FoldLeft, and its value over the positions D.
Solves(g, e, base, s, D) ==
  g = [T \in SUBSET D |-> IF T = {} THEN base ELSE Op(e, g[T \ {Top(T)}], s[Top(T)])]
Over(e, base, s, D) == (CHOOSE g : Solves(g, e, base, s, D))[D]
After(e, base, s, n) == Over(e, base, s, 1 .. n)

\* A set of sets of elements of a finite set has one that contains no other.
LEMMA MinimalSet ==
  ASSUME NEW S, IsFiniteSet(S), NEW B \in SUBSET (SUBSET S), B # {}
  PROVE  \E T \in B : \A U \in B : U \subseteq T => U = T
<1>1. IsWellFoundedOn(StrictSubsetOrdering(S), FiniteSubsetsOf(S))
  BY FS_StrictSubsetOrderingWellFounded
<1>2. FiniteSubsetsOf(S) = SUBSET S
  BY FS_Subset DEF FiniteSubsetsOf
<1>3. \E T \in B : \A U \in B : ~ (<<U, T>> \in StrictSubsetOrdering(S))
  BY <1>1, <1>2, WFMin
<1>4. QED BY <1>3 DEF StrictSubsetOrdering

\* A finite set of numbers has a greatest one, and Top chooses it.
LEMMA TopIs ==
  ASSUME NEW T, Numbers(T), IsFiniteSet(T), T # {}
  PROVE  Top(T) \in T /\ \A y \in T : Top(T) >= y
<1> DEFINE B == {U \in SUBSET T : U # {} /\ ~\E x \in U : \A y \in U : x >= y}
<1>1. SUFFICES ASSUME B # {} PROVE FALSE
  <2>1. B = {} => \E x \in T : \A y \in T : x >= y  OBVIOUS
  <2> QED BY <2>1 DEF Top
<1>2. PICK U \in B : \A V \in B : V \subseteq U => V = U
  <2>1. B \in SUBSET (SUBSET T)  OBVIOUS
  <2> HIDE DEF B
  <2> QED BY <1>1, <2>1, MinimalSet
<1>3. PICK z \in U : TRUE  BY <1>2
<1>4. z \in Nat /\ U \in SUBSET Nat  BY <1>2, <1>3 DEF Numbers
<1>5. CASE U \ {z} = {}
  <2>1. \A y \in U : z >= y  BY <1>4, <1>5
  <2> QED BY <2>1, <1>2, <1>3
<1>6. CASE U \ {z} # {}
  <2>1. U \ {z} \notin B  BY <1>2, <1>3
  <2>2. PICK x \in U \ {z} : \A y \in U \ {z} : x >= y  BY <2>1, <1>2, <1>6
  <2>3. (\A y \in U : x >= y) \/ (\A y \in U : z >= y)  BY <2>2, <1>4
  <2> QED BY <2>2, <2>3, <1>2, <1>3
<1> QED BY <1>5, <1>6

\* Two solutions agree where both are defined.
LEMMA SolutionsAgree ==
  ASSUME NEW e, NEW base, NEW s, NEW D, NEW E, NEW g, NEW h, Numbers(D),
         Solves(g, e, base, s, D), Solves(h, e, base, s, E),
         NEW S \in SUBSET D, S \subseteq E, IsFiniteSet(S)
  PROVE  g[S] = h[S]
<1> DEFINE B == {T \in SUBSET S : g[T] # h[T]}
<1>1. SUFFICES ASSUME B # {} PROVE FALSE  OBVIOUS
<1>2. PICK T \in B : \A U \in B : U \subseteq T => U = T
  <2>1. B \in SUBSET (SUBSET S)  OBVIOUS
  <2> HIDE DEF B
  <2> QED BY <1>1, <2>1, MinimalSet
<1>3. /\ T \in SUBSET S /\ T \in SUBSET D /\ T \in SUBSET E /\ g[T] # h[T]  BY <1>2
<1>4. CASE T = {}
  <2>1. g[T] = base /\ h[T] = base  BY <1>3, <1>4 DEF Solves
  <2> QED BY <2>1, <1>3
<1>5. CASE T # {}
  <2> DEFINE U == T \ {Top(T)}
  <2>1. Top(T) \in T
    <3>1. IsFiniteSet(T) /\ Numbers(T)  BY <1>3, FS_Subset DEF Numbers
    <3> QED BY <3>1, <1>5, TopIs
  <2>2. U \in SUBSET S /\ U \subseteq T /\ U # T  BY <2>1, <1>3
  <2>3. g[U] = h[U]  BY <1>2, <2>2
  <2>4. g[T] = Op(e, g[U], s[Top(T)]) /\ h[T] = Op(e, h[U], s[Top(T)])  BY <1>3, <1>5 DEF Solves
  <2> QED BY <2>3, <2>4, <1>3
<1> QED BY <1>4, <1>5

Unfolds(e, base, s, D) ==
  \A S \in SUBSET D :
    /\ Solves([T \in SUBSET S |-> Over(e, base, s, T)], e, base, s, S)
    /\ Over(e, base, s, S) = IF S = {} THEN base ELSE Op(e, Over(e, base, s, S \ {Top(S)}), s[Top(S)])

\* The recursion over a finite set of positions has a solution, unfolded in one step.
LEMMA OverStep ==
  ASSUME NEW e, NEW base, NEW s, NEW D, Numbers(D), IsFiniteSet(D)
  PROVE  Unfolds(e, base, s, D)
<1> DEFINE W(S) == Over(e, base, s, S)
           G(S) == [T \in SUBSET S |-> W(T)]
           V(S) == IF S = {} THEN base ELSE Op(e, W(S \ {Top(S)}), s[Top(S)])
           OK(S) == Solves(G(S), e, base, s, S) /\ W(S) = V(S)
           B == {S \in SUBSET D : ~OK(S)}
<1>1. SUFFICES ASSUME B # {} PROVE FALSE  BY DEF Unfolds
<1>2. PICK S \in B : \A U \in B : U \subseteq S => U = S
  <2>1. B \in SUBSET (SUBSET D)  OBVIOUS
  <2> HIDE DEF B
  <2> QED BY <1>1, <2>1, MinimalSet
<1>3. S \in SUBSET D /\ ~OK(S)  BY <1>2
<1>4. \A T \in SUBSET S : T # S => OK(T)
  <2> TAKE T \in SUBSET S
  <2> HAVE T # S
  <2>1. T \in SUBSET D /\ T \notin B  BY <1>2, <1>3
  <2> QED BY <2>1
<1> DEFINE g == [T \in SUBSET S |-> V(T)]
<1>5. Solves(g, e, base, s, S)
  <2>1. \A T \in SUBSET S : T # {} => g[T \ {Top(T)}] = W(T \ {Top(T)})
    <3> TAKE T \in SUBSET S
    <3> HAVE T # {}
    <3> DEFINE U == T \ {Top(T)}
    <3>1. Top(T) \in T
      <4>1. IsFiniteSet(T) /\ Numbers(T)  BY <1>3, FS_Subset DEF Numbers
      <4> QED BY <4>1, TopIs
    <3>2. U \in SUBSET S /\ U # S  BY <3>1
    <3>3. W(U) = V(U)  BY <3>2, <1>4
    <3>4. g[U] = V(U)  BY <3>2
    <3> QED BY <3>3, <3>4
  <2>2. g = [T \in SUBSET S |-> IF T = {} THEN base ELSE Op(e, g[T \ {Top(T)}], s[Top(T)])]
    BY <2>1
  <2> HIDE DEF g
  <2> QED BY <2>2 DEF Solves
<1>6. \A h : Solves(h, e, base, s, S) => h[S] = g[S]
  <2> HIDE DEF g
  <2> SUFFICES ASSUME NEW h, Solves(h, e, base, s, S) PROVE h[S] = g[S]  OBVIOUS
  <2>1. IsFiniteSet(S) /\ Numbers(S)  BY <1>3, FS_Subset DEF Numbers
  <2> QED BY <1>5, <2>1, SolutionsAgree
<1>7. W(S) = V(S)
  <2>1. Solves(CHOOSE h : Solves(h, e, base, s, S), e, base, s, S)  BY <1>5
  <2>2. W(S) = g[S]  BY <2>1, <1>6 DEF Over
  <2> QED BY <2>2
<1>8. Solves(G(S), e, base, s, S)
  <2>1. \A T \in SUBSET S : W(T) = V(T)  BY <1>4, <1>7
  <2>2. G(S) = g  BY <2>1
  <2> QED BY <2>2, <1>5
<1> QED BY <1>3, <1>7, <1>8

\* The same of the whole set.
LEMMA OverIs ==
  ASSUME NEW e, NEW base, NEW s, NEW D, Numbers(D), IsFiniteSet(D)
  PROVE  Over(e, base, s, D) =
           IF D = {} THEN base ELSE Op(e, Over(e, base, s, D \ {Top(D)}), s[Top(D)])
<1>1. Unfolds(e, base, s, D)  BY OverStep
<1> QED BY <1>1 DEF Unfolds

\* The fold over no element.
LEMMA AfterNone == ASSUME NEW e, NEW base, NEW s PROVE After(e, base, s, 0) = base
<1>1. 1 .. 0 = {} /\ IsFiniteSet({}) /\ Numbers({})  BY FS_EmptySet DEF Numbers
<1>2. Over(e, base, s, {}) = base  BY <1>1, OverIs
<1> QED BY <1>1, <1>2 DEF After

\* One element more is taken into the fold.
LEMMA AfterOne ==
  ASSUME NEW e, NEW base, NEW s, NEW n \in Nat
  PROVE  After(e, base, s, n + 1) = Op(e, After(e, base, s, n), s[n + 1])
<1> DEFINE S == 1 .. (n + 1)
<1>1. IsFiniteSet(S) /\ S # {} /\ Numbers(S)
  <2>1. IsFiniteSet(1 .. (n + 1))  BY FS_Interval
  <2> QED BY <2>1 DEF Numbers
<1>2. Top(S) = n + 1
  <2>1. Top(S) \in S /\ \A y \in S : Top(S) >= y
    <3> HIDE DEF S
    <3> QED BY <1>1, TopIs
  <2> QED BY <2>1
<1>3. S \ {n + 1} = 1 .. n  OBVIOUS
<1>4. Over(e, base, s, S) = Op(e, Over(e, base, s, S \ {Top(S)}), s[Top(S)])
  <2> HIDE DEF S
  <2> QED BY <1>1, OverIs
<1> QED BY <1>2, <1>3, <1>4 DEF After

\* What holds of zero and passes from a number to the next holds of all.
LEMMA Climbs ==
  ASSUME NEW S \in SUBSET Nat, 0 \in S, \A n \in S : n + 1 \in S
  PROVE  S = Nat
<1> DEFINE Less == OpToRel(<, Nat)
           B == Nat \ S
<1>1. \A x, y \in Nat : y < x => <<y, x>> \in Less
  BY Zenon DEF OpToRel
<1>2. IsWellFoundedOn(Less, Nat)
  BY NatLessThanWellFounded
<1> HIDE DEF Less
<1>3. SUFFICES ASSUME B # {} PROVE FALSE  OBVIOUS
<1>4. PICK x \in B : \A y \in B : <<y, x>> \notin Less
  <2>1. B \subseteq Nat  OBVIOUS
  <2> HIDE DEF B
  <2> QED BY <1>2, <1>3, <2>1, WFMin
<1>5. x \in Nat /\ x # 0 /\ x - 1 \in Nat /\ x - 1 < x  BY <1>4
<1>6. x - 1 \in S  BY <1>1, <1>4, <1>5
<1>7. (x - 1) + 1 = x  BY <1>5
<1> QED BY <1>4, <1>6, <1>7

\* What each step keeps, the fold keeps.
LEMMA FoldKeeps ==
  ASSUME NEW e, NEW base, NEW s, NEW n \in Nat, NEW A, base \in A,
         \A i \in 1 .. n : \A a \in A : Op(e, a, s[i]) \in A
  PROVE  \A m \in 0 .. n : After(e, base, s, m) \in A
<1> DEFINE S == {m \in Nat : m <= n => After(e, base, s, m) \in A}
<1>1. 0 \in S  BY AfterNone
<1>2. ASSUME NEW m \in S PROVE m + 1 \in S
  <2>1. m + 1 <= n => m + 1 \in 1 .. n /\ After(e, base, s, m) \in A  BY <1>2
  <2>2. After(e, base, s, m + 1) = Op(e, After(e, base, s, m), s[m + 1])  BY <1>2, AfterOne
  <2> QED BY <2>1, <2>2, <1>2
<1>3. S = Nat
  <2>1. S \in SUBSET Nat  OBVIOUS
  <2> HIDE DEF S
  <2> QED BY <1>1, <1>2, <2>1, Climbs
<1> QED BY <1>3

\* The fold over the first elements depends on them alone.
LEMMA AfterSame ==
  ASSUME NEW e, NEW base, NEW s, NEW t, NEW n \in Nat, \A i \in 1 .. n : s[i] = t[i]
  PROVE  After(e, base, s, n) = After(e, base, t, n)
<1> DEFINE S == {m \in Nat : m <= n => After(e, base, s, m) = After(e, base, t, m)}
<1>1. 0 \in S  BY AfterNone
<1>2. ASSUME NEW m \in S PROVE m + 1 \in S
  <2>1. m + 1 <= n => s[m + 1] = t[m + 1] /\ After(e, base, s, m) = After(e, base, t, m)  BY <1>2
  <2>2. /\ After(e, base, s, m + 1) = Op(e, After(e, base, s, m), s[m + 1])
        /\ After(e, base, t, m + 1) = Op(e, After(e, base, t, m), t[m + 1])
    BY <1>2, AfterOne
  <2> QED BY <2>1, <2>2, <1>2
<1>3. S = Nat
  <2>1. S \in SUBSET Nat  OBVIOUS
  <2> HIDE DEF S
  <2> QED BY <1>1, <1>2, <2>1, Climbs
<1> QED BY <1>3
=============================================================================
