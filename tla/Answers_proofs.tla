--------------------------- MODULE Answers_proofs ---------------------------
(***************************************************************************)
(* What the loops of the code compute for every input, and what callers    *)
(* are answered from it: the embedder's batches and its cache under a      *)
(* host's own index, the fusion of rankings and the hybrid search of the   *)
(* Postgres provider, and what extraction makes of observations.           *)
(***************************************************************************)
EXTENDS Retrieval, Extraction, PostgresSearch, Retrieval_proofs

(***************************************************************************)
(* Each element once, as a Set keeps them.                                 *)
(***************************************************************************)
Adds(e, once, x) == AddOnce(once, x)
OnceFold == INSTANCE FoldLemmas WITH Op <- Adds

OnceSoFar(S, t, s, n) == t \in Seq(S) /\ ToSet(t) = ElementsOf(s, n)

\* One element more is added unless it is there.
LEMMA OnceStep ==
  ASSUME NEW S, NEW s \in Seq(S), NEW n \in Nat, n + 1 <= Len(s), NEW t, OnceSoFar(S, t, s, n)
  PROVE  OnceSoFar(S, AddOnce(t, s[n + 1]), s, n + 1)
<1> DEFINE x == s[n + 1]
<1>1. t \in Seq(S) /\ x \in S /\ Len(t) \in Nat  BY DEF OnceSoFar
<1>2. \A m : m \in ToSet(t) <=> \E i \in 1 .. Len(t) : t[i] = m  BY <1>1, SeqElements
<1>3. Contains(t, x) <=> x \in ToSet(t)  BY <1>1, <1>2 DEF Contains
<1>4. ElementsOf(s, n + 1) = ElementsOf(s, n) \cup {x}
  <2>1. 1 .. (n + 1) = (1 .. n) \cup {n + 1}  OBVIOUS
  <2> QED BY <2>1 DEF ElementsOf
<1>5. ToSet(t) = ElementsOf(s, n)  BY DEF OnceSoFar
<1> HIDE DEF x
<1>6. CASE Contains(t, x)
  <2>1. ElementsOf(s, n + 1) = ToSet(t)  BY <1>3, <1>4, <1>5, <1>6
  <2> QED BY <2>1, <1>1, <1>6 DEF AddOnce, OnceSoFar, x
<1>7. CASE ~Contains(t, x)
  <2> DEFINE u == Append(t, x)
  <2>1. /\ u \in Seq(S) /\ Len(u) = Len(t) + 1 /\ u[Len(t) + 1] = x
        /\ \A k \in 1 .. Len(t) : u[k] = t[k]
    BY <1>1, Appended
  <2> HIDE DEF u
  <2>2. \A m : m \in ToSet(u) <=> \E i \in 1 .. Len(u) : u[i] = m  BY <2>1, SeqElements
  <2>3. 1 .. Len(u) = (1 .. Len(t)) \cup {Len(t) + 1}  BY <2>1, <1>1
  <2>4. ToSet(u) = ToSet(t) \cup {x}
    <3>1. \A m \in ToSet(u) : m \in ToSet(t) \cup {x}  BY <2>1, <2>2, <2>3, <1>2
    <3>2. \A m \in ToSet(t) : m \in ToSet(u)  BY <2>1, <2>2, <2>3, <1>2
    <3>3. x \in ToSet(u)  BY <2>1, <2>2, <2>3
    <3> QED BY <3>1, <3>2, <3>3
  <2>5. AddOnce(t, x) = u  BY <1>7 DEF AddOnce, u
  <2>6. OnceSoFar(S, u, s, n + 1)  BY <2>1, <2>4, <1>4, <1>5 DEF OnceSoFar
  <2> QED BY <2>5, <2>6 DEF x
<1> QED BY <1>6, <1>7

\* A Set made of an array has the array's elements.
LEMMA OnceIs ==
  ASSUME NEW S, NEW s \in Seq(S)
  PROVE  Once(s) \in Seq(S) /\ ToSet(Once(s)) = ToSet(s)
<1>1. Len(s) \in Nat /\ DOMAIN s = 1 .. Len(s) /\ ToSet(s) = ElementsOf(s, Len(s))  BY SeqElements
<1> DEFINE R(n) == OnceFold!After(0, <<>>, s, n)
<1>2. Once(s) = R(Len(s))
  BY <1>1 DEF Once, Adds, FoldLeft, MapThenFoldSet, OnceFold!After, OnceFold!Over, OnceFold!Solves, OnceFold!Top, Max
<1> DEFINE N == {n \in Nat : n <= Len(s) => OnceSoFar(S, R(n), s, n)}
<1>3. 0 \in N
  <2>1. R(0) = <<>>  BY OnceFold!AfterNone
  <2>2. ToSet(<<>>) = {} /\ ElementsOf(s, 0) = {}  BY DEF ToSet, ElementsOf
  <2>3. <<>> \in Seq(S)  OBVIOUS
  <2>4. OnceSoFar(S, <<>>, s, 0)  BY Zenon, <2>2, <2>3 DEF OnceSoFar
  <2> QED BY <2>1, <2>4
<1>4. ASSUME NEW n \in N  PROVE n + 1 \in N
  <2> SUFFICES ASSUME n + 1 <= Len(s) PROVE OnceSoFar(S, R(n + 1), s, n + 1)  BY <1>4
  <2>1. n \in Nat /\ OnceSoFar(S, R(n), s, n)  BY <1>1, <1>4
  <2>2. R(n + 1) = AddOnce(R(n), s[n + 1])  BY <2>1, OnceFold!AfterOne DEF Adds
  <2> HIDE DEF R
  <2> QED BY <2>1, <2>2, OnceStep
<1>5. N = Nat
  <2>1. N \in SUBSET Nat  OBVIOUS
  <2> HIDE DEF N
  <2> QED BY <1>3, <1>4, <2>1, OnceFold!Climbs
<1>6. OnceSoFar(S, R(Len(s)), s, Len(s))  BY <1>1, <1>5
<1> QED BY <1>1, <1>2, <1>6 DEF OnceSoFar

(***************************************************************************)
(* A batch's rows in the order of their texts.                             *)
(***************************************************************************)

\* An increasing numbering of n places is the places themselves.
LEMMA IncreasingIs ==
  ASSUME NEW n \in Nat, NEW f \in [1 .. n -> 1 .. n], \A i, j \in 1 .. n : i < j => f[i] < f[j],
         \A i \in 1 .. n : \E j \in 1 .. n : f[j] = i
  PROVE  \A i \in 1 .. n : f[i] = i
<1> DEFINE S == {i \in 1 .. n : f[i] # i}
<1>1. SUFFICES ASSUME S # {} PROVE FALSE  OBVIOUS
<1>2. PICK x \in S : \A y \in S : x <= y
  <2>1. S \in SUBSET Nat  OBVIOUS
  <2> HIDE DEF S
  <2> QED BY <1>1, <2>1, LeastNat
<1>3. /\ x \in 1 .. n /\ f[x] # x /\ f[x] \in 1 .. n
      /\ \A y \in 1 .. n : y < x => f[y] = y
  BY <1>2
<1> HIDE DEF S
<1>4. f[x] > x
  <2>1. CASE x = 1  BY <2>1, <1>3
  <2>2. CASE x # 1
    <3>1. x - 1 \in 1 .. n /\ x - 1 < x  BY <2>2, <1>3
    <3>2. f[x - 1] = x - 1  BY <3>1, <1>3
    <3>3. f[x - 1] < f[x]  BY <3>1, <1>3
    <3> QED BY <3>1, <3>2, <3>3, <1>3
  <2> QED BY <2>1, <2>2
<1>5. PICK j \in 1 .. n : f[j] = x  BY <1>3
<1>6. ~(j < x) /\ j # x  BY <1>3, <1>4, <1>5
<1>7. f[x] < f[j]  BY <1>3, <1>5, <1>6
<1> QED BY <1>3, <1>4, <1>5, <1>7

\* What toVectors() makes of a whole answer is the batch's vectors in their order.
LEMMA VectorsInOrder ==
  ASSUME NEW T, NEW batch \in Seq(T), NEW rows \in Responses(batch), Len(rows) = Len(batch), batch # <<>>
  PROVE  ToVectors(rows) = batch
<1> DEFINE n == Len(batch)  D == 1 .. n
           Sorted(q) == SortsRows(q, rows)
           order == CHOOSE q \in Bijection(DOMAIN rows, DOMAIN rows) : Sorted(q)
<1>1. n \in Nat /\ n >= 1 /\ DOMAIN batch = D  OBVIOUS
<1>2. rows # Tail(UnlabelledRows(batch))
  <2> DEFINE u == UnlabelledRows(batch)
  <2>1. DOMAIN u = D /\ u = [i \in 1 .. n |-> u[i]]  BY <1>1 DEF UnlabelledRows
  <2>2. u \in Seq({u[i] : i \in 1 .. n}) /\ Len(u) = n  BY <2>1, <1>1
  <2> HIDE DEF u
  <2>3. Len(Tail(u)) = n - 1  BY <2>2, <1>1
  <2>4. Len(rows) = n  OBVIOUS
  <2>5. Len(rows) # Len(Tail(u))  BY <2>3, <2>4, <1>1
  <2> QED BY <2>5 DEF u
<1>3. rows \in LabelledRows(batch) \/ rows = UnlabelledRows(batch)  BY <1>2 DEF Responses
<1> HIDE DEF n
<1>4. CASE rows \in LabelledRows(batch)
  <2>1. PICK p \in Bijection(D, D) : rows = [i \in D |-> [index |-> p[i], vector |-> batch[p[i]]]]
    BY <1>1, <1>4 DEF LabelledRows
  <2>2. /\ p \in [D -> D] /\ \A i, j \in D : p[i] = p[j] => i = j
        /\ \A i \in D : \E j \in D : p[j] = i
    BY DEF Bijection, Injection, Surjection, IsInjective
  <2>3. DOMAIN rows = D /\ \A i \in D : rows[i].index = p[i] /\ rows[i].vector = batch[p[i]]  BY <2>1
  <2>4. \E q \in Bijection(D, D) : Sorted(q)
    <3> DEFINE q == [i \in D |-> CHOOSE j \in D : p[j] = i]
    <3>1. \A i \in D : q[i] \in D /\ p[q[i]] = i  BY <2>2
    <3>2. q \in [D -> D]  BY <3>1
    <3> HIDE DEF q
    <3>3. \A i, j \in D : q[i] = q[j] => i = j  BY <3>1
    <3>4. \A i \in D : q[p[i]] = i /\ p[i] \in D
      <4> TAKE i \in D
      <4>1. p[i] \in D  BY <2>2
      <4>2. q[p[i]] \in D /\ p[q[p[i]]] = p[i]  BY <3>1, <4>1
      <4> QED BY <4>1, <4>2, <2>2
    <3>5. q \in Bijection(D, D)  BY <3>2, <3>3, <3>4 DEF Bijection, Injection, Surjection, IsInjective
    <3>6. Sorted(q)
      <4>1. \A i, j \in D : i < j => rows[q[i]].index < rows[q[j]].index  BY <3>1, <2>3
      <4> QED BY <4>1, <2>3 DEF SortsRows
    <3> QED BY <3>5, <3>6
  <2>5. order \in Bijection(D, D) /\ Sorted(order)
    <3>1. order = CHOOSE q \in Bijection(D, D) : Sorted(q)  BY <2>3
    <3> HIDE DEF order, Sorted
    <3> QED BY <2>4, <3>1
  <2>6. ToVectors(rows) = [i \in D |-> rows[order[i]].vector]  BY <2>3 DEF ToVectors
  <2> HIDE DEF order
  <2>7. /\ order \in [D -> D] /\ \A i, j \in D : order[i] = order[j] => i = j
        /\ \A i \in D : \E j \in D : order[j] = i
    BY <2>5 DEF Bijection, Injection, Surjection, IsInjective
  <2> DEFINE f == [i \in D |-> p[order[i]]]
  <2>8. \A i, j \in D : i < j => f[i] < f[j]
    <3>1. ASSUME NEW i \in D, NEW j \in D, i < j PROVE p[order[i]] < p[order[j]]
      <4>1. order[i] \in D /\ order[j] \in D /\ order[i] # order[j]
        <5>1. i # j  BY <3>1, <1>1
        <5> QED BY <5>1, <2>7
      <4>2. p[order[i]] # p[order[j]]  BY <2>2, <4>1
      <4>3. rows[order[i]].index < rows[order[j]].index \/ rows[order[i]].index = rows[order[j]].index
        BY <2>3, <2>5, <3>1 DEF SortsRows
      <4> QED BY <4>1, <4>2, <4>3, <2>3
    <3> QED BY <3>1
  <2>9. f \in [1 .. n -> 1 .. n]  BY <2>2, <2>7
  <2>10. \A i \in 1 .. n : \E j \in 1 .. n : f[j] = i
    <3> TAKE i \in 1 .. n
    <3>1. PICK k \in D : p[k] = i  BY <2>2
    <3>2. PICK j \in D : order[j] = k  BY <2>7
    <3> QED BY <3>1, <3>2
  <2> HIDE DEF f
  <2>11. \A i \in 1 .. n : f[i] = i  BY <1>1, <2>8, <2>9, <2>10, IncreasingIs
  <2>12. \A i \in D : rows[order[i]].vector = batch[i]
    <3> TAKE i \in D
    <3>1. p[order[i]] = i /\ order[i] \in D  BY <2>7, <2>11 DEF f
    <3> QED BY <3>1, <2>3
  <2>13. batch = [i \in D |-> batch[i]]  BY <1>1
  <2> QED BY <2>6, <2>12, <2>13
<1>5. CASE rows = UnlabelledRows(batch)
  <2>1. rows = [i \in D |-> [index |-> 0, vector |-> batch[i]]]  BY <1>1, <1>5 DEF UnlabelledRows
  <2>2. DOMAIN rows = D /\ \A i \in D : rows[i].index = 0 /\ rows[i].vector = batch[i]  BY <2>1
  <2>3. \E q \in Bijection(D, D) : Sorted(q)
    <3> DEFINE q == [i \in D |-> i]
    <3>1. q \in [D -> D] /\ \A i \in D : q[i] = i  OBVIOUS
    <3> HIDE DEF q
    <3>2. q \in Bijection(D, D)  BY <3>1 DEF Bijection, Injection, Surjection, IsInjective
    <3>3. Sorted(q)  BY <3>1, <2>2 DEF SortsRows
    <3> QED BY <3>2, <3>3
  <2>4. order \in Bijection(D, D) /\ Sorted(order)
    <3>1. order = CHOOSE q \in Bijection(D, D) : Sorted(q)  BY <2>2
    <3> HIDE DEF order, Sorted
    <3> QED BY <2>3, <3>1
  <2>5. ToVectors(rows) = [i \in D |-> rows[order[i]].vector]  BY <2>2 DEF ToVectors
  <2> HIDE DEF order
  <2>6. order \in [1 .. n -> 1 .. n] /\ \A i \in 1 .. n : \E j \in 1 .. n : order[j] = i
    BY <2>4 DEF Bijection, Injection, Surjection, IsInjective
  <2>7. \A i, j \in 1 .. n : i < j => order[i] < order[j]
    <3> TAKE i, j \in 1 .. n
    <3>1. order[i] \in D /\ order[j] \in D  BY <2>6
    <3>2. rows[order[i]].index = 0 /\ rows[order[j]].index = 0  BY <2>2, <3>1
    <3> QED BY <2>2, <2>4, <3>2 DEF SortsRows
  <2>8. \A i \in 1 .. n : order[i] = i  BY <1>1, <2>6, <2>7, IncreasingIs
  <2>9. \A i \in D : rows[order[i]].vector = batch[i]  BY <2>2, <2>8
  <2>10. batch = [i \in D |-> batch[i]]  BY <1>1
  <2> QED BY <2>5, <2>9, <2>10
<1> QED BY <1>3, <1>4, <1>5

(***************************************************************************)
(* The cache: what it keeps of a text is that text's vector.               *)
(***************************************************************************)
AllTexts == UNION {ToSet(asked) : asked \in TextLists}
Entry == AllTexts \X AllTexts

CacheWell(cache) ==
  /\ cache \in Seq(Entry) /\ Len(cache) <= CacheSize
  /\ \A i \in 1 .. Len(cache) : cache[i][2] = cache[i][1]

\* The texts of a call.
LEMMA TextsAre ==
  ASSUME NEW asked \in TextLists
  PROVE  /\ asked \in Seq(ToSet(asked)) /\ ToSet(asked) \subseteq AllTexts
         /\ DOMAIN asked = 1 .. Len(asked) /\ Len(asked) \in Nat
         /\ \A i \in DOMAIN asked : asked[i] \in ToSet(asked)
<1>1. asked \in Seq(ToSet(asked))  BY EmbeddingAssumption
<1>2. ToSet(asked) \subseteq AllTexts  BY DEF AllTexts
<1>3. DOMAIN asked = 1 .. Len(asked) /\ Len(asked) \in Nat  BY <1>1, SeqElements
<1>4. \A i \in DOMAIN asked : asked[i] \in ToSet(asked)  BY <1>1, <1>3
<1> QED BY <1>1, <1>2, <1>3, <1>4

\* What is read of a text.
LEMMA VectorIs ==
  ASSUME NEW cache, CacheWell(cache), NEW text
  PROVE  VectorOf(cache, text) = IF text \in CachedTexts(cache) THEN text ELSE ZeroVector
<1>1. DOMAIN cache = 1 .. Len(cache)  BY DEF CacheWell
<1>2. CASE text \in CachedTexts(cache)
  <2> DEFINE i == CHOOSE i \in DOMAIN cache : cache[i][1] = text
  <2>1. \E j \in DOMAIN cache : cache[j][1] = text  BY <1>2 DEF CachedTexts
  <2>2. i \in DOMAIN cache /\ cache[i][1] = text  BY <2>1
  <2>3. VectorOf(cache, text) = cache[i][2]  BY <1>2 DEF VectorOf
  <2> HIDE DEF i
  <2> QED BY <2>2, <2>3, <1>1, <1>2 DEF CacheWell
<1>3. CASE text \notin CachedTexts(cache)  BY <1>3 DEF VectorOf
<1> QED BY <1>2, <1>3

\* A vector is put.
LEMMA PutKeeps ==
  ASSUME NEW cache, CacheWell(cache), NEW text \in AllTexts
  PROVE  CacheWell(PutVector(cache, text, text))
<1> DEFINE room == IF Len(cache) >= CacheSize THEN Tail(cache) ELSE cache
<1>1. CacheSize \in Nat /\ CacheSize >= 1  BY EmbeddingAssumption
<1>2. cache \in Seq(Entry) /\ Len(cache) \in Nat /\ Len(cache) <= CacheSize  BY DEF CacheWell
<1>3. <<text, text>> \in Entry  BY DEF Entry
<1>4. /\ room \in Seq(Entry) /\ Len(room) \in Nat /\ Len(room) < CacheSize
      /\ \A i \in 1 .. Len(room) : room[i][2] = room[i][1]
  <2>1. CASE Len(cache) >= CacheSize
    <3>1. cache # <<>>  BY <2>1, <1>1, <1>2
    <3>2. /\ room \in Seq(Entry) /\ Len(room) = Len(cache) - 1
          /\ \A i \in 1 .. Len(room) : room[i] = cache[i + 1]
      BY <2>1, <3>1, <1>2
    <3> HIDE DEF room
    <3>3. \A i \in 1 .. Len(room) : i + 1 \in 1 .. Len(cache)  BY <3>2, <1>2
    <3>4. \A i \in 1 .. Len(room) : room[i][2] = room[i][1]  BY <3>2, <3>3 DEF CacheWell
    <3> QED BY <3>2, <3>4, <1>1, <1>2
  <2>2. CASE ~(Len(cache) >= CacheSize)
    <3>1. room = cache  BY <2>2
    <3> QED BY <3>1, <2>2, <1>1, <1>2 DEF CacheWell
  <2> QED BY <2>1, <2>2
<1> HIDE DEF room, Entry
<1>5. DOMAIN room = 1 .. Len(room)  BY <1>4
<1>6. CASE text \in CachedTexts(room)
  <2> DEFINE u == [i \in DOMAIN room |-> IF room[i][1] = text THEN <<text, text>> ELSE room[i]]
  <2>1. \A i \in 1 .. Len(room) : u[i] \in Entry /\ u[i][2] = u[i][1]  BY <1>3, <1>4, <1>5
  <2>2. u = [i \in 1 .. Len(room) |-> u[i]]  BY <1>5
  <2> HIDE DEF u
  <2>3. u \in Seq(Entry) /\ Len(u) = Len(room)  BY <2>1, <2>2, <1>4
  <2>4. CacheWell(u)  BY <2>1, <2>3, <1>1, <1>4 DEF CacheWell
  <2> QED BY <2>4, <1>6 DEF u, room, PutVector
<1>7. CASE text \notin CachedTexts(room)
  <2> DEFINE u == Append(room, <<text, text>>)
  <2>1. /\ u \in Seq(Entry) /\ Len(u) = Len(room) + 1 /\ u[Len(room) + 1] = <<text, text>>
        /\ \A k \in 1 .. Len(room) : u[k] = room[k]
    BY <1>3, <1>4, Appended
  <2> HIDE DEF u
  <2>2. \A i \in 1 .. Len(u) : i \in 1 .. Len(room) \/ i = Len(room) + 1  BY <2>1, <1>4
  <2>3. \A i \in 1 .. Len(u) : u[i][2] = u[i][1]  BY <2>1, <2>2, <1>4
  <2>4. CacheWell(u)  BY <2>1, <2>3, <1>1, <1>4 DEF CacheWell
  <2> QED BY <2>4, <1>7 DEF u, room, PutVector
<1> QED BY <1>6, <1>7

\* Every vector of a call is put.
PutsNth(e, cache, i) == PutVector(cache, e.texts[i], e.vectors[i])
PutFold == INSTANCE FoldLemmas WITH Op <- PutsNth
AllPut(cache, missing, got) ==
  FoldLeft(LAMBDA m, i : PutVector(m, missing[i], got[i]), cache, [i \in DOMAIN missing |-> i])

\* Putting every vector of a batch keeps the cache well.
LEMMA AllPutKeeps ==
  ASSUME NEW cache, CacheWell(cache), NEW missing \in Seq(AllTexts), NEW got,
         \A i \in 1 .. Len(missing) : got[i] = missing[i]
  PROVE  CacheWell(AllPut(cache, missing, got))
<1> DEFINE n == Len(missing)  s == [i \in DOMAIN missing |-> i]  e == [texts |-> missing, vectors |-> got]
           W == {m \in Seq(Entry) : CacheWell(m)}
<1>1. n \in Nat /\ DOMAIN missing = 1 .. n /\ \A i \in 1 .. n : missing[i] \in AllTexts  OBVIOUS
<1>2. DOMAIN s = 1 .. n /\ s \in Seq(Nat) /\ Len(s) = n /\ \A i \in 1 .. n : s[i] = i  BY <1>1
<1>3. e.texts = missing /\ e.vectors = got  OBVIOUS
<1> HIDE DEF s, e, n
<1>4. AllPut(cache, missing, got) = PutFold!After(e, cache, s, n)
  BY <1>2, <1>3 DEF s, AllPut, PutsNth, FoldLeft, MapThenFoldSet, PutFold!After, PutFold!Over, PutFold!Solves, PutFold!Top, Max
<1>5. \A m : m \in W <=> CacheWell(m)  BY DEF CacheWell
<1> HIDE DEF W
<1>6. \A i \in 1 .. n : \A m \in W : PutsNth(e, m, s[i]) \in W
  <2> TAKE i \in 1 .. n
  <2> TAKE m \in W
  <2>1. PutsNth(e, m, s[i]) = PutVector(m, missing[i], missing[i])  BY <1>2, <1>3 DEF PutsNth, n
  <2>2. CacheWell(PutVector(m, missing[i], missing[i]))  BY <1>1, <1>5, PutKeeps
  <2> QED BY <2>1, <2>2, <1>5
<1>7. cache \in W  BY <1>5
<1>8. \A m \in 0 .. n : PutFold!After(e, cache, s, m) \in W  BY <1>1, <1>6, <1>7, PutFold!FoldKeeps
<1>9. PutFold!After(e, cache, s, n) \in W  BY <1>1, <1>8
<1> QED BY <1>4, <1>5, <1>9

(***************************************************************************)
(* Calls.  What one waits for is what the cache did not have of it.        *)
(***************************************************************************)
Going(call, cache, gone) ==
  /\ call = [at |-> call.at, texts |-> call.texts, missing |-> call.missing, got |-> call.got]
  /\ call.texts \in TextLists
  /\ call.missing \in Seq(AllTexts) /\ call.got \in Seq(AllTexts)
  /\ Len(call.got) < Len(call.missing)
  /\ \A i \in 1 .. Len(call.got) : call.got[i] = call.missing[i]
  /\ \A t \in ToSet(call.texts) : t \in CachedTexts(cache) \/ t \in ToSet(call.missing) \/ t \in gone

AnsweredWell(call, gone) ==
  \A i \in DOMAIN call.texts :
    call.answer[i] # call.texts[i] => call.answer[i] = ZeroVector /\ call.texts[i] \in gone

CallWell(call, cache, gone) ==
  /\ call.at \in {"none", "failed", "loading", "embedding", "done"}
  /\ call.at \in {"loading", "embedding"} => Going(call, cache, gone)
  /\ call.at = "done" => AnsweredWell(call, gone)

Loading == \E c \in EmbedCaller : embeds[c].at = "loading"

EmbedInv ==
  /\ DOMAIN embeds = EmbedCaller /\ DOMAIN lost = EmbedCaller
  /\ CacheWell(cached)
  /\ \A c \in EmbedCaller : CallWell(embeds[c], cached, lost[c])
  /\ (pipeline = "loading") = Loading

\* The texts a call has to ask for.
LEMMA MissingIs ==
  ASSUME NEW asked \in TextLists
  PROVE  /\ Missing(asked) \in Seq(AllTexts)
         /\ \A t \in ToSet(asked) : t \in CachedTexts(cached) \/ t \in ToSet(Missing(asked))
<1> DEFINE keep == ToSet(asked) \ CachedTexts(cached)  S == AllTexts
<1>1. asked \in Seq(S)
  <2>1. asked \in Seq(ToSet(asked)) /\ ToSet(asked) \subseteq AllTexts  BY TextsAre
  <2> QED BY <2>1
<1> HIDE DEF S
<1>2. Among(asked, keep) \in Seq(S) /\ ToSet(Among(asked, keep)) = ToSet(asked) \cap keep  BY <1>1, AmongElements
<1>3. Missing(asked) = Once(Among(asked, keep))  BY DEF Missing
<1>4. Missing(asked) \in Seq(S) /\ ToSet(Missing(asked)) = ToSet(asked) \cap keep  BY <1>2, <1>3, OnceIs
<1> QED BY <1>4 DEF S

\* A call begins.
LEMMA EmbedBeginsKeeps ==
  ASSUME EmbedInv, NEW c \in EmbedCaller, NEW asked \in TextLists, EmbedBegins(c, asked)
  PROVE  EmbedInv'
<1> DEFINE missing == Missing(asked)
           waits == embedderKind = "local" /\ pipeline # "ready"
           read == [i \in DOMAIN asked |-> VectorOf(cached, asked[i])]
           done == [at |-> "done", texts |-> asked, answer |-> read]
           began == [at |-> IF waits THEN "loading" ELSE "embedding", texts |-> asked,
                     missing |-> missing, got |-> <<>>]
<1>1. /\ embeds[c].at # "loading" /\ cached' = cached /\ lost' = [lost EXCEPT ![c] = {}]
      /\ missing = <<>> => embeds' = [embeds EXCEPT ![c] = done] /\ pipeline' = pipeline
      /\ missing # <<>> => /\ embeds' = [embeds EXCEPT ![c] = began]
                           /\ pipeline' = IF waits THEN "loading" ELSE pipeline
  <2>1. embeds[c].at # "loading" /\ cached' = cached /\ lost' = [lost EXCEPT ![c] = {}]  BY DEF EmbedBegins
  <2>2. IF missing = <<>>
        THEN embeds' = [embeds EXCEPT ![c] = done] /\ UNCHANGED pipeline
        ELSE /\ embeds' = [embeds EXCEPT ![c] = began]
             /\ pipeline' = IF waits THEN "loading" ELSE pipeline
    BY DEF EmbedBegins
  <2> HIDE DEF done, began, missing, waits
  <2> QED BY <2>1, <2>2
<1>2. /\ missing \in Seq(AllTexts)
      /\ \A t \in ToSet(asked) : t \in CachedTexts(cached) \/ t \in ToSet(missing)
  BY MissingIs
<1>3. \A i \in DOMAIN asked : asked[i] \in ToSet(asked)  BY TextsAre
<1>4. /\ DOMAIN lost' = EmbedCaller /\ lost'[c] = {}
      /\ \A d \in EmbedCaller : d # c => lost'[d] = lost[d]
  BY <1>1 DEF EmbedInv
<1> HIDE DEF missing, waits
<1>5. CASE missing = <<>>
  <2>1. ToSet(missing) = {}  BY <1>5 DEF ToSet
  <2>2. \A i \in DOMAIN asked : VectorOf(cached, asked[i]) = asked[i]  BY <2>1, <1>2, <1>3, VectorIs DEF EmbedInv
  <2>3. /\ done.at = "done" /\ done.texts = asked
        /\ \A i \in DOMAIN asked : done.answer[i] = VectorOf(cached, asked[i])
    <3>1. \A i \in DOMAIN asked : read[i] = VectorOf(cached, asked[i])  OBVIOUS
    <3> HIDE DEF read
    <3>2. done.at = "done" /\ done.texts = asked /\ done.answer = read  OBVIOUS
    <3> QED BY <3>1, <3>2
  <2> HIDE DEF done
  <2>4. CallWell(done, cached, {})  BY <2>2, <2>3 DEF CallWell, AnsweredWell
  <2>5. /\ DOMAIN embeds' = EmbedCaller /\ embeds'[c] = done
        /\ \A d \in EmbedCaller : d # c => embeds'[d] = embeds[d]
    BY <1>1, <1>5 DEF EmbedInv
  <2>6. Loading' = Loading  BY <2>3, <2>5, <1>1 DEF Loading
  <2> QED BY <2>4, <2>5, <2>6, <1>1, <1>4, <1>5 DEF EmbedInv
<1>6. CASE missing # <<>>
  <2>1. Len(missing) > 0 /\ <<>> \in Seq(AllTexts) /\ Len(<<>>) = 0  BY <1>2, <1>6
  <2>2. Going(began, cached, {})  BY <2>1, <1>2 DEF Going
  <2>3. began.at = IF waits THEN "loading" ELSE "embedding"  OBVIOUS
  <2> HIDE DEF began
  <2>4. CallWell(began, cached, {})  BY <2>2, <2>3 DEF CallWell
  <2>5. /\ DOMAIN embeds' = EmbedCaller /\ embeds'[c] = began
        /\ \A d \in EmbedCaller : d # c => embeds'[d] = embeds[d]
    BY <1>1, <1>6 DEF EmbedInv
  <2>6. Loading' = (waits \/ Loading)  BY <2>3, <2>5, <1>1 DEF Loading
  <2>7. (pipeline' = "loading") = Loading'
    <3>1. (pipeline = "loading") = Loading  BY DEF EmbedInv
    <3>2. pipeline' = IF waits THEN "loading" ELSE pipeline  BY <1>1, <1>6
    <3> QED BY <2>6, <3>1, <3>2
  <2> QED BY <2>4, <2>5, <2>7, <1>1, <1>4 DEF EmbedInv
<1> QED BY <1>5, <1>6

\* The pipeline is there, or it is not: all who wait for it hear of it.
LEMMA LoadEndKeeps ==
  ASSUME EmbedInv, PipelineLoads \/ PipelineFails
  PROVE  EmbedInv'
<1>1. cached' = cached /\ lost' = lost /\ pipeline' # "loading"  BY DEF PipelineLoads, PipelineFails
<1>2. PICK to \in {"embedding", "failed"} : LoadEnds(to)  BY DEF PipelineLoads, PipelineFails
<1>3. DOMAIN embeds' = EmbedCaller  BY <1>2 DEF LoadEnds
<1>4. ASSUME NEW c \in EmbedCaller
      PROVE  CallWell(embeds'[c], cached, lost[c]) /\ embeds'[c].at # "loading"
  <2> DEFINE call == embeds[c]
  <2>1. CallWell(call, cached, lost[c])  BY DEF EmbedInv
  <2>2. embeds'[c] = IF call.at # "loading" THEN call
                     ELSE IF to = "failed" THEN [at |-> "failed"] ELSE [call EXCEPT !.at = to]
    BY <1>2 DEF LoadEnds
  <2> HIDE DEF call
  <2>3. CASE call.at # "loading"  BY <2>1, <2>2, <2>3
  <2>4. CASE call.at = "loading" /\ to = "failed"
    <3>1. embeds'[c] = [at |-> "failed"]  BY <2>2, <2>4
    <3> QED BY <3>1 DEF CallWell
  <2>5. CASE call.at = "loading" /\ to = "embedding"
    <3> DEFINE on == [at |-> "embedding", texts |-> call.texts, missing |-> call.missing, got |-> call.got]
    <3>1. Going(call, cached, lost[c])  BY <2>1, <2>5 DEF CallWell
    <3>2. [call EXCEPT !.at = "embedding"] = on
      <4>1. call = [at |-> call.at, texts |-> call.texts, missing |-> call.missing, got |-> call.got]
        BY <3>1 DEF Going
      <4> QED BY <4>1
    <3>3. embeds'[c] = on  BY <2>2, <2>5, <3>2
    <3>4. Going(on, cached, lost[c])  BY <3>1 DEF Going
    <3>5. on.at = "embedding"  OBVIOUS
    <3> HIDE DEF on
    <3> QED BY <3>3, <3>4, <3>5 DEF CallWell
  <2> QED BY <2>3, <2>4, <2>5, <1>2
<1>5. Loading' = FALSE  BY <1>4 DEF Loading
<1> QED BY <1>1, <1>3, <1>4, <1>5 DEF EmbedInv

\* The next texts of a call that waits for vectors.
LEMMA NextBatchIs ==
  ASSUME NEW call, NEW cache, NEW gone, Going(call, cache, gone)
  PROVE  /\ NextBatch(call) \in Seq(AllTexts) /\ NextBatch(call) # <<>>
         /\ Len(call.got \o NextBatch(call)) <= Len(call.missing)
         /\ call.got \o NextBatch(call) \in Seq(AllTexts)
         /\ \A i \in 1 .. Len(call.got \o NextBatch(call)) : (call.got \o NextBatch(call))[i] = call.missing[i]
<1> DEFINE m == call.missing  g == call.got  from == Len(g)
           to == IF from + EmbedBatch < Len(m) THEN from + EmbedBatch ELSE Len(m)
           batch == SubSeq(m, from + 1, to)  u == g \o batch
<1>1. /\ m \in Seq(AllTexts) /\ g \in Seq(AllTexts) /\ Len(g) < Len(m)
      /\ \A i \in 1 .. Len(g) : g[i] = m[i]
  BY DEF Going
<1>2. NextBatch(call) = batch  BY DEF NextBatch
<1> HIDE DEF m, g
<1>3. /\ from \in Nat /\ to \in Nat /\ from < to /\ to <= Len(m) /\ Len(m) \in Nat
  <2>1. EmbedBatch \in Nat /\ EmbedBatch >= 1  BY EmbeddingAssumption
  <2> QED BY <2>1, <1>1
<1> HIDE DEF from, to
<1>4. /\ batch \in Seq(AllTexts) /\ Len(batch) = to - from
      /\ \A i \in 1 .. (to - from) : batch[i] = m[from + i]
  BY <1>1, <1>3
<1> HIDE DEF batch
<1>5. /\ u \in Seq(AllTexts) /\ Len(u) = Len(g) + Len(batch) /\ Len(g) \in Nat /\ Len(batch) \in Nat
      /\ \A i \in 1 .. Len(g) : u[i] = g[i]
      /\ \A i \in 1 .. Len(batch) : u[Len(g) + i] = batch[i]
  BY <1>1, <1>4
<1> HIDE DEF u
<1>6. Len(g) = from  BY DEF from
<1>7. Len(u) = to  BY <1>3, <1>4, <1>5, <1>6
<1>8. ASSUME NEW i \in 1 .. Len(u) PROVE u[i] = m[i]
  <2>1. CASE i <= from
    <3>1. i \in 1 .. Len(g)  BY <2>1, <1>3, <1>6, <1>7
    <3> QED BY <3>1, <1>1, <1>5
  <2>2. CASE from < i
    <3> DEFINE j == i - from
    <3>1. j \in 1 .. (to - from) /\ i = from + j  BY <2>2, <1>3, <1>7
    <3> HIDE DEF j
    <3>2. u[from + j] = batch[j]  BY <3>1, <1>4, <1>5, <1>6
    <3>3. batch[j] = m[from + j]  BY <3>1, <1>4
    <3> QED BY <3>1, <3>2, <3>3
  <2> QED BY <2>1, <2>2, <1>3, <1>7
<1>9. batch # <<>>
  <2>1. Len(batch) > 0  BY <1>3, <1>4
  <2> QED BY <2>1
<1> QED BY <1>2, <1>3, <1>4, <1>5, <1>7, <1>8, <1>9 DEF u, g, m

\* Another's call is as well off as it was, whatever was put and evicted.
LEMMA OthersKept ==
  ASSUME NEW call, NEW cache, NEW gone, CallWell(call, cache, gone), NEW next, NEW more,
         gone \subseteq more, CachedTexts(cache) \subseteq CachedTexts(next) \cup more
  PROVE  CallWell(call, next, more)
<1>1. ASSUME Going(call, cache, gone) PROVE Going(call, next, more)
  <2>1. \A t \in ToSet(call.texts) : t \in CachedTexts(next) \/ t \in ToSet(call.missing) \/ t \in more
    BY <1>1 DEF Going
  <2> QED BY <1>1, <2>1 DEF Going
<1>2. AnsweredWell(call, gone) => AnsweredWell(call, more)  BY DEF AnsweredWell
<1> QED BY <1>1, <1>2 DEF CallWell

\* The last batch is in.
LEMMA EmbedAnswersKeeps ==
  ASSUME EmbedInv, NEW c \in EmbedCaller, embeds[c].at = "embedding", NEW got,
         \A i \in 1 .. Len(embeds[c].missing) : got[i] = embeds[c].missing[i],
         EmbedAnswers(c, got), pipeline' = pipeline
  PROVE  EmbedInv'
<1> DEFINE call == embeds[c]  cache == AllPut(cached, call.missing, got)
           gone == (CachedTexts(cached) \cup ToSet(call.missing)) \ CachedTexts(cache)
           read == [i \in DOMAIN call.texts |-> VectorOf(cache, call.texts[i])]
           done == [at |-> "done", texts |-> call.texts, answer |-> read]
<1>1. Going(call, cached, lost[c])  BY DEF EmbedInv, CallWell
<1>2. CacheWell(cache)
  <2>1. CacheWell(cached) /\ call.missing \in Seq(AllTexts)  BY <1>1 DEF Going, EmbedInv
  <2> QED BY <2>1, AllPutKeeps
<1>3. /\ cached' = cache /\ lost' = [d \in EmbedCaller |-> lost[d] \cup gone]
      /\ embeds' = [embeds EXCEPT ![c] = done]
  BY DEF EmbedAnswers, AllPut
<1>4. CachedTexts(cached) \subseteq CachedTexts(cache) \cup gone /\ ToSet(call.missing) \subseteq CachedTexts(cache) \cup gone
  OBVIOUS
<1> HIDE DEF cache, gone
<1>5. /\ DOMAIN lost' = EmbedCaller /\ \A d \in EmbedCaller : lost'[d] = lost[d] \cup gone
  BY <1>3
<1>6. \A i \in DOMAIN call.texts : read[i] = VectorOf(cache, call.texts[i])  OBVIOUS
<1> HIDE DEF read
<1>7. done.at = "done" /\ done.texts = call.texts /\ done.answer = read  OBVIOUS
<1> HIDE DEF done
<1>8. AnsweredWell(done, lost[c] \cup gone)
  <2> SUFFICES ASSUME NEW i \in DOMAIN call.texts, done.answer[i] # call.texts[i]
               PROVE  done.answer[i] = ZeroVector /\ call.texts[i] \in lost[c] \cup gone
    BY <1>7 DEF AnsweredWell
  <2> DEFINE t == call.texts[i]
  <2>1. done.answer[i] = IF t \in CachedTexts(cache) THEN t ELSE ZeroVector  BY <1>2, <1>6, <1>7, VectorIs
  <2>2. t \in ToSet(call.texts)  BY <1>1, TextsAre DEF Going
  <2> HIDE DEF call
  <2>3. t \in CachedTexts(cached) \/ t \in ToSet(call.missing) \/ t \in lost[c]  BY <1>1, <2>2 DEF Going
  <2> QED BY <2>1, <2>3, <1>4
<1>9. /\ DOMAIN embeds' = EmbedCaller /\ embeds'[c] = done
      /\ \A d \in EmbedCaller : d # c => embeds'[d] = embeds[d]
  BY <1>3 DEF EmbedInv
<1>10. ASSUME NEW d \in EmbedCaller PROVE CallWell(embeds'[d], cached', lost'[d])
  <2>1. CASE d = c  BY <2>1, <1>5, <1>7, <1>8, <1>9 DEF CallWell
  <2>2. CASE d # c
    <3>1. CallWell(embeds[d], cached, lost[d])  BY DEF EmbedInv
    <3>2. CallWell(embeds[d], cache, lost[d] \cup gone)  BY <3>1, <1>4, OthersKept
    <3> QED BY <3>2, <2>2, <1>3, <1>5, <1>9
  <2> QED BY <2>1, <2>2
<1>11. Loading' = Loading  BY <1>7, <1>9 DEF Loading
<1> QED BY <1>2, <1>3, <1>5, <1>9, <1>10, <1>11 DEF EmbedInv

\* A call that goes on, or is over.
LEMMA CallMoves ==
  ASSUME EmbedInv, NEW c \in EmbedCaller, embeds[c].at = "embedding", NEW call,
         embeds' = [embeds EXCEPT ![c] = call], CallWell(call, cached, lost[c]), call.at # "loading",
         UNCHANGED <<pipeline, cached, lost>>
  PROVE  EmbedInv'
<1>1. /\ DOMAIN embeds' = EmbedCaller /\ embeds'[c] = call
      /\ \A d \in EmbedCaller : d # c => embeds'[d] = embeds[d]
  BY DEF EmbedInv
<1>2. Loading' = Loading  BY <1>1 DEF Loading
<1> QED BY <1>1, <1>2 DEF EmbedInv

\* A batch arrives, whole and labelled in any order, or short.
LEMMA BatchArrivesKeeps ==
  ASSUME EmbedInv, NEW c \in EmbedCaller, BatchArrives(c)
  PROVE  EmbedInv'
<1> DEFINE call == embeds[c]  batch == NextBatch(call)
<1>1. call.at = "embedding" /\ pipeline' = pipeline  BY DEF BatchArrives
<1>2. PICK rows \in IF embedderKind = "hosted" THEN Responses(batch) ELSE {UnlabelledRows(batch)} :
        LET got == call.got \o ToVectors(rows) IN
        IF Len(rows) # Len(batch)
        THEN embeds' = [embeds EXCEPT ![c] = [at |-> "failed"]] /\ UNCHANGED <<cached, lost>>
        ELSE IF Len(got) < Len(call.missing)
             THEN embeds' = [embeds EXCEPT ![c].got = got] /\ UNCHANGED <<cached, lost>>
             ELSE EmbedAnswers(c, got)
  BY DEF BatchArrives
<1>3. rows \in Responses(batch)  BY DEF Responses
<1>4. Going(call, cached, lost[c])  BY <1>1 DEF EmbedInv, CallWell
<1> DEFINE got == call.got \o ToVectors(rows)
<1>5. CASE Len(rows) # Len(batch)
  <2>1. embeds' = [embeds EXCEPT ![c] = [at |-> "failed"]] /\ UNCHANGED <<pipeline, cached, lost>>
    BY <1>1, <1>2, <1>5
  <2>2. CallWell([at |-> "failed"], cached, lost[c]) /\ [at |-> "failed"].at # "loading"  BY DEF CallWell
  <2> QED BY <1>1, <2>1, <2>2, CallMoves
<1>6. CASE Len(rows) = Len(batch)
  <2>1. batch \in Seq(AllTexts) /\ batch # <<>>  BY <1>4, NextBatchIs
  <2>2. ToVectors(rows) = batch
    <3> HIDE DEF batch
    <3> QED BY <2>1, <1>3, <1>6, VectorsInOrder
  <2>3. /\ Len(got) <= Len(call.missing) /\ got \in Seq(AllTexts)
        /\ \A i \in 1 .. Len(got) : got[i] = call.missing[i]
    BY <2>2, <1>4, NextBatchIs
  <2>4. IF Len(got) < Len(call.missing)
        THEN embeds' = [embeds EXCEPT ![c].got = got] /\ UNCHANGED <<cached, lost>>
        ELSE EmbedAnswers(c, got)
    BY <1>2, <1>6
  <2> HIDE DEF got, batch
  <2>5. CASE Len(got) < Len(call.missing)
    <3> DEFINE on == [at |-> "embedding", texts |-> call.texts, missing |-> call.missing, got |-> got]
    <3>1. embeds' = [embeds EXCEPT ![c] = on]
      <4>1. embeds' = [embeds EXCEPT ![c] = [call EXCEPT !.got = got]]  BY <2>4, <2>5
      <4>2. call = [at |-> call.at, texts |-> call.texts, missing |-> call.missing, got |-> call.got]
        BY <1>4 DEF Going
      <4> HIDE DEF call
      <4>3. [call EXCEPT !.got = got] = on  BY <4>2, <1>1
      <4> QED BY <4>1, <4>3
    <3>2. Going(on, cached, lost[c])  BY <1>4, <2>3, <2>5 DEF Going
    <3>3. on.at = "embedding"  OBVIOUS
    <3> HIDE DEF on
    <3>4. CallWell(on, cached, lost[c])  BY <3>2, <3>3 DEF CallWell
    <3>5. UNCHANGED <<pipeline, cached, lost>>  BY <1>1, <2>4, <2>5
    <3> QED BY <3>1, <3>3, <3>4, <3>5, <1>1, CallMoves
  <2>6. CASE ~(Len(got) < Len(call.missing))
    <3>1. Len(got) \in Nat /\ Len(call.missing) \in Nat  BY <1>4, <2>3 DEF Going
    <3>2. Len(got) = Len(call.missing)
      <4> DEFINE k == Len(got)  l == Len(call.missing)
      <4>1. k \in Nat /\ l \in Nat /\ k <= l /\ ~(k < l)  BY <3>1, <2>3, <2>6
      <4> HIDE DEF k, l
      <4>2. k = l  BY <4>1
      <4> QED BY <4>2 DEF k, l
    <3>3. \A i \in 1 .. Len(call.missing) : got[i] = call.missing[i]  BY <3>2, <2>3
    <3>4. EmbedAnswers(c, got)  BY <2>4, <2>6
    <3> QED BY <3>3, <3>4, <1>1, EmbedAnswersKeeps
  <2> QED BY <2>5, <2>6
<1> QED BY <1>5, <1>6

(***************************************************************************)
(* The embedder, and the index above it.                                   *)
(***************************************************************************)
LEMMA EmbeddingStarts == EmbeddingInit => EmbedInv
<1> SUFFICES ASSUME EmbeddingInit PROVE EmbedInv  OBVIOUS
<1>1. /\ DOMAIN embeds = EmbedCaller /\ DOMAIN lost = EmbedCaller /\ cached = <<>> /\ pipeline = "none"
      /\ \A c \in EmbedCaller : embeds[c].at = "none"
  BY DEF EmbeddingInit
<1>2. CacheWell(cached)
  <2>1. cached \in Seq(Entry) /\ Len(cached) = 0  BY <1>1
  <2> QED BY <2>1, EmbeddingAssumption DEF CacheWell
<1>3. \A c \in EmbedCaller : CallWell(embeds[c], cached, lost[c])  BY <1>1 DEF CallWell
<1> QED BY <1>1, <1>2, <1>3 DEF EmbedInv, Loading

\* Every step of the embedder keeps the invariant.
LEMMA EmbeddingSteps == EmbedInv /\ [EmbeddingNext]_embedVars => EmbedInv'
<1> SUFFICES ASSUME EmbedInv, [EmbeddingNext]_embedVars PROVE EmbedInv'  OBVIOUS
<1>1. CASE UNCHANGED embedVars  BY <1>1 DEF EmbedInv, embedVars, Loading
<1>2. CASE PipelineLoads \/ PipelineFails  BY <1>2, LoadEndKeeps
<1>3. ASSUME NEW c \in EmbedCaller, NEW asked \in TextLists, EmbedBegins(c, asked) PROVE EmbedInv'
  BY <1>3, EmbedBeginsKeeps
<1>4. ASSUME NEW c \in EmbedCaller, BatchArrives(c) PROVE EmbedInv'  BY <1>4, BatchArrivesKeeps
<1>5. ASSUME NEW c \in EmbedCaller, BatchFails(c) PROVE EmbedInv'
  <2>1. /\ embeds[c].at = "embedding" /\ embeds' = [embeds EXCEPT ![c] = [at |-> "failed"]]
        /\ UNCHANGED <<pipeline, cached, lost>>
    BY <1>5 DEF BatchFails
  <2>2. CallWell([at |-> "failed"], cached, lost[c]) /\ [at |-> "failed"].at # "loading"  BY DEF CallWell
  <2> QED BY <2>1, <2>2, CallMoves
<1> QED BY <1>1, <1>2, <1>3, <1>4, <1>5 DEF EmbeddingNext

\* The invariant says of the answers and the cache what VectorsMatch does.
LEMMA EmbedInvMatches == EmbedInv => VectorsMatch
<1> SUFFICES ASSUME EmbedInv PROVE VectorsMatch  OBVIOUS
<1>1. ASSUME NEW c \in EmbedCaller, embeds[c].at = "done" PROVE AnsweredWell(embeds[c], lost[c])
  BY <1>1 DEF EmbedInv, CallWell
<1>2. DOMAIN cached = 1 .. Len(cached) /\ Len(cached) <= CacheSize /\ \A i \in DOMAIN cached : cached[i][2] = cached[i][1]
  <2>1. DOMAIN cached = 1 .. Len(cached)  BY DEF EmbedInv, CacheWell
  <2> QED BY <2>1 DEF EmbedInv, CacheWell
<1>3. (pipeline = "loading") = (\E c \in EmbedCaller : embeds[c].at = "loading")  BY DEF EmbedInv, Loading
<1> QED BY <1>1, <1>2, <1>3 DEF VectorsMatch, AnsweredWell

\* Whatever callers index, remove, search and embed at once, the index is that of the texts it
\* has, every call is answered with its own texts' vectors, or with zeros for those evicted
\* under way, and the cache keeps its bound (hybrid-retriever.ts and embedder.ts).
THEOREM RetrievalIsCurrent == RetrieverSpec /\ EmbeddingSpec => []RetrievalHolds
<1>1. EmbeddingSpec => []VectorsMatch
  BY EmbeddingStarts, EmbeddingSteps, EmbedInvMatches, PTL DEF EmbeddingSpec
<1>2. RetrieverCurrent /\ VectorsMatch => RetrievalHolds  BY DEF RetrievalHolds
<1> QED BY RetrieverKeepsCurrent, <1>1, <1>2, PTL
(***************************************************************************)
(* Rankings: the rows of a set in the order of their scores.               *)
(***************************************************************************)
Ahead(score, a, b) == score[a] > score[b] \/ (score[a] = score[b] /\ a > b)
RowSet(rows) == rows \in SUBSET Nat
Ranking(rows, score, s, n) ==
  /\ s \in [1 .. n -> rows]
  /\ \A i, j \in 1 .. n : s[i] = s[j] => i = j
  /\ \A i, j \in 1 .. n : i < j => Ahead(score, s[i], s[j])

\* Of some rows one comes last.
LEMMA LastRow ==
  ASSUME NEW rows, IsFiniteSet(rows), RowSet(rows), rows # {}, NEW score \in [rows -> Int]
  PROVE  \E x \in rows : \A y \in rows \ {x} : Ahead(score, y, x)
<1> DEFINE Trails(T, x) == \A y \in T \ {x} : Ahead(score, y, x)
           B == {T \in SUBSET rows : T # {} /\ ~\E x \in T : Trails(T, x)}
<1>1. SUFFICES ASSUME B # {} PROVE FALSE  OBVIOUS
<1>2. PICK T \in B : \A U \in B : U \subseteq T => U = T
  <2>1. B \in SUBSET (SUBSET rows)  OBVIOUS
  <2> HIDE DEF B
  <2> QED BY <1>1, <2>1, MinimalSet
<1>3. T \in SUBSET rows /\ T # {} /\ ~\E x \in T : Trails(T, x)  BY <1>2
<1>4. PICK z \in T : TRUE  BY <1>3
<1>5. CASE T \ {z} = {}
  <2>1. Trails(T, z)  BY <1>5
  <2> QED BY <2>1, <1>3, <1>4
<1>6. CASE T \ {z} # {}
  <2>1. T \ {z} \notin B /\ T \ {z} \in SUBSET rows  BY <1>2, <1>3, <1>4
  <2>2. PICK x \in T \ {z} : Trails(T \ {z}, x)  BY <2>1, <1>6
  <2>3. x \in T /\ x # z  BY <2>2
  <2>4. \A y \in T : y \in Nat /\ score[y] \in Int  BY <1>3 DEF RowSet
  <2>5. Ahead(score, z, x) \/ Ahead(score, x, z)  BY <2>3, <2>4, <1>4 DEF Ahead
  <2>6. CASE Ahead(score, z, x)
    <3>1. Trails(T, x)  BY <2>2, <2>6
    <3> QED BY <3>1, <2>3, <1>3
  <2>7. CASE Ahead(score, x, z)
    <3>1. ASSUME NEW y \in T \ {z} PROVE Ahead(score, y, z)
      <4>1. CASE y = x  BY <4>1, <2>7
      <4>2. CASE y # x
        <5>1. Ahead(score, y, x)  BY <2>2, <4>2
        <5> QED BY <5>1, <2>3, <2>4, <2>7, <1>4 DEF Ahead
      <4> QED BY <4>1, <4>2
    <3>2. Trails(T, z)  BY <3>1
    <3> QED BY <3>2, <1>3, <1>4
  <2> QED BY <2>5, <2>6, <2>7
<1> QED BY <1>5, <1>6

\* A ranking with a row more, which comes after the others.
LEMMA RankingGrows ==
  ASSUME NEW rows, NEW score, NEW x \in rows, NEW n \in Nat, NEW s,
         Ranking(rows \ {x}, score, s, n), \A y \in rows \ {x} : Ahead(score, y, x)
  PROVE  \E t : Ranking(rows, score, t, n + 1)
<1> DEFINE t == [i \in 1 .. (n + 1) |-> IF i = n + 1 THEN x ELSE s[i]]
<1>1. 1 .. (n + 1) = (1 .. n) \cup {n + 1} /\ n + 1 \notin 1 .. n  OBVIOUS
<1>2. /\ \A i \in 1 .. n : s[i] \in rows /\ s[i] # x /\ Ahead(score, s[i], x)
      /\ \A i, j \in 1 .. n : s[i] = s[j] => i = j
      /\ \A i, j \in 1 .. n : i < j => Ahead(score, s[i], s[j])
  BY DEF Ranking
<1>3. t[n + 1] = x /\ \A i \in 1 .. n : t[i] = s[i]  OBVIOUS
<1>4. t \in [1 .. (n + 1) -> rows]
  <2>1. \A i \in 1 .. (n + 1) : t[i] \in rows  BY <1>1, <1>2, <1>3
  <2> QED BY <2>1
<1> HIDE DEF t
<1>5. \A i, j \in 1 .. (n + 1) : t[i] = t[j] => i = j  BY <1>1, <1>2, <1>3
<1>6. ASSUME NEW i \in 1 .. (n + 1), NEW j \in 1 .. (n + 1), i < j
      PROVE  Ahead(score, t[i], t[j])
  <2>1. i \in 1 .. n  BY <1>6
  <2>2. CASE j = n + 1  BY <2>1, <2>2, <1>2, <1>3
  <2>3. CASE j # n + 1  BY <2>1, <2>3, <1>1, <1>2, <1>3, <1>6
  <2> QED BY <2>2, <2>3
<1>7. Ranking(rows, score, t, n + 1)  BY <1>4, <1>5, <1>6 DEF Ranking
<1> QED BY <1>7

\* Every finite set of rows has a ranking.
LEMMA RankingExists ==
  ASSUME NEW rows, IsFiniteSet(rows), RowSet(rows), NEW score \in [rows -> Int]
  PROVE  \E s : Ranking(rows, score, s, Cardinality(rows))
<1> DEFINE B == {T \in SUBSET rows : ~\E s : Ranking(T, score, s, Cardinality(T))}
<1>1. SUFFICES ASSUME B # {} PROVE FALSE  OBVIOUS
<1>2. PICK T \in B : \A U \in B : U \subseteq T => U = T
  <2>1. B \in SUBSET (SUBSET rows)  OBVIOUS
  <2> HIDE DEF B
  <2> QED BY <1>1, <2>1, MinimalSet
<1>3. T \in SUBSET rows /\ ~\E s : Ranking(T, score, s, Cardinality(T))  BY <1>2
<1>4. IsFiniteSet(T)  BY <1>3, FS_Subset
<1>5. CASE T = {}
  <2>1. Cardinality(T) = 0  BY <1>5, FS_EmptySet
  <2>2. Ranking(T, score, [i \in 1 .. 0 |-> i], 0)  BY <1>5 DEF Ranking
  <2> QED BY <2>1, <2>2, <1>3
<1>6. CASE T # {}
  <2> DEFINE scored == [row \in T |-> score[row]]
  <2>1. scored \in [T -> Int] /\ RowSet(T)  BY <1>3 DEF RowSet
  <2>2. PICK x \in T : \A y \in T \ {x} : Ahead(scored, y, x)  BY <2>1, <1>4, <1>6, LastRow
  <2>3. \A y \in T \ {x} : Ahead(score, y, x)  BY <2>2 DEF Ahead
  <2>4. T \ {x} \notin B /\ T \ {x} \in SUBSET rows  BY <1>2, <1>3, <2>2
  <2>5. PICK s : Ranking(T \ {x}, score, s, Cardinality(T \ {x}))  BY <2>4
  <2>6. /\ Cardinality(T) = Cardinality(T \ {x}) + 1 /\ Cardinality(T \ {x}) \in Nat
    <3>1. IsFiniteSet(T \ {x}) /\ Cardinality(T \ {x}) = Cardinality(T) - 1  BY <1>4, FS_RemoveElement
    <3>2. Cardinality(T) \in Nat /\ Cardinality(T \ {x}) \in Nat  BY <3>1, <1>4, FS_CardinalityType
    <3> QED BY <3>1, <3>2
  <2>7. \E t : Ranking(T, score, t, Cardinality(T \ {x}) + 1)  BY <2>3, <2>5, <2>6, RankingGrows
  <2> QED BY <2>6, <2>7, <1>3
<1> QED BY <1>5, <1>6

\* What the statement's ORDER BY yields: every row once, each ahead of those after it.
LEMMA RankedIs ==
  ASSUME NEW rows, IsFiniteSet(rows), RowSet(rows), NEW score \in [rows -> Int]
  PROVE  /\ Ranking(rows, score, Ranked(rows, score), Cardinality(rows))
         /\ Ranked(rows, score) \in Seq(rows) /\ Len(Ranked(rows, score)) = Cardinality(rows)
         /\ Cardinality(rows) \in Nat
         /\ \A x \in rows : \E i \in 1 .. Cardinality(rows) : Ranked(rows, score)[i] = x
<1> DEFINE n == Cardinality(rows)  r == Ranked(rows, score)
           Fits(s) == IsInjective(s) /\ InOrder(s, score)
<1>1. n \in Nat  BY FS_CardinalityType
<1>2. PICK s : Ranking(rows, score, s, n)  BY RankingExists
<1> HIDE DEF n
<1>3. ASSUME NEW t \in [1 .. n -> rows]
      PROVE  Fits(t) <=> Ranking(rows, score, t, n)
  <2>1. DOMAIN t = 1 .. n  OBVIOUS
  <2> QED BY <2>1 DEF IsInjective, InOrder, Ranking, Ahead
<1>4. s \in [1 .. n -> rows] /\ Fits(s)  BY <1>2, <1>3 DEF Ranking
<1>5. r = CHOOSE t \in [1 .. n -> rows] : Fits(t)  BY DEF Ranked, n
<1>6. r \in [1 .. n -> rows] /\ Fits(r)
  <2> HIDE DEF r, Fits
  <2> QED BY <1>4, <1>5
<1>7. Ranking(rows, score, r, n)
  <2> HIDE DEF r
  <2> QED BY <1>3, <1>6
<1> HIDE DEF r, Fits
<1>8. r \in Seq(rows) /\ Len(r) = n
  <2>1. r \in [1 .. n -> rows]  BY <1>6
  <2> QED BY <1>1, <2>1
<1>9. \A x \in rows : \E i \in 1 .. n : r[i] = x
  <2>1. r \in Injection(1 .. n, rows)  BY <1>6 DEF Fits, Injection
  <2>2. Cardinality(1 .. n) = n /\ IsFiniteSet(1 .. n)
    <3>1. 1 \in Int /\ n \in Int  BY <1>1
    <3>2. Cardinality(1 .. n) = IF 1 > n THEN 0 ELSE n - 1 + 1  BY <3>1, FS_Interval
    <3> QED BY <3>2, <1>1, FS_Interval
  <2>3. r \in Surjection(1 .. n, rows)  BY <2>1, <2>2, FS_Injection DEF n
  <2> QED BY <2>3 DEF Surjection
<1> QED BY <1>1, <1>7, <1>8, <1>9 DEF r, n

Leading(rows, score, T) ==
  T \subseteq rows /\ \A b \in T : \A a \in rows : ~Ahead(score, b, a) => a \in T

\* The first of a ranking: what is not behind one of them is one of them.
LEMMA FirstRows ==
  ASSUME NEW rows, IsFiniteSet(rows), RowSet(rows), NEW score \in [rows -> Int], NEW n \in Nat
  PROVE  /\ Leading(rows, score, ToSet(Candidates(Ranked(rows, score), n)))
         /\ n > 0 /\ rows # {} => ToSet(Candidates(Ranked(rows, score), n)) # {}
<1> DEFINE c == Cardinality(rows)  r == Ranked(rows, score)  t == Candidates(r, n)
<1>1. /\ Ranking(rows, score, r, c) /\ r \in Seq(rows) /\ Len(r) = c /\ c \in Nat
      /\ \A x \in rows : \E i \in 1 .. c : r[i] = x
  BY RankedIs
<1> HIDE DEF r, c
<1>2. t = FirstOf(r, n)  BY DEF Candidates, FirstOf
<1>3. /\ t \in Seq(rows) /\ Len(t) <= n /\ Len(t) <= c /\ (Len(t) = c \/ Len(t) = n)
      /\ \A i \in 1 .. Len(t) : t[i] = r[i]
  <2> HIDE DEF t
  <2>1. r \in Seq(rows) /\ Len(r) = c  BY <1>1
  <2>2. /\ FirstOf(r, n) \in Seq(rows) /\ Len(FirstOf(r, n)) <= n
        /\ Len(FirstOf(r, n)) <= Len(r)
        /\ \A i \in 1 .. Len(FirstOf(r, n)) : FirstOf(r, n)[i] = r[i]
        /\ Len(FirstOf(r, n)) = Len(r) \/ Len(FirstOf(r, n)) = n
    BY <2>1, FirstOfIs
  <2> QED BY <1>2, <2>1, <2>2
<1>4. /\ Len(t) \in Nat /\ ToSet(t) \subseteq rows
      /\ \A m : m \in ToSet(t) <=> \E i \in 1 .. Len(t) : t[i] = m
  BY <1>3, SeqElements
<1> HIDE DEF t
<1>5. ASSUME NEW b \in ToSet(t), NEW a \in rows, ~Ahead(score, b, a)
      PROVE  a \in ToSet(t)
  <2>1. PICK j \in 1 .. Len(t) : t[j] = b  BY <1>4
  <2>2. PICK i \in 1 .. c : r[i] = a  BY <1>1
  <2>3. j \in 1 .. c /\ r[j] = b
    <3>1. r[j] = b  BY <2>1, <1>3
    <3>2. Len(t) \in Nat /\ c \in Nat /\ Len(t) <= c  BY <1>1, <1>3, <1>4
    <3> QED BY <3>1, <3>2
  <2>4. ~(j < i)  BY <2>2, <2>3, <1>1, <1>5 DEF Ranking
  <2>5. i \in 1 .. Len(t)  BY <2>1, <2>2, <2>4, <1>4, <1>1
  <2> QED BY <2>2, <2>5, <1>3, <1>4
<1>6. ASSUME n > 0, rows # {} PROVE ToSet(t) # {}
  <2>1. c >= 1
    <3>1. PICK x \in rows : TRUE  BY <1>6
    <3>2. PICK i \in 1 .. c : r[i] = x  BY <1>1
    <3> QED BY <3>2, <1>1
  <2>2. 1 \in 1 .. Len(t)  BY <2>1, <1>6, <1>3, <1>4, <1>1
  <2> QED BY <2>2, <1>4
<1> QED BY <1>4, <1>5, <1>6 DEF t, r, Leading

(***************************************************************************)
(* Shares of the score.                                                    *)
(***************************************************************************)

\* A larger divisor, no larger a quotient; a larger factor, no smaller a product.
LEMMA Divides ==
  ASSUME NEW u \in Nat, NEW p \in Nat \ {0}, NEW q \in Nat \ {0}, p <= q
  PROVE  u \div q \in Nat /\ u \div p \in Nat /\ u \div q <= u \div p
<1> DEFINE x == u \div q  y == u \div p
<1>1. x \in Nat /\ q * x <= u  OBVIOUS
<1>2. y \in Nat /\ u < p * (y + 1)  OBVIOUS
<1> HIDE DEF x, y
<1>3. ASSUME y < x PROVE FALSE
  <2>1. y + 1 <= x  BY <1>1, <1>2, <1>3
  <2>2. p * (y + 1) <= p * x
    <3> DEFINE z == y + 1
    <3>1. z \in Nat /\ z <= x  BY <2>1, <1>2
    <3> HIDE DEF z
    <3>2. p * z <= p * x  BY <3>1, <1>1
    <3> QED BY <3>2 DEF z
  <2>3. p * x <= q * x  BY <1>1
  <2>4. p * (y + 1) \in Nat /\ p * x \in Nat /\ q * x \in Nat  BY <1>1, <1>2
  <2> QED BY <2>2, <2>3, <2>4, <1>1, <1>2
<1> QED BY <1>1, <1>2, <1>3 DEF x, y

\* Multiplying by a number keeps an order.
LEMMA Times ==
  ASSUME NEW a \in Int, NEW b \in Int, NEW m \in Nat, a <= b
  PROVE  a * m \in Int /\ b * m \in Int /\ a * m <= b * m
OBVIOUS

Factor(k, u, i) == u * (k + i)
Factors == INSTANCE FoldLemmas WITH Op <- Factor

\* The unit is positive: the fold of q.cap positive factors.
LEMMA UnitIs ==
  ASSUME NEW q, IsQuery(q)
  PROVE  Unit(q) \in Nat \ {0}
<1> DEFINE s == [i \in 1 .. q.cap |-> i]  A == Nat \ {0}
<1>1. q.cap \in Nat /\ RrfK \in Nat  BY WeightsPositive DEF IsQuery
<1>2. s \in Seq(Nat) /\ Len(s) = q.cap /\ DOMAIN s = 1 .. q.cap  BY <1>1
<1> HIDE DEF s
<1>3. Unit(q) = Factors!After(RrfK, 1, s, q.cap)
  BY <1>2 DEF s, Unit, Factor, FoldLeft, MapThenFoldSet, Factors!After, Factors!Over, Factors!Solves, Factors!Top, Max
<1>4. \A i \in 1 .. q.cap : \A u \in A : Factor(RrfK, u, s[i]) \in A
  <2> TAKE i \in 1 .. q.cap
  <2> TAKE u \in A
  <2>1. s[i] = i /\ i \in Nat /\ i >= 1  BY <1>1 DEF s
  <2>2. RrfK + i \in Nat /\ RrfK + i >= 1  BY <2>1, <1>1
  <2>3. u * (RrfK + i) \in Nat \ {0}
    <3> DEFINE k == RrfK + i
    <3> HIDE DEF k
    <3>1. k \in Nat /\ k >= 1  BY <2>2 DEF k
    <3>2. u * k \in Nat /\ u * k >= 1  BY <3>1
    <3> QED BY <3>2 DEF k
  <2> QED BY <2>1, <2>3 DEF Factor
<1>5. 1 \in A  OBVIOUS
<1> HIDE DEF A
<1>6. \A m \in 0 .. q.cap : Factors!After(RrfK, 1, s, m) \in A  BY <1>1, <1>4, <1>5, Factors!FoldKeeps
<1>7. Factors!After(RrfK, 1, s, q.cap) \in A  BY <1>1, <1>6
<1> QED BY <1>3, <1>7 DEF A

(***************************************************************************)
(* The statement's candidates and their scores.                            *)
(***************************************************************************)
\* A ranker's candidates are the first of its rows.
CandidatesOf(ranking, t, cap) ==
  /\ t \in Seq(Nat) /\ Len(t) \in Nat /\ Len(t) <= Len(ranking) /\ Len(t) <= cap
  /\ Len(t) = Len(ranking) \/ Len(t) = cap
  /\ \A i \in 1 .. Len(t) : t[i] = ranking[i]
  /\ \A i, j \in 1 .. Len(t) : t[i] = t[j] => i = j

\* A ranker's candidates are the first of its ranking, each once.
LEMMA CandidatesAre ==
  ASSUME NEW ranking \in Seq(Nat), IsInjective(ranking), NEW cap \in Nat \ {0}
  PROVE  CandidatesOf(ranking, Candidates(ranking, cap), cap)
<1> DEFINE t == Candidates(ranking, cap)
<1>1. t = FirstOf(ranking, cap)  BY DEF Candidates, FirstOf
<1>2. /\ t \in Seq(Nat) /\ Len(t) <= cap /\ Len(t) <= Len(ranking)
      /\ \A i \in 1 .. Len(t) : t[i] = ranking[i]
      /\ Len(t) = Len(ranking) \/ Len(t) = cap
  BY <1>1, FirstOfIs
<1> HIDE DEF t
<1>3. Len(t) \in Nat /\ Len(ranking) \in Nat /\ DOMAIN ranking = 1 .. Len(ranking)  BY <1>2
<1>4. \A i \in 1 .. Len(t) : i \in DOMAIN ranking  BY <1>2, <1>3
<1>5. \A i, j \in 1 .. Len(t) : t[i] = t[j] => i = j  BY <1>2, <1>4 DEF IsInjective
<1> QED BY <1>2, <1>3, <1>5 DEF CandidatesOf, t

\* The rank of a row that a ranking has.
LEMMA RankIs ==
  ASSUME NEW ranking \in Seq(Nat), IsInjective(ranking), NEW row
  PROVE  /\ Contains(ranking, row) <=> \E i \in 1 .. Len(ranking) : ranking[i] = row
         /\ \A i \in 1 .. Len(ranking) : ranking[i] = row => Rank(ranking, row) = i
<1>1. DOMAIN ranking = 1 .. Len(ranking)  OBVIOUS
<1>2. ASSUME NEW i \in 1 .. Len(ranking), ranking[i] = row PROVE Rank(ranking, row) = i
  <2>1. \A j \in DOMAIN ranking : ranking[j] = row => j = i  BY <1>1, <1>2 DEF IsInjective
  <2> QED BY <2>1, <1>1, <1>2 DEF Rank
<1>3. Contains(ranking, row) <=> \E i \in 1 .. Len(ranking) : ranking[i] = row
  BY DEF Contains
<1> QED BY <1>2, <1>3

\* What a ranker puts before another row it counts for at least as much.
LEMMA SharesAgree ==
  ASSUME NEW ranking \in Seq(Nat), IsInjective(ranking), NEW cap \in Nat \ {0}, NEW q, Unit(q) \in Nat \ {0},
         NEW w \in Nat, NEW a, NEW b,
         Contains(ranking, b) => Contains(ranking, a) /\ Rank(ranking, a) <= Rank(ranking, b)
  PROVE  /\ Share(q, w, Candidates(ranking, cap), b) \in Nat /\ Share(q, w, Candidates(ranking, cap), a) \in Nat
         /\ Share(q, w, Candidates(ranking, cap), b) <= Share(q, w, Candidates(ranking, cap), a)
<1> DEFINE t == Candidates(ranking, cap)  U == Unit(q)
<1>1. /\ t \in Seq(Nat) /\ Len(t) \in Nat /\ Len(t) <= Len(ranking) /\ Len(ranking) \in Nat
      /\ \A i \in 1 .. Len(t) : t[i] = ranking[i]
      /\ IsInjective(t)
  <2>1. CandidatesOf(ranking, t, cap)  BY CandidatesAre
  <2> HIDE DEF t
  <2>2. t \in Seq(Nat) /\ DOMAIN t = 1 .. Len(t)  BY <2>1 DEF CandidatesOf
  <2> QED BY <2>1, <2>2 DEF CandidatesOf, IsInjective
<1> HIDE DEF t, U
<1>2. \A row : /\ Contains(t, row) <=> \E i \in 1 .. Len(t) : t[i] = row
               /\ \A i \in 1 .. Len(t) : t[i] = row => Rank(t, row) = i
  BY <1>1, RankIs
<1>3. \A row : /\ Contains(ranking, row) <=> \E i \in 1 .. Len(ranking) : ranking[i] = row
               /\ \A i \in 1 .. Len(ranking) : ranking[i] = row => Rank(ranking, row) = i
  BY RankIs
<1>4. RrfK \in Nat /\ U \in Nat  BY WeightsPositive DEF U
<1>5. ASSUME NEW row, Contains(t, row)
      PROVE  /\ Rank(t, row) \in 1 .. Len(t) /\ Rank(t, row) = Rank(ranking, row) /\ Contains(ranking, row)
             /\ t[Rank(t, row)] = row
  <2>1. PICK i \in 1 .. Len(t) : t[i] = row  BY <1>2, <1>5
  <2>2. i \in 1 .. Len(ranking) /\ ranking[i] = row  BY <2>1, <1>1
  <2>3. Rank(t, row) = i  BY <2>1, <1>2
  <2>4. Rank(ranking, row) = i /\ Contains(ranking, row)  BY <2>2, <1>3
  <2> QED BY <2>1, <2>3, <2>4
<1>6. ASSUME NEW row PROVE Share(q, w, t, row) \in Nat
  <2>1. CASE Contains(t, row)
    <3> DEFINE k == RrfK + Rank(t, row)  d == U \div k
    <3>1. k \in Nat \ {0}  BY <2>1, <1>5, <1>4
    <3> HIDE DEF k
    <3>2. d \in Nat
      <4>1. k <= k  BY <3>1
      <4> QED BY <4>1, <3>1, <1>4, Divides
    <3>3. Share(q, w, t, row) = w * d  BY <2>1 DEF Share, U, k
    <3> HIDE DEF d
    <3> QED BY <3>2, <3>3
  <2>2. CASE ~Contains(t, row)  BY <2>2 DEF Share
  <2> QED BY <2>1, <2>2
<1>7. Share(q, w, t, b) <= Share(q, w, t, a)
  <2>1. CASE ~Contains(t, b)
    <3>1. Share(q, w, t, b) = 0  BY <2>1 DEF Share
    <3>2. Share(q, w, t, a) \in Nat  BY <1>6
    <3> QED BY <3>1, <3>2
  <2>2. CASE Contains(t, b)
    <3>1. Contains(ranking, b) /\ Rank(t, b) = Rank(ranking, b) /\ Rank(t, b) \in 1 .. Len(t)  BY <2>2, <1>5
    <3>2. PICK i \in 1 .. Len(ranking) : ranking[i] = a  BY <3>1, <1>3
    <3>3. Rank(ranking, a) = i  BY <3>2, <1>3
    <3>4. i \in 1 .. Len(t)
      <4>1. i <= Rank(t, b)  BY <3>1, <3>3
      <4> QED BY <4>1, <3>1, <3>2, <1>1
    <3>5. t[i] = a  BY <3>2, <3>4, <1>1
    <3>6. Contains(t, a)  BY <3>4, <3>5, <1>2
    <3>7. Rank(t, a) = i /\ i <= Rank(t, b)  BY <3>1, <3>3, <3>4, <3>5, <1>2
    <3> DEFINE k == RrfK + Rank(t, a)  l == RrfK + Rank(t, b)
    <3>8. k \in Nat \ {0} /\ l \in Nat \ {0} /\ k <= l  BY <3>1, <3>4, <3>7, <1>4, <1>1
    <3>9. Share(q, w, t, a) = w * (U \div k) /\ Share(q, w, t, b) = w * (U \div l)
      BY <2>2, <3>6 DEF Share, U
    <3> HIDE DEF k, l
    <3>10. U \div l <= U \div k /\ U \div l \in Nat /\ U \div k \in Nat  BY <3>8, <1>4, Divides
    <3>11. w * (U \div l) <= w * (U \div k)
      <4> DEFINE x == U \div l  y == U \div k
      <4> HIDE DEF x, y
      <4>1. x <= y /\ x \in Nat /\ y \in Nat  BY <3>10 DEF x, y
      <4>2. w * x <= w * y  BY <4>1
      <4> QED BY <4>2 DEF x, y
    <3> QED BY <3>9, <3>11
  <2> QED BY <2>1, <2>2
<1> QED BY <1>6, <1>7 DEF t

(***************************************************************************)
(* The score of a row.                                                     *)
(***************************************************************************)
PriorsOf(q) == q.priors
IsRow(q, row) == row \in ToSet(q.lex) \cup ToSet(q.vec)

\* What is known of a query's rankings, priors and bounds.
LEMMA QueryIs ==
  ASSUME NEW q, IsQuery(q)
  PROVE  /\ q.lex \in Seq(Nat) /\ IsInjective(q.lex) /\ q.vec \in Seq(Nat) /\ IsInjective(q.vec)
         /\ q.cap \in Nat \ {0} /\ q.limit \in Nat \ {0} /\ q.minScore \in Nat
         /\ \A row : IsRow(q, row) => PriorsOf(q)[row] \in Int /\ row \in Nat
         /\ LexWeight \in Nat /\ VecWeight \in Nat /\ LexWeight >= 1 /\ VecWeight >= 1 /\ RrfK \in Nat
<1>1. /\ q.lex \in Seq(Nat) /\ q.vec \in Seq(Nat)  BY DEF IsQuery
<1>2. ToSet(q.lex) \subseteq Nat /\ ToSet(q.vec) \subseteq Nat  BY <1>1, SeqElements
<1>3. \A row : IsRow(q, row) => PriorsOf(q)[row] \in Int  BY DEF IsQuery, IsRow, PriorsOf
<1>4. \A row : IsRow(q, row) => row \in Nat  BY <1>2 DEF IsRow
<1> QED BY <1>1, <1>3, <1>4, WeightsPositive DEF IsQuery

\* The rows fused are rows a ranker found.
LEMMA FusedIs ==
  ASSUME NEW q, IsQuery(q)
  PROVE  /\ IsFiniteSet(Fused(q)) /\ \A row \in Fused(q) : IsRow(q, row)
         /\ IsFiniteSet(ToSet(q.lex) \cup ToSet(q.vec))
<1>1. /\ q.lex \in Seq(Nat) /\ IsInjective(q.lex) /\ q.vec \in Seq(Nat) /\ IsInjective(q.vec)
      /\ q.cap \in Nat \ {0}
  BY QueryIs
<1>2. CandidatesOf(q.lex, Lex(q), q.cap) /\ CandidatesOf(q.vec, Vec(q), q.cap)
  BY <1>1, CandidatesAre DEF Lex, Vec
<1>3. ASSUME NEW ranking \in Seq(Nat), NEW t, CandidatesOf(ranking, t, q.cap)
      PROVE  IsFiniteSet(ToSet(ranking)) /\ IsFiniteSet(ToSet(t)) /\ ToSet(t) \subseteq ToSet(ranking)
  <2>1. t \in Seq(Nat) /\ Len(t) \in Nat /\ Len(t) <= Len(ranking) /\ \A i \in 1 .. Len(t) : t[i] = ranking[i]
    BY <1>3 DEF CandidatesOf
  <2>2. IsFiniteSet(ToSet(ranking)) /\ IsFiniteSet(ToSet(t))  BY <2>1, DistinctCount
  <2>3. /\ Len(ranking) \in Nat
        /\ \A m : m \in ToSet(ranking) <=> \E i \in 1 .. Len(ranking) : ranking[i] = m
        /\ \A m : m \in ToSet(t) <=> \E i \in 1 .. Len(t) : t[i] = m
    BY <2>1, SeqElements
  <2>4. \A i \in 1 .. Len(t) : i \in 1 .. Len(ranking)  BY <2>1, <2>3
  <2>5. ASSUME NEW m \in ToSet(t) PROVE m \in ToSet(ranking)
    <3>1. PICK i \in 1 .. Len(t) : t[i] = m  BY <2>3
    <3>2. i \in 1 .. Len(ranking) /\ ranking[i] = m  BY <3>1, <2>1, <2>4
    <3> QED BY <3>2, <2>3
  <2> QED BY <2>2, <2>5
<1>4. /\ IsFiniteSet(ToSet(q.lex)) /\ IsFiniteSet(ToSet(Lex(q))) /\ ToSet(Lex(q)) \subseteq ToSet(q.lex)
      /\ IsFiniteSet(ToSet(q.vec)) /\ IsFiniteSet(ToSet(Vec(q))) /\ ToSet(Vec(q)) \subseteq ToSet(q.vec)
  BY <1>1, <1>2, <1>3
<1>5. IsFiniteSet(Fused(q)) /\ IsFiniteSet(ToSet(q.lex) \cup ToSet(q.vec))  BY <1>4, FS_Union DEF Fused
<1> QED BY <1>4, <1>5 DEF Fused, IsRow

\* Shares add up.
LEMMA RrfAgrees ==
  ASSUME NEW q, IsQuery(q), NEW a, NEW b,
         \A ranking \in {q.lex, q.vec} : Contains(ranking, b) =>
           Contains(ranking, a) /\ Rank(ranking, a) <= Rank(ranking, b)
  PROVE  Rrf(q, a) \in Nat /\ Rrf(q, b) \in Nat /\ Rrf(q, b) <= Rrf(q, a)
<1>1. /\ q.lex \in Seq(Nat) /\ IsInjective(q.lex) /\ q.vec \in Seq(Nat) /\ IsInjective(q.vec)
      /\ q.cap \in Nat \ {0} /\ LexWeight \in Nat /\ VecWeight \in Nat
  BY QueryIs
<1>2. Unit(q) \in Nat \ {0}  BY UnitIs
<1>3. /\ Contains(q.lex, b) => Contains(q.lex, a) /\ Rank(q.lex, a) <= Rank(q.lex, b)
      /\ Contains(q.vec, b) => Contains(q.vec, a) /\ Rank(q.vec, a) <= Rank(q.vec, b)
  OBVIOUS
<1>4. /\ Share(q, LexWeight, Lex(q), b) \in Nat /\ Share(q, LexWeight, Lex(q), a) \in Nat
      /\ Share(q, LexWeight, Lex(q), b) <= Share(q, LexWeight, Lex(q), a)
  BY <1>1, <1>2, <1>3, SharesAgree DEF Lex
<1>5. /\ Share(q, VecWeight, Vec(q), b) \in Nat /\ Share(q, VecWeight, Vec(q), a) \in Nat
      /\ Share(q, VecWeight, Vec(q), b) <= Share(q, VecWeight, Vec(q), a)
  BY <1>1, <1>2, <1>3, SharesAgree DEF Vec
<1> QED BY <1>4, <1>5 DEF Rrf

\* The best that fusion can give.
LEMMA RrfMaxIs ==
  ASSUME NEW q, IsQuery(q)
  PROVE  RrfMax(q) \in Nat
<1> DEFINE d == Unit(q) \div (RrfK + 1)
<1>1. d \in Nat
  <2> DEFINE k == RrfK + 1
  <2>1. k \in Nat \ {0} /\ k <= k  BY QueryIs
  <2>2. Unit(q) \in Nat  BY UnitIs
  <2> HIDE DEF k
  <2>3. Unit(q) \div k \in Nat  BY <2>1, <2>2, Divides
  <2> QED BY <2>3 DEF k
<1>2. LexWeight \in Nat /\ VecWeight \in Nat  BY QueryIs
<1>3. LexWeight * d \in Nat /\ VecWeight * d \in Nat
  <2> HIDE DEF d
  <2> QED BY <1>1, <1>2
<1>4. RrfMax(q) = (IF Lex(q) # <<>> THEN LexWeight * d ELSE 0) + (IF Vec(q) # <<>> THEN VecWeight * d ELSE 0)
  BY DEF RrfMax
<1> HIDE DEF d
<1> DEFINE x == LexWeight * d  y == VecWeight * d
<1>5. x \in Nat /\ y \in Nat  BY <1>3
<1> HIDE DEF x, y
<1>6. RrfMax(q) = (IF Lex(q) # <<>> THEN x ELSE 0) + (IF Vec(q) # <<>> THEN y ELSE 0)  BY <1>4 DEF x, y
<1> QED BY <1>5, <1>6

\* A score in its range, of the relevance r and the prior p.
LEMMA ScoreGrows ==
  ASSUME NEW r \in Nat, NEW s \in Nat, NEW p \in Int, NEW o \in Int, NEW m \in Nat, r <= s, p <= o
  PROVE  /\ InRange(55 * r + p * m, 100 * m) \in Nat /\ InRange(55 * s + o * m, 100 * m) \in Nat
         /\ InRange(55 * r + p * m, 100 * m) <= InRange(55 * s + o * m, 100 * m)
<1> DEFINE x == p * m  y == o * m
<1>1. x \in Int /\ y \in Int /\ x <= y  BY Times
<1> HIDE DEF x, y
<1>2. /\ InRange(55 * r + x, 100 * m) \in Nat /\ InRange(55 * s + y, 100 * m) \in Nat
      /\ InRange(55 * r + x, 100 * m) <= InRange(55 * s + y, 100 * m)
  BY <1>1 DEF InRange
<1> QED BY <1>2 DEF x, y

\* What dominates has no smaller a score.
LEMMA ScoresAgree ==
  ASSUME NEW q, IsQuery(q), NEW a, IsRow(q, a), NEW b, IsRow(q, b), Dominates(q, a, b)
  PROVE  FusedScore(q, a) \in Nat /\ FusedScore(q, b) \in Nat /\ FusedScore(q, b) <= FusedScore(q, a)
<1> DEFINE m == RrfMax(q)  r == Relevance(q, b)  s == Relevance(q, a)  p == PriorsOf(q)[b]  o == PriorsOf(q)[a]
<1>1. Rrf(q, a) \in Nat /\ Rrf(q, b) \in Nat /\ Rrf(q, b) <= Rrf(q, a)
  BY RrfAgrees DEF Dominates
<1>2. m \in Nat  BY RrfMaxIs
<1>3. r \in Nat /\ s \in Nat /\ r <= s  BY <1>1, <1>2 DEF Relevance
<1>4. p \in Int /\ o \in Int  BY QueryIs
<1>5. p <= o  BY <1>4 DEF Dominates, PriorsOf
<1>6. /\ FusedScore(q, a) = InRange(55 * s + o * m, 100 * m)
      /\ FusedScore(q, b) = InRange(55 * r + p * m, 100 * m)
  BY DEF FusedScore, PriorsOf
<1> HIDE DEF m, r, s, p, o
<1>7. /\ InRange(55 * r + p * m, 100 * m) \in Nat /\ InRange(55 * s + o * m, 100 * m) \in Nat
      /\ InRange(55 * r + p * m, 100 * m) <= InRange(55 * s + o * m, 100 * m)
  BY <1>2, <1>3, <1>4, <1>5, ScoreGrows
<1> QED BY <1>6, <1>7

(***************************************************************************)
(* What the statement answers is fair.                                     *)
(***************************************************************************)

\* Every score is a number.
LEMMA ScoreNat ==
  ASSUME NEW q, IsQuery(q), NEW a, IsRow(q, a)
  PROVE  FusedScore(q, a) \in Nat
<1>1. Dominates(q, a, a)
  <2>1. PriorsOf(q)[a] \in Int  BY QueryIs
  <2>2. \A ranking \in {q.lex, q.vec} : Contains(ranking, a) => Rank(ranking, a) \in Nat
    <3>1. ASSUME NEW ranking \in Seq(Nat), IsInjective(ranking), Contains(ranking, a)
          PROVE  Rank(ranking, a) \in Nat
      <4>1. PICK i \in 1 .. Len(ranking) : ranking[i] = a  BY <3>1, RankIs
      <4>2. Rank(ranking, a) = i /\ Len(ranking) \in Nat  BY <3>1, <4>1, RankIs
      <4> QED BY <4>2
    <3> QED BY <3>1, QueryIs
  <2> QED BY <2>1, <2>2 DEF Dominates, PriorsOf
<1> QED BY <1>1, ScoresAgree

\* A row that passes the threshold passes it with a score no smaller.
LEMMA AboveIs ==
  ASSUME NEW q, IsQuery(q)
  PROVE  /\ IsFiniteSet(Above(q)) /\ RowSet(Above(q)) /\ Above(q) \subseteq Fused(q)
         /\ \A row \in Above(q) : IsRow(q, row) /\ FusedScore(q, row) \in Nat
         /\ \A a \in Fused(q), b \in Above(q) : FusedScore(q, b) <= FusedScore(q, a) => a \in Above(q)
         /\ [row \in Above(q) |-> FusedScore(q, row)] \in [Above(q) -> Int]
<1>1. IsFiniteSet(Fused(q)) /\ \A row \in Fused(q) : IsRow(q, row)  BY FusedIs
<1>2. Above(q) \subseteq Fused(q)  BY DEF Above
<1>3. \A row \in Fused(q) : FusedScore(q, row) \in Nat /\ row \in Nat  BY <1>1, ScoreNat, QueryIs
<1>4. RrfMax(q) \in Nat /\ q.minScore \in Nat  BY RrfMaxIs, QueryIs
<1>5. q.minScore * RrfMax(q) \in Int
  <2> DEFINE x == q.minScore  y == RrfMax(q)
  <2> HIDE DEF x, y
  <2>1. x \in Nat /\ y \in Nat  BY <1>4 DEF x, y
  <2>2. x * y \in Int  BY <2>1
  <2> QED BY <2>2 DEF x, y
<1>6. ASSUME NEW a \in Fused(q), NEW b \in Above(q), FusedScore(q, b) <= FusedScore(q, a)
      PROVE  a \in Above(q)
  <2>1. b \in Fused(q) /\ FusedScore(q, b) >= q.minScore * RrfMax(q)  BY DEF Above
  <2> DEFINE x == q.minScore * RrfMax(q)
  <2>2. x \in Int  BY <1>5
  <2>3. FusedScore(q, b) >= x  BY <2>1
  <2> HIDE DEF x
  <2>4. FusedScore(q, a) >= x  BY <2>1, <2>2, <2>3, <1>3, <1>6
  <2> QED BY <2>4 DEF Above, x
<1>7. IsFiniteSet(Above(q))  BY <1>1, <1>2, FS_Subset
<1>8. RowSet(Above(q)) /\ \A row \in Above(q) : IsRow(q, row) /\ FusedScore(q, row) \in Nat
  BY <1>1, <1>2, <1>3 DEF RowSet
<1>9. [row \in Above(q) |-> FusedScore(q, row)] \in [Above(q) -> Int]  BY <1>8
<1> QED BY <1>2, <1>6, <1>7, <1>8, <1>9

\* What is answered in place of nothing better.
LEMMA FusionPrefers ==
  ASSUME NEW q, IsQuery(q), NEW a \in Fused(q), NEW b \in ToSet(HybridHits(q)), Dominates(q, a, b)
  PROVE  a \in ToSet(HybridHits(q)) \/ FusedScore(q, a) = FusedScore(q, b)
<1> DEFINE rows == Above(q)  score == [row \in rows |-> FusedScore(q, row)]
<1>1. /\ IsFiniteSet(rows) /\ RowSet(rows) /\ rows \subseteq Fused(q) /\ score \in [rows -> Int]
      /\ \A row \in rows : IsRow(q, row) /\ FusedScore(q, row) \in Nat
      /\ \A x \in Fused(q), y \in rows : FusedScore(q, y) <= FusedScore(q, x) => x \in rows
  BY AboveIs
<1>2. q.limit \in Nat  BY QueryIs
<1>3. ToSet(HybridHits(q)) = ToSet(Candidates(Ranked(rows, score), q.limit))  BY DEF HybridHits
<1> HIDE DEF rows
<1>4. /\ ToSet(HybridHits(q)) \subseteq rows
      /\ \A x \in rows : ~Ahead(score, b, x) => x \in ToSet(HybridHits(q))
  <2> HIDE DEF score
  <2>1. Leading(rows, score, ToSet(Candidates(Ranked(rows, score), q.limit)))  BY <1>1, <1>2, FirstRows
  <2> QED BY <2>1, <1>3 DEF Leading
<1>5. b \in rows /\ IsRow(q, a) /\ IsRow(q, b)  BY <1>1, <1>4, FusedIs
<1>6. FusedScore(q, b) <= FusedScore(q, a) /\ FusedScore(q, a) \in Nat /\ FusedScore(q, b) \in Nat
  BY <1>5, ScoresAgree
<1>7. a \in rows  BY <1>1, <1>5, <1>6
<1>8. score[a] = FusedScore(q, a) /\ score[b] = FusedScore(q, b)  BY <1>5, <1>7
<1> HIDE DEF score
<1>9. FusedScore(q, a) # FusedScore(q, b) => ~Ahead(score, b, a)  BY <1>6, <1>8 DEF Ahead
<1> QED BY <1>4, <1>7, <1>9

\* One ranker alone: its best row has all of the relevance there is.
LEMMA LoneBest ==
  ASSUME NEW q, IsQuery(q), (q.lex = <<>>) # (q.vec = <<>>)
  PROVE  /\ Head(q.lex \o q.vec) \in Fused(q)
         /\ Rrf(q, Head(q.lex \o q.vec)) = RrfMax(q)
<1> DEFINE best == Head(q.lex \o q.vec)  d == Unit(q) \div (RrfK + 1)
<1>1. /\ q.lex \in Seq(Nat) /\ IsInjective(q.lex) /\ q.vec \in Seq(Nat) /\ IsInjective(q.vec)
      /\ q.cap \in Nat \ {0} /\ LexWeight \in Nat /\ VecWeight \in Nat
  BY QueryIs
<1>2. CandidatesOf(q.lex, Lex(q), q.cap) /\ CandidatesOf(q.vec, Vec(q), q.cap)
  BY <1>1, CandidatesAre DEF Lex, Vec
<1>3. ASSUME NEW ranking \in Seq(Nat), NEW t, CandidatesOf(ranking, t, q.cap), ranking # <<>>
      PROVE  /\ t # <<>> /\ ranking[1] \in ToSet(t) /\ Contains(t, ranking[1]) /\ Rank(t, ranking[1]) = 1
  <2>1. /\ t \in Seq(Nat) /\ Len(t) \in Nat /\ (Len(t) = Len(ranking) \/ Len(t) = q.cap)
        /\ \A i \in 1 .. Len(t) : t[i] = ranking[i]
        /\ \A i, j \in 1 .. Len(t) : t[i] = t[j] => i = j
    BY <1>3 DEF CandidatesOf
  <2>2. Len(ranking) >= 1 /\ Len(ranking) \in Nat  BY <1>3
  <2>3. 1 \in 1 .. Len(t)  BY <2>1, <2>2, <1>1
  <2>4. t[1] = ranking[1]  BY <2>1, <2>3
  <2>5. DOMAIN t = 1 .. Len(t)  BY <2>1
  <2>6. IsInjective(t)  BY <2>1, <2>5 DEF IsInjective
  <2>7. Contains(t, ranking[1]) /\ Rank(t, ranking[1]) = 1  BY <2>1, <2>3, <2>4, <2>6, RankIs
  <2>8. ranking[1] \in ToSet(t)  BY <2>1, <2>3, <2>4, SeqElements
  <2> QED BY <2>3, <2>7, <2>8
<1>4. ASSUME NEW ranking, NEW t, CandidatesOf(ranking, t, q.cap), ranking = <<>>
      PROVE  t = <<>>
  <2>1. t \in Seq(Nat) /\ Len(t) <= Len(ranking) /\ Len(t) \in Nat  BY <1>4 DEF CandidatesOf
  <2>2. Len(t) = 0  BY <2>1, <1>4
  <2> QED BY <2>1, <2>2
<1>5. ASSUME NEW row PROVE ~Contains(<<>>, row)  BY DEF Contains
<1>6. LexWeight * d \in Nat /\ VecWeight * d \in Nat
  <2>1. d \in Nat
    <3> DEFINE k == RrfK + 1
    <3>1. k \in Nat \ {0} /\ k <= k  BY QueryIs
    <3>2. Unit(q) \in Nat  BY UnitIs
    <3> HIDE DEF k
    <3>3. Unit(q) \div k \in Nat  BY <3>1, <3>2, Divides
    <3> QED BY <3>3 DEF k
  <2> HIDE DEF d
  <2> QED BY <2>1, <1>1
<1>7. CASE q.lex # <<>> /\ q.vec = <<>>
  <2>1. best = q.lex[1]
    <3>1. q.lex \o q.vec = q.lex  BY <1>1, <1>7
    <3> QED BY <3>1, <1>1, <1>7
  <2>2. /\ Lex(q) # <<>> /\ best \in ToSet(Lex(q)) /\ Contains(Lex(q), best) /\ Rank(Lex(q), best) = 1
    BY <1>1, <1>2, <1>3, <1>7, <2>1
  <2>3. Vec(q) = <<>>  BY <1>2, <1>4, <1>7
  <2> HIDE DEF best
  <2>4. Rrf(q, best) = LexWeight * d + 0  BY <2>2, <2>3, <1>5 DEF Rrf, Share
  <2>5. RrfMax(q) = LexWeight * d + 0  BY <2>2, <2>3 DEF RrfMax
  <2>6. best \in Fused(q)  BY <2>2 DEF Fused
  <2> QED BY <2>4, <2>5, <2>6 DEF best
<1>8. CASE q.lex = <<>> /\ q.vec # <<>>
  <2>1. best = q.vec[1]
    <3>1. q.lex \o q.vec = q.vec  BY <1>1, <1>8
    <3> QED BY <3>1, <1>1, <1>8
  <2>2. /\ Vec(q) # <<>> /\ best \in ToSet(Vec(q)) /\ Contains(Vec(q), best) /\ Rank(Vec(q), best) = 1
    BY <1>1, <1>2, <1>3, <1>8, <2>1
  <2>3. Lex(q) = <<>>  BY <1>2, <1>4, <1>8
  <2> HIDE DEF best
  <2>4. Rrf(q, best) = 0 + VecWeight * d  BY <2>2, <2>3, <1>5 DEF Rrf, Share
  <2>5. RrfMax(q) = 0 + VecWeight * d  BY <2>2, <2>3 DEF RrfMax
  <2>6. best \in Fused(q)  BY <2>2 DEF Fused
  <2> QED BY <2>4, <2>5, <2>6 DEF best
<1> QED BY <1>7, <1>8

\* It passes every threshold that its relevance passes.
LEMMA LoneAnswers ==
  ASSUME NEW q, IsQuery(q), (q.lex = <<>>) # (q.vec = <<>>),
         PriorsOf(q)[Head(q.lex \o q.vec)] >= 0, q.minScore <= 55
  PROVE  ToSet(HybridHits(q)) # {}
<1> DEFINE best == Head(q.lex \o q.vec)  p == PriorsOf(q)[best]  m == RrfMax(q)  h == q.minScore
<1>1. best \in Fused(q) /\ Rrf(q, best) = m /\ IsRow(q, best)  BY LoneBest, FusedIs
<1>2. p \in Int /\ p >= 0 /\ m \in Nat /\ h \in Nat /\ h <= 55  BY <1>1, QueryIs, RrfMaxIs
<1>3. FusedScore(q, best) = InRange(55 * m + p * m, 100 * m)
  BY <1>1 DEF FusedScore, Relevance, PriorsOf
<1> HIDE DEF best, p, m, h
<1>4. InRange(55 * m + p * m, 100 * m) >= h * m
  <2>1. h * m \in Int /\ h * m <= 55 * m  BY <1>2, Times
  <2>2. p * m \in Int /\ 0 * m <= p * m  BY <1>2, Times
  <2> DEFINE x == p * m  y == h * m
  <2>3. x \in Int /\ x >= 0 /\ y \in Int /\ y <= 55 * m  BY <2>1, <2>2, <1>2
  <2> HIDE DEF x, y
  <2>4. InRange(55 * m + x, 100 * m) >= y  BY <2>3, <1>2 DEF InRange
  <2> QED BY <2>4 DEF x, y
<1>5. best \in Above(q)  BY <1>1, <1>3, <1>4 DEF Above, m, h
<1> DEFINE rows == Above(q)  score == [row \in rows |-> FusedScore(q, row)]
<1>6. IsFiniteSet(rows) /\ RowSet(rows) /\ score \in [rows -> Int]  BY AboveIs
<1>7. q.limit \in Nat /\ q.limit > 0  BY QueryIs
<1>8. ToSet(HybridHits(q)) = ToSet(Candidates(Ranked(rows, score), q.limit))  BY DEF HybridHits
<1>9. rows # {}  BY <1>5
<1> HIDE DEF rows, score
<1> QED BY <1>6, <1>7, <1>8, <1>9, FirstRows

\* Clamping a prior keeps an order.
LEMMA PriorsGrow ==
  ASSUME NEW p \in Int, NEW o \in Int, p >= o
  PROVE  InRange(p, 100) >= InRange(o, 100)
BY DEF InRange

\* Without words: what is newer and has no smaller a prior is not left out.
LEMMA RecentPrefers ==
  ASSUME NEW q, IsQuery(q), NEW rows, rows = ToSet(q.lex) \cup ToSet(q.vec),
         NEW a \in rows, NEW b \in ToSet(RecentHits(q, rows)), PriorsOf(q)[a] >= PriorsOf(q)[b], a >= b
  PROVE  a \in ToSet(RecentHits(q, rows))
<1> DEFINE age == [row \in rows |-> row]  N == Newest(q, rows)  A == RecentAbove(q, rows)
           score == [row \in A |-> Prior(q, row)]
<1>1. IsFiniteSet(rows) /\ \A row \in rows : IsRow(q, row)  BY FusedIs DEF IsRow
<1>2. \A row \in rows : row \in Nat /\ PriorsOf(q)[row] \in Int  BY <1>1, QueryIs
<1>3. RowSet(rows) /\ age \in [rows -> Int]  BY <1>2 DEF RowSet
<1>4. q.cap \in Nat /\ q.limit \in Nat /\ q.minScore \in Nat  BY QueryIs
<1>5. N = ToSet(Candidates(Ranked(rows, age), q.cap))  BY DEF Newest
<1>6. \A x, y \in rows : x >= y => ~Ahead(age, y, x)  BY <1>2 DEF Ahead
<1> HIDE DEF age, N
<1>7. N \subseteq rows /\ \A y \in N : \A x \in rows : x >= y => x \in N
  <2>1. N \subseteq rows /\ \A y \in N : \A x \in rows : ~Ahead(age, y, x) => x \in N
    <3>1. Leading(rows, age, ToSet(Candidates(Ranked(rows, age), q.cap)))  BY <1>1, <1>3, <1>4, FirstRows
    <3> QED BY <3>1, <1>5 DEF Leading
  <2> QED BY <2>1, <1>6
<1>8. A \subseteq N /\ \A x : x \in A <=> x \in N /\ Prior(q, x) >= q.minScore  BY DEF RecentAbove, N
<1>9. \A x \in rows : Prior(q, x) \in Int
  <2>1. ASSUME NEW p \in Int PROVE InRange(p, 100) \in Int  BY DEF InRange
  <2> QED BY <2>1, <1>2 DEF Prior, PriorsOf
<1>10. ToSet(RecentHits(q, rows)) = ToSet(Candidates(Ranked(A, score), q.limit))  BY DEF RecentHits
<1>11. \A x \in A : score[x] = Prior(q, x)  OBVIOUS
<1>12. score \in [A -> Int]  BY <1>7, <1>8, <1>9
<1> HIDE DEF A, score
<1>13. IsFiniteSet(A) /\ RowSet(A)
  <2>1. A \subseteq rows  BY <1>7, <1>8
  <2> QED BY <2>1, <1>1, <1>3, FS_Subset DEF RowSet
<1>14. /\ ToSet(RecentHits(q, rows)) \subseteq A
       /\ \A x \in A : ~Ahead(score, b, x) => x \in ToSet(RecentHits(q, rows))
  <2>1. Leading(A, score, ToSet(Candidates(Ranked(A, score), q.limit)))  BY <1>4, <1>12, <1>13, FirstRows
  <2> QED BY <2>1, <1>10 DEF Leading
<1>15. b \in A /\ b \in N /\ b \in rows  BY <1>7, <1>8, <1>14
<1>16. Prior(q, a) >= Prior(q, b)
  <2>2. PriorsOf(q)[a] \in Int /\ PriorsOf(q)[b] \in Int  BY <1>2, <1>15
  <2>3. InRange(PriorsOf(q)[a], 100) >= InRange(PriorsOf(q)[b], 100)  BY <2>2, PriorsGrow
  <2> QED BY <2>3 DEF Prior, PriorsOf
<1>17. a \in A
  <2>1. a \in N  BY <1>7, <1>15
  <2>2. Prior(q, b) >= q.minScore  BY <1>8, <1>15
  <2>3. Prior(q, a) \in Int /\ Prior(q, b) \in Int  BY <1>9, <1>15
  <2>4. Prior(q, a) >= q.minScore  BY <2>2, <2>3, <1>4, <1>16
  <2> QED BY <2>1, <2>4, <1>8
<1>18. ~Ahead(score, b, a)
  <2>1. score[a] = Prior(q, a) /\ score[b] = Prior(q, b)  BY <1>11, <1>15, <1>17
  <2>2. Prior(q, a) \in Int /\ Prior(q, b) \in Int /\ a \in Nat /\ b \in Nat  BY <1>2, <1>9, <1>15
  <2> QED BY <2>1, <2>2, <1>16 DEF Ahead
<1> QED BY <1>14, <1>17, <1>18

\* Fusion never answers a row instead of one that is better in every respect, and a ranker
\* alone still answers (search() and recentHits(), for every ranking, prior and weight).
THEOREM FusionIsFair ==
  ASSUME NEW q, IsQuery(q)
  PROVE  FusionFair(q)
<1> DEFINE rows == ToSet(q.lex) \cup ToSet(q.vec)
<1>1. \A a \in Fused(q), b \in ToSet(HybridHits(q)) :
        Dominates(q, a, b) => a \in ToSet(HybridHits(q)) \/ FusedScore(q, a) = FusedScore(q, b)
  BY FusionPrefers
<1>2. (q.lex = <<>>) # (q.vec = <<>>) =>
        (q.priors[Head(q.lex \o q.vec)] >= 0 /\ q.minScore <= 55 => ToSet(HybridHits(q)) # {})
  BY LoneAnswers DEF PriorsOf
<1>3. \A a \in rows, b \in ToSet(RecentHits(q, rows)) :
        q.priors[a] >= q.priors[b] /\ a >= b => a \in ToSet(RecentHits(q, rows))
  <2>1. rows = ToSet(q.lex) \cup ToSet(q.vec)  OBVIOUS
  <2> HIDE DEF rows
  <2> QED BY <2>1, RecentPrefers DEF PriorsOf
<1> QED BY <1>1, <1>2, <1>3 DEF FusionFair

(***************************************************************************)
(* The Postgres provider's search: whoever embeds has looked the table up, *)
(* and somebody looks it up whenever somebody waits for that.              *)
(***************************************************************************)
Finding == [at : {"idle", "answered", "resolving", "embedding"}, vectors : BOOLEAN]

DegradingInv ==
  /\ finding \in [Finder -> Finding]
  /\ vectorPromise \in {"none", "resolving", "resolved"} /\ provisioned \in BOOLEAN
  /\ \A f \in Finder : finding[f].at = "embedding" => provisioned
  /\ VectorsDegrade

\* A search begins: it waits for the table only if it is being looked up.
LEMMA SearchBeginsKeeps ==
  ASSUME DegradingInv, NEW f \in Finder, SearchBegins(f)
  PROVE  DegradingInv'
<1>1. PICK skips \in BOOLEAN :
        /\ finding' = [finding EXCEPT ![f] =
             [at |-> IF skips THEN "answered"
                     ELSE IF vectorPromise = "resolved" THEN "embedding" ELSE "resolving",
              vectors |-> FALSE]]
        /\ vectorPromise' = IF ~skips /\ vectorPromise = "none" THEN "resolving" ELSE vectorPromise
  BY DEF SearchBegins
<1>2. finding[f].at \in {"idle", "answered"} /\ UNCHANGED <<provisioned, vectorDisabledUntil, embedded>>
  BY DEF SearchBegins
<1>3. finding' \in [Finder -> Finding] /\ vectorPromise' \in {"none", "resolving", "resolved"}
  BY <1>1 DEF DegradingInv, Finding
<1>4. \A g \in Finder : g # f => finding'[g] = finding[g]
  BY <1>1 DEF DegradingInv
<1>5. /\ finding'[f].vectors = FALSE
      /\ finding'[f].at = IF skips THEN "answered"
                         ELSE IF vectorPromise = "resolved" THEN "embedding" ELSE "resolving"
  BY <1>1 DEF DegradingInv
<1>6. (vectorPromise' = "resolving") = (\E g \in Finder : finding'[g].at = "resolving")
  BY <1>1, <1>2, <1>4, <1>5 DEF DegradingInv, VectorsDegrade
<1> QED BY <1>1, <1>2, <1>3, <1>4, <1>5, <1>6 DEF DegradingInv, VectorsDegrade

\* The table is found: all who wait go on to embed.
LEMMA VectorTargetKeeps ==
  ASSUME DegradingInv, VectorTarget
  PROVE  DegradingInv'
<1>1. /\ finding' \in [Finder -> Finding]
      /\ \A f \in Finder : finding'[f].at # "resolving" /\ finding'[f].vectors = finding[f].vectors
  BY DEF DegradingInv, Finding, VectorTarget
<1> QED BY <1>1 DEF DegradingInv, VectorsDegrade, VectorTarget

\* It is not: all who wait answer without vectors.
LEMMA VectorTargetFailsKeeps ==
  ASSUME DegradingInv, VectorTargetFails
  PROVE  DegradingInv'
<1>1. \A f \in Finder :
        finding'[f] = IF finding[f].at = "resolving" THEN [at |-> "answered", vectors |-> FALSE]
                      ELSE finding[f]
  BY DEF DegradingInv, VectorTargetFails, FindEnds
<1>2. finding' \in [Finder -> Finding]
  <2>1. [at |-> "answered", vectors |-> FALSE] \in Finding  BY DEF Finding
  <2>2. \A f \in Finder : finding'[f] \in Finding  BY <1>1, <2>1 DEF DegradingInv
  <2> QED BY <2>2 DEF VectorTargetFails
<1>3. /\ vectorDisabledUntil' = embedded'.at + VectorCooldown /\ embedded'.by = "failure"
      /\ vectorPromise' = "none" /\ provisioned' = provisioned
  BY DEF VectorTargetFails, Degrades
<1>4. \A f \in Finder : finding'[f].at # "resolving"  BY <1>1
<1>5. \A f \in Finder : finding'[f].vectors \/ finding'[f].at = "embedding" => provisioned
  BY <1>1 DEF DegradingInv, VectorsDegrade
<1> QED BY <1>2, <1>3, <1>4, <1>5 DEF DegradingInv, VectorsDegrade

\* A search that embeds ends, with the vector or without.
LEMMA EmbeddingKeeps ==
  ASSUME DegradingInv, NEW f \in Finder, QueryEmbedded(f) \/ EmbeddingFails(f)
  PROVE  DegradingInv'
<1>1. PICK known \in BOOLEAN : finding' = [finding EXCEPT ![f] = [at |-> "answered", vectors |-> known]]
  BY DEF QueryEmbedded, EmbeddingFails, FindEnds
<1>2. finding[f].at = "embedding" /\ provisioned /\ UNCHANGED <<vectorPromise, provisioned>>
  BY DEF QueryEmbedded, EmbeddingFails, DegradingInv
<1>3. finding' \in [Finder -> Finding]  BY <1>1 DEF DegradingInv, Finding
<1>4. /\ \A g \in Finder : g # f => finding'[g] = finding[g]
      /\ finding'[f].at = "answered"
  BY <1>1 DEF DegradingInv
<1>5. vectorDisabledUntil' = IF embedded'.by = "failure" THEN embedded'.at + VectorCooldown ELSE 0
  <2>1. CASE QueryEmbedded(f)
    <3>1. vectorDisabledUntil' = 0 /\ embedded' = [by |-> "success", at |-> moment]
      BY <2>1 DEF QueryEmbedded
    <3> QED BY <3>1
  <2>2. CASE EmbeddingFails(f)
    <3>1. vectorDisabledUntil' = moment + VectorCooldown /\ embedded' = [by |-> "failure", at |-> moment]
      BY <2>2 DEF EmbeddingFails, Degrades
    <3> QED BY <3>1
  <2> QED BY <2>1, <2>2
<1>6. (vectorPromise' = "resolving") = (\E g \in Finder : finding'[g].at = "resolving")
  BY <1>2, <1>4 DEF DegradingInv, VectorsDegrade
<1> QED BY <1>2, <1>3, <1>4, <1>5, <1>6 DEF DegradingInv, VectorsDegrade

\* For any number of searches, a missing table is looked for again, nobody waits for a look-up
\* that nobody makes, and a failed embedder rests for a whole cooldown; what is answered with
\* or without vectors is fair (vectorTarget() and search()).
THEOREM SearchesDegrade == SearchSpec => []HybridSearchHolds
<1>1. ASSUME SearchInit  PROVE DegradingInv
  <2>1. finding \in [Finder -> Finding]  BY <1>1 DEF SearchInit, Finding
  <2>2. \A f \in Finder : finding[f].at = "idle" /\ finding[f].vectors = FALSE  BY <1>1 DEF SearchInit
  <2>3. embedded.by = "nobody"  BY <1>1 DEF SearchInit
  <2> QED BY <1>1, <2>1, <2>2, <2>3 DEF SearchInit, DegradingInv, VectorsDegrade
<1>2. ASSUME DegradingInv, [SearchNext]_searchVars  PROVE DegradingInv'
  <2>1. CASE VectorTarget  BY <1>2, <2>1, VectorTargetKeeps
  <2>2. CASE VectorTargetFails  BY <1>2, <2>2, VectorTargetFailsKeeps
  <2>3. CASE TableProvisioned \/ MomentPasses \/ UNCHANGED searchVars
    BY <1>2, <2>3 DEF TableProvisioned, MomentPasses, searchVars, DegradingInv, VectorsDegrade
  <2>4. CASE \E f \in Finder : SearchBegins(f) \/ QueryEmbedded(f) \/ EmbeddingFails(f)
    BY <1>2, <2>4, SearchBeginsKeeps, EmbeddingKeeps
  <2> QED BY <1>2, <2>1, <2>2, <2>3, <2>4 DEF SearchNext
<1>3. DegradingInv => HybridSearchHolds
  <2>1. FusionsFair  BY QueriesAssumption, FusionIsFair DEF FusionsFair
  <2> QED BY <2>1 DEF DegradingInv, HybridSearchHolds
<1> QED BY <1>1, <1>2, <1>3, PTL DEF SearchSpec
(***************************************************************************)
(* Arrays, and several of them made one.                                   *)
(***************************************************************************)
IsArray(s) == s \in Seq(ToSet(s)) /\ DOMAIN s = 1 .. Len(s) /\ Len(s) \in Nat

\* The elements of an array.
LEMMA ArrayIs ==
  ASSUME NEW S, NEW s \in Seq(S)
  PROVE  IsArray(s) /\ ToSet(s) \subseteq S /\ \A m : m \in ToSet(s) <=> \E i \in 1 .. Len(s) : s[i] = m
<1>1. DOMAIN s = 1 .. Len(s) /\ Len(s) \in Nat /\ ToSet(s) \subseteq S
  BY SeqElements
<1>2. \A m : m \in ToSet(s) <=> \E i \in 1 .. Len(s) : s[i] = m  BY SeqElements
<1>3. \A i \in 1 .. Len(s) : s[i] \in ToSet(s)  BY <1>2
<1>4. s \in Seq(ToSet(s))  BY <1>1, <1>3
<1> QED BY <1>1, <1>2, <1>4 DEF IsArray

\* A function on the first numbers is an array of its values.
LEMMA TabulatedIs ==
  ASSUME NEW n \in Nat, NEW f, DOMAIN f = 1 .. n, f = [i \in 1 .. n |-> f[i]]
  PROVE  IsArray(f) /\ Len(f) = n /\ \A m : m \in ToSet(f) <=> \E i \in 1 .. n : f[i] = m
<1> DEFINE S == {f[i] : i \in 1 .. n}
<1>1. f \in Seq(S) /\ Len(f) = n
  <2>1. \A i \in 1 .. n : f[i] \in S  OBVIOUS
  <2> HIDE DEF S
  <2>2. f \in [1 .. n -> S]  BY <2>1
  <2> QED BY <2>2
<1> HIDE DEF S
<1> QED BY <1>1, ArrayIs

Joins(e, all, s) == all \o s
JoinFold == INSTANCE FoldLemmas WITH Op <- Joins

\* All of the first n of ss, and for a rank of their elements that each element of ss has for
\* its place, in the order of their ranks.
JoinedUp(all, ss, n) ==
  /\ IsArray(all)
  /\ \A m : m \in ToSet(all) <=> \E k \in 1 .. n : m \in ToSet(ss[k])
  /\ (\A k \in 1 .. n : \A m \in ToSet(ss[k]) : m.at = k) =>
       \A a, b \in 1 .. Len(all) : a < b => all[a].at <= all[b].at

\* One array more is put behind the others.
LEMMA JoinStep ==
  ASSUME NEW ss, NEW n \in Nat, NEW all, JoinedUp(all, ss, n), IsArray(ss[n + 1])
  PROVE  JoinedUp(all \o ss[n + 1], ss, n + 1)
<1> DEFINE s == ss[n + 1]  u == all \o s  S == ToSet(all) \cup ToSet(s)
<1>1. /\ all \in Seq(S) /\ s \in Seq(S) /\ Len(all) \in Nat /\ Len(s) \in Nat
  <2>1. all \in Seq(ToSet(all)) /\ Len(all) \in Nat  BY DEF JoinedUp, IsArray
  <2>2. s \in Seq(ToSet(s)) /\ Len(s) \in Nat  BY DEF IsArray
  <2>3. ToSet(all) \subseteq S /\ ToSet(s) \subseteq S  OBVIOUS
  <2> HIDE DEF S, s
  <2> QED BY <2>1, <2>2, <2>3
<1>2. 1 .. (n + 1) = (1 .. n) \cup {n + 1}  OBVIOUS
<1>3. u \in Seq(S) /\ ToSet(u) = ToSet(all) \cup ToSet(s)
  <2> HIDE DEF S, s
  <2> QED BY <1>1, Concatenated
<1>4. IsArray(u)
  <2> HIDE DEF S, u
  <2> QED BY <1>3, ArrayIs
<1>5. \A m : m \in ToSet(u) <=> \E k \in 1 .. (n + 1) : m \in ToSet(ss[k])
  <2>1. \A m : m \in ToSet(all) <=> \E k \in 1 .. n : m \in ToSet(ss[k])  BY DEF JoinedUp
  <2> HIDE DEF u, S
  <2>2. \A m : m \in ToSet(u) <=> m \in ToSet(all) \/ m \in ToSet(ss[n + 1])  BY <1>3
  <2> QED BY <2>1, <2>2, <1>2
<1>6. ASSUME \A k \in 1 .. (n + 1) : \A m \in ToSet(ss[k]) : m.at = k,
             NEW a \in 1 .. Len(u), NEW b \in 1 .. Len(u), a < b
      PROVE  u[a].at <= u[b].at
  <2>1. /\ \A i, j \in 1 .. Len(all) : i < j => all[i].at <= all[j].at
        /\ \A m \in ToSet(all) : m.at \in 1 .. n
    <3>1. \A k \in 1 .. n : \A m \in ToSet(ss[k]) : m.at = k  BY <1>2, <1>6
    <3>2. \A m \in ToSet(all) : \E k \in 1 .. n : m \in ToSet(ss[k])  BY DEF JoinedUp
    <3> QED BY <3>1, <3>2 DEF JoinedUp
  <2>2. \A m \in ToSet(s) : m.at = n + 1  BY <1>2, <1>6
  <2>3. /\ Len(u) = Len(all) + Len(s)
        /\ \A i \in 1 .. Len(all) : u[i] = all[i]
        /\ \A i \in 1 .. Len(s) : u[Len(all) + i] = s[i]
    <3> HIDE DEF S, s
    <3> QED BY <1>1
  <2>4. \A i \in 1 .. Len(all) : all[i] \in ToSet(all)
    <3> HIDE DEF S, s, u
    <3> QED BY <1>1, ArrayIs
  <2>5. \A i \in 1 .. Len(s) : s[i] \in ToSet(s)
    <3> HIDE DEF S, s, u
    <3> QED BY <1>1, ArrayIs
  <2> HIDE DEF u, s, S
  <2>6. ASSUME NEW i \in 1 .. Len(u), i > Len(all) PROVE u[i].at = n + 1
    <3> DEFINE j == i - Len(all)
    <3>1. j \in 1 .. Len(s) /\ i = Len(all) + j  BY <2>3, <2>6, <1>1
    <3> HIDE DEF j
    <3>2. u[i] = s[j]  BY <3>1, <2>3
    <3> QED BY <3>1, <3>2, <2>2, <2>5
  <2>7. CASE b <= Len(all)
    <3>1. a \in 1 .. Len(all) /\ b \in 1 .. Len(all)  BY <2>7, <1>1, <1>6, <2>3
    <3> QED BY <3>1, <2>1, <2>3, <1>6
  <2>8. CASE b > Len(all) /\ a <= Len(all)
    <3>1. a \in 1 .. Len(all)  BY <2>8, <1>1, <2>3
    <3>2. u[a].at \in 1 .. n  BY <3>1, <2>1, <2>3, <2>4
    <3>3. u[b].at = n + 1  BY <2>6, <2>8
    <3> QED BY <3>2, <3>3
  <2>9. CASE b > Len(all) /\ a > Len(all)
    <3>1. u[a].at = n + 1 /\ u[b].at = n + 1  BY <2>6, <2>9
    <3> QED BY <3>1
  <2> QED BY <2>7, <2>8, <2>9, <2>3, <1>1
<1>7. JoinedUp(u, ss, n + 1)
  <2> HIDE DEF u, s, S
  <2> QED BY <1>4, <1>5, <1>6 DEF JoinedUp
<1> QED BY <1>7

\* What Concat() makes of an array of arrays.
LEMMA ConcatIs ==
  ASSUME NEW ss, IsArray(ss), \A k \in 1 .. Len(ss) : IsArray(ss[k])
  PROVE  JoinedUp(Concat(ss), ss, Len(ss))
<1>1. DOMAIN ss = 1 .. Len(ss) /\ Len(ss) \in Nat  BY DEF IsArray
<1> DEFINE R(n) == JoinFold!After(0, <<>>, ss, n)
<1>2. Concat(ss) = R(Len(ss))
  BY <1>1 DEF Concat, Joins, FoldLeft, MapThenFoldSet, JoinFold!After, JoinFold!Over, JoinFold!Solves, JoinFold!Top, Max
<1> DEFINE N == {n \in Nat : n <= Len(ss) => JoinedUp(R(n), ss, n)}
<1>3. 0 \in N
  <2>1. R(0) = <<>>  BY JoinFold!AfterNone
  <2>2. ToSet(<<>>) = {}  BY DEF ToSet
  <2>3. IsArray(<<>>) /\ Len(<<>>) = 0
    <3>1. <<>> \in Seq({}) /\ Len(<<>>) = 0  OBVIOUS
    <3> QED BY <3>1, ArrayIs
  <2>4. JoinedUp(<<>>, ss, 0)  BY <2>2, <2>3 DEF JoinedUp
  <2> QED BY <2>1, <2>4
<1>4. ASSUME NEW n \in N  PROVE n + 1 \in N
  <2> SUFFICES ASSUME n + 1 <= Len(ss) PROVE JoinedUp(R(n + 1), ss, n + 1)  BY <1>4
  <2>1. n \in Nat /\ JoinedUp(R(n), ss, n)  BY <1>1, <1>4
  <2>2. R(n + 1) = R(n) \o ss[n + 1]  BY <2>1, JoinFold!AfterOne DEF Joins
  <2>3. IsArray(ss[n + 1])
    <3>1. n + 1 \in 1 .. Len(ss)  BY <2>1, <1>1
    <3> QED BY <3>1
  <2> HIDE DEF R
  <2> QED BY <2>1, <2>2, <2>3, JoinStep
<1>5. N = Nat
  <2>1. N \in SUBSET Nat  OBVIOUS
  <2> HIDE DEF N
  <2> QED BY <1>3, <1>4, <2>1, JoinFold!Climbs
<1>6. JoinedUp(R(Len(ss)), ss, Len(ss))  BY <1>1, <1>5
<1> QED BY <1>2, <1>6

(***************************************************************************)
(* Windows and their batches.                                              *)
(***************************************************************************)
Rising(s, n) == \A i, j \in 1 .. n : i < j => s[i] < s[j]

\* One number more is kept or left out of a rising filter.
LEMMA RisingStep ==
  ASSUME NEW s \in Seq(Int), NEW keep, NEW n \in Nat, n + 1 <= Len(s), Rising(s, n + 1),
         NEW t, Picked(Int, t, s, n, keep), Rising(t, Len(t))
  PROVE  Rising(KeepIf(keep, t, s[n + 1]), Len(KeepIf(keep, t, s[n + 1])))
<1> DEFINE x == s[n + 1]  u == KeepIf(keep, t, x)
<1>1. x \in Int /\ t \in Seq(Int) /\ Len(t) \in Nat  BY DEF Picked
<1>2. \A k \in 1 .. Len(t) : t[k] < x
  <2>1. \A k \in 1 .. Len(t) : \E i \in 1 .. n : s[i] = t[k]  BY DEF Picked
  <2>2. \A i \in 1 .. n : i \in 1 .. (n + 1) /\ n + 1 \in 1 .. (n + 1) /\ i < n + 1  OBVIOUS
  <2>3. \A i \in 1 .. n : s[i] < x  BY <2>2 DEF Rising
  <2> HIDE DEF x
  <2> QED BY <2>1, <2>3
<1>3. CASE x \in keep
  <2>1. /\ Len(u) = Len(t) + 1 /\ u[Len(t) + 1] = x
        /\ \A k \in 1 .. Len(t) : u[k] = t[k]
    BY <1>1, <1>3, Appended DEF KeepIf
  <2> HIDE DEF u, x
  <2>2. ASSUME NEW i \in 1 .. Len(u), NEW j \in 1 .. Len(u), i < j PROVE u[i] < u[j]
    <3>1. i \in 1 .. Len(t) /\ u[i] = t[i]  BY <1>1, <2>1, <2>2
    <3>2. CASE j \in 1 .. Len(t)  BY <3>1, <3>2, <2>1, <2>2 DEF Rising
    <3>3. CASE j \notin 1 .. Len(t)
      <4> DEFINE a == Len(t)
      <4>1. a \in Nat /\ j \in 1 .. (a + 1) /\ j \notin 1 .. a  BY <3>3, <1>1, <2>1, <2>2
      <4> HIDE DEF a
      <4>2. j = a + 1  BY <4>1
      <4> QED BY <4>2, <3>1, <2>1, <1>2 DEF a
    <3> QED BY <3>2, <3>3
  <2>3. Rising(u, Len(u))  BY <2>2 DEF Rising
  <2> QED BY <2>3 DEF u, x
<1>4. CASE x \notin keep
  <2>1. u = t  BY <1>4 DEF KeepIf
  <2> QED BY <2>1
<1> QED BY <1>3, <1>4

\* What is kept of rising numbers rises.
LEMMA RisingIs ==
  ASSUME NEW s \in Seq(Int), NEW keep, Rising(s, Len(s))
  PROVE  Rising(Among(s, keep), Len(Among(s, keep)))
<1> DEFINE R(n) == KeepFold!After(keep, <<>>, s, n)
           Fine(t, n) == Picked(Int, t, s, n, keep) /\ Rising(t, Len(t))
<1>1. Len(s) \in Nat /\ DOMAIN s = 1 .. Len(s)  OBVIOUS
<1>2. Among(s, keep) = R(Len(s))
  BY <1>1 DEF Among, FoldLeft, MapThenFoldSet, KeepFold!After, KeepFold!Over, KeepFold!Solves, KeepFold!Top, Max
<1> DEFINE N == {n \in Nat : n <= Len(s) => Fine(R(n), n)}
<1>3. 0 \in N
  <2>1. R(0) = <<>>  BY KeepFold!AfterNone
  <2>2. Picked(Int, <<>>, s, 0, keep) /\ Rising(<<>>, Len(<<>>))  BY DEF Picked, Distinct, Rising
  <2> QED BY <2>1, <2>2
<1>4. ASSUME NEW n \in N  PROVE n + 1 \in N
  <2> SUFFICES ASSUME n + 1 <= Len(s) PROVE Fine(R(n + 1), n + 1)  BY <1>4
  <2>1. n \in Nat /\ Fine(R(n), n)  BY <1>1, <1>4
  <2>2. R(n + 1) = KeepIf(keep, R(n), s[n + 1])  BY <2>1, KeepFold!AfterOne
  <2>3. Rising(s, n + 1)
    <3>1. \A i \in 1 .. (n + 1) : i \in 1 .. Len(s)  BY <1>1, <2>1
    <3> QED BY <3>1 DEF Rising
  <2> HIDE DEF R
  <2>4. Picked(Int, R(n + 1), s, n + 1, keep)  BY <2>1, <2>2, PickedStep
  <2>5. Rising(R(n + 1), Len(R(n + 1)))  BY <2>1, <2>2, <2>3, RisingStep
  <2> QED BY <2>4, <2>5
<1>5. N = Nat
  <2>1. N \in SUBSET Nat  OBVIOUS
  <2> HIDE DEF N
  <2> QED BY <1>3, <1>4, <2>1, KeepFold!Climbs
<1>6. Fine(R(Len(s)), Len(s))  BY <1>1, <1>5
<1> QED BY <1>2, <1>6

IsWindow(x, g, w) ==
  /\ w \in Seq(Int) /\ DOMAIN w = 1 .. Len(w) /\ Len(w) \in Nat /\ Len(w) <= Len(x.key)
  /\ Rising(w, Len(w)) /\ Distinct(w, Len(w))
  /\ \A i \in 1 .. Len(w) : w[i] \in Turns(x) /\ x.key[w[i]] = g
  /\ \A n \in Turns(x) : x.key[n] = g => \E i \in 1 .. Len(w) : w[i] = n

\* A window holds the turns of its group, in their order.
LEMMA WindowIs ==
  ASSUME NEW x, Len(x.key) \in Nat, NEW g
  PROVE  IsWindow(x, g, WindowOf(x, g))
<1> DEFINE l == Len(x.key)
           s == [n \in Turns(x) |-> n]
           keep == {n \in Turns(x) : x.key[n] = g}
           w == WindowOf(x, g)
<1>1. s \in Seq(Int) /\ Len(s) = l /\ \A n \in 1 .. l : s[n] = n
  <2>1. s = [n \in 1 .. l |-> n]  BY DEF Turns
  <2> HIDE DEF s, l
  <2>2. l \in Nat  BY DEF l
  <2>3. s \in [1 .. l -> Int]  BY <2>1
  <2> QED BY <2>1, <2>2, <2>3
<1>2. w = Among(s, keep)  BY DEF WindowOf
<1>3. Rising(s, Len(s)) /\ Distinct(s, Len(s))  BY <1>1 DEF Rising, Distinct
<1>4. Turns(x) = 1 .. l  BY DEF Turns
<1>5. ToSet(s) = Turns(x)
  <2>1. \A m : m \in ToSet(s) <=> \E i \in 1 .. Len(s) : s[i] = m  BY <1>1, SeqElements
  <2> HIDE DEF s, l
  <2>2. \A m \in ToSet(s) : m \in Turns(x)  BY <2>1, <1>1, <1>4
  <2>3. \A m \in Turns(x) : m \in ToSet(s)  BY <2>1, <1>1, <1>4
  <2> QED BY <2>2, <2>3
<1> HIDE DEF s, l
<1>6. /\ w \in Seq(Int) /\ ToSet(w) = ToSet(s) \cap keep /\ Len(w) <= Len(s)
      /\ Distinct(w, Len(w))
  BY <1>1, <1>2, <1>3, AmongElements
<1>7. Rising(w, Len(w))  BY <1>1, <1>2, <1>3, RisingIs
<1> HIDE DEF w
<1>8. /\ DOMAIN w = 1 .. Len(w) /\ Len(w) \in Nat
      /\ \A m : m \in ToSet(w) <=> \E i \in 1 .. Len(w) : w[i] = m
  BY <1>6, SeqElements
<1>9. \A i \in 1 .. Len(w) : w[i] \in Turns(x) /\ x.key[w[i]] = g
  <2>1. \A i \in 1 .. Len(w) : w[i] \in ToSet(w)  BY <1>8
  <2> QED BY <2>1, <1>5, <1>6
<1>10. \A n \in Turns(x) : x.key[n] = g => \E i \in 1 .. Len(w) : w[i] = n
  BY <1>5, <1>6, <1>8
<1>11. Len(w) <= Len(x.key)  BY <1>1, <1>6 DEF l
<1>12. IsWindow(x, g, w)  BY <1>6, <1>7, <1>8, <1>9, <1>10, <1>11 DEF IsWindow
<1> QED BY <1>12 DEF w

\* As many turns of its group came before a turn as its window holds before it.
LEMMA PositionIs ==
  ASSUME NEW x, NEW g, NEW w, IsWindow(x, g, w), NEW i \in 0 .. Len(w) - 1
  PROVE  Place(x, w[i + 1]) = i /\ BatchOf(x, w[i + 1]) = <<g, i - (i % BatchSize)>>
<1> DEFINE n == w[i + 1]  t == FirstOf(w, i)
           before == {k \in 1 .. n - 1 : x.key[k] = x.key[n]}
<1>1. /\ w \in Seq(Int) /\ Len(w) \in Nat /\ i \in Nat /\ i + 1 \in 1 .. Len(w)
      /\ n \in Turns(x) /\ x.key[n] = g /\ n \in Int
  BY DEF IsWindow
<1>2. /\ t \in Seq(Int) /\ Len(t) = i /\ \A j \in 1 .. i : t[j] = w[j]
  <2>1. /\ t \in Seq(Int) /\ Len(t) <= i
        /\ \A j \in 1 .. Len(t) : t[j] = w[j]
        /\ Len(t) = Len(w) \/ Len(t) = i
    BY <1>1, FirstOfIs
  <2> HIDE DEF t
  <2>2. Len(t) = i  BY <2>1, <1>1
  <2> QED BY <2>1, <2>2
<1> HIDE DEF t
<1>3. \A j \in 1 .. i : j \in 1 .. Len(w)  BY <1>1
<1>4. Distinct(t, Len(t))  BY <1>2, <1>3 DEF IsWindow, Distinct
<1>5. Cardinality(ToSet(t)) = i  BY <1>2, <1>4, DistinctCount
<1>6. \A m : m \in ToSet(t) <=> \E j \in 1 .. i : w[j] = m
  <2>1. \A m : m \in ToSet(t) <=> \E j \in 1 .. Len(t) : t[j] = m  BY <1>2, SeqElements
  <2> QED BY <2>1, <1>2
<1>7. before = ToSet(t)
  <2>1. ASSUME NEW m \in ToSet(t) PROVE m \in before
    <3>1. PICK j \in 1 .. i : w[j] = m  BY <1>6
    <3>2. j \in 1 .. Len(w) /\ j < i + 1  BY <1>1, <1>3
    <3>3. w[j] < n  BY <3>2, <1>1 DEF IsWindow, Rising
    <3>4. m \in Turns(x) /\ x.key[m] = g /\ m \in Int  BY <3>1, <3>2, <1>1 DEF IsWindow
    <3>5. m \in Nat /\ m >= 1  BY <3>4 DEF Turns
    <3> HIDE DEF n
    <3> QED BY <3>1, <3>3, <3>4, <3>5, <1>1
  <2>2. ASSUME NEW m \in before PROVE m \in ToSet(t)
    <3>1. m \in Int /\ m >= 1 /\ m < n /\ x.key[m] = g
      <4> HIDE DEF n
      <4> QED BY <1>1
    <3>2. m \in Turns(x)
      <4>1. n \in 1 .. Len(x.key)  BY <1>1 DEF Turns
      <4> HIDE DEF n
      <4>2. m \in 1 .. Len(x.key)  BY <4>1, <3>1
      <4> QED BY <4>2 DEF Turns
    <3>3. PICK j \in 1 .. Len(w) : w[j] = m  BY <3>1, <3>2 DEF IsWindow
    <3>4. j <= i
      <4>1. j > i + 1 => w[j] > n
        <5>1. j > i + 1 => w[i + 1] < w[j]  BY <1>1 DEF IsWindow, Rising
        <5>2. w[j] \in Int  BY <1>1
        <5> HIDE DEF n
        <5> QED BY <5>1, <5>2, <1>1 DEF n
      <4>2. j = i + 1 => w[j] = n  OBVIOUS
      <4> HIDE DEF n
      <4> QED BY <4>1, <4>2, <3>1, <3>3, <1>1
    <3>5. j \in 1 .. i  BY <3>4, <1>1
    <3> QED BY <3>5, <3>3, <1>6
  <2> HIDE DEF before
  <2> QED BY <2>1, <2>2
<1>8. Place(x, n) = Cardinality(before) /\ BatchOf(x, n) = <<x.key[n], Place(x, n) - (Place(x, n) % BatchSize)>>
  BY DEF Place, BatchOf, BatchStart
<1> HIDE DEF n, before
<1>9. Place(x, n) = i /\ BatchOf(x, n) = <<g, i - (i % BatchSize)>>  BY <1>1, <1>5, <1>7, <1>8
<1> QED BY <1>9 DEF n

\* A multiple of the batch size is the first place of the batch of the places after it.
LEMMA ChunkIs ==
  ASSUME NEW B \in Nat \ {0}, NEW start \in Nat, start % B = 0,
         NEW i \in Nat, start <= i, i < start + B
  PROVE  i - (i % B) = start
<1> DEFINE p == start \div B  q == i \div B
<1>1. p \in Nat /\ start = p * B  OBVIOUS
<1>2. q \in Nat /\ q * B <= i /\ i < (q + 1) * B /\ q * B \in Int  OBVIOUS
<1>3. i - (i % B) = q * B  OBVIOUS
<1> HIDE DEF p, q
<1>4. (p + 1) * B = p * B + B /\ (q + 1) * B = q * B + B /\ p * B \in Int  BY <1>1, <1>2
<1>5. ~(q < p)
  <2>1. q < p => q + 1 <= p  BY <1>1, <1>2
  <2>2. q + 1 <= p => (q + 1) * B <= p * B  BY <1>1, <1>2, Times
  <2> QED BY <2>1, <2>2, <1>1, <1>2, <1>4
<1>6. ~(p < q)
  <2>1. p < q => p + 1 <= q  BY <1>1, <1>2
  <2>2. p + 1 <= q => (p + 1) * B <= q * B  BY <1>1, <1>2, Times
  <2> QED BY <2>1, <2>2, <1>1, <1>2, <1>4
<1>7. p = q  BY <1>1, <1>2, <1>5, <1>6
<1> QED BY <1>1, <1>3, <1>7

\* Every place is in the batch that starts at the multiple of the batch size before it.
LEMMA ChunkHas ==
  ASSUME NEW B \in Nat \ {0}, NEW i \in Nat
  PROVE  i % B \in 0 .. B - 1 /\ i % B <= i /\ (i - (i % B)) % B = 0
<1> DEFINE q == i \div B
<1>1. q \in Nat /\ q * B <= i /\ q * B \in Nat  OBVIOUS
<1>2. i - (i % B) = q * B  OBVIOUS
<1>3. i % B \in 0 .. B - 1  OBVIOUS
<1> HIDE DEF q
<1>4. (q * B) % B = 0  BY <1>1
<1> QED BY <1>1, <1>2, <1>3, <1>4

IsBatchStart(w, start) == start \in 0 .. Len(w) - 1 /\ start % BatchSize = 0

\* A window is cut where a batch starts, and the turns of a batch are of that batch.
LEMMA StartsAre ==
  ASSUME NEW w, Len(w) \in Nat
  PROVE  /\ IsArray(Starts(w))
         /\ \A m : m \in ToSet(Starts(w)) <=> IsBatchStart(w, m)
<1> DEFINE l == Len(w)
           s == [n \in 1 .. l |-> n - 1]
           keep == {i \in 0 .. l : i % BatchSize = 0}
<1>1. s \in Seq(Int) /\ Len(s) = l /\ \A n \in 1 .. l : s[n] = n - 1
  <2> HIDE DEF l
  <2>1. l \in Nat  BY DEF l
  <2> QED BY <2>1
<1>2. Starts(w) = Among(s, keep)  BY DEF Starts
<1>3. l \in Nat  OBVIOUS
<1> HIDE DEF s
<1>4. Starts(w) \in Seq(Int) /\ ToSet(Starts(w)) = ToSet(s) \cap keep  BY <1>1, <1>2, AmongElements
<1>5. \A m : m \in ToSet(s) <=> m \in 0 .. l - 1
  <2>1. \A m : m \in ToSet(s) <=> \E n \in 1 .. l : s[n] = m  BY <1>1, SeqElements
  <2> HIDE DEF l
  <2>2. \A m : m \in ToSet(s) => m \in 0 .. l - 1  BY <2>1, <1>1, <1>3
  <2>3. \A m \in 0 .. l - 1 : m + 1 \in 1 .. l /\ s[m + 1] = m  BY <1>1, <1>3
  <2> QED BY <2>1, <2>2, <2>3
<1>6. \A m : m \in 0 .. l - 1 /\ m \in keep <=> IsBatchStart(w, m)
  <2>1. \A m : m \in 0 .. l - 1 => m \in 0 .. l  BY <1>3
  <2> QED BY <2>1 DEF IsBatchStart
<1> HIDE DEF l, keep
<1> QED BY <1>4, <1>5, <1>6, ArrayIs

\* A batch is a stretch of its window that is not empty, and each of its turns is of it.
LEMMA BatchesAre ==
  ASSUME NEW x, NEW g, NEW w, IsWindow(x, g, w), NEW start, IsBatchStart(w, start)
  PROVE  /\ End(w, start) \in Nat /\ End(w, start) > start /\ End(w, start) <= Len(w)
         /\ \A i \in start .. End(w, start) - 1 : BatchOf(x, w[i + 1]) = <<g, start>>
<1>1. start \in Nat /\ start < Len(w) /\ Len(w) \in Nat /\ BatchSize \in Nat \ {0}
  BY ExtractionAssumption DEF IsBatchStart, IsWindow
<1>2. /\ End(w, start) \in Nat /\ End(w, start) > start /\ End(w, start) <= Len(w)
      /\ End(w, start) <= start + BatchSize
  BY <1>1 DEF End
<1>3. ASSUME NEW i \in start .. End(w, start) - 1  PROVE BatchOf(x, w[i + 1]) = <<g, start>>
  <2>1. i \in Nat /\ start <= i /\ i < start + BatchSize /\ i \in 0 .. Len(w) - 1  BY <1>1, <1>2
  <2>2. i - (i % BatchSize) = start  BY <2>1, <1>1, ChunkIs DEF IsBatchStart
  <2>3. BatchOf(x, w[i + 1]) = <<g, i - (i % BatchSize)>>  BY <2>1, PositionIs
  <2> QED BY <2>2, <2>3
<1> QED BY <1>2, <1>3

(***************************************************************************)
(* What an extractor returns.                                              *)
(***************************************************************************)
RawFact(w, i, origin) == [sources |-> {i}, words |-> OwnWords[w[i + 1]], origin |-> origin]

\* A turn as it came, or words grounded in a batch that some of its turns are cited for.
IsFact(x, w, f) ==
  /\ f.origin \in {"extracted", "fallback", "passthrough"}
  /\ f.origin = "extracted" =>
       \E start : /\ IsBatchStart(w, start)
                  /\ f.sources # {} /\ f.sources \subseteq start .. End(w, start) - 1
                  /\ IsFiniteSet(f.words) /\ Grounded(f.words, Vocabulary(x, w, start))
  /\ f.origin # "extracted" => \E i \in 0 .. Len(w) - 1 : f = RawFact(w, i, f.origin)

\* The turns of a stretch of a window, one by one.
LEMMA RawTurnsAre ==
  ASSUME NEW w, NEW start \in Nat, NEW end \in Nat, start <= end, NEW origin
  PROVE  /\ IsArray(RawTurns(w, start, end, origin))
         /\ \A m : m \in ToSet(RawTurns(w, start, end, origin)) <=>
                     \E i \in start .. end - 1 : m = RawFact(w, i, origin)
<1> DEFINE f == RawTurns(w, start, end, origin)  n == end - start
<1>1. n \in Nat /\ end = start + n  OBVIOUS
<1>2. /\ DOMAIN f = 1 .. n /\ f = [k \in 1 .. n |-> f[k]]
      /\ \A k \in 1 .. n : f[k] = RawFact(w, start + k - 1, origin)
  <2>1. \A k \in 1 .. n : start + k - 1 + 1 = start + k  BY <1>1
  <2>2. f = [k \in 1 .. n |-> [sources |-> {start + k - 1}, words |-> OwnWords[w[start + k]],
                               origin |-> origin]]
    BY DEF RawTurns
  <2> HIDE DEF f, n
  <2> QED BY <2>1, <2>2 DEF RawFact
<1> HIDE DEF f, n
<1>3. IsArray(f) /\ \A m : m \in ToSet(f) <=> \E k \in 1 .. n : f[k] = m  BY <1>1, <1>2, TabulatedIs
<1>4. ASSUME NEW m \in ToSet(f) PROVE \E i \in start .. end - 1 : m = RawFact(w, i, origin)
  <2>1. PICK k \in 1 .. n : f[k] = m  BY <1>3, <1>4
  <2>2. start + k - 1 \in start .. end - 1  BY <1>1
  <2> QED BY <2>1, <2>2, <1>2
<1>5. ASSUME NEW i \in start .. end - 1 PROVE RawFact(w, i, origin) \in ToSet(f)
  <2> DEFINE k == i - start + 1
  <2>1. k \in 1 .. n /\ start + k - 1 = i  BY <1>1
  <2> HIDE DEF k
  <2>2. f[k] = RawFact(w, i, origin)  BY <2>1, <1>2
  <2> QED BY <2>1, <2>2, <1>3
<1> QED BY <1>3, <1>4, <1>5 DEF f

\* The reply to a batch is one the request has.
LEMMA ReplyIs ==
  ASSUME NEW x \in Extractions, NEW g, NEW w, IsWindow(x, g, w), NEW start, IsBatchStart(w, start)
  PROVE  x.key[w[1]] = g /\ IsReply(x.replies[<<g, start>>])
<1>1. IsExtraction(x)  BY ExtractionAssumption
<1>2. 1 \in 1 .. Len(w) /\ Len(w) <= Len(x.key) /\ Len(w) \in Nat /\ start \in 0 .. Len(x.key) - 1
  <2>1. Len(x.key) \in Nat  BY <1>1 DEF IsExtraction
  <2> QED BY <2>1 DEF IsBatchStart, IsWindow
<1>3. w[1] \in 1 .. Len(x.key) /\ x.key[w[1]] = g  BY <1>2 DEF IsWindow, Turns
<1>4. g \in ToSet(x.key)
  <2>1. x.key \in Seq(ToSet(x.key))  BY <1>1 DEF IsExtraction
  <2> QED BY <2>1, <1>3, SeqElements
<1>5. start % BatchSize = 0  BY DEF IsBatchStart
<1> QED BY <1>1, <1>2, <1>3, <1>4, <1>5 DEF IsExtraction

\* A batch yields facts; one that fails, its turns if they are to pass through.
LEMMA BatchYields ==
  ASSUME NEW x \in Extractions, NEW g, NEW w, IsWindow(x, g, w), NEW start, IsBatchStart(w, start)
  PROVE  /\ IsArray(ExtractBatch(x, w, start))
         /\ \A f \in ToSet(ExtractBatch(x, w, start)) : IsFact(x, w, f)
         /\ x.replies[<<g, start>>].status # "ok" /\ x.passes =>
              \A i \in start .. End(w, start) - 1 :
                RawFact(w, i, "fallback") \in ToSet(ExtractBatch(x, w, start))
<1> DEFINE reply == x.replies[<<g, start>>]  end == End(w, start)  E == ExtractBatch(x, w, start)
<1>1. x.key[w[1]] = g /\ IsReply(reply)  BY ReplyIs
<1>2. /\ start \in Nat /\ end \in Nat /\ start < end /\ end <= Len(w) /\ Len(w) \in Nat
      /\ MaxFacts \in Nat
  <2>1. end \in Nat /\ start < end /\ end <= Len(w)  BY BatchesAre
  <2>2. start \in Nat /\ Len(w) \in Nat  BY DEF IsBatchStart, IsWindow
  <2> QED BY <2>1, <2>2, ExtractionAssumption
<1> HIDE DEF end
<1>3. CASE reply.status # "ok" /\ x.passes
  <2> DEFINE R == RawTurns(w, start, end, "fallback")
  <2>1. E = R  BY <1>1, <1>3 DEF ExtractBatch, end
  <2>2. /\ IsArray(R)
        /\ \A m : m \in ToSet(R) <=> \E i \in start .. end - 1 : m = RawFact(w, i, "fallback")
    <3>1. start <= end /\ start \in Nat /\ end \in Nat  BY <1>2
    <3>2. \A a, b \in Nat : \A origin : a <= b =>
            /\ IsArray(RawTurns(w, a, b, origin))
            /\ \A m : m \in ToSet(RawTurns(w, a, b, origin)) <=>
                        \E i \in a .. b - 1 : m = RawFact(w, i, origin)
      BY RawTurnsAre
    <3> QED BY <3>1, <3>2
  <2> HIDE DEF R, E
  <2>3. ASSUME NEW i \in start .. end - 1 PROVE IsFact(x, w, RawFact(w, i, "fallback"))
    <3>1. i \in 0 .. Len(w) - 1  BY <1>2
    <3>2. RawFact(w, i, "fallback").origin = "fallback"  BY DEF RawFact
    <3> QED BY <3>1, <3>2 DEF IsFact
  <2>4. \A f \in ToSet(E) : IsFact(x, w, f)  BY <2>1, <2>2, <2>3
  <2> QED BY <2>1, <2>2, <2>4 DEF E, end
<1>4. CASE reply.status # "ok" /\ ~x.passes
  <2>1. E = <<>>  BY <1>1, <1>4 DEF ExtractBatch
  <2> HIDE DEF E
  <2>2. IsArray(<<>>) /\ ToSet(<<>>) = {}
    <3>1. <<>> \in Seq({})  OBVIOUS
    <3>2. ToSet(<<>>) = {}  BY DEF ToSet
    <3> QED BY <3>1, <3>2, ArrayIs
  <2> QED BY <2>1, <2>2, <1>4 DEF E
<1>5. CASE reply.status = "ok"
  <2> DEFINE first == FirstOf(reply.facts, MaxFacts)
             keep == {fact \in ToSet(reply.facts) : Valid(x, w, start, fact)}
             kept == Among(first, keep)
  <2>1. E = [n \in DOMAIN kept |-> ValidateFact(w, start, kept[n])]  BY <1>1, <1>5 DEF ExtractBatch, FirstOf
  <2>2. /\ reply.facts \in Seq(ToSet(reply.facts))
        /\ \A fact \in ToSet(reply.facts) : IsFiniteSet(fact.words) /\ fact.cites \subseteq Int
    BY <1>1, <1>5 DEF IsReply
  <2>3. kept \in Seq(ToSet(reply.facts)) /\ ToSet(kept) \subseteq keep
    <3>1. first \in Seq(ToSet(reply.facts))  BY <2>2, <1>2, FirstOfIs
    <3> HIDE DEF first, keep
    <3> QED BY <3>1, AmongElements
  <2> HIDE DEF kept, E, reply, first
  <2>4. /\ DOMAIN kept = 1 .. Len(kept) /\ Len(kept) \in Nat
        /\ \A n \in 1 .. Len(kept) : kept[n] \in keep
    BY <2>3, SeqElements
  <2>5. /\ DOMAIN E = 1 .. Len(kept) /\ E = [n \in 1 .. Len(kept) |-> E[n]]
        /\ \A n \in 1 .. Len(kept) : E[n] = ValidateFact(w, start, kept[n])
    BY <2>1, <2>4
  <2>6. IsArray(E) /\ \A m : m \in ToSet(E) <=> \E n \in 1 .. Len(kept) : E[n] = m
    BY <2>4, <2>5, TabulatedIs
  <2>7. ASSUME NEW fact \in keep PROVE IsFact(x, w, ValidateFact(w, start, fact))
    <3> DEFINE v == ValidateFact(w, start, fact)  own == {i \in fact.cites : i >= start /\ i < end}
    <3>1. /\ IsFiniteSet(fact.words) /\ fact.cites \subseteq Int
          /\ Cited(w, start, fact.cites) # {} /\ Grounded(fact.words, Vocabulary(x, w, start))
      BY <2>2 DEF Valid
    <3>2. Cited(w, start, fact.cites) \subseteq start .. end - 1
      <4>1. own \subseteq start .. end - 1  BY <3>1, <1>2
      <4>2. {start} \subseteq start .. end - 1  BY <1>2
      <4>3. Cited(w, start, fact.cites) \in {own, {start}}  BY DEF Cited, end
      <4> HIDE DEF own
      <4> QED BY <4>1, <4>2, <4>3
    <3>3. /\ v.origin = "extracted" /\ v.sources = Cited(w, start, fact.cites)
          /\ v.words = fact.words
      BY DEF ValidateFact
    <3> HIDE DEF v
    <3>4. IsFact(x, w, v)  BY <3>1, <3>2, <3>3 DEF IsFact, end
    <3> QED BY <3>4 DEF v
  <2> HIDE DEF keep
  <2>8. \A f \in ToSet(E) : IsFact(x, w, f)  BY <2>4, <2>5, <2>6, <2>7
  <2> QED BY <2>6, <2>8, <1>5 DEF E, reply
<1> HIDE DEF E, reply
<1>6. /\ IsArray(E) /\ \A f \in ToSet(E) : IsFact(x, w, f)
      /\ reply.status # "ok" /\ x.passes =>
           \A i \in start .. end - 1 : RawFact(w, i, "fallback") \in ToSet(E)
  BY <1>3, <1>4, <1>5 DEF E, reply, end
<1> QED BY <1>6 DEF E, reply, end

\* An extractor returns facts of its window: the passthrough each turn, the model each turn of a
\* batch that fails, if they are to pass through.
LEMMA ExtractIs ==
  ASSUME NEW x \in Extractions, NEW g, NEW w, IsWindow(x, g, w)
  PROVE  /\ IsArray(Extract(x, w)) /\ \A f \in ToSet(Extract(x, w)) : IsFact(x, w, f)
         /\ x.kind = "throws" => Extract(x, w) = <<>>
         /\ x.kind = "none" =>
              \A i \in 0 .. Len(w) - 1 : RawFact(w, i, "passthrough") \in ToSet(Extract(x, w))
         /\ x.kind = "llm" /\ x.passes =>
              \A start : IsBatchStart(w, start) /\ x.replies[<<g, start>>].status # "ok" =>
                \A i \in start .. End(w, start) - 1 : RawFact(w, i, "fallback") \in ToSet(Extract(x, w))
<1> DEFINE E == Extract(x, w)
<1>0. \A a, b \in Nat : \A origin : a <= b =>
        /\ IsArray(RawTurns(w, a, b, origin))
        /\ \A m : m \in ToSet(RawTurns(w, a, b, origin)) <=>
                    \E i \in a .. b - 1 : m = RawFact(w, i, origin)
  BY RawTurnsAre
<1>1. x.kind \in {"none", "throws", "llm"} /\ Len(w) \in Nat
  <2>1. x.kind \in {"none", "throws", "llm"}  BY ExtractionAssumption DEF IsExtraction
  <2>2. Len(w) \in Nat  BY DEF IsWindow
  <2> QED BY <2>1, <2>2
<1>2. CASE x.kind = "throws"
  <2>1. E = <<>>  BY <1>2 DEF Extract
  <2>2. IsArray(<<>>) /\ ToSet(<<>>) = {}
    <3>1. <<>> \in Seq({})  OBVIOUS
    <3>2. ToSet(<<>>) = {}  BY DEF ToSet
    <3> QED BY <3>1, <3>2, ArrayIs
  <2> HIDE DEF E
  <2> QED BY <2>1, <2>2, <1>2 DEF E
<1>3. CASE x.kind = "none"
  <2> DEFINE R == RawTurns(w, 0, Len(w), "passthrough")
  <2>1. E = R  BY <1>3 DEF Extract
  <2>2. /\ IsArray(R)
        /\ \A m : m \in ToSet(R) <=> \E i \in 0 .. Len(w) - 1 : m = RawFact(w, i, "passthrough")
    BY <1>0, <1>1
  <2> HIDE DEF R, E
  <2>3. ASSUME NEW i \in 0 .. Len(w) - 1 PROVE IsFact(x, w, RawFact(w, i, "passthrough"))
    <3>1. RawFact(w, i, "passthrough").origin = "passthrough"  BY DEF RawFact
    <3> QED BY <3>1, <2>3 DEF IsFact
  <2>4. IsArray(E) /\ \A f \in ToSet(E) : IsFact(x, w, f)  BY <2>1, <2>2, <2>3
  <2>5. \A i \in 0 .. Len(w) - 1 : RawFact(w, i, "passthrough") \in ToSet(E)  BY <2>1, <2>2
  <2> QED BY <2>4, <2>5, <1>3 DEF E
<1>4. CASE x.kind = "llm"
  <2> DEFINE ss == [b \in DOMAIN Starts(w) |-> ExtractBatch(x, w, Starts(w)[b])]
             n == Len(Starts(w))
  <2>1. E = Concat(ss)  BY <1>4 DEF Extract
  <2>2. /\ IsArray(Starts(w)) /\ n \in Nat /\ DOMAIN Starts(w) = 1 .. n
        /\ \A m : m \in ToSet(Starts(w)) <=> IsBatchStart(w, m)
    BY <1>1, StartsAre DEF IsArray
  <2>3. \A m : IsBatchStart(w, m) <=> \E b \in 1 .. n : Starts(w)[b] = m
    <3>1. Starts(w) \in Seq(ToSet(Starts(w)))  BY <2>2 DEF IsArray
    <3> QED BY <2>2, <3>1, SeqElements
  <2>4. /\ DOMAIN ss = 1 .. n /\ ss = [b \in 1 .. n |-> ss[b]]
        /\ \A b \in 1 .. n : ss[b] = ExtractBatch(x, w, Starts(w)[b])
    BY <2>2
  <2> HIDE DEF ss, n, E
  <2>5. IsArray(ss) /\ Len(ss) = n  BY <2>2, <2>4, TabulatedIs
  <2>6. \A b \in 1 .. n : IsArray(ss[b])
    <3> TAKE b \in 1 .. n
    <3>1. IsBatchStart(w, Starts(w)[b])  BY <2>3
    <3> QED BY <3>1, <2>4, BatchYields
  <2>7. JoinedUp(E, ss, n)
    <3>1. JoinedUp(Concat(ss), ss, Len(ss))  BY <2>5, <2>6, ConcatIs
    <3> QED BY <3>1, <2>1, <2>5
  <2>8. IsArray(E) /\ \A m : m \in ToSet(E) <=> \E b \in 1 .. n : m \in ToSet(ss[b])
    BY <2>7 DEF JoinedUp
  <2>9. ASSUME NEW f \in ToSet(E) PROVE IsFact(x, w, f)
    <3>1. PICK b \in 1 .. n : f \in ToSet(ExtractBatch(x, w, Starts(w)[b]))  BY <2>8, <2>9, <2>4
    <3>2. IsBatchStart(w, Starts(w)[b])  BY <2>3
    <3> QED BY <3>1, <3>2, BatchYields
  <2>10. ASSUME x.passes, NEW start, IsBatchStart(w, start), x.replies[<<g, start>>].status # "ok",
                NEW i \in start .. End(w, start) - 1
         PROVE  RawFact(w, i, "fallback") \in ToSet(E)
    <3>1. RawFact(w, i, "fallback") \in ToSet(ExtractBatch(x, w, start))  BY <2>10, BatchYields
    <3>2. PICK b \in 1 .. n : Starts(w)[b] = start  BY <2>3, <2>10
    <3> QED BY <3>1, <3>2, <2>4, <2>8
  <2> QED BY <2>8, <2>9, <2>10, <1>4 DEF E
<1> HIDE DEF E
<1>5. /\ IsArray(E) /\ \A f \in ToSet(E) : IsFact(x, w, f)
      /\ x.kind = "throws" => E = <<>>
      /\ x.kind = "none" => \A i \in 0 .. Len(w) - 1 : RawFact(w, i, "passthrough") \in ToSet(E)
      /\ x.kind = "llm" /\ x.passes =>
           \A start : IsBatchStart(w, start) /\ x.replies[<<g, start>>].status # "ok" =>
             \A i \in start .. End(w, start) - 1 : RawFact(w, i, "fallback") \in ToSet(E)
  BY <1>1, <1>2, <1>3, <1>4 DEF E
<1> QED BY <1>5 DEF E

(***************************************************************************)
(* What is made of them.                                                   *)
(***************************************************************************)
\* What a derivation may say, and what it is attributed to.
IsEntry(x, e) ==
  /\ e.at \in Turns(x)
  /\ ~IsUnverified(e) => 2 * Cardinality(e.words \cap Said(x, e.at)) >= Cardinality(e.words)
  /\ e.sources # {} =>
       /\ e.at = Least(e.sources)
       /\ \A n \in e.sources : BatchOf(x, n) = BatchOf(x, e.at)
  /\ IsUnverified(e) => e.words = OwnWords[e.at] /\ e.sources = {}

TurnEntry(n, mark) == [at |-> n, words |-> OwnWords[n], mark |-> mark, sources |-> {}]

\* A turn is shown with its own batch.
LEMMA OwnShown ==
  ASSUME NEW x \in Extractions, NEW n \in Turns(x)
  PROVE  n \in Shown(x, n)
<1> DEFINE p == Place(x, n)  r == p % BatchSize
<1>1. p \in Nat
  <2> DEFINE before == {k \in 1 .. n - 1 : x.key[k] = x.key[n]}
  <2>1. n \in Int  BY DEF Turns
  <2>2. before \subseteq 1 .. n - 1 /\ IsFiniteSet(1 .. n - 1)  BY <2>1, FS_Interval
  <2> HIDE DEF before
  <2>3. Cardinality(before) \in Nat  BY <2>2, FS_Subset, FS_CardinalityType
  <2> QED BY <2>3 DEF before, Place
<1>2. BatchSize \in Nat \ {0} /\ ContextTurns \in Nat  BY ExtractionAssumption
<1> HIDE DEF p
<1>3. r \in 0 .. BatchSize - 1  BY <1>1, <1>2
<1> HIDE DEF r
<1>4. p >= p - r - ContextTurns /\ p < p - r + BatchSize  BY <1>1, <1>2, <1>3
<1> QED BY <1>4 DEF Shown, BatchStart, p, r

\* A turn as it came is an entry, however it is marked.
LEMMA TurnEntryIs ==
  ASSUME NEW x \in Extractions, NEW n \in Turns(x), NEW mark
  PROVE  IsEntry(x, TurnEntry(n, mark))
<1> DEFINE e == TurnEntry(n, mark)
<1>1. e.at = n /\ e.words = OwnWords[n] /\ e.sources = {}  BY DEF TurnEntry
<1>2. IsFiniteSet(OwnWords[n])  BY ExtractionAssumption DEF IsExtraction
<1>3. OwnWords[n] \cap Said(x, n) = OwnWords[n]  BY OwnShown DEF Said
<1>4. Cardinality(OwnWords[n]) \in Nat  BY <1>2, FS_CardinalityType
<1>5. 2 * Cardinality(OwnWords[n]) >= Cardinality(OwnWords[n])  BY <1>4
<1> HIDE DEF e
<1>6. IsEntry(x, e)  BY <1>1, <1>3, <1>5 DEF IsEntry
<1> QED BY <1>6 DEF e

\* The least of a set of numbers, wherever it is found.
LEMMA LeastIs ==
  ASSUME NEW S \in SUBSET Nat, NEW m \in S, \A j \in S : m <= j
  PROVE  Least(S) = m
<1> DEFINE k == Least(S)
<1>1. k \in S /\ \A j \in S : k <= j  BY DEF Least
<1> HIDE DEF k
<1>2. k \in Nat /\ m \in Nat /\ k <= m /\ m <= k  BY <1>1
<1>3. k = m  BY <1>2
<1> QED BY <1>3 DEF k

\* A fact is made an entry, a turn as it came the entry of that turn.
LEMMA RawDerived ==
  ASSUME NEW x, NEW g, NEW w, IsWindow(x, g, w), NEW i \in 0 .. Len(w) - 1, NEW origin
  PROVE  /\ w[i + 1] \in Turns(x)
         /\ Derived(w, RawFact(w, i, origin)) =
              TurnEntry(w[i + 1], IF origin = "fallback" THEN "fallback" ELSE "none")
<1> DEFINE f == RawFact(w, i, origin)
<1>1. f.sources = {i} /\ f.words = OwnWords[w[i + 1]] /\ f.origin = origin  BY DEF RawFact
<1>2. i \in Nat /\ i + 1 \in 1 .. Len(w)  BY DEF IsWindow
<1>3. Least({i}) = i
  <2>1. {i} \in SUBSET Nat /\ \A j \in {i} : i <= j  BY <1>2
  <2> QED BY <2>1, LeastIs
<1>4. Cardinality({i}) = 1  BY FS_Singleton
<1> HIDE DEF f
<1>5. Derived(w, f) = TurnEntry(w[i + 1], IF origin # "fallback" THEN "none" ELSE origin)
  BY <1>1, <1>3, <1>4 DEF Derived, TurnEntry
<1>6. w[i + 1] \in Turns(x)  BY <1>2 DEF IsWindow
<1> QED BY <1>5, <1>6 DEF f

\* What is derived from turns of one batch says little that was not shown with it.
LEMMA GroundedDerived ==
  ASSUME NEW x, NEW g, NEW w, IsWindow(x, g, w), NEW f, IsFact(x, w, f), f.origin = "extracted"
  PROVE  IsEntry(x, Derived(w, f))
<1>1. PICK start : /\ IsBatchStart(w, start)
                   /\ f.sources # {} /\ f.sources \subseteq start .. End(w, start) - 1
                   /\ IsFiniteSet(f.words) /\ Grounded(f.words, Vocabulary(x, w, start))
  BY DEF IsFact
<1> DEFINE end == End(w, start)  S == f.sources  T == {w[i + 1] : i \in S}
           base == Least(S)  e == Derived(w, f)
<1>2. /\ start \in Nat /\ end \in Nat /\ end <= Len(w) /\ Len(w) \in Nat
      /\ \A i \in start .. end - 1 : BatchOf(x, w[i + 1]) = <<g, start>>
  <2>1. start \in Nat /\ Len(w) \in Nat  BY <1>1 DEF IsBatchStart, IsWindow
  <2>2. /\ end \in Nat /\ end <= Len(w)
        /\ \A i \in start .. end - 1 : BatchOf(x, w[i + 1]) = <<g, start>>
    BY <1>1, BatchesAre
  <2> QED BY <2>1, <2>2
<1> HIDE DEF end
<1>3. S \subseteq start .. end - 1 /\ S # {} /\ S \in SUBSET Nat  BY <1>1, <1>2 DEF end
<1> HIDE DEF S
<1>4. base \in S /\ \A j \in S : base <= j
  <2>1. PICK m \in S : \A j \in S : m <= j  BY <1>3, LeastNat
  <2> QED BY <2>1, <1>3, LeastIs
<1>5. \A i \in S : /\ i + 1 \in 1 .. Len(w) /\ i \in Nat /\ w[i + 1] \in Turns(x)
                   /\ x.key[w[i + 1]] = g /\ BatchOf(x, w[i + 1]) = <<g, start>>
  <2>1. \A i \in S : i + 1 \in 1 .. Len(w) /\ i \in Nat  BY <1>2, <1>3
  <2>2. \A i \in S : i \in start .. end - 1  BY <1>3
  <2> QED BY <2>1, <2>2, <1>2 DEF IsWindow
<1> HIDE DEF base
<1>6. Least(T) = w[base + 1]
  <2>1. T \in SUBSET Nat
    <3>1. \A i \in S : w[i + 1] \in Nat  BY <1>5 DEF Turns
    <3> QED BY <3>1
  <2>2. w[base + 1] \in T  BY <1>4
  <2>3. ASSUME NEW j \in T PROVE w[base + 1] <= j
    <3>1. PICK i \in S : j = w[i + 1]  BY <2>3
    <3>2. base <= i /\ base \in Nat /\ i \in Nat /\ base + 1 \in 1 .. Len(w) /\ i + 1 \in 1 .. Len(w)
      BY <1>4, <1>5
    <3>3. base # i => w[base + 1] < w[i + 1]
      <4>1. base # i => base + 1 < i + 1  BY <3>2
      <4> QED BY <4>1, <3>2 DEF IsWindow, Rising
    <3>4. w[base + 1] \in Nat /\ w[i + 1] \in Nat  BY <2>1, <2>2, <3>1, <2>3
    <3> QED BY <3>1, <3>3, <3>4
  <2> HIDE DEF T
  <2> QED BY <2>1, <2>2, <2>3, LeastIs
<1>7. /\ e.at = w[base + 1] /\ e.words = f.words /\ e.mark \in {"none", "extracted"}
      /\ e.sources \in {{}, T}
  <2>1. e.at = w[base + 1] /\ e.words = f.words  BY DEF Derived, base, S
  <2>2. e.mark \in {"none", "extracted"}  BY DEF Derived
  <2>3. e.sources \in {{}, T}  BY DEF Derived, S
  <2> QED BY <2>1, <2>2, <2>3
<1> HIDE DEF e
<1>8. ~IsUnverified(e)  BY <1>7 DEF IsUnverified
<1>9. e.at \in Turns(x) /\ x.key[e.at] = g /\ BatchOf(x, e.at) = <<g, start>>  BY <1>4, <1>5, <1>7
<1>10. 2 * Cardinality(e.words \cap Said(x, e.at)) >= Cardinality(e.words)
  <2> DEFINE V == Vocabulary(x, w, start)  U == Said(x, e.at)
  <2>1. V \subseteq U
    <3>1. ASSUME NEW i \in {k \in 0 .. end - 1 : k >= start - ContextTurns}
          PROVE  OwnWords[w[i + 1]] \cup LabelWords[w[i + 1]] \subseteq U
      <4>1. i + 1 \in 1 .. Len(w) /\ i \in 0 .. Len(w) - 1  BY <1>2
      <4>2. w[i + 1] \in Turns(x) /\ x.key[w[i + 1]] = g  BY <4>1 DEF IsWindow
      <4>3. Place(x, w[i + 1]) = i  BY <4>1, PositionIs
      <4>4. BatchStart(x, e.at) = start  BY <1>9 DEF BatchOf
      <4>5. end <= start + BatchSize  BY <1>2, ExtractionAssumption DEF end, End
      <4>6. i >= start - ContextTurns /\ i < start + BatchSize
        BY <4>5, <1>2, ExtractionAssumption
      <4>7. w[i + 1] \in Shown(x, e.at)  BY <4>2, <4>3, <4>4, <4>6, <1>9 DEF Shown
      <4> QED BY <4>7 DEF Said
    <3>2. x.names[x.key[w[1]]] \subseteq U
      <4>1. 1 \in 1 .. Len(w)  BY <1>1, <1>2 DEF IsBatchStart
      <4>2. x.key[w[1]] = g  BY <4>1 DEF IsWindow
      <4> QED BY <4>2, <1>9 DEF Said
    <3>3. V = x.names[x.key[w[1]]] \cup UNION {OwnWords[w[i + 1]] \cup LabelWords[w[i + 1]] :
                i \in {k \in 0 .. end - 1 : k >= start - ContextTurns}}
      BY DEF Vocabulary, end
    <3> HIDE DEF U, V
    <3> QED BY <3>1, <3>2, <3>3
  <2>2. 2 * Cardinality(f.words \cap V) >= Cardinality(f.words) /\ IsFiniteSet(f.words)
    BY <1>1 DEF Grounded
  <2> HIDE DEF U, V
  <2>3. IsFiniteSet(f.words \cap U) /\ f.words \cap V \subseteq f.words \cap U
    <3>1. f.words \cap U \subseteq f.words  OBVIOUS
    <3> QED BY <3>1, <2>1, <2>2, FS_Subset
  <2>4. /\ Cardinality(f.words \cap V) <= Cardinality(f.words \cap U)
        /\ Cardinality(f.words \cap V) \in Nat /\ Cardinality(f.words \cap U) \in Nat
        /\ Cardinality(f.words) \in Nat
    BY <2>2, <2>3, FS_Subset, FS_CardinalityType
  <2>5. 2 * Cardinality(f.words \cap U) >= Cardinality(f.words)
    <3> DEFINE a == Cardinality(f.words \cap V)  b == Cardinality(f.words \cap U)
               c == Cardinality(f.words)
    <3>1. a \in Nat /\ b \in Nat /\ c \in Nat /\ a <= b /\ 2 * a >= c  BY <2>2, <2>4
    <3> HIDE DEF a, b, c
    <3>2. 2 * b >= c  BY <3>1
    <3> QED BY <3>2 DEF b, c
  <2> QED BY <2>5, <1>7 DEF U
<1>11. ASSUME e.sources # {}
       PROVE  e.at = Least(e.sources) /\ \A n \in e.sources : BatchOf(x, n) = BatchOf(x, e.at)
  <2>1. e.sources = T  BY <1>7, <1>11
  <2>2. e.at = Least(T)  BY <1>6, <1>7
  <2>3. \A n \in T : BatchOf(x, n) = <<g, start>>  BY <1>5
  <2> HIDE DEF T
  <2> QED BY <2>1, <2>2, <2>3, <1>9
<1>12. IsEntry(x, e)  BY <1>8, <1>9, <1>10, <1>11 DEF IsEntry
<1> QED BY <1>12 DEF e

\* What a window comes to: its facts, or its turns if it has none and they are to be kept.
LEMMA WindowYields ==
  ASSUME NEW x \in Extractions, NEW g, NEW w, IsWindow(x, g, w)
  PROVE  /\ IsArray(WindowEntries(x, w)) /\ \A e \in ToSet(WindowEntries(x, w)) : IsEntry(x, e)
         /\ x.raw /\ w # <<>> => WindowEntries(x, w) # <<>>
         /\ x.raw /\ x.kind = "throws" =>
              \A i \in 0 .. Len(w) - 1 : TurnEntry(w[i + 1], "fallback") \in ToSet(WindowEntries(x, w))
         /\ x.kind = "none" =>
              \A i \in 0 .. Len(w) - 1 : TurnEntry(w[i + 1], "none") \in ToSet(WindowEntries(x, w))
         /\ x.kind = "llm" /\ x.passes =>
              \A start : IsBatchStart(w, start) /\ x.replies[<<g, start>>].status # "ok" =>
                \A i \in start .. End(w, start) - 1 :
                  TurnEntry(w[i + 1], "fallback") \in ToSet(WindowEntries(x, w))
<1> DEFINE F == Extract(x, w)  W == WindowEntries(x, w)  l == Len(w)
           Holds(f) == f \in ToSet(F)
<1>1. /\ IsArray(F) /\ \A f \in ToSet(F) : IsFact(x, w, f)
      /\ x.kind = "throws" => F = <<>>
      /\ x.kind = "none" => \A i \in 0 .. l - 1 : Holds(RawFact(w, i, "passthrough"))
      /\ x.kind = "llm" /\ x.passes =>
           \A start : IsBatchStart(w, start) /\ x.replies[<<g, start>>].status # "ok" =>
             \A i \in start .. End(w, start) - 1 : Holds(RawFact(w, i, "fallback"))
  BY ExtractIs
<1>2. l \in Nat /\ DOMAIN w = 1 .. l /\ \A n \in 1 .. l : w[n] \in Turns(x)  BY DEF IsWindow
<1>3. \A i \in 0 .. l - 1 : i + 1 \in 1 .. l  BY <1>2
<1>4. ToSet(<<>>) = {}  BY DEF ToSet
<1>5. \A i \in 0 .. l - 1 : /\ Derived(w, RawFact(w, i, "fallback")) = TurnEntry(w[i + 1], "fallback")
                            /\ Derived(w, RawFact(w, i, "passthrough")) = TurnEntry(w[i + 1], "none")
  BY RawDerived
<1>6. \A start : IsBatchStart(w, start) =>
        start \in 0 .. l - 1 /\ start \in start .. End(w, start) - 1
        /\ start .. End(w, start) - 1 \subseteq 0 .. l - 1
  <2> TAKE start
  <2> HAVE IsBatchStart(w, start)
  <2>1. start \in 0 .. l - 1  BY DEF IsBatchStart
  <2>2. End(w, start) \in Nat /\ End(w, start) > start /\ End(w, start) <= l  BY BatchesAre
  <2> HIDE DEF l
  <2> QED BY <2>1, <2>2, <1>2
<1> HIDE DEF F, Holds, l
<1>7. CASE F = <<>>
  <2>1. CASE x.raw
    <3> DEFINE mark == IF x.kind = "throws" THEN "fallback" ELSE "no_facts"
    <3>1. W = [n \in DOMAIN w |-> TurnEntry(w[n], mark)]
      BY <1>7, <2>1 DEF WindowEntries, KeptOf, Originals, TurnEntry, F
    <3> HIDE DEF W, mark
    <3>2. /\ DOMAIN W = 1 .. l /\ W = [n \in 1 .. l |-> W[n]]
          /\ \A n \in 1 .. l : W[n] = TurnEntry(w[n], mark)
      BY <3>1, <1>2
    <3>3. IsArray(W) /\ Len(W) = l /\ \A m : m \in ToSet(W) <=> \E n \in 1 .. l : W[n] = m
      BY <3>2, <1>2, TabulatedIs
    <3>4. \A e \in ToSet(W) : IsEntry(x, e)  BY <3>2, <3>3, <1>2, TurnEntryIs
    <3>5. w # <<>> => W # <<>>
      <4>1. W = <<>> => DOMAIN W = {}  OBVIOUS
      <4>2. W = <<>> => DOMAIN w = {}  BY <4>1, <3>2, <1>2
      <4>3. w \in Seq(Int)  BY DEF IsWindow
      <4>4. DOMAIN w = {} => w = <<>>  BY <4>3
      <4> QED BY <4>2, <4>4
    <3>6. x.kind = "throws" => \A i \in 0 .. l - 1 : TurnEntry(w[i + 1], "fallback") \in ToSet(W)
      BY <1>3, <3>2, <3>3 DEF mark
    <3>7. x.kind = "none" => l = 0
      <4>1. x.kind = "none" /\ l # 0 => RawFact(w, 0, "passthrough") \in ToSet(F)  BY <1>1, <1>2 DEF Holds
      <4> QED BY <4>1, <1>4, <1>7
    <3>8. \A start : x.kind = "llm" /\ x.passes /\ IsBatchStart(w, start) => x.replies[<<g, start>>].status = "ok"
      BY <1>1, <1>4, <1>6, <1>7 DEF Holds
    <3> QED BY <3>3, <3>4, <3>5, <3>6, <3>7, <3>8 DEF W, l
  <2>2. CASE ~x.raw
    <3>1. W = <<>>  BY <1>7, <2>2 DEF WindowEntries, KeptOf, F
    <3>2. IsArray(<<>>)
      <4>1. <<>> \in Seq({})  OBVIOUS
      <4> QED BY <4>1, ArrayIs
    <3>3. x.kind = "none" => l = 0
      <4>1. x.kind = "none" /\ l # 0 => RawFact(w, 0, "passthrough") \in ToSet(F)  BY <1>1, <1>2 DEF Holds
      <4> QED BY <4>1, <1>4, <1>7
    <3>4. \A start : x.kind = "llm" /\ x.passes /\ IsBatchStart(w, start) => x.replies[<<g, start>>].status = "ok"
      BY <1>1, <1>4, <1>6, <1>7 DEF Holds
    <3> HIDE DEF W
    <3> QED BY <3>1, <3>2, <3>3, <3>4, <2>2, <1>4 DEF W, l
  <2> QED BY <2>1, <2>2
<1>8. CASE F # <<>>
  <2> DEFINE n == Len(F)
  <2>1. /\ n \in Nat /\ DOMAIN F = 1 .. n
        /\ \A m : m \in ToSet(F) <=> \E k \in 1 .. n : F[k] = m
    <3>1. F \in Seq(ToSet(F))  BY <1>1 DEF IsArray
    <3> QED BY <3>1, SeqElements
  <2>2. W = [k \in DOMAIN F |-> Derived(w, F[k])]  BY <1>8 DEF WindowEntries, F
  <2> HIDE DEF W, n
  <2>3. /\ DOMAIN W = 1 .. n /\ W = [k \in 1 .. n |-> W[k]]
        /\ \A k \in 1 .. n : W[k] = Derived(w, F[k])
    BY <2>1, <2>2
  <2>4. IsArray(W) /\ \A m : m \in ToSet(W) <=> \E k \in 1 .. n : W[k] = m  BY <2>1, <2>3, TabulatedIs
  <2>5. \A f \in ToSet(F) : Derived(w, f) \in ToSet(W)  BY <2>1, <2>3, <2>4
  <2>6. ASSUME NEW e \in ToSet(W) PROVE IsEntry(x, e)
    <3>1. PICK f \in ToSet(F) : e = Derived(w, f)  BY <2>1, <2>3, <2>4, <2>6
    <3>2. IsFact(x, w, f)  BY <1>1
    <3>3. CASE f.origin = "extracted"  BY <3>1, <3>2, <3>3, GroundedDerived
    <3>4. CASE f.origin # "extracted"
      <4>1. PICK i \in 0 .. Len(w) - 1 : f = RawFact(w, i, f.origin)  BY <3>2, <3>4 DEF IsFact
      <4> DEFINE o == f.origin
      <4> HIDE DEF o
      <4>2. f = RawFact(w, i, o)  BY <4>1 DEF o
      <4>3. /\ w[i + 1] \in Turns(x)
            /\ Derived(w, RawFact(w, i, o)) = TurnEntry(w[i + 1], IF o = "fallback" THEN "fallback" ELSE "none")
        BY RawDerived
      <4> QED BY <4>2, <4>3, <3>1, TurnEntryIs
    <3> QED BY <3>3, <3>4
  <2>7. W # <<>>
    <3>1. F \in Seq(ToSet(F))  BY <1>1 DEF IsArray
    <3>2. n # 0  BY <3>1, <1>8 DEF n
    <3>3. F[1] \in ToSet(F)  BY <3>2, <2>1
    <3> QED BY <3>3, <2>5, <1>4
  <2>8. ~(x.kind = "throws")  BY <1>1, <1>8
  <2>9. x.kind = "none" => \A i \in 0 .. l - 1 : TurnEntry(w[i + 1], "none") \in ToSet(W)
    BY <1>1, <1>5, <2>5 DEF Holds
  <2>10. x.kind = "llm" /\ x.passes =>
           \A start : IsBatchStart(w, start) /\ x.replies[<<g, start>>].status # "ok" =>
             \A i \in start .. End(w, start) - 1 : TurnEntry(w[i + 1], "fallback") \in ToSet(W)
    <3> SUFFICES ASSUME x.kind = "llm", x.passes, NEW start, IsBatchStart(w, start),
                        x.replies[<<g, start>>].status # "ok", NEW i \in start .. End(w, start) - 1
                 PROVE  TurnEntry(w[i + 1], "fallback") \in ToSet(W)
      OBVIOUS
    <3>1. RawFact(w, i, "fallback") \in ToSet(F)  BY <1>1 DEF Holds
    <3>2. i \in 0 .. l - 1  BY <1>6
    <3>3. Derived(w, RawFact(w, i, "fallback")) = TurnEntry(w[i + 1], "fallback")  BY <3>2, <1>5
    <3> QED BY <3>1, <3>3, <2>5
  <2> QED BY <2>4, <2>6, <2>7, <2>8, <2>9, <2>10 DEF W, l
<1> QED BY <1>7, <1>8

OutIs(x, out) ==
  /\ \A a, b \in DOMAIN out : a < b => out[a].at <= out[b].at
  /\ \A e \in ToSet(out) : IsEntry(x, e)
  /\ \A g \in ToSet(x.key) : ToSet(WindowEntries(x, WindowOf(x, g))) \subseteq ToSet(out)

\* The entries of all the windows, before they are put in the order of their turns.
LEMMA AllEntriesAre ==
  ASSUME NEW x \in Extractions
  PROVE  /\ IsArray(AllEntries(x)) /\ \A e \in ToSet(AllEntries(x)) : IsEntry(x, e)
         /\ \A g \in ToSet(x.key) : ToSet(WindowEntries(x, WindowOf(x, g))) \subseteq ToSet(AllEntries(x))
<1> DEFINE groups == Groups(x)  n == Len(groups)  all == AllEntries(x)
           Of(g) == WindowEntries(x, WindowOf(x, g))
           ss == [k \in DOMAIN groups |-> Of(groups[k])]
<1>1. x.key \in Seq(ToSet(x.key)) /\ Len(x.key) \in Nat
  <2>1. x.key \in Seq(ToSet(x.key))  BY ExtractionAssumption DEF IsExtraction
  <2> QED BY <2>1, SeqElements
<1>2. /\ DOMAIN groups = 1 .. n /\ n \in Nat
      /\ \A g : g \in ToSet(x.key) <=> \E k \in 1 .. n : groups[k] = g
  <2>1. groups \in Seq(ToSet(x.key)) /\ ToSet(groups) = ToSet(x.key)  BY <1>1, OnceIs DEF Groups
  <2> HIDE DEF groups
  <2> QED BY <2>1, SeqElements
<1>3. all = Concat(ss)  BY DEF AllEntries
<1>4. \A g : IsArray(Of(g)) /\ \A e \in ToSet(Of(g)) : IsEntry(x, e)
  <2> TAKE g
  <2>1. IsWindow(x, g, WindowOf(x, g))  BY <1>1, WindowIs
  <2> QED BY <2>1, WindowYields
<1> HIDE DEF groups, n, all, Of
<1>5. /\ DOMAIN ss = 1 .. n /\ ss = [k \in 1 .. n |-> ss[k]]
      /\ \A k \in 1 .. n : ss[k] = Of(groups[k])
  BY <1>2
<1> HIDE DEF ss
<1>6. IsArray(ss) /\ Len(ss) = n  BY <1>2, <1>5, TabulatedIs
<1>7. \A k \in 1 .. n : IsArray(ss[k])  BY <1>4, <1>5
<1>8. JoinedUp(all, ss, n)
  <2>1. JoinedUp(Concat(ss), ss, Len(ss))  BY <1>6, <1>7, ConcatIs
  <2> QED BY <2>1, <1>3, <1>6
<1>9. IsArray(all) /\ \A m : m \in ToSet(all) <=> \E k \in 1 .. n : m \in ToSet(ss[k])
  BY <1>8 DEF JoinedUp
<1>10. \A e \in ToSet(all) : IsEntry(x, e)  BY <1>4, <1>5, <1>9
<1>11. ASSUME NEW g \in ToSet(x.key) PROVE ToSet(Of(g)) \subseteq ToSet(all)
  <2>1. PICK k \in 1 .. n : groups[k] = g  BY <1>2
  <2>2. ss[k] = Of(g)  BY <2>1, <1>5
  <2>3. \A m \in ToSet(ss[k]) : m \in ToSet(all)  BY <1>9
  <2> QED BY <2>2, <2>3
<1> QED BY <1>9, <1>10, <1>11 DEF all, Of

\* What extractObservations() makes: the entries of the windows, in the order of their turns.
LEMMA ExtractedIs ==
  ASSUME NEW x \in Extractions
  PROVE  OutIs(x, ExtractObservations(x))
<1> DEFINE all == AllEntries(x)  n == Len(x.key)  out == ExtractObservations(x)
           At(k) == Among(all, {e \in ToSet(all) : e.at = k})
           ss == [k \in Turns(x) |-> At(k)]
<1>1. /\ IsArray(all) /\ \A e \in ToSet(all) : IsEntry(x, e)
      /\ \A g \in ToSet(x.key) : ToSet(WindowEntries(x, WindowOf(x, g))) \subseteq ToSet(all)
  BY AllEntriesAre
<1>2. Turns(x) = 1 .. n /\ n \in Nat
  <2>1. x.key \in Seq(ToSet(x.key))  BY ExtractionAssumption DEF IsExtraction
  <2> QED BY <2>1, SeqElements DEF Turns
<1>3. out = Concat(ss)  BY DEF ExtractObservations
<1> HIDE DEF all, n, out
<1>4. \A k : IsArray(At(k)) /\ ToSet(At(k)) = {e \in ToSet(all) : e.at = k}
  <2> TAKE k
  <2>1. all \in Seq(ToSet(all))  BY <1>1 DEF IsArray
  <2> DEFINE keep == {e \in ToSet(all) : e.at = k}
  <2>2. keep = ToSet(all) \cap keep  OBVIOUS
  <2> HIDE DEF keep
  <2>3. Among(all, keep) \in Seq(ToSet(all)) /\ ToSet(Among(all, keep)) = keep  BY <2>1, <2>2, AmongElements
  <2>4. IsArray(Among(all, keep))  BY <2>3, ArrayIs
  <2> QED BY <2>3, <2>4 DEF keep
<1> HIDE DEF At
<1>5. /\ DOMAIN ss = 1 .. n /\ ss = [k \in 1 .. n |-> ss[k]]
      /\ \A k \in 1 .. n : ss[k] = At(k)
  BY <1>2
<1> HIDE DEF ss
<1>6. IsArray(ss) /\ Len(ss) = n  BY <1>2, <1>5, TabulatedIs
<1>7. \A k \in 1 .. n : IsArray(ss[k])  BY <1>4, <1>5
<1>8. JoinedUp(out, ss, n)
  <2>1. JoinedUp(Concat(ss), ss, Len(ss))  BY <1>6, <1>7, ConcatIs
  <2> QED BY <2>1, <1>3, <1>6
<1>9. IsArray(out) /\ \A m : m \in ToSet(out) <=> \E k \in 1 .. n : m \in ToSet(ss[k])
  BY <1>8 DEF JoinedUp
<1>10. \A a, b \in DOMAIN out : a < b => out[a].at <= out[b].at
  <2>1. \A k \in 1 .. n : \A m \in ToSet(ss[k]) : m.at = k  BY <1>4, <1>5
  <2>2. DOMAIN out = 1 .. Len(out)  BY <1>9 DEF IsArray
  <2> QED BY <2>1, <2>2, <1>8 DEF JoinedUp
<1>11. \A m \in ToSet(all) : m \in ToSet(out)
  <2> TAKE m \in ToSet(all)
  <2>1. m.at \in 1 .. n  BY <1>1, <1>2 DEF IsEntry
  <2>2. m \in ToSet(At(m.at))  BY <1>4
  <2> QED BY <2>1, <2>2, <1>5, <1>9
<1>12. \A m \in ToSet(out) : IsEntry(x, m)
  <2>1. \A m \in ToSet(out) : m \in ToSet(all)  BY <1>4, <1>5, <1>9
  <2> QED BY <2>1, <1>1
<1>13. OutIs(x, out)  BY <1>1, <1>10, <1>11, <1>12 DEF OutIs
<1> QED BY <1>13 DEF out

\* No failure of an extractor loses a turn, when failed windows are to be kept and failed batches
\* to pass through.
LEMMA NoTurnIsLost ==
  ASSUME NEW x \in Extractions
  PROVE  NothingLost(x)
<1> SUFFICES ASSUME x.raw, x.passes, NEW n \in Turns(x)
             PROVE  /\ x.kind = "throws" => KeptRaw(x, n)
                    /\ x.kind = "llm" /\ x.replies[BatchOf(x, n)].status # "ok" => KeptRaw(x, n)
                    /\ WindowEntries(x, WindowOf(x, x.key[n])) # <<>>
                    /\ x.kind = "none" => TurnEntry(n, "none") \in ToSet(ExtractObservations(x))
  BY DEF NothingLost, TurnEntry
<1> DEFINE g == x.key[n]  w == WindowOf(x, g)  W == WindowEntries(x, w)  out == ExtractObservations(x)
<1>1. x.key \in Seq(ToSet(x.key)) /\ Len(x.key) \in Nat /\ BatchSize \in Nat \ {0}
  <2>1. x.key \in Seq(ToSet(x.key)) /\ BatchSize \in Nat \ {0}  BY ExtractionAssumption DEF IsExtraction
  <2> QED BY <2>1, SeqElements
<1>2. ToSet(W) \subseteq ToSet(out)
  <2>1. g \in ToSet(x.key)  BY <1>1, SeqElements DEF Turns
  <2> QED BY <2>1, ExtractedIs DEF OutIs
<1>3. IsWindow(x, g, w)  BY <1>1, WindowIs
<1> HIDE DEF w
<1>4. PICK j \in 1 .. Len(w) : w[j] = n  BY <1>3 DEF IsWindow
<1> DEFINE i == j - 1
<1>5. Len(w) \in Nat /\ i \in 0 .. Len(w) - 1 /\ i \in Nat /\ w[i + 1] = n
  <2>1. Len(w) \in Nat  BY <1>3 DEF IsWindow
  <2>2. i \in 0 .. Len(w) - 1 /\ i + 1 = j  BY <2>1
  <2> QED BY <2>1, <2>2, <1>4
<1> HIDE DEF i
<1> DEFINE start == i - (i % BatchSize)
<1>6. IsBatchStart(w, start) /\ i \in start .. End(w, start) - 1
  <2>1. /\ i % BatchSize \in 0 .. BatchSize - 1 /\ i % BatchSize <= i
        /\ start % BatchSize = 0
    BY <1>1, <1>5, ChunkHas
  <2>2. start \in 0 .. Len(w) - 1 /\ start <= i /\ i < start + BatchSize
    <3> DEFINE r == i % BatchSize
    <3>1. r \in 0 .. BatchSize - 1 /\ r <= i /\ start = i - r  BY <2>1
    <3> HIDE DEF r, start
    <3> QED BY <3>1, <1>1, <1>5
  <2> HIDE DEF start
  <2>3. i < End(w, start)  BY <2>2, <1>1, <1>5 DEF End
  <2>4. End(w, start) \in Int  BY <2>2, <1>1, <1>5 DEF End
  <2> QED BY <2>1, <2>2, <2>3, <2>4, <1>5 DEF IsBatchStart
<1>7. BatchOf(x, n) = <<g, start>>
  <2>1. BatchOf(x, w[i + 1]) = <<g, start>>
    <3> HIDE DEF g
    <3> QED BY <1>3, <1>5, PositionIs
  <2> QED BY <1>5, <2>1
<1> HIDE DEF W, out, start
<1>8. /\ x.kind = "throws" => TurnEntry(n, "fallback") \in ToSet(W)
      /\ x.kind = "none" => TurnEntry(n, "none") \in ToSet(W)
      /\ x.kind = "llm" /\ x.replies[<<g, start>>].status # "ok" => TurnEntry(n, "fallback") \in ToSet(W)
      /\ w # <<>> => W # <<>>
  BY <1>3, <1>5, <1>6, WindowYields DEF W
<1>9. w # <<>>
  <2>1. 1 .. Len(<<>>) = {}  OBVIOUS
  <2> QED BY <2>1, <1>4
<1>10. TurnEntry(n, "fallback") \in ToSet(W) => KeptRaw(x, n)
  <2> DEFINE e == TurnEntry(n, "fallback")
  <2>1. e.at = n /\ e.words = OwnWords[n] /\ IsUnverified(e)  BY DEF TurnEntry, IsUnverified
  <2> HIDE DEF e
  <2>2. e \in ToSet(W) => KeptRaw(x, n)  BY <2>1, <1>2 DEF KeptRaw, out
  <2> QED BY <2>2 DEF e
<1> QED BY <1>2, <1>7, <1>8, <1>9, <1>10 DEF W, w, out

ExtractionInv == extracting \subseteq Extractions

\* extractObservations() loses no turn to a failure of an extractor; what it derives it
\* attributes to turns of one batch of one window, the first of which dates it, and no more
\* than half of its words were not there to be read with that batch.
THEOREM ExtractionIsHonest == ExtractionSpec => []ExtractionKeeps
<1>1. ASSUME NEW x \in Extractions PROVE FactsAttributed(x)
  <2> DEFINE out == ExtractObservations(x)
  <2>1. /\ \A a, b \in DOMAIN out : a < b => out[a].at <= out[b].at
        /\ \A e \in ToSet(out) : IsEntry(x, e)
    BY ExtractedIs DEF OutIs
  <2> HIDE DEF out
  <2>2. ASSUME NEW e \in ToSet(out)
        PROVE  /\ ~IsUnverified(e) => 2 * Cardinality(e.words \cap Said(x, e.at)) >= Cardinality(e.words)
               /\ e.sources # {} =>
                    /\ e.at = Least(e.sources)
                    /\ \A n \in e.sources : BatchOf(x, n) = BatchOf(x, e.at)
               /\ IsUnverified(e) => e.words = OwnWords[e.at] /\ e.sources = {}
    BY <2>1, <2>2 DEF IsEntry
  <2> QED BY <2>1, <2>2 DEF FactsAttributed, out
<1>2. ExtractionInv => ExtractionKeeps
  <2> SUFFICES ASSUME ExtractionInv PROVE ExtractionKeeps  OBVIOUS
  <2>1. \A x \in extracting : x \in Extractions  BY DEF ExtractionInv
  <2>2. TurnsKept  BY <2>1, NoTurnIsLost DEF TurnsKept
  <2> QED BY <1>1, <2>1, <2>2 DEF ExtractionKeeps, DerivationsHold
<1>3. ExtractionInit => ExtractionInv  BY DEF ExtractionInit, ExtractionInv
<1>4. ExtractionInv /\ [ExtractionNext]_extracting => ExtractionInv'
  BY DEF ExtractionInv, ExtractionNext, BeginExtraction, EndExtraction
<1> QED BY <1>2, <1>3, <1>4, PTL DEF ExtractionSpec
=============================================================================
