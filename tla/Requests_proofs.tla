-------------------------- MODULE Requests_proofs --------------------------
(***************************************************************************)
(* What becomes of a request: it is routed, and the model it is routed to  *)
(* is called.  For any catalog, preferences, rules and batches, any models, *)
(* any number of concurrent calls, any policy and any length of run.       *)
(*                                                                         *)
(* 1. Routing (Routing): every decision accounts for every model and rests *)
(*    on the models it lists, and a batch accounts for every request.      *)
(* 2. The breaker by itself (CircuitBreaker): its inductive invariant, and *)
(*    what probes are promised.                                            *)
(* 3. The breaker implements HalfOpen.                                     *)
(* 4. complete and stream (ProviderCalls), in both registries: they use the *)
(*    breaker as it is meant to be used, never leak an admission, never send *)
(*    a request twice and never sleep past a deadline.                     *)
(***************************************************************************)
EXTENDS ProviderCalls, Routing, SequenceTheorems, FiniteSetTheorems, WellFoundedInduction, TLAPS

(***************************************************************************)
(* 1. Routing.                                                             *)
(***************************************************************************)

(* Every set of natural numbers that is not empty has a least element.     *)
LEMMA LeastNatural ==
    ASSUME NEW T \in SUBSET Nat, T # {}
    PROVE  \E x \in T : \A y \in T : x <= y
<1>1. IsWellFoundedOn(OpToRel(<, Nat), Nat)
  BY NatLessThanWellFounded
<1>2. PICK x \in T : \A y \in T : <<y, x>> \notin OpToRel(<, Nat)
  BY <1>1, WFMin
<1>3. ASSUME NEW y \in T PROVE x <= y
  <2>1. x \in Nat /\ y \in Nat
    BY <1>2, <1>3
  <2>2. ~(y < x)
    BY <1>2, <2>1 DEF OpToRel
  <2> QED
    BY <2>1, <2>2
<1> QED
  BY <1>2, <1>3

(* Where elements are strictly ahead of each other, and of any two one is, *)
(* Ordered lists all of them once, each behind those ahead of it.          *)
LEMMA OrderedLists ==
    ASSUME NEW S, IsFiniteSet(S), NEW ahead \in [S -> SUBSET S],
           \A x \in S : x \notin ahead[x],
           \A x, y \in S : x \in ahead[y] => ahead[x] \subseteq ahead[y],
           \A x, y \in S : x # y => x \in ahead[y] \/ y \in ahead[x]
    PROVE  LET list == Ordered(S, ahead) IN
           /\ list \in [1..Cardinality(S) -> S]
           /\ \A x \in S : \E i \in 1..Cardinality(S) : list[i] = x
           /\ \A i, j \in 1..Cardinality(S) : i < j => list[i] # list[j] /\ list[i] \in ahead[list[j]]
<1> DEFINE list == Ordered(S, ahead)
           n == Cardinality(S)
           rank == [x \in S |-> Cardinality(ahead[x])]
<1>1. n \in Nat /\ IsFiniteSet(0 .. (n - 1)) /\ Cardinality(0 .. (n - 1)) = n
  <2>1. n \in Nat
    BY FS_CardinalityType
  <2>2. IsFiniteSet(0 .. (n - 1)) /\ Cardinality(0 .. (n - 1)) = IF 0 > n - 1 THEN 0 ELSE (n - 1) - 0 + 1
    BY <2>1, FS_Interval
  <2> QED
    BY <2>1, <2>2
<1>2. ASSUME NEW x \in S PROVE IsFiniteSet(ahead[x]) /\ rank[x] \in 0 .. (n - 1)
  <2>1. ahead[x] \in SUBSET S /\ ahead[x] # S
    OBVIOUS
  <2>2. IsFiniteSet(ahead[x]) /\ Cardinality(ahead[x]) <= n /\ Cardinality(ahead[x]) # n
    BY <2>1, FS_Subset
  <2>3. Cardinality(ahead[x]) \in Nat
    BY <2>2, FS_CardinalityType
  <2> QED
    BY <1>1, <2>2, <2>3
<1>3. ASSUME NEW x \in S, NEW y \in S, x \in ahead[y] PROVE rank[x] < rank[y]
  <2>1. ahead[x] \in SUBSET ahead[y] /\ ahead[x] # ahead[y]
    BY <1>3
  <2>2. Cardinality(ahead[x]) <= Cardinality(ahead[y]) /\ Cardinality(ahead[x]) # Cardinality(ahead[y])
    BY <1>2, <2>1, FS_Subset
  <2> QED
    BY <1>1, <1>2, <2>2
<1>4. ASSUME NEW x \in S, NEW y \in S, rank[x] = rank[y] PROVE x = y
  BY <1>1, <1>2, <1>3, <1>4
<1>5. ASSUME NEW i \in 0 .. (n - 1) PROVE \E x \in S : rank[x] = i
  <2>1. rank \in Injection(S, 0 .. (n - 1))
    BY <1>2, <1>4 DEF Injection, IsInjective
  <2>2. rank \in Surjection(S, 0 .. (n - 1))
    BY <1>1, <2>1, FS_Injection
  <2> QED
    BY <2>2 DEF Surjection
<1>6. ASSUME NEW i \in 1..n PROVE list[i] \in S /\ rank[list[i]] = i - 1
  <2>1. \E x \in S : rank[x] = i - 1
    BY <1>1, <1>5
  <2>2. list[i] = CHOOSE x \in S : Cardinality(ahead[x]) = i - 1
    BY DEF Ordered
  <2> QED
    BY <2>1, <2>2
<1>7. list \in [1..n -> S]
  BY <1>6 DEF Ordered
<1>8. ASSUME NEW x \in S PROVE \E i \in 1..n : list[i] = x
  <2>1. rank[x] + 1 \in 1..n
    BY <1>1, <1>2
  <2>2. rank[list[rank[x] + 1]] = rank[x] /\ list[rank[x] + 1] \in S
    BY <1>1, <1>2, <1>6, <2>1
  <2>3. list[rank[x] + 1] = x
    BY <1>4, <2>2
  <2> QED
    BY <2>1, <2>3
<1>9. ASSUME NEW i \in 1..n, NEW j \in 1..n, i < j PROVE list[i] # list[j] /\ list[i] \in ahead[list[j]]
  <2>1. /\ list[i] \in S /\ list[j] \in S
        /\ rank[list[i]] = i - 1 /\ rank[list[j]] = j - 1
    BY <1>6
  <2>2. list[i] # list[j]
    BY <1>9, <2>1
  <2>3. ~(rank[list[j]] < rank[list[i]])
    BY <1>1, <1>9, <2>1
  <2> QED
    BY <1>3, <2>1, <2>2, <2>3
<1> QED
  BY <1>7, <1>8, <1>9

LEMMA AscendingLists ==
    ASSUME NEW S \in SUBSET Nat, IsFiniteSet(S)
    PROVE  LET list == Ascending(S) IN
           /\ list \in [1..Cardinality(S) -> S]
           /\ \A x \in S : \E i \in 1..Cardinality(S) : list[i] = x
           /\ \A i, j \in 1..Cardinality(S) : i < j => list[i] < list[j]
<1> DEFINE ahead == [x \in S |-> {y \in S : y < x}]
<1>1. /\ ahead \in [S -> SUBSET S]
      /\ \A x \in S : x \notin ahead[x]
      /\ \A x, y \in S : x \in ahead[y] => ahead[x] \subseteq ahead[y]
      /\ \A x, y \in S : x # y => x \in ahead[y] \/ y \in ahead[x]
  <2>1. \A x \in S : x \in Nat /\ ahead[x] = {y \in S : y < x}
    OBVIOUS
  <2>2. \A x \in S : ~(x < x)
    BY <2>1
  <2>3. \A x, y, z \in S : z < x /\ x < y => z < y
    BY <2>1
  <2>4. \A x, y \in S : x # y => x < y \/ y < x
    BY <2>1
  <2>5. ahead \in [S -> SUBSET S]
    OBVIOUS
  <2> HIDE DEF ahead
  <2>6. \A x \in S : x \notin ahead[x]
    BY <2>1, <2>2
  <2>7. ASSUME NEW x \in S, NEW y \in S, x \in ahead[y] PROVE ahead[x] \subseteq ahead[y]
    BY <2>1, <2>3, <2>7
  <2>8. \A x, y \in S : x # y => x \in ahead[y] \/ y \in ahead[x]
    BY <2>1, <2>4
  <2> QED
    BY <2>5, <2>6, <2>7, <2>8
<1>2. Ascending(S) = Ordered(S, ahead)
  BY DEF Ascending
<1>3. \A x, y \in S : x \in ahead[y] => x < y
  OBVIOUS
<1> HIDE DEF ahead
<1>4. LET list == Ordered(S, ahead) IN
      /\ list \in [1..Cardinality(S) -> S]
      /\ \A x \in S : \E i \in 1..Cardinality(S) : list[i] = x
      /\ \A i, j \in 1..Cardinality(S) : i < j => list[i] # list[j] /\ list[i] \in ahead[list[j]]
  BY <1>1, OrderedLists
<1> QED
  BY <1>2, <1>3, <1>4

(* Choosing from a list keeps what is chosen, once and in a list.          *)
LEMMA AmongLists ==
    ASSUME NEW seq, seq \in Seq(ToSet(seq)), NEW chosen
    PROVE  /\ ToSet(Among(seq, chosen)) = ToSet(seq) \cap chosen
           /\ Among(seq, chosen) \in Seq(ToSet(Among(seq, chosen)))
<1> DEFINE places == {i \in DOMAIN seq : seq[i] \in chosen}
           at == Ascending(places)
           n == Cardinality(places)
           result == [k \in DOMAIN at |-> seq[at[k]]]
<1>1. DOMAIN seq = 1..Len(seq) /\ Len(seq) \in Nat
  OBVIOUS
<1>2. IsFiniteSet(1..Len(seq))
  BY <1>1, FS_Interval
<1>3. places \in SUBSET (1..Len(seq)) /\ places \in SUBSET Nat
  BY <1>1
<1>4. IsFiniteSet(places) /\ n \in Nat
  BY <1>2, <1>3, FS_Subset, FS_CardinalityType
<1>5. /\ at \in [1..n -> places]
      /\ \A x \in places : \E i \in 1..n : at[i] = x
  <2> HIDE DEF places
  <2> QED
    BY <1>3, <1>4, AscendingLists
<1>6. Among(seq, chosen) = result
  BY DEF Among
<1> HIDE DEF at, n
<1>7. DOMAIN result = 1..n /\ \A k \in 1..n : result[k] = seq[at[k]] /\ at[k] \in places
  <2> HIDE DEF places
  <2> QED
    BY <1>5
<1>8. \A i \in places : i \in DOMAIN seq /\ seq[i] \in chosen
  OBVIOUS
<1>9. \A i \in DOMAIN seq : seq[i] \in chosen => i \in places
  OBVIOUS
<1> HIDE DEF places, result
<1>10. ToSet(result) = ToSet(seq) \cap chosen
  <2>1. ASSUME NEW x \in ToSet(result) PROVE x \in ToSet(seq) \cap chosen
    BY <1>7, <1>8, <2>1 DEF ToSet
  <2>2. ASSUME NEW x \in ToSet(seq), x \in chosen PROVE x \in ToSet(result)
    <3>1. PICK i \in DOMAIN seq : seq[i] = x
      BY <2>2 DEF ToSet
    <3>2. PICK k \in 1..n : at[k] = i
      BY <1>5, <1>9, <2>2, <3>1
    <3> QED
      BY <1>7, <3>1, <3>2 DEF ToSet
  <2> QED
    BY <2>1, <2>2
<1>11. result \in Seq(ToSet(result))
  <2>1. \A k \in 1..n : result[k] \in ToSet(result)
    BY <1>7 DEF ToSet
  <2>2. result = [k \in 1..n |-> result[k]]
    BY <1>7 DEF result
  <2> HIDE DEF result
  <2>3. result \in [1..n -> ToSet(result)]
    BY <2>1, <2>2
  <2> QED
    BY <1>4, <2>3
<1> QED
  BY <1>6, <1>10, <1>11

(* Of finitely many integers one is the largest and one the smallest.      *)
LEMMA Extremes ==
    ASSUME NEW S \in SUBSET Int, IsFiniteSet(S), S # {}
    PROVE  Max(S) \in S /\ Min(S) \in S
<1> DEFINE ahead == [x \in S |-> {y \in S : y < x}]
           list == Ordered(S, ahead)
           n == Cardinality(S)
<1>1. \A x \in S : ahead[x] = {y \in S : y < x} /\ ahead[x] \in SUBSET S
  OBVIOUS
<1>2. \A x, y, z \in S : z < x /\ x < y => z < y
  OBVIOUS
<1>3. \A x, y \in S : ~(x < x) /\ (x # y => x < y \/ y < x)
  OBVIOUS
<1>4. n \in Nat /\ n # 0
  BY FS_CardinalityType, FS_EmptySet
<1>5. ahead \in [S -> SUBSET S]
  OBVIOUS
<1> HIDE DEF ahead
<1>6. /\ list \in [1..n -> S]
      /\ \A x \in S : \E i \in 1..n : list[i] = x
      /\ \A i, j \in 1..n : i < j => list[i] # list[j] /\ list[i] \in ahead[list[j]]
  <2>1. \A x \in S : x \notin ahead[x]
    BY <1>1, <1>3
  <2>2. \A x, y \in S : x \in ahead[y] => ahead[x] \subseteq ahead[y]
    BY <1>1, <1>2
  <2>3. \A x, y \in S : x # y => x \in ahead[y] \/ y \in ahead[x]
    BY <1>1, <1>3
  <2> QED
    BY <1>5, <2>1, <2>2, <2>3, OrderedLists
<1> HIDE DEF list, n
<1>7. 1 \in 1..n /\ n \in 1..n /\ list[1] \in S /\ list[n] \in S
  BY <1>4, <1>6
<1>8. ASSUME NEW x \in S PROVE list[1] <= x /\ x <= list[n]
  <2>1. PICK i \in 1..n : list[i] = x
    BY <1>6
  <2>2. list[1] \in Int /\ list[n] \in Int /\ x \in Int
    BY <1>7
  <2>3. 1 < i => list[1] \in ahead[list[i]]
    BY <1>6, <1>7, <2>1
  <2>4. i < n => list[i] \in ahead[list[n]]
    BY <1>6, <1>7, <2>1
  <2>5. 1 < i => list[1] < x
    BY <1>1, <2>1, <2>3
  <2>6. i < n => x < list[n]
    BY <1>1, <1>7, <2>1, <2>4
  <2>7. (1 < i \/ i = 1) /\ (i < n \/ i = n)
    BY <1>4, <2>1
  <2> QED
    BY <2>1, <2>2, <2>5, <2>6, <2>7
<1>9. \E x \in S : \A y \in S : x >= y
  BY <1>7, <1>8
<1>10. \E x \in S : \A y \in S : x =< y
  BY <1>7, <1>8
<1> QED
  BY <1>9, <1>10 DEF Max, Min

(* What holds of 0, and of every number if of the one before, holds of n.  *)
LEMMA CountUp ==
    ASSUME NEW n \in Nat, NEW B, 0 \in B, \A k \in 1..n : k - 1 \in B => k \in B
    PROVE  n \in B
<1> DEFINE T == {k \in 0..n : k \notin B}
<1> SUFFICES ASSUME n \notin B PROVE FALSE
  OBVIOUS
<1>1. T \in SUBSET Nat /\ n \in T
  OBVIOUS
<1>2. PICK k \in T : \A j \in T : k <= j
  BY <1>1, LeastNatural
<1>3. k \in 1..n /\ k \notin B
  OBVIOUS
<1>4. k - 1 \in 0..n /\ ~(k <= k - 1)
  BY <1>3
<1> QED
  BY <1>2, <1>3, <1>4

(* The running sums of a list of integers end in its sum.                  *)
Runs(list, n, u) == u \in [0..n -> Int] /\ u[0] = 0 /\ \A k \in 1..n : u[k] = u[k - 1] + list[k]

LEMMA SumRuns ==
    ASSUME NEW n \in Nat, NEW list \in [1..n -> Int]
    PROVE  \E u : Runs(list, n, u) /\ SumOf(list) = u[n]
<1> DEFINE solves(u) == u = [k \in 0..n |-> IF k = 0 THEN 0 ELSE u[k - 1] + list[k]]
           B == {k \in 0..n : \E u : Runs(list, k, u)}
<1>1. Len(list) = n
  BY LenProperties
<1>2. SumOf(list) = (CHOOSE u : solves(u))[n]
  BY <1>1 DEF SumOf
<1>3. n \in B
  <2>1. Runs(list, 0, [k \in 0..0 |-> 0])
    BY DEF Runs
  <2>2. 0 \in B
    BY <2>1
  <2>3. ASSUME NEW k \in 1..n, k - 1 \in B PROVE k \in B
    <3>1. PICK u : Runs(list, k - 1, u)
      BY <2>3
    <3> DEFINE v == [j \in 0..k |-> IF j = k THEN u[k - 1] + list[k] ELSE u[j]]
    <3>2. u[k - 1] \in Int /\ list[k] \in Int
      BY <3>1 DEF Runs
    <3>3. v \in [0..k -> Int] /\ v[0] = 0
      BY <3>1, <3>2 DEF Runs
    <3>4. ASSUME NEW j \in 1..k PROVE v[j] = v[j - 1] + list[j]
      <4>1. CASE j = k
        BY <4>1
      <4>2. CASE j # k
        <5>1. j \in 1 .. (k - 1) /\ j - 1 # k /\ j - 1 \in 0..k
          BY <4>2
        <5> QED
          BY <3>1, <4>2, <5>1 DEF Runs
      <4> QED
        BY <4>1, <4>2
    <3>5. Runs(list, k, v)
      BY <3>3, <3>4 DEF Runs
    <3> QED
      BY <3>5
  <2> HIDE DEF B
  <2> QED
    BY <2>2, <2>3, CountUp
<1>4. PICK u : Runs(list, n, u)
  BY <1>3
<1>5. solves(u)
  <2>1. u = [k \in 0..n |-> u[k]]
    BY <1>4 DEF Runs
  <2>2. ASSUME NEW k \in 0..n PROVE u[k] = IF k = 0 THEN 0 ELSE u[k - 1] + list[k]
    BY <1>4 DEF Runs
  <2> QED
    BY <2>1, <2>2
<1>6. PICK v : solves(v) /\ SumOf(list) = v[n]
  <2>1. solves(CHOOSE w : solves(w))
    BY <1>5
  <2> QED
    BY <1>2, <2>1
<1>7. v[n] = u[n]
  <2> DEFINE C == {k \in 0..n : v[k] = u[k]}
  <2>1. \A k \in 0..n : v[k] = IF k = 0 THEN 0 ELSE v[k - 1] + list[k]
    BY <1>6
  <2>2. 0 \in C
    BY <1>4, <2>1 DEF Runs
  <2>3. ASSUME NEW k \in 1..n, k - 1 \in C PROVE k \in C
    BY <1>4, <2>1, <2>3 DEF Runs
  <2>4. n \in C
    <3> HIDE DEF C
    <3> QED
      BY <2>2, <2>3, CountUp
  <2> QED
    BY <2>4
<1> QED
  BY <1>4, <1>6, <1>7

(* A sum of finitely many integers is one.                                 *)
LEMMA TotalTyped ==
    ASSUME NEW g, IsFiniteSet(DOMAIN g), \A x \in DOMAIN g : g[x] \in Int
    PROVE  Total(g) \in Int
<1> DEFINE n == Cardinality(DOMAIN g)
           keys == SetToSeq(DOMAIN g)
           list == [k \in DOMAIN keys |-> g[keys[k]]]
<1>1. n \in Nat /\ ExistsBijection(1..n, DOMAIN g)
  BY FS_CardinalityType
<1>2. \E f \in [1..n -> DOMAIN g] : IsInjective(f)
  BY <1>1 DEF ExistsBijection, Bijection, Injection
<1>3. keys \in [1..n -> DOMAIN g]
  BY <1>2 DEF SetToSeq
<1>4. list \in [1..n -> Int]
  BY <1>3
<1>5. Total(g) = SumOf(list)
  BY DEF Total
<1> HIDE DEF list, n
<1>6. \E u : Runs(list, n, u) /\ SumOf(list) = u[n]
  BY <1>1, <1>4, SumRuns
<1> QED
  BY <1>1, <1>5, <1>6 DEF Runs

(* A catalog that a constructor accepts: every model has its figures, and  *)
(* an identifier of its own.                                               *)
Catalogued(cs) ==
    /\ cs \in Seq(ToSet(cs))
    /\ \A c \in ToSet(cs) : LegalCandidate(c) /\ c.id \in Int /\ IsFiniteSet(DOMAIN c.quality)
    /\ \A a, b \in ToSet(cs) : a.id = b.id => a = b

(* What is asked is measured in tokens.                                    *)
Measured(r, f) == r.outputTokens \in Nat /\ f.tokens \in Nat

LEMMA ListFinite == ASSUME NEW cs, cs \in Seq(ToSet(cs)) PROVE IsFiniteSet(ToSet(cs)) /\ IsFiniteSet(Ids(cs))
<1>1. Len(cs) \in Nat /\ DOMAIN cs = 1..Len(cs)
  OBVIOUS
<1>2. IsFiniteSet(1..Len(cs))
  BY <1>1, FS_Interval
<1>3. cs \in Surjection(1..Len(cs), ToSet(cs))
  <2>1. cs \in [1..Len(cs) -> ToSet(cs)]
    BY <1>1
  <2>2. \A x \in ToSet(cs) : \E i \in 1..Len(cs) : cs[i] = x
    BY <1>1 DEF ToSet
  <2> QED
    BY <2>1, <2>2 DEF Surjection
<1>4. [i \in 1..Len(cs) |-> cs[i].id] \in Surjection(1..Len(cs), Ids(cs))
  BY <1>1 DEF Surjection, Ids
<1> QED
  BY <1>2, <1>3, <1>4, FS_Surjection

(* Ids in terms of the members of a list.                                  *)
LEMMA IdsAre == ASSUME NEW cs PROVE Ids(cs) = {c.id : c \in ToSet(cs)}
BY DEF Ids, ToSet

LEMMA SubCatalogued ==
    ASSUME NEW cs, Catalogued(cs), NEW sub, sub \in Seq(ToSet(sub)), ToSet(sub) \subseteq ToSet(cs)
    PROVE  Catalogued(sub)
BY DEF Catalogued

LEMMA NamedIs ==
    ASSUME NEW cs, Catalogued(cs), NEW c \in ToSet(cs)
    PROVE  Named(cs, c.id) = c
BY DEF Catalogued, Named

LEMMA QualityTyped ==
    ASSUME NEW c, LegalCandidate(c), IsFiniteSet(DOMAIN c.quality), NEW task
    PROVE  QualityFor(c, task) \in Int
<1>1. \A t \in DOMAIN c.quality : c.quality[t] \in Int
  BY RoutingAssumption DEF LegalCandidate
<1>2. Total(c.quality) \div Cardinality(DOMAIN c.quality) \in Int
  <2>1. Total(c.quality) \in Int
    BY <1>1, TotalTyped
  <2>2. Cardinality(DOMAIN c.quality) \in Nat /\ Cardinality(DOMAIN c.quality) # 0
    BY FS_CardinalityType, FS_EmptySet DEF LegalCandidate
  <2> QED
    BY <2>1, <2>2
<1> QED
  BY <1>1, <1>2 DEF QualityFor

LEMMA CostTyped ==
    ASSUME NEW c, LegalCandidate(c), NEW r, NEW f, Measured(r, f)
    PROVE  Cost(c, r, f) \in Int
<1>1. c.input \in Int /\ c.output \in Int /\ f.tokens \in Int /\ r.outputTokens \in Int
  BY DEF LegalCandidate, Measured
<1> QED
  BY <1>1 DEF Cost

-----------------------------------------------------------------------------
(* The Pareto front.                                                       *)

LEMMA DominatesIs ==
    ASSUME NEW r, NEW f, Measured(r, f),
           NEW a, LegalCandidate(a), IsFiniteSet(DOMAIN a.quality),
           NEW b, LegalCandidate(b), IsFiniteSet(DOMAIN b.quality)
    PROVE  /\ {QualityFor(a, f.task), Cost(a, r, f), a.p95} \subseteq Int
           /\ Dominates(a, b, r, f) <=>
                 /\ QualityFor(a, f.task) >= QualityFor(b, f.task)
                 /\ Cost(a, r, f) <= Cost(b, r, f)
                 /\ a.p95 <= b.p95
                 /\ \/ QualityFor(a, f.task) > QualityFor(b, f.task)
                    \/ Cost(a, r, f) < Cost(b, r, f)
                    \/ a.p95 < b.p95
<1>1. /\ QualityFor(a, f.task) \in Int /\ QualityFor(b, f.task) \in Int
      /\ Cost(a, r, f) \in Int /\ Cost(b, r, f) \in Int
  BY QualityTyped, CostTyped
<1>2. a.p95 \in Int /\ b.p95 \in Int
  BY DEF LegalCandidate
<1> QED
  BY <1>1, <1>2 DEF Dominates, Gains

LEMMA DominatesOrders ==
    ASSUME NEW cs, Catalogued(cs), NEW r, NEW f, Measured(r, f)
    PROVE  /\ \A a \in ToSet(cs) : ~Dominates(a, a, r, f)
           /\ \A a, b, c \in ToSet(cs) : Dominates(a, b, r, f) /\ Dominates(b, c, r, f) => Dominates(a, c, r, f)
<1>1. \A a \in ToSet(cs) : LegalCandidate(a) /\ IsFiniteSet(DOMAIN a.quality)
  BY DEF Catalogued
<1>2. ASSUME NEW a \in ToSet(cs) PROVE ~Dominates(a, a, r, f)
  <2>1. {QualityFor(a, f.task), Cost(a, r, f), a.p95} \subseteq Int
    BY <1>1, DominatesIs
  <2> QED
    BY <1>1, <2>1, DominatesIs
<1>3. ASSUME NEW a \in ToSet(cs), NEW b \in ToSet(cs), NEW c \in ToSet(cs),
             Dominates(a, b, r, f), Dominates(b, c, r, f)
      PROVE  Dominates(a, c, r, f)
  <2>1. /\ {QualityFor(a, f.task), Cost(a, r, f), a.p95} \subseteq Int
        /\ {QualityFor(b, f.task), Cost(b, r, f), b.p95} \subseteq Int
        /\ {QualityFor(c, f.task), Cost(c, r, f), c.p95} \subseteq Int
    BY <1>1, DominatesIs
  <2>2. /\ QualityFor(a, f.task) >= QualityFor(b, f.task) /\ Cost(a, r, f) <= Cost(b, r, f) /\ a.p95 <= b.p95
        /\ \/ QualityFor(a, f.task) > QualityFor(b, f.task)
           \/ Cost(a, r, f) < Cost(b, r, f)
           \/ a.p95 < b.p95
    BY <1>1, <1>3, DominatesIs
  <2>3. QualityFor(b, f.task) >= QualityFor(c, f.task) /\ Cost(b, r, f) <= Cost(c, r, f) /\ b.p95 <= c.p95
    BY <1>1, <1>3, DominatesIs
  <2>4. /\ QualityFor(a, f.task) >= QualityFor(c, f.task) /\ Cost(a, r, f) <= Cost(c, r, f) /\ a.p95 <= c.p95
        /\ \/ QualityFor(a, f.task) > QualityFor(c, f.task)
           \/ Cost(a, r, f) < Cost(c, r, f)
           \/ a.p95 < c.p95
    BY <2>1, <2>2, <2>3
  <2> QED
    BY <1>1, <2>4, DominatesIs
<1> QED
  BY <1>2, <1>3

(* The front is what nothing dominates, and all else is dominated by some  *)
(* of the front: by whichever of those that dominate it has the fewest     *)
(* above itself.                                                           *)
LEMMA FrontCovers ==
    ASSUME NEW cs, Catalogued(cs), NEW r, NEW f, Measured(r, f)
    PROVE  LET front == ParetoFront(cs, r, f) IN
           /\ front \in Seq(ToSet(front))
           /\ ToSet(front) = {c \in ToSet(cs) : ~\E other \in ToSet(cs) : Dominates(other, c, r, f)}
           /\ \A c \in ToSet(cs) \ ToSet(front) : \E l \in ToSet(front) : Dominates(l, c, r, f)
<1> DEFINE S == ToSet(cs)
           front == ParetoFront(cs, r, f)
           free == {c \in S : ~\E other \in S : other.id # c.id /\ Dominates(other, c, r, f)}
           above(c) == {d \in S : Dominates(d, c, r, f)}
<1>1. /\ \A a \in S : ~Dominates(a, a, r, f)
      /\ \A a, b, c \in S : Dominates(a, b, r, f) /\ Dominates(b, c, r, f) => Dominates(a, c, r, f)
  BY DominatesOrders
<1>2. front \in Seq(ToSet(front)) /\ ToSet(front) = S \cap free
  BY AmongLists DEF ParetoFront, Catalogued
<1>3. \A c, d \in S : Dominates(d, c, r, f) => d.id # c.id
  BY <1>1 DEF Catalogued
<1>4. ToSet(front) = {c \in S : ~\E other \in S : Dominates(other, c, r, f)}
  BY <1>2, <1>3
<1>5. IsFiniteSet(S)
  BY ListFinite DEF Catalogued
<1>6. ASSUME NEW c \in S PROVE IsFiniteSet(above(c)) /\ Cardinality(above(c)) \in Nat
  BY <1>5, FS_Subset, FS_CardinalityType
<1> HIDE DEF S
<1>7. ASSUME NEW c \in S, c \notin ToSet(front) PROVE \E l \in ToSet(front) : Dominates(l, c, r, f)
  <2> DEFINE counts == {Cardinality(above(d)) : d \in above(c)}
  <2>1. \E d \in above(c) : TRUE
    BY <1>4, <1>7
  <2>2. counts \in SUBSET Nat /\ counts # {}
    BY <1>6, <2>1
  <2>3. PICK least \in counts : \A y \in counts : least <= y
    BY <2>2, LeastNatural
  <2>4. PICK l \in above(c) : Cardinality(above(l)) = least
    BY <2>3
  <2>5. \A d \in above(c) : Cardinality(above(l)) <= Cardinality(above(d))
    BY <2>3, <2>4
  <2>6. ASSUME NEW e \in S, Dominates(e, l, r, f) PROVE FALSE
    <3>1. e \in above(c)
      BY <1>1, <2>4, <2>6
    <3>2. above(e) \in SUBSET above(l) /\ above(e) # above(l)
      BY <1>1, <2>4, <2>6
    <3>3. Cardinality(above(e)) <= Cardinality(above(l)) /\ Cardinality(above(e)) # Cardinality(above(l))
      BY <1>6, <2>4, <3>2, FS_Subset
    <3> QED
      BY <1>6, <2>4, <2>5, <3>1, <3>3
  <2> QED
    BY <1>4, <2>4, <2>6
<1> QED
  BY <1>2, <1>4, <1>7 DEF S

(* What a constructor has accepted.                                        *)
Configured(rt) ==
    /\ rt.policy \in Policies
    /\ Catalogued(rt.catalog)
    /\ \A u \in DOMAIN rt.profiles : LegalProfile(rt.profiles[u])
    /\ rt.rules \in Seq(ToSet(rt.rules)) /\ \A k \in DOMAIN rt.rules : LegalRule(rt.rules[k])
    /\ \A id \in DOMAIN rt.learned : rt.learned[id] \in Int
    /\ rt.policy = "linucb" => Ids(rt.catalog) \subseteq DOMAIN rt.learned

Weighed(w) == w.quality \in Int /\ w.cost \in Int /\ w.latency \in Int

LEMMA WeightsTyped ==
    ASSUME NEW profiles, \A u \in DOMAIN profiles : LegalProfile(profiles[u]), NEW user, NEW task
    PROVE  Weighed(Weights(Profile(profiles, user), task))
<1> DEFINE p == Profile(profiles, user)
<1>1. \A o \in Objectives : p.weights[o] \in Int
  BY DEF Profile, LegalProfile, DefaultProfile, Objectives
<1>2. \A t \in DOMAIN p.overrides : \A o \in DOMAIN p.overrides[t] : p.overrides[t][o] \in Int
  BY DEF Profile, LegalProfile, DefaultProfile
<1> HIDE DEF p
<1>3. \A o \in Objectives : Weights(p, task)[o] \in Int
  BY <1>1, <1>2 DEF Weights
<1> QED
  BY <1>3 DEF Weighed, Objectives, p

LEMMA FeaturesTyped == ASSUME NEW r, LegalRequest(r) PROVE Measured(r, Features(r))
<1>1. Features(r).tokens = IF r.contextTokens # None THEN r.contextTokens ELSE (r.query.chars + 3) \div 4
  BY DEF Features
<1>2. r.query.chars \in Nat /\ (r.contextTokens \in Nat \/ r.contextTokens = None) /\ r.outputTokens \in Nat
  BY DEF LegalRequest
<1> QED
  BY <1>1, <1>2 DEF Measured

LEMMA MinmaxTyped ==
    ASSUME NEW xs \in SUBSET Int, IsFiniteSet(xs), xs # {}, NEW x \in Int
    PROVE  InverseMinmax(x, xs).num \in Int /\ InverseMinmax(x, xs).den \in Int
<1>1. Max(xs) \in Int /\ Min(xs) \in Int
  BY Extremes
<1>2. CASE Cardinality(xs) = 1
  BY <1>2 DEF InverseMinmax
<1>3. CASE Cardinality(xs) # 1
  <2>1. InverseMinmax(x, xs) = [num |-> Max(xs) - x, den |-> Max(xs) - Min(xs)]
    BY <1>3 DEF InverseMinmax
  <2> QED
    BY <1>1, <2>1
<1> QED
  BY <1>2, <1>3

LEMMA ScaledTyped ==
    ASSUME NEW quality \in Int, NEW bonus \in Int, NEW w, Weighed(w),
           NEW cost, cost.num \in Int, cost.den \in Int,
           NEW latency, latency.num \in Int, latency.den \in Int
    PROVE  Scaled(quality, cost, latency, bonus, w) \in Int
<1>1. \A a, b \in Int : a * b \in Int /\ a + b \in Int
  OBVIOUS
<1>2. Unit \in Int
  BY RoutingAssumption
<1>3. WeightSum(w) \in Int
  BY DEF WeightSum, Weighed
<1>4. w.quality * quality * cost.den * latency.den \in Int
  BY <1>1 DEF Weighed
<1>5. w.cost * Unit * cost.num * latency.den \in Int
  BY <1>1, <1>2 DEF Weighed
<1>6. w.latency * Unit * latency.num * cost.den \in Int
  BY <1>1, <1>2 DEF Weighed
<1>7. bonus * WeightSum(w) * cost.den * latency.den \in Int
  BY <1>1, <1>3
<1> QED
  BY <1>1, <1>4, <1>5, <1>6, <1>7 DEF Scaled

LEMMA BonusTyped ==
    ASSUME NEW rules, rules \in Seq(ToSet(rules)), \A k \in DOMAIN rules : LegalRule(rules[k]),
           NEW c, NEW pool, NEW f
    PROVE  RuleBonus(rules, c, pool, f) \in Int
<1> DEFINE which == {k \in Applied(rules, pool, f) : c.id \in rules[k].prefer}
           g == [k \in which |-> rules[k].bonus]
<1>1. which \in SUBSET (1..Len(rules)) /\ Len(rules) \in Nat
  BY DEF Applied
<1>2. IsFiniteSet(which)
  <2>1. IsFiniteSet(1..Len(rules))
    BY <1>1, FS_Interval
  <2> HIDE DEF which
  <2> QED
    BY <1>1, <2>1, FS_Subset
<1>3. \A k \in which : rules[k].bonus \in Int
  BY DEF Applied, LegalRule
<1>4. RuleBonus(rules, c, pool, f) = Total(g)
  BY DEF RuleBonus
<1> HIDE DEF which
<1>5. DOMAIN g = which /\ \A k \in DOMAIN g : g[k] \in Int
  BY <1>3
<1> HIDE DEF g
<1> QED
  BY <1>2, <1>4, <1>5, TotalTyped

(* The image of a list in the integers.                                    *)
LEMMA FiguresFinite ==
    ASSUME NEW pool, Catalogued(pool), NEW r, NEW f, Measured(r, f), ToSet(pool) # {},
           NEW p, NEW m, m = Measures(pool, r, f, p)
    PROVE  /\ m.costs \in SUBSET Int /\ IsFiniteSet(m.costs) /\ m.costs # {}
           /\ m.delays \in SUBSET Int /\ IsFiniteSet(m.delays) /\ m.delays # {}
           /\ m.weights = Weights(p, f.task)
<1> DEFINE costs == {Cost(o, r, f) : o \in ToSet(pool)}
           delays == {o.p95 : o \in ToSet(pool)}
<1>0. m.costs = costs /\ m.delays = delays /\ m.weights = Weights(p, f.task)
  BY DEF Measures
<1>1. IsFiniteSet(ToSet(pool))
  BY ListFinite DEF Catalogued
<1>2. \A c \in ToSet(pool) : Cost(c, r, f) \in Int /\ c.p95 \in Int
  <2>1. \A c \in ToSet(pool) : LegalCandidate(c)
    BY DEF Catalogued
  <2> QED
    BY <2>1, CostTyped DEF LegalCandidate
<1>3. [c \in ToSet(pool) |-> Cost(c, r, f)] \in Surjection(ToSet(pool), costs)
  BY DEF Surjection
<1>4. [c \in ToSet(pool) |-> c.p95] \in Surjection(ToSet(pool), delays)
  BY DEF Surjection
<1>5. IsFiniteSet(costs) /\ IsFiniteSet(delays)
  <2> HIDE DEF costs, delays
  <2> QED
    BY <1>1, <1>3, <1>4, FS_Surjection
<1>6. costs \in SUBSET Int /\ costs # {} /\ delays \in SUBSET Int /\ delays # {}
  BY <1>2
<1> QED
  BY <1>0, <1>5, <1>6

(* Every total is a number.                                                *)
LEMMA TotalsTyped ==
    ASSUME NEW rt, Configured(rt), NEW r, NEW f, Measured(r, f), NEW p, Weighed(Weights(p, f.task)),
           NEW pool, pool \in Seq(ToSet(pool)), ToSet(pool) \subseteq ToSet(rt.catalog), ToSet(pool) # {},
           NEW listed, ToSet(listed) \subseteq ToSet(pool),
           UsesLearned(rt.policy, pool, rt.learned) => Ids(listed) \subseteq DOMAIN rt.learned
    PROVE  \A id \in Ids(listed) : Totals(rt, listed, pool, r, f, p, Measures(pool, r, f, p))[id] \in Int
<1> DEFINE m == Measures(pool, r, f, p)
           objective(c) == ObjectiveTotal(c, pool, r, f, p, rt.rules, m)
<1>1. Catalogued(pool) /\ Catalogued(rt.catalog)
  BY SubCatalogued DEF Configured
<1>2. /\ m.costs \in SUBSET Int /\ IsFiniteSet(m.costs) /\ m.costs # {}
      /\ m.delays \in SUBSET Int /\ IsFiniteSet(m.delays) /\ m.delays # {}
      /\ m.weights = Weights(p, f.task)
  <2>1. m = Measures(pool, r, f, p)
    OBVIOUS
  <2> HIDE DEF m
  <2> QED
    BY <1>1, <2>1, FiguresFinite
<1> HIDE DEF m
<1>3. ASSUME NEW c \in ToSet(pool) PROVE objective(c) \in Int
  <2>1. LegalCandidate(c) /\ IsFiniteSet(DOMAIN c.quality)
    BY <1>1 DEF Catalogued
  <2>2. QualityFor(c, f.task) \in Int /\ Cost(c, r, f) \in Int /\ c.p95 \in Int
    BY <2>1, QualityTyped, CostTyped DEF LegalCandidate
  <2>3. /\ InverseMinmax(Cost(c, r, f), m.costs).num \in Int /\ InverseMinmax(Cost(c, r, f), m.costs).den \in Int
        /\ InverseMinmax(c.p95, m.delays).num \in Int /\ InverseMinmax(c.p95, m.delays).den \in Int
    BY <1>2, <2>2, MinmaxTyped
  <2>4. RuleBonus(rt.rules, c, pool, f) + (IF c.id \in p.preferred THEN PreferredBonus ELSE 0) \in Int
    <3>1. RuleBonus(rt.rules, c, pool, f) \in Int
      BY BonusTyped DEF Configured
    <3> QED
      BY <3>1, RoutingAssumption
  <2> QED
    BY <1>2, <2>2, <2>3, <2>4, ScaledTyped DEF ObjectiveTotal
<1> HIDE DEF objective
<1>4. ASSUME NEW id \in Ids(listed) PROVE objective(Named(listed, id)) \in Int
  <2>1. PICK c \in ToSet(listed) : c.id = id
    BY IdsAre
  <2>2. Named(listed, id) \in ToSet(listed)
    BY <2>1 DEF Named
  <2> QED
    BY <1>3, <2>2
<1>5. ObjectiveScale(m) \in Int
  <2>1. InverseMinmax(0, m.costs).den \in Int /\ InverseMinmax(0, m.delays).den \in Int
    BY <1>2, MinmaxTyped
  <2>2. WeightSum(m.weights) \in Int
    BY <1>2 DEF Weighed, WeightSum
  <2>3. \A a, b, c \in Int : a * b * c \in Int
    OBVIOUS
  <2> QED
    BY <2>1, <2>2, <2>3 DEF ObjectiveScale
<1>6. ASSUME NEW id \in Ids(listed), rt.policy = "linucb"
      PROVE  Confidence(id, objective(Named(listed, id)), rt.learned, m) \in Int
  <2>1. rt.learned[id] \in Int
    <3>1. id \in Ids(rt.catalog)
      BY IdsAre
    <3> QED
      BY <1>6, <3>1 DEF Configured
  <2>2. PriorWeight \in Int
    BY RoutingAssumption
  <2>3. \A a, b \in Int : a * b \in Int /\ a + b \in Int
    OBVIOUS
  <2>4. 10 * rt.learned[id] * ObjectiveScale(m) \in Int /\ PriorWeight * objective(Named(listed, id)) \in Int
    BY <1>4, <1>5, <2>1, <2>2, <2>3
  <2> QED
    BY <2>3, <2>4 DEF Confidence
<1>7. ASSUME NEW id \in Ids(listed)
      PROVE  Totals(rt, listed, pool, r, f, p, m)[id] =
                CASE UsesLearned(rt.policy, pool, rt.learned) -> rt.learned[id]
                  [] rt.policy = "linucb" -> Confidence(id, objective(Named(listed, id)), rt.learned, m)
                  [] OTHER -> objective(Named(listed, id))
  BY DEF Totals, objective
<1>8. ASSUME NEW id \in Ids(listed) PROVE Totals(rt, listed, pool, r, f, p, m)[id] \in Int
  <2>1. CASE UsesLearned(rt.policy, pool, rt.learned)
    <3>1. rt.learned[id] \in Int
      BY <2>1 DEF Configured
    <3>2. rt.policy # "linucb"
      BY <2>1 DEF UsesLearned
    <3> QED
      BY <1>7, <2>1, <3>1, <3>2
  <2>2. CASE ~UsesLearned(rt.policy, pool, rt.learned)
    BY <1>4, <1>6, <1>7, <2>2
  <2> QED
    BY <2>1, <2>2
<1> QED
  BY <1>8 DEF m

(* A ranking has every model once.                                         *)
LEMMA RankedLists ==
    ASSUME NEW cs, IsFiniteSet(Ids(cs)), Ids(cs) \subseteq Int,
           NEW total, \A id \in Ids(cs) : total[id] \in Int
    PROVE  /\ Ranked(cs, total) \in [1..Cardinality(Ids(cs)) -> Ids(cs)]
           /\ \A id \in Ids(cs) : \E i \in 1..Cardinality(Ids(cs)) : Ranked(cs, total)[i] = id
<1> DEFINE S == Ids(cs)
           ahead == [a \in S |-> {b \in S : total[b] > total[a] \/ (total[b] = total[a] /\ b < a)}]
<1>1. Ranked(cs, total) = Ordered(S, ahead)
  BY DEF Ranked
<1>2. \A a \in S : ahead[a] = {b \in S : total[b] > total[a] \/ (total[b] = total[a] /\ b < a)}
  OBVIOUS
<1>3. ahead \in [S -> SUBSET S]
  OBVIOUS
<1> HIDE DEF ahead, S
<1>4. \A a \in S : a \in Int /\ total[a] \in Int
  BY DEF S
<1>5. \A a \in S : a \notin ahead[a]
  BY <1>2, <1>4
<1>6. ASSUME NEW a \in S, NEW b \in S, a \in ahead[b] PROVE ahead[a] \subseteq ahead[b]
  <2>1. total[a] > total[b] \/ (total[a] = total[b] /\ a < b)
    BY <1>2, <1>6
  <2>2. ASSUME NEW c \in S, total[c] > total[a] \/ (total[c] = total[a] /\ c < a)
        PROVE  total[c] > total[b] \/ (total[c] = total[b] /\ c < b)
    BY <1>4, <2>1, <2>2
  <2> QED
    BY <1>2, <2>2
<1>7. \A a, b \in S : a # b => a \in ahead[b] \/ b \in ahead[a]
  BY <1>2, <1>4
<1>8. /\ Ordered(S, ahead) \in [1..Cardinality(S) -> S]
      /\ \A x \in S : \E i \in 1..Cardinality(S) : Ordered(S, ahead)[i] = x
  <2>1. IsFiniteSet(S)
    BY DEF S
  <2> QED
    BY <1>3, <1>5, <1>6, <1>7, <2>1, OrderedLists
<1> QED
  BY <1>1, <1>8 DEF S

(* A list that has every one of ids once.                                  *)
Enumerates(order, ids) ==
    /\ order \in [1..Cardinality(ids) -> ids]
    /\ \A id \in ids : \E i \in 1..Cardinality(ids) : order[i] = id

(* A decision lists every model of its ranking, and selects one of them.   *)
LEMMA DecisionLists ==
    ASSUME NEW rt, NEW rejected, NEW matched, NEW total,
           NEW ids, IsFiniteSet(ids), ids # {}, NEW order, Enumerates(order, ids),
           NEW d, d = Decision(rt, rejected, matched, total, order)
    PROVE  ListedIds(d) = ids /\ d.selected \in ids /\ ToSet(order) = ids
<1> DEFINE n == Cardinality(ids)
<1>1. n \in Nat /\ n # 0
  BY FS_CardinalityType, FS_EmptySet
<1> HIDE DEF n
<1>2. order \in [1..n -> ids] /\ order \in Seq(ids) /\ Len(order) = n /\ DOMAIN order = 1..n
  <2>1. order \in [1..n -> ids]
    BY DEF n, Enumerates
  <2>2. order \in Seq(ids)
    BY <1>1, <2>1
  <2> QED
    BY <1>1, <2>1, <2>2
<1>3. Head(order) = order[1] /\ order[1] \in ids
  <2>0. 1 \in 1..n
    BY <1>1
  <2>1. order[1] \in ids
    <3>1. order \in [1..n -> ids]
      BY <1>2
    <3> QED
      BY <2>0, <3>1
  <2>2. Len(order) # 0 => Head(order) = order[1]
    BY <1>2
  <2> QED
    BY <1>1, <1>2, <2>1, <2>2
<1>4. d.selected = order[1] /\ d.alternatives = [i \in 1..(n - 1) |-> <<order[i + 1], total[order[i + 1]]>>]
  BY <1>2, <1>3 DEF Decision
<1>5. ListedIds(d) = {order[1]} \cup {order[i + 1] : i \in 1..(n - 1)}
  <2> QED
    BY <1>4 DEF ListedIds
<1>6. {order[1]} \cup {order[i + 1] : i \in 1..(n - 1)} = ids
  <2>1. ASSUME NEW id \in ids PROVE id \in {order[1]} \cup {order[i + 1] : i \in 1..(n - 1)}
    <3>1. PICK i \in 1..n : order[i] = id
      BY DEF n, Enumerates
    <3>2. CASE i = 1
      BY <3>1, <3>2
    <3>3. CASE i # 1
      <4>1. i - 1 \in 1..(n - 1) /\ (i - 1) + 1 = i
        BY <1>1, <3>3
      <4> QED
        BY <3>1, <4>1
    <3> QED
      BY <3>2, <3>3
  <2>2. \A i \in 1..(n - 1) : order[i + 1] \in ids
    <3>1. \A i \in 1..(n - 1) : i + 1 \in 1..n
      BY <1>1
    <3> QED
      BY <1>2, <3>1
  <2> QED
    BY <1>3, <2>1, <2>2
<1>7. ToSet(order) = ids
  BY <1>2 DEF ToSet, n, Enumerates
<1> QED
  BY <1>3, <1>4, <1>5, <1>6, <1>7

(* What the constraints let through.                                       *)
LEMMA EligibleLists ==
    ASSUME NEW cs, Catalogued(cs), NEW r, NEW f, NEW p
    PROVE  LET eligible == Eligible(cs, r, f, p) IN
           /\ Catalogued(eligible)
           /\ ToSet(eligible) = {c \in ToSet(cs) : Reasons(c, r, f, p) = {}}
           /\ eligible # <<>> <=> ToSet(eligible) # {}
<1> DEFINE eligible == Eligible(cs, r, f, p)
           free == {c \in ToSet(cs) : Reasons(c, r, f, p) = {}}
<1>1. cs \in Seq(ToSet(cs))
  BY DEF Catalogued
<1>2. eligible = Among(cs, free)
  BY DEF Eligible
<1> HIDE DEF eligible
<1>3. ToSet(eligible) = ToSet(cs) \cap free /\ eligible \in Seq(ToSet(eligible))
  <2> HIDE DEF free
  <2> QED
    BY <1>1, <1>2, AmongLists
<1>4. Catalogued(eligible)
  BY <1>3, SubCatalogued
<1>5. eligible # <<>> <=> ToSet(eligible) # {}
  <2>1. DOMAIN eligible = 1..Len(eligible) /\ Len(eligible) \in Nat
    BY <1>3
  <2>2. ToSet(eligible) # {} => DOMAIN eligible # {}
    BY DEF ToSet
  <2>3. ASSUME eligible # <<>> PROVE eligible[1] \in ToSet(eligible)
    <3>1. Len(eligible) # 0
      BY <1>3, <2>3
    <3> QED
      BY <2>1, <3>1 DEF ToSet
  <2>4. eligible = <<>> => DOMAIN eligible = {}
    OBVIOUS
  <2> QED
    BY <2>2, <2>3, <2>4
<1> QED
  BY <1>3, <1>4, <1>5 DEF eligible

(* What a learned router lists, and that lists are of the models a pool has. *)
LEMMA TrainedLists ==
    ASSUME NEW pool, Catalogued(pool), NEW learned
    PROVE  /\ Catalogued(Trained(pool, learned))
           /\ ToSet(Trained(pool, learned)) = {c \in ToSet(pool) : c.id \in DOMAIN learned}
           /\ Learned(pool, learned) # {} => ToSet(Trained(pool, learned)) # {}
<1> DEFINE known == {c \in ToSet(pool) : c.id \in DOMAIN learned}
           trained == Trained(pool, learned)
<1>1. trained = Among(pool, known) /\ pool \in Seq(ToSet(pool))
  BY DEF Trained, Catalogued
<1> HIDE DEF trained
<1>2. ToSet(trained) = ToSet(pool) \cap known /\ trained \in Seq(ToSet(trained))
  <2> HIDE DEF known
  <2> QED
    BY <1>1, AmongLists
<1>3. Catalogued(trained)
  BY <1>2, SubCatalogued
<1>4. Learned(pool, learned) # {} => ToSet(trained) # {}
  <2>1. Learned(pool, learned) = {learned[id] : id \in Ids(trained)}
    BY DEF Learned, trained
  <2>2. Ids(trained) = {c.id : c \in ToSet(trained)}
    BY IdsAre
  <2> QED
    BY <2>1, <2>2
<1> QED
  BY <1>2, <1>3, <1>4 DEF trained

(* Something is listed of a pool that has something.                       *)
LEMMA ListedLists ==
    ASSUME NEW policy, NEW eligible, Catalogued(eligible), ToSet(eligible) # {},
           NEW r, NEW f, Measured(r, f), NEW learned,
           NEW listed, listed = Listed(policy, eligible, r, f, learned)
    PROVE  /\ Catalogued(listed) /\ ToSet(listed) \subseteq ToSet(eligible) /\ ToSet(listed) # {}
           /\ policy = "pareto" => listed = ParetoFront(eligible, r, f)
           /\ policy # "pareto" /\ UsesLearned(policy, eligible, learned) =>
                 ToSet(listed) = {c \in ToSet(eligible) : c.id \in DOMAIN learned}
           /\ policy # "pareto" /\ ~UsesLearned(policy, eligible, learned) => listed = eligible
<1>1. CASE policy = "pareto"
  <2> DEFINE front == ParetoFront(eligible, r, f)
  <2>1. listed = front
    BY <1>1 DEF Listed, UsesLearned
  <2>2. /\ front \in Seq(ToSet(front))
        /\ ToSet(front) = {c \in ToSet(eligible) : ~\E other \in ToSet(eligible) : Dominates(other, c, r, f)}
        /\ \A c \in ToSet(eligible) \ ToSet(front) : \E l \in ToSet(front) : Dominates(l, c, r, f)
    BY FrontCovers
  <2> HIDE DEF front
  <2>3. Catalogued(front) /\ ToSet(front) # {} /\ ToSet(front) \subseteq ToSet(eligible)
    BY <2>2, SubCatalogued
  <2> QED
    BY <1>1, <2>1, <2>3 DEF front
<1>2. CASE policy # "pareto" /\ UsesLearned(policy, eligible, learned)
  <2>1. listed = Trained(eligible, learned)
    BY <1>2 DEF Listed
  <2>2. Learned(eligible, learned) # {}
    BY <1>2 DEF UsesLearned, SimilarityApplies, FactorizationApplies
  <2>3. /\ Catalogued(listed) /\ ToSet(listed) # {}
        /\ ToSet(listed) = {c \in ToSet(eligible) : c.id \in DOMAIN learned}
    BY <2>1, <2>2, TrainedLists
  <2> QED
    BY <1>2, <2>3
<1>3. CASE policy # "pareto" /\ ~UsesLearned(policy, eligible, learned)
  BY <1>3 DEF Listed
<1> QED
  BY <1>1, <1>2, <1>3

(* A route that is no error: the models a router considers, and its answer. *)
Considered(rt, r) == Eligible(rt.catalog, r, Features(r), Profile(rt.profiles, r.user))
Offered(rt, r) == Listed(rt.policy, Considered(rt, r), r, Features(r), rt.learned)
Pool(rt, r) == IF rt.policy = "pareto" THEN Offered(rt, r) ELSE Considered(rt, r)
Scores(rt, r) ==
    Totals(rt, Offered(rt, r), Pool(rt, r), r, Features(r), Profile(rt.profiles, r.user),
           Measures(Pool(rt, r), r, Features(r), Profile(rt.profiles, r.user)))
Answer(rt, r) ==
    Decision(rt, Rejected(rt.catalog, Considered(rt, r), r, Features(r), Profile(rt.profiles, r.user)),
             Applied(rt.rules, Pool(rt, r), Features(r)), Scores(rt, r), Ranked(Offered(rt, r), Scores(rt, r)))
Unroutable(rt, r) ==
    \/ rt.policy = "similarity" /\ r.query.chars > MaxQuery
    \/ Considered(rt, r) = <<>>
    \/ WeightSum(Weights(Profile(rt.profiles, r.user), Features(r).task)) = 0

LEMMA RouteAnswers ==
    ASSUME NEW rt, NEW r
    PROVE  /\ Route(rt, r).error = None <=> ~Unroutable(rt, r)
           /\ ~Unroutable(rt, r) => Route(rt, r) = Answer(rt, r)
<1> DEFINE f == Features(r)
           p == Profile(rt.profiles, r.user)
<1>1. CASE rt.policy = "similarity" /\ r.query.chars > MaxQuery
  <2>1. Route(rt, r).error = "ConfigurationError"
    BY <1>1 DEF Route
  <2> QED
    BY <1>1, <2>1, RoutingAssumption DEF Unroutable
<1>2. CASE ~(rt.policy = "similarity" /\ r.query.chars > MaxQuery)
  <2>1. Route(rt, r) = RouteEligible(rt, r, f, p, Considered(rt, r), Offered(rt, r))
    BY <1>2 DEF Route, RouteWith, Considered, Offered
  <2>2. CASE Considered(rt, r) = <<>>
    <3>1. Route(rt, r).error = "NoEligibleModelError"
      BY <2>1, <2>2 DEF RouteEligible
    <3> QED
      BY <2>2, <3>1, RoutingAssumption DEF Unroutable
  <2>3. CASE Considered(rt, r) # <<>> /\ WeightSum(Weights(p, f.task)) = 0
    <3>1. Route(rt, r).error = "ConfigurationError"
      BY <2>1, <2>3 DEF RouteEligible
    <3> QED
      BY <2>3, <3>1, RoutingAssumption DEF Unroutable
  <2>4. CASE Considered(rt, r) # <<>> /\ WeightSum(Weights(p, f.task)) # 0
    <3>1. Route(rt, r) = RouteAmong(rt, r, f, p, Considered(rt, r), Offered(rt, r), Pool(rt, r))
      BY <2>1, <2>4 DEF RouteEligible, Pool
    <3>2. Route(rt, r) = Answer(rt, r)
      BY <3>1 DEF RouteAmong, Decided, Answer, Scores
    <3>3. Answer(rt, r).error = None
      BY DEF Answer, Decision
    <3> QED
      BY <1>2, <2>4, <3>2, <3>3 DEF Unroutable
  <2> QED
    BY <2>2, <2>3, <2>4
<1> QED
  BY <1>1, <1>2

(* What an answer lists, rejects and leaves out.                           *)
LEMMA AnswerLists ==
    ASSUME NEW rt, Configured(rt), NEW r, LegalRequest(r), ~Unroutable(rt, r)
    PROVE  /\ Catalogued(Considered(rt, r)) /\ ToSet(Considered(rt, r)) # {}
           /\ Catalogued(Offered(rt, r)) /\ ToSet(Offered(rt, r)) \subseteq ToSet(Considered(rt, r))
           /\ ListedIds(Answer(rt, r)) = Ids(Offered(rt, r))
           /\ Answer(rt, r).selected \in Ids(Offered(rt, r))
           /\ DOMAIN Answer(rt, r).excluded = Ids(rt.catalog) \ Ids(Considered(rt, r))
           /\ rt.policy = "pareto" =>
                 Answer(rt, r).dominated = Ids(rt.catalog) \ (DOMAIN Answer(rt, r).excluded \cup Ids(Offered(rt, r)))
<1> DEFINE f == Features(r)
           p == Profile(rt.profiles, r.user)
           eligible == Considered(rt, r)
           listed == Offered(rt, r)
           pool == Pool(rt, r)
           total == Scores(rt, r)
           order == Ranked(listed, total)
           rejected == Rejected(rt.catalog, eligible, r, f, p)
<1>1. Measured(r, f)
  BY FeaturesTyped
<1>2. Catalogued(rt.catalog)
  BY DEF Configured
<1>3. Catalogued(eligible) /\ ToSet(eligible) \subseteq ToSet(rt.catalog) /\ ToSet(eligible) # {}
  <2>1. eligible = Eligible(rt.catalog, r, f, p)
    BY DEF Considered
  <2>2. eligible # <<>>
    BY DEF Unroutable
  <2> HIDE DEF eligible, f, p
  <2> QED
    BY <1>2, <2>1, <2>2, EligibleLists
<1>4. /\ Catalogued(listed) /\ ToSet(listed) \subseteq ToSet(eligible) /\ ToSet(listed) # {}
      /\ UsesLearned(rt.policy, eligible, rt.learned) /\ rt.policy # "pareto" =>
            ToSet(listed) = {c \in ToSet(eligible) : c.id \in DOMAIN rt.learned}
  <2>1. listed = Listed(rt.policy, eligible, r, f, rt.learned)
    BY DEF Offered
  <2> HIDE DEF eligible, listed, f
  <2> QED
    BY <1>1, <1>3, <2>1, ListedLists
<1>5. Catalogued(pool) /\ ToSet(pool) \subseteq ToSet(eligible) /\ ToSet(pool) # {} /\ ToSet(listed) \subseteq ToSet(pool)
  BY <1>3, <1>4 DEF Pool
<1>6. UsesLearned(rt.policy, pool, rt.learned) => Ids(listed) \subseteq DOMAIN rt.learned
  <2>1. SUFFICES ASSUME UsesLearned(rt.policy, pool, rt.learned) PROVE Ids(listed) \subseteq DOMAIN rt.learned
    OBVIOUS
  <2>2. rt.policy # "pareto"
    BY <2>1 DEF UsesLearned
  <2>3. pool = eligible
    BY <2>2 DEF Pool
  <2> HIDE DEF pool, eligible, listed
  <2> QED
    BY <1>4, <2>1, <2>2, <2>3, IdsAre
<1>7. Weighed(Weights(p, f.task))
  BY WeightsTyped DEF Configured
<1>8. total = Totals(rt, listed, pool, r, f, p, Measures(pool, r, f, p))
  BY DEF Scores
<1>9. Answer(rt, r) = Decision(rt, rejected, Applied(rt.rules, pool, f), total, order)
  BY DEF Answer
<1>10. DOMAIN rejected = Ids(rt.catalog) \ Ids(eligible)
  BY DEF Rejected
<1> HIDE DEF eligible, listed, pool, total, f, p, rejected
<1>11. \A id \in Ids(listed) : total[id] \in Int
  <2>1. pool \in Seq(ToSet(pool)) /\ ToSet(pool) \subseteq ToSet(rt.catalog)
    BY <1>3, <1>5 DEF Catalogued
  <2> QED
    BY <1>1, <1>5, <1>6, <1>7, <1>8, <2>1, TotalsTyped
<1>12. IsFiniteSet(Ids(listed)) /\ Ids(listed) \subseteq Int /\ Ids(listed) # {}
  <2>1. Ids(listed) = {c.id : c \in ToSet(listed)}
    BY IdsAre
  <2>2. listed \in Seq(ToSet(listed)) /\ \A c \in ToSet(listed) : c.id \in Int
    BY <1>4 DEF Catalogued
  <2> QED
    BY <1>4, <2>1, <2>2, ListFinite
<1>13. /\ order \in [1..Cardinality(Ids(listed)) -> Ids(listed)]
       /\ \A id \in Ids(listed) : \E i \in 1..Cardinality(Ids(listed)) : order[i] = id
  BY <1>11, <1>12, RankedLists
<1> HIDE DEF order
<1>14. /\ ListedIds(Answer(rt, r)) = Ids(listed) /\ Answer(rt, r).selected \in Ids(listed)
       /\ ToSet(order) = Ids(listed)
  <2> DEFINE ids == Ids(listed)
             matched == Applied(rt.rules, pool, f)
             d == Answer(rt, r)
  <2>1. IsFiniteSet(ids) /\ ids # {}
    BY <1>12
  <2>2. Enumerates(order, ids)
    BY <1>13 DEF Enumerates
  <2>3. d = Decision(rt, rejected, matched, total, order)
    BY <1>9
  <2> HIDE DEF ids, matched, d
  <2>4. ListedIds(d) = ids /\ d.selected \in ids /\ ToSet(order) = ids
    BY <2>1, <2>2, <2>3, DecisionLists
  <2> QED
    BY <2>4 DEF ids, d
<1>15. /\ Answer(rt, r).excluded = rejected
       /\ rt.policy = "pareto" => Answer(rt, r).dominated = Ids(rt.catalog) \ (DOMAIN rejected \cup ToSet(order))
  BY <1>9 DEF Decision
<1> QED
  BY <1>3, <1>4, <1>10, <1>14, <1>15 DEF eligible, listed

(* A decision accounts for all models, for every policy.                   *)
LEMMA RouteAccounts ==
    ASSUME NEW rt, Configured(rt), NEW r, LegalRequest(r), Route(rt, r).error = None
    PROVE  AccountsForAll(rt, r, Route(rt, r))
<1> DEFINE d == Answer(rt, r)
           f == Features(r)
           eligible == Considered(rt, r)
           listed == Offered(rt, r)
           rest == Ids(rt.catalog) \ (DOMAIN d.excluded \cup ListedIds(d))
           model(id) == Named(rt.catalog, id)
<1>1. ~Unroutable(rt, r) /\ Route(rt, r) = d
  BY RouteAnswers
<1>2. /\ Catalogued(eligible) /\ ToSet(eligible) # {}
      /\ Catalogued(listed) /\ ToSet(listed) \subseteq ToSet(eligible)
      /\ ListedIds(d) = Ids(listed) /\ d.selected \in Ids(listed)
      /\ DOMAIN d.excluded = Ids(rt.catalog) \ Ids(eligible)
      /\ rt.policy = "pareto" => d.dominated = Ids(rt.catalog) \ (DOMAIN d.excluded \cup Ids(listed))
  <2> HIDE DEF d, eligible, listed
  <2>1. ~Unroutable(rt, r)
    BY <1>1
  <2> QED
    BY <2>1, AnswerLists DEF d, eligible, listed
<1>3. Measured(r, f)
  BY FeaturesTyped
<1>4. /\ rt.policy = "pareto" => listed = ParetoFront(eligible, r, f)
      /\ rt.policy # "pareto" /\ UsesLearned(rt.policy, eligible, rt.learned) =>
            ToSet(listed) = {c \in ToSet(eligible) : c.id \in DOMAIN rt.learned}
      /\ rt.policy # "pareto" /\ ~UsesLearned(rt.policy, eligible, rt.learned) => listed = eligible
  <2>1. listed = Listed(rt.policy, eligible, r, f, rt.learned)
    BY DEF Offered
  <2> HIDE DEF eligible, listed, f
  <2> QED
    BY <1>2, <1>3, <2>1, ListedLists
<1>5. ToSet(eligible) \subseteq ToSet(rt.catalog) /\ Catalogued(rt.catalog)
  <2>1. eligible = Eligible(rt.catalog, r, f, Profile(rt.profiles, r.user)) /\ Catalogued(rt.catalog)
    BY DEF Considered, Configured
  <2> HIDE DEF eligible, f
  <2> QED
    BY <2>1, EligibleLists
<1>6. /\ Ids(rt.catalog) = {c.id : c \in ToSet(rt.catalog)}
      /\ Ids(eligible) = {c.id : c \in ToSet(eligible)}
      /\ Ids(listed) = {c.id : c \in ToSet(listed)}
  BY IdsAre
<1> HIDE DEF d, eligible, listed, f
<1>7. DOMAIN d.excluded \cap ListedIds(d) = {}
  BY <1>2, <1>6
<1>8. rest = Ids(eligible) \ Ids(listed)
  BY <1>2, <1>5, <1>6
<1>9. \A c \in ToSet(rt.catalog) : model(c.id) = c
  BY <1>5, NamedIs
<1> HIDE DEF model
<1>10. ASSUME rt.policy = "pareto"
       PROVE  /\ rest = d.dominated
              /\ \A id \in rest : \E l \in ListedIds(d) : Dominates(model(l), model(id), r, f)
              /\ \A id \in Ids(rt.catalog) \ DOMAIN d.excluded : ~Dominates(model(id), model(d.selected), r, f)
  <2>1. rest = d.dominated
    BY <1>2, <1>10
  <2>2. /\ ToSet(listed) = {c \in ToSet(eligible) : ~\E other \in ToSet(eligible) : Dominates(other, c, r, f)}
        /\ \A c \in ToSet(eligible) \ ToSet(listed) : \E l \in ToSet(listed) : Dominates(l, c, r, f)
    <3>1. listed = ParetoFront(eligible, r, f)
      BY <1>4, <1>10
    <3> QED
      BY <1>2, <1>3, <3>1, FrontCovers
  <2>3. ASSUME NEW id \in rest PROVE \E l \in ListedIds(d) : Dominates(model(l), model(id), r, f)
    <3>1. PICK c \in ToSet(eligible) : c.id = id /\ c \notin ToSet(listed)
      BY <1>6, <1>8, <2>3
    <3>2. PICK l \in ToSet(listed) : Dominates(l, c, r, f)
      BY <2>2, <3>1
    <3>3. model(l.id) = l /\ model(id) = c /\ l.id \in ListedIds(d)
      BY <1>2, <1>5, <1>6, <1>9, <3>1
    <3> QED
      BY <3>2, <3>3
  <2>4. ASSUME NEW id \in Ids(rt.catalog) \ DOMAIN d.excluded PROVE ~Dominates(model(id), model(d.selected), r, f)
    <3>1. PICK c \in ToSet(eligible) : c.id = id
      BY <1>2, <1>6, <2>4
    <3>2. PICK l \in ToSet(listed) : l.id = d.selected
      BY <1>2, <1>6
    <3>3. model(id) = c /\ model(d.selected) = l
      BY <1>2, <1>5, <1>9, <3>1, <3>2
    <3> QED
      BY <2>2, <3>1, <3>2, <3>3
  <2> HIDE DEF rest
  <2> QED
    BY <2>1, <2>3, <2>4
<1>11. ASSUME rt.policy \in {"similarity", "factorization"}
       PROVE  rest \cap DOMAIN rt.learned = {}
  <2>1. CASE UsesLearned(rt.policy, eligible, rt.learned)
    BY <1>4, <1>6, <1>8, <1>11, <2>1
  <2>2. CASE ~UsesLearned(rt.policy, eligible, rt.learned)
    BY <1>4, <1>8, <1>11, <2>2
  <2> QED
    BY <2>1, <2>2
<1>12. ASSUME rt.policy # "pareto", rt.policy \notin {"similarity", "factorization"}
       PROVE  rest = {}
  <2>1. ~UsesLearned(rt.policy, eligible, rt.learned)
    BY <1>12 DEF UsesLearned
  <2> QED
    BY <1>4, <1>8, <1>12, <2>1
<1> HIDE DEF rest
<1>13. CASE rt.policy = "pareto"
  BY <1>1, <1>7, <1>10, <1>13 DEF AccountsForAll, rest, model, f
<1>14. CASE rt.policy \in {"similarity", "factorization"}
  BY <1>1, <1>7, <1>11, <1>14 DEF AccountsForAll, rest, model, f
<1>15. CASE rt.policy # "pareto" /\ rt.policy \notin {"similarity", "factorization"}
  BY <1>1, <1>7, <1>12, <1>15 DEF AccountsForAll, rest, model, f
<1> QED
  BY <1>13, <1>14, <1>15

-----------------------------------------------------------------------------
(* What a router answers depends on which models are listed and pooled,    *)
(* and on nothing else of the catalog.                                     *)

LEMMA LearnedOfSets ==
    ASSUME NEW pool, Catalogued(pool), NEW other, Catalogued(other), ToSet(other) = ToSet(pool),
           NEW policy, NEW learned
    PROVE  UsesLearned(policy, other, learned) <=> UsesLearned(policy, pool, learned)
<1>1. ToSet(Trained(other, learned)) = ToSet(Trained(pool, learned))
  <2>1. ToSet(Trained(pool, learned)) = {c \in ToSet(pool) : c.id \in DOMAIN learned}
    BY TrainedLists
  <2>2. ToSet(Trained(other, learned)) = {c \in ToSet(other) : c.id \in DOMAIN learned}
    BY TrainedLists
  <2> QED
    BY <2>1, <2>2
<1>2. Ids(Trained(other, learned)) = Ids(Trained(pool, learned))
  BY <1>1, IdsAre
<1>3. Learned(other, learned) = Learned(pool, learned)
  BY <1>2 DEF Learned
<1> QED
  BY <1>3 DEF UsesLearned, SimilarityApplies, FactorizationApplies

LEMMA TotalsOfSets ==
    ASSUME NEW rt, NEW again, again.policy = rt.policy, again.learned = rt.learned, again.rules = rt.rules,
           NEW pool, Catalogued(pool), NEW other, Catalogued(other), ToSet(other) = ToSet(pool),
           NEW listed, NEW same, ToSet(same) = ToSet(listed), NEW r, NEW f, NEW p
    PROVE  Totals(again, same, other, r, f, p, Measures(other, r, f, p))
              = Totals(rt, listed, pool, r, f, p, Measures(pool, r, f, p))
<1>1. Ids(other) = Ids(pool) /\ Ids(same) = Ids(listed)
  BY IdsAre
<1>2. Measures(other, r, f, p) = Measures(pool, r, f, p)
  BY DEF Measures
<1>3. \A c : RuleBonus(rt.rules, c, other, f) = RuleBonus(rt.rules, c, pool, f)
  BY <1>1 DEF RuleBonus, Applied
<1>4. \A c, m : ObjectiveTotal(c, other, r, f, p, rt.rules, m) = ObjectiveTotal(c, pool, r, f, p, rt.rules, m)
  BY <1>3 DEF ObjectiveTotal
<1>5. \A id : Named(same, id) = Named(listed, id)
  BY DEF Named
<1>6. UsesLearned(rt.policy, other, rt.learned) <=> UsesLearned(rt.policy, pool, rt.learned)
  BY LearnedOfSets
<1> QED
  BY <1>1, <1>2, <1>4, <1>5, <1>6 DEF Totals

(* Of the models a router pooled, it lists those it listed.                *)
LEMMA ListedAgain ==
    ASSUME NEW policy, NEW learned, NEW r, NEW f, Measured(r, f),
           NEW pool, Catalogued(pool), ToSet(pool) # {},
           NEW listed, listed = Listed(policy, pool, r, f, learned),
           NEW other, Catalogued(other), ToSet(other) # {},
           ToSet(other) = (IF policy = "pareto" THEN ToSet(listed) ELSE ToSet(pool)),
           NEW same, same = Listed(policy, other, r, f, learned)
    PROVE  Catalogued(same) /\ ToSet(same) = ToSet(listed)
<1>1. Catalogued(same)
  BY ListedLists
<1>2. policy = "pareto" => listed = ParetoFront(pool, r, f) /\ same = ParetoFront(other, r, f)
  BY DEF Listed, UsesLearned
<1>3. CASE policy = "pareto"
  <2>1. ToSet(listed) = {c \in ToSet(pool) : ~\E d \in ToSet(pool) : Dominates(d, c, r, f)}
    BY <1>2, <1>3, FrontCovers
  <2>2. ToSet(same) = {c \in ToSet(other) : ~\E d \in ToSet(other) : Dominates(d, c, r, f)}
    BY <1>2, <1>3, FrontCovers
  <2> QED
    BY <1>1, <1>3, <2>1, <2>2
<1>4. CASE policy # "pareto"
  <2>1. ToSet(other) = ToSet(pool)
    BY <1>4
  <2>2. UsesLearned(policy, other, learned) <=> UsesLearned(policy, pool, learned)
    BY <2>1, LearnedOfSets
  <2>3. CASE UsesLearned(policy, pool, learned)
    <3>1. ToSet(listed) = {c \in ToSet(pool) : c.id \in DOMAIN learned}
      BY <1>4, <2>3, ListedLists
    <3>2. ToSet(same) = {c \in ToSet(other) : c.id \in DOMAIN learned}
      BY <1>4, <2>2, <2>3, ListedLists
    <3> QED
      BY <1>1, <2>1, <3>1, <3>2
  <2>4. CASE ~UsesLearned(policy, pool, learned)
    <3>1. listed = pool
      BY <1>4, <2>4, ListedLists
    <3>2. same = other
      BY <1>4, <2>2, <2>4, ListedLists
    <3> QED
      BY <1>1, <2>1, <3>1, <3>2
  <2> QED
    BY <2>3, <2>4
<1> QED
  BY <1>3, <1>4

(* Given only the models that its decision rests on, a router decides the  *)
(* same.                                                                   *)
LEMMA RelistedRoutesAlike ==
    ASSUME NEW rt, Configured(rt), NEW r, LegalRequest(r), Route(rt, r).error = None,
           NEW again, again.policy = rt.policy, again.profiles = rt.profiles, again.rules = rt.rules,
           again.learned = rt.learned,
           again.catalog \in Seq(ToSet(again.catalog)),
           ToSet(again.catalog) = {c \in ToSet(rt.catalog) : c.id \in Kept(rt, Route(rt, r))}
    PROVE  /\ Route(again, r).error = None
           /\ Route(again, r).selected = Route(rt, r).selected
           /\ Route(again, r).alternatives = Route(rt, r).alternatives
           /\ Route(again, r).score = Route(rt, r).score
<1> DEFINE d == Answer(rt, r)
           f == Features(r)
           p == Profile(rt.profiles, r.user)
           eligible == Considered(rt, r)
           listed == Offered(rt, r)
           eligible2 == Considered(again, r)
           listed2 == Offered(again, r)
<1>1. ~Unroutable(rt, r) /\ Route(rt, r) = d
  BY RouteAnswers
<1>2. /\ Catalogued(eligible) /\ ToSet(eligible) # {}
      /\ Catalogued(listed) /\ ToSet(listed) \subseteq ToSet(eligible)
      /\ ListedIds(d) = Ids(listed) /\ d.selected \in Ids(listed)
      /\ DOMAIN d.excluded = Ids(rt.catalog) \ Ids(eligible)
  <2> HIDE DEF d, eligible, listed
  <2>1. ~Unroutable(rt, r)
    BY <1>1
  <2> QED
    BY <2>1, AnswerLists DEF d, eligible, listed
<1>3. Measured(r, f)
  BY FeaturesTyped
<1>4. Catalogued(rt.catalog) /\ ToSet(eligible) = {c \in ToSet(rt.catalog) : Reasons(c, r, f, p) = {}}
  <2>1. eligible = Eligible(rt.catalog, r, f, p) /\ Catalogued(rt.catalog)
    BY DEF Considered, Configured
  <2> HIDE DEF eligible, f, p
  <2> QED
    BY <2>1, EligibleLists
<1>5. Catalogued(again.catalog)
  BY <1>4, SubCatalogued
<1>6. /\ Catalogued(eligible2) /\ ToSet(eligible2) = {c \in ToSet(again.catalog) : Reasons(c, r, f, p) = {}}
      /\ eligible2 # <<>> <=> ToSet(eligible2) # {}
  <2>1. eligible2 = Eligible(again.catalog, r, f, p)
    BY DEF Considered
  <2> HIDE DEF eligible2, f, p
  <2> QED
    BY <1>5, <2>1, EligibleLists
<1>7. listed = Listed(rt.policy, eligible, r, f, rt.learned) /\ listed2 = Listed(rt.policy, eligible2, r, f, rt.learned)
  BY DEF Offered
<1>8. /\ Ids(rt.catalog) = {c.id : c \in ToSet(rt.catalog)}
      /\ Ids(eligible) = {c.id : c \in ToSet(eligible)}
      /\ Ids(listed) = {c.id : c \in ToSet(listed)}
  BY IdsAre
<1>9. ToSet(again.catalog) = {c \in ToSet(rt.catalog) :
                                 c.id \in (IF rt.policy = "pareto" THEN Ids(listed) ELSE Ids(eligible))}
  <2>1. Ids(rt.catalog) \ DOMAIN d.excluded = Ids(eligible)
    BY <1>2, <1>4, <1>8
  <2>2. Kept(rt, Route(rt, r)) = IF rt.policy = "pareto" THEN Ids(listed) ELSE Ids(eligible)
    BY <1>1, <1>2, <2>1 DEF Kept
  <2> QED
    BY <2>2
<1> HIDE DEF d, eligible, listed, eligible2, listed2, f, p
<1>10. ToSet(again.catalog) = IF rt.policy = "pareto" THEN ToSet(listed) ELSE ToSet(eligible)
  <2>1. \A a, b \in ToSet(rt.catalog) : a.id = b.id => a = b
    BY <1>4 DEF Catalogued
  <2>2. ASSUME NEW c \in ToSet(rt.catalog) PROVE c.id \in Ids(listed) <=> c \in ToSet(listed)
    BY <1>2, <1>4, <1>8, <2>1
  <2>3. ASSUME NEW c \in ToSet(rt.catalog) PROVE c.id \in Ids(eligible) <=> c \in ToSet(eligible)
    BY <1>4, <1>8, <2>1
  <2>4. ToSet(listed) \subseteq ToSet(rt.catalog) /\ ToSet(eligible) \subseteq ToSet(rt.catalog)
    BY <1>2, <1>4
  <2> QED
    BY <1>9, <2>2, <2>3, <2>4
<1>11. ToSet(eligible2) = IF rt.policy = "pareto" THEN ToSet(listed) ELSE ToSet(eligible)
  BY <1>2, <1>4, <1>6, <1>10
<1>12. ToSet(eligible2) # {}
  <2>1. ToSet(listed) # {}
    BY <1>2, <1>8
  <2> QED
    BY <1>2, <1>11, <2>1
<1>13. Catalogued(listed2) /\ ToSet(listed2) = ToSet(listed)
  BY <1>2, <1>3, <1>6, <1>7, <1>11, <1>12, ListedAgain
<1>14. /\ Catalogued(Pool(rt, r)) /\ Catalogued(Pool(again, r)) /\ ToSet(Pool(again, r)) = ToSet(Pool(rt, r))
  BY <1>2, <1>6, <1>11, <1>13 DEF Pool, eligible, listed, eligible2, listed2
<1>15. Scores(again, r) = Scores(rt, r)
  <2>1. Scores(rt, r) = Totals(rt, listed, Pool(rt, r), r, f, p, Measures(Pool(rt, r), r, f, p))
    BY DEF Scores, listed, f, p
  <2>2. Scores(again, r) = Totals(again, listed2, Pool(again, r), r, f, p, Measures(Pool(again, r), r, f, p))
    BY DEF Scores, listed2, f, p
  <2> QED
    BY <1>13, <1>14, <2>1, <2>2, TotalsOfSets
<1>16. ~Unroutable(again, r) /\ Route(again, r) = Answer(again, r) /\ Route(again, r).error = None
  <2>1. ~Unroutable(again, r)
    <3>1. Considered(again, r) # <<>>
      BY <1>6, <1>12 DEF eligible2
    <3> QED
      BY <1>1, <3>1 DEF Unroutable
  <2> QED
    BY <2>1, RouteAnswers
<1>17. Ranked(Offered(again, r), Scores(again, r)) = Ranked(Offered(rt, r), Scores(rt, r))
  <2>1. Ids(listed2) = Ids(listed)
    BY <1>13, IdsAre
  <2> QED
    BY <1>15, <2>1 DEF Ranked, listed, listed2
<1>18. /\ Answer(again, r).selected = d.selected
       /\ Answer(again, r).alternatives = d.alternatives
       /\ Answer(again, r).score = d.score
  BY <1>15, <1>17 DEF Answer, Decision, d
<1> QED
  BY <1>1, <1>16, <1>18

(* Of the numbers up to m that are not among gone, one is the i-th.        *)
LEMMA Ranks ==
    ASSUME NEW m \in Nat, NEW gone
    PROVE  /\ IsFiniteSet((1..m) \ gone) /\ Cardinality((1..m) \ gone) \in Nat
           /\ \A n \in (1..m) \ gone : Cardinality((1..n) \ gone) \in 1..Cardinality((1..m) \ gone)
           /\ \A i \in 1..Cardinality((1..m) \ gone) : \E n \in (1..m) \ gone : Cardinality((1..n) \ gone) = i
<1> DEFINE left(n) == (1..n) \ gone
           S == left(m)
           k == Cardinality(S)
           rank == [n \in S |-> Cardinality(left(n))]
<1>1. ASSUME NEW n \in Nat PROVE IsFiniteSet(left(n)) /\ Cardinality(left(n)) \in Nat
  <2>1. IsFiniteSet(1..n)
    BY FS_Interval
  <2>2. left(n) \in SUBSET (1..n)
    OBVIOUS
  <2> HIDE DEF left
  <2> QED
    BY <2>1, <2>2, FS_Subset, FS_CardinalityType
<1>2. \A n \in S : n \in Nat /\ n \in left(n) /\ left(n) \subseteq S
  OBVIOUS
<1>3. ASSUME NEW a \in S, NEW b \in S, a < b PROVE left(a) \subseteq left(b) /\ b \notin left(a)
  BY <1>3
<1> HIDE DEF left, S, k
<1>4. IsFiniteSet(S) /\ k \in Nat
  BY <1>1 DEF S, k
<1>5. ASSUME NEW n \in S PROVE Cardinality(left(n)) \in 1..k
  <2>1. IsFiniteSet(left(n)) /\ Cardinality(left(n)) \in Nat /\ left(n) # {}
    BY <1>1, <1>2
  <2>2. Cardinality(left(n)) # 0
    BY <2>1, FS_EmptySet
  <2>3. Cardinality(left(n)) <= k
    BY <1>2, <1>4, FS_Subset DEF k
  <2> QED
    BY <1>4, <2>1, <2>2, <2>3
<1>6. ASSUME NEW a \in S, NEW b \in S, a < b PROVE Cardinality(left(a)) < Cardinality(left(b))
  <2>1. left(a) \subseteq left(b) /\ left(a) # left(b)
    BY <1>2, <1>3, <1>6
  <2>2. IsFiniteSet(left(b)) /\ Cardinality(left(a)) \in Nat /\ Cardinality(left(b)) \in Nat
    BY <1>1, <1>2
  <2>3. Cardinality(left(a)) <= Cardinality(left(b)) /\ Cardinality(left(a)) # Cardinality(left(b))
    BY <2>1, <2>2, FS_Subset
  <2> QED
    BY <2>2, <2>3
<1>7. rank \in Injection(S, 1..k)
  <2>1. rank \in [S -> 1..k]
    BY <1>5
  <2>2. ASSUME NEW a \in S, NEW b \in S, rank[a] = rank[b] PROVE a = b
    <3>1. Cardinality(left(a)) = Cardinality(left(b)) /\ Cardinality(left(a)) \in Nat
      BY <1>5, <2>2
    <3>2. ~(a < b) /\ ~(b < a)
      BY <1>6, <3>1
    <3> QED
      BY <1>2, <3>2
  <2> HIDE DEF rank
  <2> QED
    BY <2>1, <2>2 DEF Injection, IsInjective
<1>8. rank \in Surjection(S, 1..k)
  <2>1. IsFiniteSet(1..k) /\ Cardinality(1..k) = k
    BY <1>4, FS_Interval
  <2> HIDE DEF rank
  <2> QED
    BY <1>4, <1>7, <2>1, FS_Injection DEF k
<1>9. \A i \in 1..k : \E n \in S : Cardinality(left(n)) = i
  BY <1>8 DEF Surjection
<1> QED
  BY <1>4, <1>5, <1>9 DEF S, k, left

-----------------------------------------------------------------------------
(* The state of a batch.                                                   *)

Done == (1..(index - 1)) \ DOMAIN errors

RoutingInv ==
    /\ router \in [policy : Policies, catalog : RawCatalogs, profiles : RawProfiles, rules : RawRules,
                   learned : LearnedScores]
    /\ Configured(router)
    /\ batch.requests \in Seq(ToSet(batch.requests))
    /\ \A n \in DOMAIN batch.requests : LegalRequest(batch.requests[n])
    /\ index \in 1..(Len(batch.requests) + 1)
    /\ DOMAIN errors \subseteq 1..(index - 1)
    /\ decisions \in Seq({Route(router, batch.requests[n]) : n \in DOMAIN batch.requests})
    /\ Len(decisions) = Cardinality(Done)
    /\ \A n \in Done : /\ Route(router, batch.requests[n]).error = None
                       /\ decisions[Cardinality((1..n) \ DOMAIN errors)] = Route(router, batch.requests[n])
    /\ batch.failFast => errors = <<>>
    /\ raised => batch.failFast

LEMMA BatchStarts == RoutingInit => RoutingInv
<1> SUFFICES ASSUME RoutingInit PROVE RoutingInv
  OBVIOUS
<1>1. /\ router \in [policy : Policies, catalog : RawCatalogs, profiles : RawProfiles, rules : RawRules,
                     learned : LearnedScores]
      /\ LegalCatalog(router.catalog)
      /\ \A u \in DOMAIN router.profiles : LegalProfile(router.profiles[u])
      /\ \A k \in DOMAIN router.rules : LegalRule(router.rules[k])
      /\ LegalLearned(router.policy, router.learned, Ids(router.catalog))
  BY DEF RoutingInit
<1>2. Catalogued(router.catalog)
  <2> DEFINE cs == router.catalog
  <2>1. /\ cs \in Seq(ToSet(cs))
        /\ \A c \in ToSet(cs) : c.id \in Int /\ IsFiniteSet(DOMAIN c.quality)
    BY <1>1, InputsAssumption
  <2>2. /\ \A i \in DOMAIN cs : LegalCandidate(cs[i])
        /\ \A i, j \in DOMAIN cs : cs[i].id = cs[j].id => i = j
    BY <1>1 DEF LegalCatalog
  <2>3. \A c \in ToSet(cs) : \E i \in DOMAIN cs : cs[i] = c
    BY DEF ToSet
  <2> HIDE DEF cs
  <2>4. \A c \in ToSet(cs) : LegalCandidate(c)
    BY <2>2, <2>3
  <2>5. \A a, b \in ToSet(cs) : a.id = b.id => a = b
    BY <2>2, <2>3
  <2> QED
    BY <2>1, <2>4, <2>5 DEF Catalogued, cs
<1>3. Configured(router)
  <2>1. router.rules \in Seq(ToSet(router.rules))
    BY <1>1, InputsAssumption
  <2>2. \A id \in DOMAIN router.learned : router.learned[id] \in Int
    BY <1>1, InputsAssumption
  <2>3. router.policy = "linucb" => Ids(router.catalog) \subseteq DOMAIN router.learned
    BY <1>1 DEF LegalLearned
  <2> QED
    BY <1>1, <1>2, <2>1, <2>2, <2>3 DEF Configured
<1>4. /\ batch.requests \in Seq(ToSet(batch.requests))
      /\ \A n \in DOMAIN batch.requests : LegalRequest(batch.requests[n])
  BY InputsAssumption DEF RoutingInit
<1>5. index = 1 /\ decisions = <<>> /\ errors = <<>> /\ raised = FALSE
  BY DEF RoutingInit
<1>6. index \in 1..(Len(batch.requests) + 1)
  BY <1>4, <1>5
<1>7. DOMAIN errors = {} /\ Done = {}
  BY <1>5 DEF Done
<1>8. Cardinality(Done) = 0 /\ Len(decisions) = 0
  BY <1>5, <1>7, FS_EmptySet
<1>9. decisions \in Seq({Route(router, batch.requests[n]) : n \in DOMAIN batch.requests})
  BY <1>5
<1> QED
  BY <1>1, <1>3, <1>4, <1>5, <1>6, <1>7, <1>8, <1>9 DEF RoutingInv

LEMMA BatchSteps == RoutingInv /\ [RoutingNext]_routingVars => RoutingInv'
<1> SUFFICES ASSUME RoutingInv, [RoutingNext]_routingVars PROVE RoutingInv'
  OBVIOUS
<1> DEFINE answers == {Route(router, batch.requests[n]) : n \in DOMAIN batch.requests}
           rank(n) == Cardinality((1..n) \ DOMAIN errors)
<1>1. CASE UNCHANGED routingVars
  BY <1>1 DEF RoutingInv, Done, routingVars
<1>2. /\ index \in Nat \ {0} /\ index <= Len(batch.requests) + 1 /\ Len(batch.requests) \in Nat
      /\ DOMAIN batch.requests = 1..Len(batch.requests)
      /\ DOMAIN errors \subseteq 1..(index - 1)
      /\ decisions \in Seq(answers) /\ Len(decisions) = Cardinality(Done)
      /\ \A n \in Done : /\ Route(router, batch.requests[n]).error = None
                         /\ decisions[rank(n)] = Route(router, batch.requests[n])
  BY DEF RoutingInv
<1>3. IsFiniteSet(Done) /\ Cardinality(Done) \in Nat /\ \A n \in Done : rank(n) \in 1..Len(decisions)
  <2>1. index - 1 \in Nat
    BY <1>2
  <2> QED
    BY <1>2, <2>1, Ranks DEF Done
<1>4. \A n \in Done : n \in 1..(index - 1) /\ n # index
  BY <1>2 DEF Done
<1>5. CASE RouteOne
  <2>1. /\ index <= Len(batch.requests) /\ Outcome.error = None
        /\ decisions' = Append(decisions, Outcome) /\ index' = index + 1
        /\ UNCHANGED <<router, batch, errors, raised>>
    BY <1>5 DEF RouteOne, Pending
  <2>2. index \in DOMAIN batch.requests /\ Outcome = Route(router, batch.requests[index]) /\ Outcome \in answers
    BY <1>2, <2>1 DEF Outcome
  <2>3. index \notin DOMAIN errors /\ index \notin Done
    BY <1>2, <1>4
  <2>4. Done' = Done \cup {index} /\ (1..index) \ DOMAIN errors = Done \cup {index}
    BY <1>2, <2>1, <2>3 DEF Done
  <2>5. Cardinality(Done \cup {index}) = Cardinality(Done) + 1
    BY <1>3, <2>3, FS_AddElement
  <2> HIDE DEF answers
  <2>6. /\ decisions' \in Seq(answers) /\ Len(decisions') = Cardinality(Done')
        /\ \A i \in 1..Len(decisions) : decisions'[i] = decisions[i]
        /\ decisions'[Len(decisions) + 1] = Outcome
    BY <1>2, <2>1, <2>2, <2>4, <2>5
  <2>7. ASSUME NEW n \in Done'
        PROVE  /\ Route(router, batch.requests[n]).error = None
               /\ decisions'[rank(n)] = Route(router, batch.requests[n])
    <3>1. CASE n \in Done
      BY <1>2, <1>3, <2>6, <3>1
    <3>2. CASE n = index
      <4>1. rank(n) = Len(decisions) + 1
        BY <1>2, <2>4, <2>5, <3>2
      <4> QED
        BY <2>1, <2>2, <2>6, <3>2, <4>1
    <3> QED
      BY <2>4, <2>7, <3>1, <3>2
  <2>8. index' \in 1..(Len(batch.requests) + 1) /\ DOMAIN errors \subseteq 1..(index' - 1)
    BY <1>2, <2>1
  <2> HIDE DEF rank
  <2>9. \A n \in Done' : /\ Route(router, batch.requests[n])'.error = None
                         /\ decisions'[Cardinality((1..n) \ DOMAIN errors')] = Route(router, batch.requests[n])'
    BY <2>1, <2>7 DEF rank
  <2> QED
    BY <2>1, <2>6, <2>8, <2>9 DEF RoutingInv, answers
<1>6. CASE RecordError
  <2>1. /\ index <= Len(batch.requests) /\ ~batch.failFast
        /\ errors' = Filed(index) /\ index' = index + 1
        /\ UNCHANGED <<router, batch, decisions, raised>>
    BY <1>6 DEF RecordError, Pending
  <2>2. DOMAIN errors' = DOMAIN errors \cup {index}
    BY <2>1 DEF Filed
  <2>3. Done' = Done
    BY <1>2, <2>1, <2>2 DEF Done
  <2>4. \A n \in Done : (1..n) \ DOMAIN errors' = (1..n) \ DOMAIN errors
    BY <1>2, <1>4, <2>2
  <2>5. index' \in 1..(Len(batch.requests) + 1) /\ DOMAIN errors' \subseteq 1..(index' - 1)
    BY <1>2, <2>1, <2>2
  <2>6. \A n \in Done' : /\ Route(router, batch.requests[n])'.error = None
                         /\ decisions'[Cardinality((1..n) \ DOMAIN errors')] = Route(router, batch.requests[n])'
    BY <1>2, <2>1, <2>3, <2>4
  <2> HIDE DEF answers
  <2>7. answers' = answers
    BY <2>1 DEF answers
  <2> QED
    BY <1>2, <2>1, <2>3, <2>5, <2>6, <2>7 DEF RoutingInv, answers
<1>7. CASE RaiseError
  <2>1. batch.failFast /\ raised' = TRUE /\ UNCHANGED <<router, batch, index, decisions, errors>>
    BY <1>7 DEF RaiseError
  <2> QED
    BY <2>1 DEF RoutingInv, Done
<1> QED
  BY <1>1, <1>5, <1>6, <1>7 DEF RoutingNext

(* The configuration of a router stands while it routes, and its requests  *)
(* up to index have each a decision, at its rank, or an error.             *)
THEOREM RoutingInvariant == RoutingSpec => []RoutingInv
<1> QED
  BY BatchStarts, BatchSteps, PTL DEF RoutingSpec

(* The request that a decision answers.                                    *)
LEMMA AnsweredIs ==
    ASSUME RoutingInv, NEW i \in DOMAIN decisions
    PROVE  LET r == batch.requests[Answered(i)] IN
           /\ LegalRequest(r)
           /\ Route(router, r).error = None
           /\ decisions[i] = Route(router, r)
<1> DEFINE n == Answered(i)
<1>1. i \in 1..Cardinality(Done) /\ index - 1 \in Nat
  BY DEF RoutingInv
<1>2. \E k \in Done : Cardinality((1..k) \ DOMAIN errors) = i
  <2> DEFINE m == index - 1
             gone == DOMAIN errors
  <2>1. m \in Nat /\ Done = (1..m) \ gone /\ i \in 1..Cardinality((1..m) \ gone)
    BY <1>1 DEF Done
  <2> HIDE DEF m, gone
  <2>2. \A j \in 1..Cardinality((1..m) \ gone) : \E k \in (1..m) \ gone : Cardinality((1..k) \ gone) = j
    BY <2>1, Ranks
  <2> QED
    BY <2>1, <2>2 DEF gone
<1>3. n \in Done /\ Cardinality((1..n) \ DOMAIN errors) = i
  BY <1>2 DEF Answered, Done
<1> HIDE DEF n
<1>4. n \in DOMAIN batch.requests
  BY <1>3 DEF RoutingInv, Done
<1>5. LegalRequest(batch.requests[n])
  BY <1>4 DEF RoutingInv
<1>6. /\ Route(router, batch.requests[n]).error = None
      /\ decisions[i] = Route(router, batch.requests[n])
  BY <1>3 DEF RoutingInv
<1> QED
  BY <1>5, <1>6 DEF n

(* When route_many of routers.py ends, its decisions and errors add up to  *)
(* the requests, each decision answers the request at its place among      *)
(* those that have no error, and what raises keeps no errors.              *)
THEOREM BatchesAccount == RoutingSpec => []BatchAccounts
<1>1. RoutingInv => BatchAccounts
  <2> SUFFICES ASSUME RoutingInv PROVE BatchAccounts
    OBVIOUS
  <2>1. Len(decisions) + Cardinality(DOMAIN errors) = index - 1
    <3> DEFINE all == 1..(index - 1)
    <3>1. index - 1 \in Nat /\ DOMAIN errors \subseteq all /\ Len(decisions) = Cardinality(all \ DOMAIN errors)
      BY DEF RoutingInv, Done
    <3>2. IsFiniteSet(all) /\ Cardinality(all) = index - 1
      BY <3>1, FS_Interval
    <3> HIDE DEF all
    <3>3. IsFiniteSet(DOMAIN errors) /\ Cardinality(DOMAIN errors) \in Nat
      BY <3>1, <3>2, FS_Subset, FS_CardinalityType
    <3>4. Cardinality(all \ DOMAIN errors) = Cardinality(all) - Cardinality(all \cap DOMAIN errors)
      BY <3>2, FS_Difference
    <3>5. all \cap DOMAIN errors = DOMAIN errors
      BY <3>1
    <3> QED
      BY <3>1, <3>2, <3>3, <3>4, <3>5
  <2>2. \A i \in DOMAIN decisions : decisions[i] = Route(router, batch.requests[Answered(i)])
    BY AnsweredIs
  <2>3. raised => errors = <<>>
    BY DEF RoutingInv
  <2> QED
    BY <2>1, <2>2, <2>3 DEF BatchAccounts
<1> QED
  BY <1>1, RoutingInvariant, PTL

(* What route returns accounts for the catalog: a model is rejected or     *)
(* listed, or dominated by a listed one (ParetoRouter), or unknown to what *)
(* was learned (SimilarityRouter, FactorizationRouter).                    *)
THEOREM ModelsAccountedFor == RoutingSpec => []EveryModelAccountedFor
<1>1. RoutingInv => EveryModelAccountedFor
  <2> SUFFICES ASSUME RoutingInv, NEW i \in DOMAIN decisions
               PROVE  AccountsForAll(router, batch.requests[Answered(i)], decisions[i])
    BY DEF EveryModelAccountedFor
  <2> DEFINE r == batch.requests[Answered(i)]
  <2>1. LegalRequest(r) /\ Route(router, r).error = None /\ decisions[i] = Route(router, r)
    BY AnsweredIs
  <2>2. Configured(router)
    BY DEF RoutingInv
  <2> HIDE DEF r
  <2>3. AccountsForAll(router, r, decisions[i])
    BY <2>1, <2>2, RouteAccounts
  <2> QED
    BY <2>3 DEF r
<1> QED
  BY <1>1, RoutingInvariant, PTL

(* Nothing but the models that a decision rests on influences it: neither  *)
(* those that ConstraintEngine.filter rejects, nor those off the front, nor *)
(* the order of the catalog.                                               *)
THEOREM ListedModelsDecide == RoutingSpec => []OnlyTheListedMatter
<1>1. RoutingInv => OnlyTheListedMatter
  <2> SUFFICES ASSUME RoutingInv, NEW i \in DOMAIN decisions,
                      NEW cs \in Listings({c \in ToSet(router.catalog) : c.id \in Kept(router, decisions[i])})
               PROVE  LET d == decisions[i]
                          again == Route([router EXCEPT !.catalog = cs], batch.requests[Answered(i)])
                      IN /\ again.error = None
                         /\ <<again.selected, again.alternatives, again.score>>
                              = <<d.selected, d.alternatives, d.score>>
    BY DEF OnlyTheListedMatter
  <2> DEFINE r == batch.requests[Answered(i)]
             d == decisions[i]
             models == {c \in ToSet(router.catalog) : c.id \in Kept(router, d)}
             other == [router EXCEPT !.catalog = cs]
  <2>1. LegalRequest(r) /\ Route(router, r).error = None /\ d = Route(router, r)
    BY AnsweredIs
  <2>2. Configured(router)
    BY DEF RoutingInv
  <2>3. /\ other.policy = router.policy /\ other.profiles = router.profiles /\ other.rules = router.rules
        /\ other.learned = router.learned /\ other.catalog = cs
    BY DEF RoutingInv
  <2>4. ToSet(cs) = models /\ cs \in [1..Cardinality(models) -> models]
    BY DEF Listings
  <2>5. IsFiniteSet(models)
    <3>1. models \in SUBSET ToSet(router.catalog)
      OBVIOUS
    <3>2. IsFiniteSet(ToSet(router.catalog))
      BY <2>2, ListFinite DEF Configured, Catalogued
    <3> HIDE DEF models
    <3> QED
      BY <3>1, <3>2, FS_Subset
  <2>6. cs \in Seq(ToSet(cs))
    <3> HIDE DEF models
    <3> QED
      BY <2>4, <2>5, FS_CardinalityType
  <2>7. ToSet(other.catalog) = {c \in ToSet(router.catalog) : c.id \in Kept(router, Route(router, r))}
    BY <2>1, <2>3, <2>4
  <2> HIDE DEF r, d, other, models
  <2>8. /\ Route(other, r).error = None
        /\ Route(other, r).selected = Route(router, r).selected
        /\ Route(other, r).alternatives = Route(router, r).alternatives
        /\ Route(other, r).score = Route(router, r).score
    <3>1. other.catalog \in Seq(ToSet(other.catalog))
      BY <2>3, <2>6
    <3> QED
      BY <2>1, <2>2, <2>3, <2>7, <3>1, RelistedRoutesAlike
  <2> QED
    BY <2>1, <2>8 DEF r, d, other
<1> QED
  BY <1>1, RoutingInvariant, PTL

(***************************************************************************)
(* 2. The breaker.                                                         *)
(***************************************************************************)
USE ThresholdAssumption, RecoveryAssumption, TimeAssumption, DropAssumption,
    NoAdmissionAssumption

(* Admissions come from the present epoch or an earlier one.               *)
EpochsGrow ==
    \A c \in Calls : Holds(c) => held[c].epoch <= epoch[held[c].model]

(* The inductive invariant.  EpochsGrow is what makes opening a circuit    *)
(* lapse every admission of its model at once.                             *)
BreakerInv ==
    /\ BreakerTypeOK
    /\ EpochsGrow
    /\ OneProbe
    /\ ProbeIsLive
    /\ TrustedMeansClosed
    /\ ClosedMeansHealthy

(* Shapes of held that the step proofs use.                                *)
LEMMA HeldShape ==
    ASSUME BreakerTypeOK, NEW c \in Calls, Holds(c)
    PROVE  /\ held[c] \in Admissions
           /\ held[c].model \in Models
           /\ held[c].probe \in BOOLEAN
           /\ held[c].epoch \in Nat
BY DEF BreakerTypeOK, Holds, Admissions

(* The initial breaker is well typed.                                      *)
LEMMA InitInv == BreakerInit => BreakerInv
BY DEF BreakerInit, BreakerInv, BreakerTypeOK, EpochsGrow, OneProbe, ProbeIsLive,
       TrustedMeansClosed, ClosedMeansHealthy, Holds, HoldsFor, HoldsProbe, Current, IsOpen

(* Opening a circuit keeps every cell in its range.                        *)
LEMMA OpenTyped ==
    ASSUME BreakerTypeOK, NEW m \in Models, Open(m)
    PROVE  /\ failures' \in [Models -> 0 .. FailureThreshold]
           /\ openUntil' \in [Models -> Nat]
           /\ probeInFlight' \in [Models -> BOOLEAN]
           /\ epoch' \in [Models -> Nat]
BY DEF BreakerTypeOK, Open

(* So does every way a completion can settle a circuit.                    *)
LEMMA SettledTyped ==
    ASSUME BreakerTypeOK, NEW c \in Calls, Holds(c), NEW outcome \in Outcomes,
           Settled(c, outcome)
    PROVE  /\ failures' \in [Models -> 0 .. FailureThreshold]
           /\ openUntil' \in [Models -> Nat]
           /\ probeInFlight' \in [Models -> BOOLEAN]
           /\ epoch' \in [Models -> Nat]
<1> DEFINE m == held[c].model
<1>1. m \in Models
  BY HeldShape
<1>2. CASE UNCHANGED circuit
  BY <1>2 DEF circuit, BreakerTypeOK
<1>3. CASE Open(m)
  BY <1>1, <1>3, OpenTyped
<1>4. CASE Close(m)
  BY <1>1, <1>4 DEF Close, BreakerTypeOK
<1>5. CASE ~Trips(m, outcome) /\ Count(m, outcome)
  BY <1>1, <1>5 DEF Count, Counts, Trips, BreakerTypeOK
<1> QED
  BY <1>2, <1>3, <1>4, <1>5 DEF Settled

(* Every step keeps the breaker's cells in shape.                          *)
LEMMA TypeStep == BreakerTypeOK /\ [BreakerNext]_breakerVars => BreakerTypeOK'
<1> SUFFICES ASSUME BreakerTypeOK, [BreakerNext]_breakerVars
             PROVE  BreakerTypeOK'
  OBVIOUS
<1>1. ASSUME NEW c \in Calls, NEW m \in Models, Enter(c, m) PROVE BreakerTypeOK'
  BY <1>1 DEF BreakerTypeOK, Enter, Admissions, IsOpen
<1>2. ASSUME NEW c \in Calls, NEW outcome \in Outcomes, Finish(c, outcome)
      PROVE  BreakerTypeOK'
  BY <1>2, SettledTyped DEF BreakerTypeOK, Finish
<1>3. ASSUME NEW c \in Calls, Abandon(c) PROVE BreakerTypeOK'
  BY <1>3, HeldShape, OpenTyped DEF BreakerTypeOK, Abandon, circuit
<1>4. ASSUME NEW c \in Calls, Drop(c) PROVE BreakerTypeOK'
  BY <1>4 DEF BreakerTypeOK, Drop
<1>5. CASE Tick
  BY <1>5 DEF BreakerTypeOK, Tick
<1>6. CASE UNCHANGED breakerVars
  BY <1>6 DEF BreakerTypeOK, breakerVars
<1> QED
  BY <1>1, <1>2, <1>3, <1>4, <1>5, <1>6 DEF BreakerNext

(* The breaker's cells keep their shape for ever, and a failure count      *)
(* never passes the threshold.                                             *)
THEOREM TypeCorrect == BreakerSpec => []BreakerTypeOK
<1>1. BreakerInit => BreakerTypeOK
  BY InitInv DEF BreakerInv
<1>2. BreakerTypeOK /\ [BreakerNext]_breakerVars => BreakerTypeOK'
  BY TypeStep
<1> QED
  BY <1>1, <1>2, PTL DEF BreakerSpec
-----------------------------------------------------------------------------
(* The four ways a call's admission can go, each preserving the invariant. *)

Released(c) == held' = [held EXCEPT ![c] = NoAdmission]

(* A neutral release leaves every other admission as it was.               *)
LEMMA ReleaseNeutral ==
    ASSUME BreakerInv, BreakerTypeOK', NEW c \in Calls, Holds(c), Released(c),
           UNCHANGED circuit
    PROVE  BreakerInv'
BY HeldShape
DEF BreakerInv, BreakerTypeOK, EpochsGrow, OneProbe, ProbeIsLive, TrustedMeansClosed,
    ClosedMeansHealthy, Holds, HoldsFor, HoldsProbe, Current, IsOpen, Released, circuit

(* Opening m by a call that was current for it leaves no current admission *)
(* of m: the probes are that call, and the ordinary ones have lapsed.      *)
LEMMA ReleaseOpening ==
    ASSUME BreakerInv, BreakerTypeOK', NEW c \in Calls, Holds(c), Released(c), Current(c),
           held[c].probe \/ ~IsOpen(held[c].model), Open(held[c].model), UNCHANGED now
    PROVE  BreakerInv'
<1> PICK m \in Models : m = held[c].model
  BY HeldShape DEF BreakerInv
<1>0. BreakerTypeOK /\ held[c].probe \in BOOLEAN
  BY HeldShape DEF BreakerInv
<1>1. \A d \in Calls : Holds(d)' => d # c /\ Holds(d) /\ held'[d] = held[d] /\ held[d] \in Admissions
  BY <1>0 DEF Released, Holds, BreakerTypeOK
<1>2. \A d \in Calls : Holds(d)' => held'[d].epoch <= epoch[held'[d].model]
  BY <1>1 DEF BreakerInv, EpochsGrow
<1>3. \A d \in Calls : HoldsProbe(d, m)' => FALSE
  <2> SUFFICES ASSUME NEW d \in Calls, HoldsProbe(d, m)' PROVE FALSE
    OBVIOUS
  <2>1. d # c /\ HoldsProbe(d, m)
    BY <1>1 DEF HoldsProbe, HoldsFor, Holds
  <2>2. IsOpen(m)
    BY <1>0, <2>1 DEF BreakerInv, ProbeIsLive
  <2>3. HoldsProbe(c, m)
    BY <2>2 DEF HoldsProbe, HoldsFor
  <2> QED
    BY <1>0, <2>1, <2>3 DEF BreakerInv, OneProbe
<1>4. /\ \A n \in Models : n # m =>
             /\ failures'[n] = failures[n] /\ openUntil'[n] = openUntil[n]
             /\ probeInFlight'[n] = probeInFlight[n] /\ epoch'[n] = epoch[n]
      /\ openUntil'[m] # 0 /\ epoch'[m] = epoch[m] + 1
  BY <1>0 DEF Open, BreakerTypeOK
<1>5. EpochsGrow'
  BY <1>0, <1>1, <1>2, <1>4 DEF EpochsGrow, Holds, Admissions, BreakerTypeOK
<1>6. \A d \in Calls : HoldsFor(d, m)' => ~Current(d)'
  BY <1>0, <1>1, <1>2, <1>4 DEF HoldsFor, Current, Holds, Admissions, BreakerTypeOK
<1>7. OneProbe' /\ ProbeIsLive'
  BY <1>0, <1>1, <1>3, <1>4
  DEF BreakerInv, OneProbe, ProbeIsLive, HoldsProbe, HoldsFor, Holds, Current, IsOpen
<1>8. TrustedMeansClosed'
  BY <1>0, <1>1, <1>4, <1>6
  DEF BreakerInv, TrustedMeansClosed, HoldsFor, Holds, Current, IsOpen, Admissions
<1>9. ClosedMeansHealthy'
  BY <1>0, <1>4 DEF BreakerInv, ClosedMeansHealthy, IsOpen
<1> QED
  BY <1>5, <1>7, <1>8, <1>9 DEF BreakerInv

(* Only a probe closes a circuit, and while it is open no ordinary         *)
(* admission of its model is current.                                      *)
LEMMA ReleaseClosing ==
    ASSUME BreakerInv, BreakerTypeOK', NEW c \in Calls, Holds(c), Released(c), Current(c),
           held[c].probe, Close(held[c].model), UNCHANGED now
    PROVE  BreakerInv'
<1> PICK m \in Models : m = held[c].model
  BY HeldShape DEF BreakerInv
<1>0. BreakerTypeOK /\ HoldsProbe(c, m)
  BY DEF BreakerInv, HoldsProbe, HoldsFor
<1>1. \A d \in Calls : Holds(d)' => d # c /\ Holds(d) /\ held'[d] = held[d] /\ held[d] \in Admissions
  BY <1>0 DEF Released, Holds, BreakerTypeOK
<1>2. \A d \in Calls : ~HoldsProbe(d, m)'
  BY <1>0, <1>1 DEF BreakerInv, OneProbe, HoldsProbe, HoldsFor, Holds
<1>3. /\ \A n \in Models : n # m =>
             /\ failures'[n] = failures[n] /\ openUntil'[n] = openUntil[n]
             /\ probeInFlight'[n] = probeInFlight[n]
      /\ openUntil'[m] = 0 /\ failures'[m] = 0 /\ ~probeInFlight'[m] /\ epoch' = epoch
  BY <1>0 DEF Close, BreakerTypeOK
<1>4. EpochsGrow' /\ OneProbe' /\ ProbeIsLive'
  BY <1>0, <1>1, <1>2, <1>3
  DEF BreakerInv, EpochsGrow, OneProbe, ProbeIsLive, HoldsProbe, HoldsFor, Holds, Current, IsOpen
<1>5. TrustedMeansClosed' /\ ClosedMeansHealthy'
  BY <1>0, <1>1, <1>3
  DEF BreakerInv, TrustedMeansClosed, ClosedMeansHealthy, Holds, Current, IsOpen, Admissions
<1> QED
  BY <1>4, <1>5 DEF BreakerInv

(* Counting a completion below the threshold keeps the circuit closed.     *)
LEMMA ReleaseCounting ==
    ASSUME BreakerInv, BreakerTypeOK', NEW c \in Calls, Holds(c), Released(c),
           NEW outcome \in Outcomes, ~IsOpen(held[c].model), ~Trips(held[c].model, outcome),
           Count(held[c].model, outcome), UNCHANGED now
    PROVE  BreakerInv'
<1> PICK m \in Models : m = held[c].model
  BY HeldShape DEF BreakerInv
<1>0. BreakerTypeOK
  BY DEF BreakerInv
<1>1. \A n \in Models : ~IsOpen(n) => failures'[n] < FailureThreshold
  BY <1>0 DEF Count, Counts, Trips, BreakerInv, ClosedMeansHealthy, BreakerTypeOK
<1>2. /\ EpochsGrow' /\ OneProbe' /\ ProbeIsLive' /\ TrustedMeansClosed'
  BY <1>0 DEF BreakerInv, BreakerTypeOK, EpochsGrow, OneProbe, ProbeIsLive, TrustedMeansClosed,
    Holds, HoldsFor, HoldsProbe, Current, IsOpen, Released, Count
<1>3. ClosedMeansHealthy'
  BY <1>1 DEF BreakerInv, ClosedMeansHealthy, IsOpen, Count
<1> QED
  BY <1>2, <1>3 DEF BreakerInv
-----------------------------------------------------------------------------
(* The two operations that release an admission preserve the invariant.    *)
LEMMA FinishInv ==
    ASSUME BreakerInv, BreakerTypeOK', NEW c \in Calls, NEW outcome \in Outcomes,
           Finish(c, outcome)
    PROVE  BreakerInv'
<1> DEFINE m == held[c].model
<1>0. Holds(c) /\ Released(c) /\ UNCHANGED now /\ Settled(c, outcome)
  BY DEF Finish, Released
<1>1. CASE UNCHANGED circuit
  BY <1>0, <1>1, ReleaseNeutral
<1>2. CASE Current(c) /\ held[c].probe /\ Open(m)
  BY <1>0, <1>2, ReleaseOpening
<1>3. CASE Current(c) /\ held[c].probe /\ Close(m)
  BY <1>0, <1>3, ReleaseClosing
<1>4. CASE Current(c) /\ ~IsOpen(m) /\ Open(m)
  BY <1>0, <1>4, ReleaseOpening
<1>5. CASE ~IsOpen(m) /\ ~Trips(m, outcome) /\ Count(m, outcome)
  BY <1>0, <1>5, ReleaseCounting
<1> QED
  BY <1>0, <1>1, <1>2, <1>3, <1>4, <1>5 DEF Settled

LEMMA AbandonInv ==
    ASSUME BreakerInv, BreakerTypeOK', NEW c \in Calls, Abandon(c)
    PROVE  BreakerInv'
<1>0. Holds(c) /\ Released(c) /\ UNCHANGED now
  BY DEF Abandon, Released
<1>1. CASE Current(c) /\ held[c].probe /\ Open(held[c].model)
  BY <1>0, <1>1, ReleaseOpening
<1>2. CASE UNCHANGED circuit
  BY <1>0, <1>2, ReleaseNeutral
<1> QED
  BY <1>1, <1>2 DEF Abandon

(* Admitting c for m touches no other call and no other circuit.           *)
LEMMA EnterEffect ==
    ASSUME BreakerTypeOK, NEW c \in Calls, NEW m \in Models, Enter(c, m)
    PROVE  /\ \A d \in Calls : d # c => held'[d] = held[d]
           /\ held'[c] # NoAdmission
           /\ held'[c].model = m /\ held'[c].epoch = epoch[m]
           /\ held'[c].probe <=> openUntil[m] # 0
           /\ UNCHANGED <<now, failures, openUntil, epoch>>
           /\ probeInFlight'[m] = (probeInFlight[m] \/ IsOpen(m))
           /\ \A n \in Models : n # m => probeInFlight'[n] = probeInFlight[n]
<1> DEFINE a == [model |-> m, probe |-> IsOpen(m), epoch |-> epoch[m]]
<1>1. held'[c] = a /\ \A d \in Calls : d # c => held'[d] = held[d]
  BY DEF Enter, BreakerTypeOK
<1>2. a \in Admissions
  BY DEF Admissions, BreakerTypeOK, IsOpen
<1>3. a.model = m /\ a.epoch = epoch[m]
  OBVIOUS
<1>4. a.probe = IsOpen(m)
  OBVIOUS
<1>5. held'[c].probe <=> openUntil[m] # 0
  BY <1>1, <1>4 DEF IsOpen
<1>6. /\ UNCHANGED <<now, failures, openUntil, epoch>>
      /\ probeInFlight'[m] = (probeInFlight[m] \/ IsOpen(m))
      /\ \A n \in Models : n # m => probeInFlight'[n] = probeInFlight[n]
  BY DEF Enter, BreakerTypeOK
<1> QED
  BY <1>1, <1>2, <1>3, <1>5, <1>6

(* Every step of the breaker preserves the invariant.                      *)
LEMMA StepInv == BreakerInv /\ BreakerTypeOK' /\ [BreakerNext]_breakerVars => BreakerInv'
<1> SUFFICES ASSUME BreakerInv, BreakerTypeOK', [BreakerNext]_breakerVars
             PROVE  BreakerInv'
  OBVIOUS
<1>1. ASSUME NEW c \in Calls, NEW m \in Models, Enter(c, m) PROVE BreakerInv'
  <2>0. BreakerTypeOK
    BY DEF BreakerInv
  <2>1. \A d \in Calls : d # c => held'[d] = held[d]
    BY <1>1, <2>0, EnterEffect
  <2>2. /\ held'[c] # NoAdmission
        /\ held'[c].model = m /\ held'[c].epoch = epoch[m]
        /\ held'[c].probe <=> openUntil[m] # 0
    BY <1>1, <2>0, EnterEffect
  <2>3. \A d \in Calls : HoldsProbe(d, m) => ~IsOpen(m)
    BY <1>1 DEF Enter, Refused, BreakerInv, ProbeIsLive
  <2>4. /\ UNCHANGED <<failures, openUntil, epoch>>
        /\ probeInFlight'[m] = (probeInFlight[m] \/ IsOpen(m))
        /\ \A n \in Models : n # m => probeInFlight'[n] = probeInFlight[n]
    BY <1>1, <2>0, EnterEffect
  <2>5. EpochsGrow'
    BY <2>0, <2>1, <2>2, <2>4 DEF BreakerInv, EpochsGrow, Holds, BreakerTypeOK
  <2>6. OneProbe'
    <3> SUFFICES ASSUME NEW n \in Models, NEW d \in Calls, NEW e \in Calls,
                        HoldsProbe(d, n)', HoldsProbe(e, n)'
                 PROVE  d = e
      BY DEF OneProbe
    <3>1. CASE d # c /\ e # c
      BY <2>1, <3>1 DEF BreakerInv, OneProbe, HoldsProbe, HoldsFor, Holds
    <3>2. ASSUME NEW x \in Calls, NEW y \in Calls, x = c, y # c,
                 HoldsProbe(x, n)', HoldsProbe(y, n)'
          PROVE  FALSE
      BY <2>1, <2>2, <2>3, <3>2 DEF BreakerInv, ProbeIsLive, HoldsProbe, HoldsFor, Holds
    <3> QED
      BY <3>1, <3>2
  <2>7. ProbeIsLive'
    <3> SUFFICES ASSUME NEW n \in Models, NEW d \in Calls, HoldsProbe(d, n)'
                 PROVE  (Current(d) /\ IsOpen(n) /\ probeInFlight[n])'
      BY DEF ProbeIsLive
    <3>1. CASE d = c
      <4>1. n = m /\ openUntil[m] # 0 /\ held'[c] # NoAdmission
        BY <2>2, <3>1 DEF HoldsProbe, HoldsFor, Holds
      <4>2. Current(d)'
        BY <2>2, <2>4, <3>1, <4>1 DEF Holds, Current
      <4>3. IsOpen(n)' /\ probeInFlight'[n]
        BY <2>4, <4>1 DEF IsOpen
      <4> QED
        BY <4>2, <4>3
    <3>2. CASE d # c
      BY <2>1, <2>4, <3>2
      DEF BreakerInv, ProbeIsLive, HoldsProbe, HoldsFor, Holds, Current, IsOpen
    <3> QED
      BY <3>1, <3>2
  <2>8. TrustedMeansClosed'
    <3> SUFFICES ASSUME NEW d \in Calls, Current(d)', ~held'[d].probe
                 PROVE  openUntil'[held'[d].model] = 0
      BY DEF TrustedMeansClosed, IsOpen
    <3>1. CASE d = c
      BY <2>2, <2>4, <3>1
    <3>2. CASE d # c
      BY <2>1, <2>4, <3>2 DEF BreakerInv, TrustedMeansClosed, Holds, Current, IsOpen
    <3> QED
      BY <3>1, <3>2
  <2>9. ClosedMeansHealthy'
    BY <2>4 DEF BreakerInv, ClosedMeansHealthy, IsOpen
  <2> QED
    BY <2>5, <2>6, <2>7, <2>8, <2>9 DEF BreakerInv
<1>2. ASSUME NEW c \in Calls, NEW outcome \in Outcomes, Finish(c, outcome) PROVE BreakerInv'
  BY <1>2, FinishInv
<1>3. ASSUME NEW c \in Calls, Abandon(c) PROVE BreakerInv'
  BY <1>3, AbandonInv
<1>4. ASSUME NEW c \in Calls, Drop(c) PROVE BreakerInv'
  BY <1>4, ReleaseNeutral DEF Drop, Released, circuit
<1>5. CASE UNCHANGED <<circuit, held>>
  BY <1>5 DEF BreakerInv, EpochsGrow, OneProbe, ProbeIsLive, TrustedMeansClosed,
              ClosedMeansHealthy, HoldsProbe, HoldsFor, Holds, Current, IsOpen, circuit
<1>6. CASE Tick
  BY <1>5, <1>6 DEF Tick, circuit
<1>7. CASE UNCHANGED breakerVars
  BY <1>5, <1>7 DEF breakerVars, circuit
<1> QED
  BY <1>1, <1>2, <1>3, <1>4, <1>6, <1>7 DEF BreakerNext

(* The inductive invariant holds of every run.                             *)
THEOREM Invariant == BreakerSpec => []BreakerInv
<1>1. BreakerInit => BreakerInv
  BY InitInv
<1>2. BreakerInv /\ BreakerTypeOK' /\ [BreakerNext]_breakerVars => BreakerInv'
  BY StepInv
<1> QED
  BY <1>1, <1>2, TypeCorrect, PTL DEF BreakerSpec

(* At most one half-open probe per model, however many callers race for it.*)
THEOREM AtMostOneProbe == BreakerSpec => []OneProbe
<1>1. BreakerInv => OneProbe
  BY DEF BreakerInv
<1> QED
  BY <1>1, Invariant, PTL

(* The guard "if state.open_until: return True" in finish is dead code: an *)
(* ordinary admission of the present epoch finds its circuit closed.       *)
THEOREM LateBranchIsDead == BreakerSpec => []TrustedMeansClosed
<1>1. BreakerInv => TrustedMeansClosed
  BY DEF BreakerInv
<1> QED
  BY <1>1, Invariant, PTL
-----------------------------------------------------------------------------
(* A call that ends settles its circuit one of these ways.                 *)
LEMMA ReleaseCases ==
    ASSUME BreakerInv, NEW c \in Calls,
           (\E outcome \in Outcomes : Finish(c, outcome)) \/ Abandon(c)
    PROVE  LET m == held[c].model
               outcomes == {o \in Outcomes : ~IsOpen(m) /\ Current(c) /\ ~Trips(m, o)}
           IN  /\ Holds(c) /\ Released(c) /\ UNCHANGED now
               /\ \/ UNCHANGED circuit /\ ~(Current(c) /\ held[c].probe)
                  \/ Current(c) /\ held[c].probe /\ (Open(m) \/ Close(m))
                  \/ Current(c) /\ ~held[c].probe /\ ~IsOpen(m)
                     /\ Open(m) /\ failures[m] + 1 >= FailureThreshold
                  \/ ~held[c].probe /\ \E o \in outcomes : Count(m, o)
<1>0. Holds(c) /\ Released(c) /\ UNCHANGED now
  BY DEF Finish, Abandon, Released
<1>1. CASE Abandon(c)
  BY <1>0, <1>1 DEF Abandon
<1>2. ASSUME NEW outcome \in Outcomes, Finish(c, outcome)
      PROVE  LET m == held[c].model
                 outcomes == {o \in Outcomes : ~IsOpen(m) /\ Current(c) /\ ~Trips(m, o)}
             IN  \/ UNCHANGED circuit /\ ~(Current(c) /\ held[c].probe)
                 \/ Current(c) /\ held[c].probe /\ (Open(m) \/ Close(m))
                 \/ Current(c) /\ ~held[c].probe /\ ~IsOpen(m)
                    /\ Open(m) /\ failures[m] + 1 >= FailureThreshold
                 \/ ~held[c].probe /\ \E o \in outcomes : Count(m, o)
  BY <1>2 DEF Finish, Settled, Trips
<1> QED
  BY <1>0, <1>1, <1>2

(* Without exceptions that unwind a caller, whoever takes the probe slot   *)
(* is there to give it back.                                               *)
LEMMA OwnerStep ==
    ASSUME ~MayDrop, BreakerInv, ProbeHasOwner, [BreakerNext]_breakerVars
    PROVE  ProbeHasOwner'
<1>0. BreakerTypeOK
  BY DEF BreakerInv
<1>1. ASSUME NEW c \in Calls, NEW m \in Models, Enter(c, m) PROVE ProbeHasOwner'
  <2>1. /\ \A d \in Calls : d # c => held'[d] = held[d]
        /\ held'[c].model = m /\ held'[c] # NoAdmission
        /\ held'[c].probe <=> openUntil[m] # 0
    BY <1>0, <1>1, EnterEffect
  <2>2. \A n \in Models : probeInFlight'[n] => probeInFlight[n] \/ (n = m /\ openUntil[m] # 0)
    BY <1>0, <1>1, EnterEffect DEF IsOpen
  <2>3. ~Holds(c)
    BY <1>1 DEF Enter
  <2> QED
    BY <2>1, <2>2, <2>3 DEF ProbeHasOwner, HoldsProbe, HoldsFor, Holds
<1>2. ASSUME NEW c \in Calls, (\E outcome \in Outcomes : Finish(c, outcome)) \/ Abandon(c)
      PROVE  ProbeHasOwner'
  <2> PICK m \in Models : m = held[c].model
    BY <1>0, <1>2, ReleaseCases, HeldShape
  <2>1. Released(c) /\ Holds(c)
    BY <1>2, ReleaseCases
  <2>2. \A d \in Calls : d # c => held'[d] = held[d]
    BY <1>0, <2>1 DEF Released, BreakerTypeOK
  <2>3. /\ \A n \in Models : probeInFlight'[n] => probeInFlight[n]
        /\ HoldsProbe(c, m) => ~probeInFlight'[m]
    <3>1. HoldsProbe(c, m) => Current(c) /\ held[c].probe
      BY DEF BreakerInv, ProbeIsLive, HoldsProbe
    <3>2. CASE UNCHANGED circuit /\ ~(Current(c) /\ held[c].probe)
      BY <3>1, <3>2 DEF circuit
    <3>3. CASE Open(m) \/ Close(m)
      BY <1>0, <3>3 DEF Open, Close, BreakerTypeOK
    <3>4. CASE ~held[c].probe /\ \E o \in Outcomes : Count(m, o)
      BY <3>1, <3>4 DEF Count
    <3>5. \/ UNCHANGED circuit /\ ~(Current(c) /\ held[c].probe)
          \/ Open(m) \/ Close(m)
          \/ ~held[c].probe /\ \E o \in Outcomes : Count(m, o)
      BY <1>2, ReleaseCases
    <3> QED
      BY <3>2, <3>3, <3>4, <3>5
  <2> QED
    BY <2>1, <2>2, <2>3 DEF ProbeHasOwner, HoldsProbe, HoldsFor, Holds
<1>3. CASE UNCHANGED <<probeInFlight, held>>
  BY <1>3 DEF ProbeHasOwner, HoldsProbe, HoldsFor, Holds
<1> QED
  BY <1>1, <1>2, <1>3 DEF BreakerNext, Drop, Tick, breakerVars

(* Where no exception can unwind a caller past finish, a circuit marked as *)
(* being probed always has a caller that will report.                      *)
THEOREM ProbeOwned == ~MayDrop /\ BreakerSpec => []ProbeHasOwner
<1> SUFFICES ASSUME ~MayDrop PROVE BreakerSpec => []ProbeHasOwner
  OBVIOUS
<1>1. BreakerInit => ProbeHasOwner
  BY DEF BreakerInit, ProbeHasOwner
<1>2. BreakerInv /\ ProbeHasOwner /\ [BreakerNext]_breakerVars => ProbeHasOwner'
  BY OwnerStep
<1> QED
  BY <1>1, <1>2, Invariant, PTL DEF BreakerSpec
-----------------------------------------------------------------------------
(* Nothing but the release of the current probe, after the recovery time,  *)
(* closes an open circuit or moves its recovery time.                      *)
LEMMA OnlyProbeMovesStep ==
    ASSUME BreakerInv, [BreakerNext]_breakerVars, NEW m \in Models,
           IsOpen(m), openUntil'[m] # openUntil[m]
    PROVE  \E c \in Calls : HoldsProbe(c, m) /\ held'[c] = NoAdmission
<1>0. BreakerTypeOK
  BY DEF BreakerInv
<1>1. ASSUME NEW c \in Calls, (\E outcome \in Outcomes : Finish(c, outcome)) \/ Abandon(c)
      PROVE  HoldsProbe(c, m) /\ held'[c] = NoAdmission
  <2> PICK n \in Models : n = held[c].model
    BY <1>0, <1>1, ReleaseCases, HeldShape
  <2>1. Holds(c) /\ held'[c] = NoAdmission
    BY <1>0, <1>1, ReleaseCases DEF Released, BreakerTypeOK
  <2>2. CASE Open(n) \/ Close(n)
    <3>1. n = m
      BY <1>0, <2>2 DEF Open, Close, BreakerTypeOK
    <3>2. held[c].probe \/ ~IsOpen(n) \/ openUntil' = openUntil
      BY <1>1, ReleaseCases DEF circuit, Count
    <3> QED
      BY <2>1, <3>1, <3>2 DEF HoldsProbe, HoldsFor
  <2>3. CASE UNCHANGED openUntil
    BY <2>3
  <2> QED
    BY <1>1, <2>2, <2>3, ReleaseCases DEF circuit, Count
<1>2. CASE UNCHANGED openUntil
  BY <1>2
<1> QED
  BY <1>1, <1>2 DEF BreakerNext, Enter, Drop, Tick, breakerVars

(* A probe is admitted only once the recovery time has passed, and from    *)
(* then on the circuit's recovery time stands still until the probe ends.  *)
ProbeAfterRecovery ==
    \A m \in Models : \A c \in Calls : HoldsProbe(c, m) => now >= openUntil[m]

LEMMA ProbeAfterRecoveryStep ==
    ASSUME BreakerInv, ProbeAfterRecovery, [BreakerNext]_breakerVars
    PROVE  ProbeAfterRecovery'
<1> SUFFICES ASSUME NEW m \in Models, NEW c \in Calls, HoldsProbe(c, m)'
             PROVE  now' >= openUntil'[m]
  BY DEF ProbeAfterRecovery
<1>0. BreakerTypeOK
  BY DEF BreakerInv
<1>1. ASSUME NEW d \in Calls, NEW n \in Models, Enter(d, n) PROVE now' >= openUntil'[m]
  <2>1. CASE c = d
    BY <1>0, <1>1, <2>1, EnterEffect
    DEF Enter, Refused, IsOpen, HoldsProbe, HoldsFor, BreakerTypeOK
  <2>2. CASE c # d
    BY <1>0, <1>1, <2>2, EnterEffect DEF ProbeAfterRecovery, HoldsProbe, HoldsFor, Holds
  <2> QED
    BY <2>1, <2>2
<1>2. CASE held'[c] = held[c] /\ now' >= now
  <2>1. HoldsProbe(c, m) /\ held'[c] # NoAdmission
    BY <1>2 DEF HoldsProbe, HoldsFor, Holds
  <2>2. now >= openUntil[m] /\ IsOpen(m)
    BY <2>1 DEF ProbeAfterRecovery, BreakerInv, ProbeIsLive
  <2>3. CASE openUntil'[m] = openUntil[m]
    BY <1>0, <1>2, <2>2, <2>3, TypeStep DEF BreakerTypeOK
  <2>4. CASE openUntil'[m] # openUntil[m]
    <3>1. PICK d \in Calls : HoldsProbe(d, m) /\ held'[d] = NoAdmission
      BY <2>2, <2>4, OnlyProbeMovesStep
    <3> QED
      BY <2>1, <3>1 DEF BreakerInv, OneProbe
  <2> QED
    BY <2>3, <2>4
<1>3. ASSUME NEW d \in Calls, Released(d), UNCHANGED now PROVE now' >= openUntil'[m]
  <2>1. c # d
    BY <1>0, <1>3 DEF Released, BreakerTypeOK, HoldsProbe, HoldsFor, Holds
  <2> QED
    BY <1>0, <1>2, <1>3, <2>1 DEF Released, BreakerTypeOK
<1>4. CASE UNCHANGED held /\ now' >= now
  BY <1>2, <1>4
<1>5. CASE Tick \/ UNCHANGED breakerVars
  BY <1>0, <1>4, <1>5 DEF Tick, breakerVars, BreakerTypeOK
<1> QED
  BY <1>1, <1>3, <1>5 DEF BreakerNext, Finish, Abandon, Drop, Released

(* An open circuit closes, or begins a new recovery period, only when the  *)
(* call that probes it, after its recovery time, reports.                  *)
THEOREM OnlyProbeMoves == BreakerSpec => OnlyProbeMovesOpenCircuit
<1> DEFINE A == \A m \in Models :
                   IsOpen(m) /\ openUntil'[m] # openUntil[m] =>
                       /\ now >= openUntil[m]
                       /\ \E c \in Calls : HoldsProbe(c, m) /\ held'[c] = NoAdmission
<1>1. BreakerInit => ProbeAfterRecovery
  BY DEF BreakerInit, ProbeAfterRecovery, HoldsProbe, HoldsFor, Holds
<1>2. BreakerInv /\ ProbeAfterRecovery /\ [BreakerNext]_breakerVars => ProbeAfterRecovery'
  BY ProbeAfterRecoveryStep
<1>3. BreakerInv /\ ProbeAfterRecovery /\ [BreakerNext]_breakerVars => [A]_breakerVars
  BY OnlyProbeMovesStep DEF ProbeAfterRecovery
<1> QED
  BY <1>1, <1>2, <1>3, Invariant, PTL DEF BreakerSpec, OnlyProbeMovesOpenCircuit

(* A failed or abandoned probe reopens its circuit and a healthy one       *)
(* closes it, where no exception can unwind the prober.                    *)
THEOREM ProbeEnds == ~MayDrop /\ BreakerSpec => ProbeEndSettles
<1> SUFFICES ASSUME ~MayDrop PROVE BreakerSpec => ProbeEndSettles
  OBVIOUS
<1> DEFINE A == \A m \in Models : \A c \in Calls :
                   HoldsProbe(c, m) /\ held'[c] = NoAdmission =>
                       /\ ~probeInFlight'[m]
                       /\ openUntil'[m] \in {0, now + RecoverySeconds}
<1>1. BreakerInv /\ [BreakerNext]_breakerVars => [A]_breakerVars
  <2> SUFFICES ASSUME BreakerInv, BreakerNext, NEW m \in Models, NEW c \in Calls,
                      HoldsProbe(c, m), held'[c] = NoAdmission
               PROVE  ~probeInFlight'[m] /\ openUntil'[m] \in {0, now + RecoverySeconds}
    OBVIOUS
  <2>0. BreakerTypeOK /\ Current(c) /\ held[c].probe /\ held[c].model = m /\ Holds(c)
    BY DEF BreakerInv, ProbeIsLive, HoldsProbe, HoldsFor
  <2>1. ASSUME NEW d \in Calls, NEW n \in Models, Enter(d, n) PROVE FALSE
    BY <2>0, <2>1, EnterEffect DEF Enter, Holds
  <2>2. ASSUME NEW d \in Calls, (\E outcome \in Outcomes : Finish(d, outcome)) \/ Abandon(d)
        PROVE  ~probeInFlight'[m] /\ openUntil'[m] \in {0, now + RecoverySeconds}
    <3>1. Released(d)
      BY <2>2, ReleaseCases
    <3>2. d = c
      BY <2>0, <3>1 DEF Released, BreakerTypeOK, Holds
    <3>3. Open(m) \/ Close(m)
      BY <2>0, <2>2, <3>2, ReleaseCases
    <3> QED
      BY <2>0, <3>3 DEF Open, Close, BreakerTypeOK
  <2>3. CASE Tick
    BY <2>0, <2>3 DEF Tick, Holds
  <2> QED
    BY <2>1, <2>2, <2>3 DEF BreakerNext, Drop
<1> QED
  BY <1>1, Invariant, PTL DEF BreakerSpec, ProbeEndSettles
(***************************************************************************)
(* 3. The breaker of resilience.py implements HalfOpen: its epochs and its *)
(* in-flight flags decide exactly which completions are believed.          *)
(***************************************************************************)

(* The refinement mapping, by name.                                        *)
TrustedOf(m) == {c \in Calls : HoldsFor(c, m) /\ Current(c) /\ ~held[c].probe}
ProbersOf(m) == {c \in Calls : HoldsProbe(c, m) /\ Current(c)}
AbsTrusted   == [m \in Models |-> TrustedOf(m)]
AbsProbers   == [m \in Models |-> ProbersOf(m)]

(* Ending c's admission for m without touching an epoch takes c out of     *)
(* both sets of m and changes no other set.                                *)
LEMMA ReleasedSets ==
    ASSUME BreakerTypeOK, NEW c \in Calls, Holds(c), Released(c), UNCHANGED epoch,
           NEW n \in Models
    PROVE  /\ TrustedOf(n)' = TrustedOf(n) \ {c}
           /\ ProbersOf(n)' = ProbersOf(n) \ {c}
BY DEF Released, BreakerTypeOK, TrustedOf, ProbersOf, HoldsProbe, HoldsFor, Holds, Current

(* In the mapping only the sets of c's own model lose c.                   *)
LEMMA ReleasedMaps ==
    ASSUME BreakerTypeOK, NEW c \in Calls, Holds(c), Released(c), UNCHANGED epoch,
           NEW m \in Models, m = held[c].model
    PROVE  /\ AbsTrusted' = [AbsTrusted EXCEPT ![m] = @ \ {c}]
           /\ AbsProbers' = [AbsProbers EXCEPT ![m] = @ \ {c}]
<1>1. \A n \in Models : n # m => c \notin TrustedOf(n) /\ c \notin ProbersOf(n)
  BY DEF TrustedOf, ProbersOf, HoldsProbe, HoldsFor
<1>2. \A n \in Models : /\ TrustedOf(n)' = TrustedOf(n) \ {c}
                        /\ ProbersOf(n)' = ProbersOf(n) \ {c}
  BY ReleasedSets
<1>3. ASSUME NEW n \in Models, n # m
      PROVE  TrustedOf(n)' = TrustedOf(n) /\ ProbersOf(n)' = ProbersOf(n)
  <2>1. c \notin TrustedOf(n) /\ c \notin ProbersOf(n)
    BY <1>1, <1>3
  <2>2. TrustedOf(n) \ {c} = TrustedOf(n) /\ ProbersOf(n) \ {c} = ProbersOf(n)
    BY <2>1
  <2> QED
    BY <1>2, <2>2
<1> QED
  BY <1>2, <1>3 DEF AbsTrusted, AbsProbers

(* Opening m empties both sets of m and changes no other set.              *)
LEMMA OpenedSets ==
    ASSUME BreakerInv, NEW c \in Calls, Holds(c), Released(c), NEW m \in Models,
           m = held[c].model, Open(m)
    PROVE  /\ AbsTrusted' = [AbsTrusted EXCEPT ![m] = {}]
           /\ AbsProbers' = [AbsProbers EXCEPT ![m] = {}]
<1>0. BreakerTypeOK
  BY DEF BreakerInv
<1>1. /\ epoch'[m] = epoch[m] + 1
      /\ \A n \in Models : n # m => epoch'[n] = epoch[n]
  BY <1>0 DEF Open, BreakerTypeOK
<1>2. \A d \in Calls : held'[d] = IF d = c THEN NoAdmission ELSE held[d]
  BY <1>0 DEF Released, BreakerTypeOK
<1>3. \A d \in Calls : HoldsFor(d, m) => held[d].epoch <= epoch[m] /\ held[d].epoch \in Nat
  BY <1>0, HeldShape DEF BreakerInv, EpochsGrow, HoldsFor
<1>4. TrustedOf(m)' = {} /\ ProbersOf(m)' = {}
  BY <1>0, <1>1, <1>2, <1>3
  DEF TrustedOf, ProbersOf, HoldsProbe, HoldsFor, Holds, Current, BreakerTypeOK
<1>5. ASSUME NEW n \in Models, n # m
      PROVE  TrustedOf(n)' = TrustedOf(n) /\ ProbersOf(n)' = ProbersOf(n)
  BY <1>1, <1>2, <1>5 DEF TrustedOf, ProbersOf, HoldsProbe, HoldsFor, Holds, Current
<1> QED
  BY <1>4, <1>5 DEF AbsTrusted, AbsProbers

(* The initial states correspond.                                          *)
LEMMA InitRefines == BreakerInit => Abstract!Init
BY DEF BreakerInit, Abstract!Init, HoldsProbe, HoldsFor, Holds, Current

(* A release is a report, a withdrawal, or no step at all when the         *)
(* admission had lapsed.                                                   *)
LEMMA ReleaseRefines ==
    ASSUME BreakerInv, NEW c \in Calls,
           (\E outcome \in Outcomes : Finish(c, outcome)) \/ Abandon(c)
    PROVE  [Abstract!Next]_(Abstract!abstractVars)
<1> PICK m \in Models : m = held[c].model
  BY ReleaseCases, HeldShape DEF BreakerInv
<1>0. BreakerTypeOK /\ Holds(c) /\ Released(c) /\ UNCHANGED now
  BY ReleaseCases DEF BreakerInv
<1>1. CASE UNCHANGED circuit /\ ~(Current(c) /\ held[c].probe)
  <2>1. AbsProbers' = AbsProbers
    BY <1>0, <1>1, ReleasedSets DEF AbsProbers, ProbersOf, HoldsProbe, circuit
  <2>2. CASE Current(c)
    <3>1. c \in TrustedOf(m)
      BY <1>0, <1>1, <2>2 DEF TrustedOf, HoldsFor
    <3>2. AbsTrusted' = [AbsTrusted EXCEPT ![m] = @ \ {c}]
      BY <1>0, <1>1, ReleasedMaps DEF circuit
    <3>3. Abstract!Withdraw(c, m)
      BY <1>0, <1>1, <2>1, <3>1, <3>2
      DEF Abstract!Withdraw, AbsTrusted, AbsProbers, TrustedOf, ProbersOf, circuit
    <3> QED
      BY <3>3 DEF Abstract!Next
  <2>3. CASE ~Current(c)
    <3>1. AbsTrusted' = AbsTrusted
      BY <1>0, <1>1, <2>3, ReleasedSets DEF AbsTrusted, TrustedOf, circuit
    <3> QED
      BY <1>0, <1>1, <2>1, <3>1
      DEF Abstract!abstractVars, AbsTrusted, AbsProbers, TrustedOf, ProbersOf, circuit
  <2> QED
    BY <2>2, <2>3
<1>2. CASE Open(m) /\ Current(c)
           /\ (held[c].probe \/ (~held[c].probe /\ failures[m] + 1 >= FailureThreshold))
  <2>1. /\ AbsTrusted' = [AbsTrusted EXCEPT ![m] = {}]
        /\ AbsProbers' = [AbsProbers EXCEPT ![m] = {}]
    BY <1>0, <1>2, OpenedSets
  <2>2. Abstract!Trip(m)
    BY <1>0, <1>2, <2>1
    DEF Abstract!Trip, Open, AbsTrusted, AbsProbers, TrustedOf, ProbersOf
  <2>3. CASE held[c].probe
    <3>1. c \in ProbersOf(m)
      BY <1>0, <1>2, <2>3 DEF ProbersOf, HoldsProbe, HoldsFor
    <3> QED
      BY <2>2, <3>1 DEF Abstract!Next, Abstract!ProberReport, ProbersOf
  <2>4. CASE ~held[c].probe
    <3>1. c \in TrustedOf(m)
      BY <1>0, <1>2, <2>4 DEF TrustedOf, HoldsFor
    <3> QED
      BY <1>2, <2>2, <2>4, <3>1 DEF Abstract!Next, Abstract!TrustedReport, TrustedOf
  <2> QED
    BY <2>3, <2>4
<1>3. CASE Close(m) /\ Current(c) /\ held[c].probe
  <2>1. c \in ProbersOf(m)
    BY <1>0, <1>3 DEF ProbersOf, HoldsProbe, HoldsFor
  <2>2. AbsTrusted' = AbsTrusted
    BY <1>0, <1>3, ReleasedSets DEF AbsTrusted, TrustedOf, Close
  <2>3. AbsProbers' = [AbsProbers EXCEPT ![m] = {}]
    <3>1. ProbersOf(m)' = {}
      BY <1>0, <1>3, <2>1, ReleasedSets
      DEF ProbersOf, HoldsProbe, HoldsFor, Close, BreakerInv, OneProbe
    <3>2. \A n \in Models : n # m => ProbersOf(n)' = ProbersOf(n)
      BY <1>0, <1>3, ReleasedSets DEF ProbersOf, HoldsProbe, HoldsFor, Close
    <3> QED
      BY <3>1, <3>2 DEF AbsProbers
  <2>4. Abstract!ProberReport(c, m)
    BY <1>0, <1>3, <2>1, <2>2, <2>3
    DEF Abstract!ProberReport, Close, AbsTrusted, AbsProbers, TrustedOf, ProbersOf
  <2> QED
    BY <2>4 DEF Abstract!Next
<1>4. ASSUME NEW o \in Outcomes, ~IsOpen(m), Current(c), ~held[c].probe, ~Trips(m, o), Count(m, o)
      PROVE  Abstract!Next
  <2>1. c \in TrustedOf(m)
    BY <1>0, <1>4 DEF TrustedOf, HoldsFor
  <2>2. AbsProbers' = AbsProbers
    BY <1>0, <1>4, ReleasedSets DEF AbsProbers, ProbersOf, HoldsProbe, Count
  <2>3. AbsTrusted' = [AbsTrusted EXCEPT ![m] = @ \ {c}]
    BY <1>0, <1>4, ReleasedMaps DEF Count
  <2>4. \E n \in {0, failures[m], failures[m] + 1} :
            n < FailureThreshold /\ failures' = [failures EXCEPT ![m] = n]
    <3>1. failures[m] < FailureThreshold /\ failures[m] \in Nat
      BY <1>0, <1>4 DEF BreakerInv, ClosedMeansHealthy, BreakerTypeOK
    <3>2. CASE o = "ok"
      <4>1. failures' = [failures EXCEPT ![m] = 0]
        BY <1>4, <3>2 DEF Count
      <4> QED
        BY <4>1, ThresholdAssumption
    <3>3. CASE o # "ok" /\ Counts(o)
      <4>1. failures' = [failures EXCEPT ![m] = failures[m] + 1]
        BY <1>4, <3>3 DEF Count
      <4>2. failures[m] + 1 < FailureThreshold
        BY <1>4, <3>1, <3>3, ThresholdAssumption DEF Trips
      <4> QED
        BY <4>1, <4>2
    <3>4. CASE o # "ok" /\ ~Counts(o)
      <4>1. failures' = [failures EXCEPT ![m] = failures[m]]
        BY <1>4, <3>4 DEF Count
      <4> QED
        BY <3>1, <4>1
    <3> QED
      BY <3>2, <3>3, <3>4
  <2>5. Abstract!TrustedReport(c, m)
    BY <1>0, <1>4, <2>1, <2>2, <2>3, <2>4
    DEF Abstract!TrustedReport, Count, AbsTrusted, AbsProbers, TrustedOf, ProbersOf
  <2> QED
    BY <2>5 DEF Abstract!Next
<1> QED
  BY <1>1, <1>2, <1>3, <1>4, ReleaseCases

(* Every step of the breaker is a step of the promise or leaves it alone.  *)
LEMMA StepRefines ==
    BreakerInv /\ [BreakerNext]_breakerVars => [Abstract!Next]_(Abstract!abstractVars)
<1> SUFFICES ASSUME BreakerInv, [BreakerNext]_breakerVars
             PROVE  [Abstract!Next]_(Abstract!abstractVars)
  OBVIOUS
<1>0. BreakerTypeOK
  BY DEF BreakerInv
<1>1. ASSUME NEW c \in Calls, NEW m \in Models, Enter(c, m) PROVE Abstract!Next
  <2>1. /\ \A d \in Calls : d # c => held'[d] = held[d]
        /\ held'[c] # NoAdmission /\ held'[c].model = m /\ held'[c].epoch = epoch[m]
        /\ held'[c].probe <=> openUntil[m] # 0
        /\ held[c] = NoAdmission
        /\ UNCHANGED <<now, failures, openUntil, epoch>>
    BY <1>0, <1>1, EnterEffect DEF Enter, Holds
  <2>2. CASE ~IsOpen(m)
    <3>1. ~held'[c].probe
      BY <2>1, <2>2 DEF IsOpen
    <3>2. /\ TrustedOf(m)' = TrustedOf(m) \cup {c}
          /\ ProbersOf(m)' = ProbersOf(m)
          /\ \A n \in Models : n # m => /\ TrustedOf(n)' = TrustedOf(n)
                                        /\ ProbersOf(n)' = ProbersOf(n)
      BY <2>1, <3>1 DEF TrustedOf, ProbersOf, HoldsProbe, HoldsFor, Holds, Current
    <3>3. /\ AbsTrusted' = [AbsTrusted EXCEPT ![m] = @ \cup {c}]
          /\ AbsProbers' = AbsProbers
      BY <3>2 DEF AbsTrusted, AbsProbers
    <3>4. Abstract!Trust(c, m)
      BY <2>1, <2>2, <3>3
      DEF Abstract!Trust, Abstract!Closed, AbsTrusted, AbsProbers, TrustedOf, ProbersOf, IsOpen
    <3> QED
      BY <3>4 DEF Abstract!Next
  <2>3. CASE IsOpen(m)
    <3>1. held'[c].probe
      BY <2>1, <2>3 DEF IsOpen
    <3>2. ProbersOf(m) = {} /\ now >= openUntil[m]
      BY <1>0, <1>1, <2>3
      DEF Enter, Refused, BreakerInv, ProbeIsLive, ProbersOf, BreakerTypeOK
    <3>3. /\ ProbersOf(m)' = ProbersOf(m) \cup {c}
          /\ TrustedOf(m)' = TrustedOf(m)
          /\ \A n \in Models : n # m => /\ TrustedOf(n)' = TrustedOf(n)
                                        /\ ProbersOf(n)' = ProbersOf(n)
      BY <2>1, <3>1 DEF TrustedOf, ProbersOf, HoldsProbe, HoldsFor, Holds, Current
    <3>4. /\ AbsProbers' = [AbsProbers EXCEPT ![m] = {c}]
          /\ AbsTrusted' = AbsTrusted
      BY <3>2, <3>3 DEF AbsTrusted, AbsProbers
    <3>5. Abstract!Probe(c, m)
      BY <2>1, <2>3, <3>2, <3>4
      DEF Abstract!Probe, Abstract!Closed, AbsTrusted, AbsProbers, TrustedOf, ProbersOf, IsOpen
    <3> QED
      BY <3>5 DEF Abstract!Next
  <2> QED
    BY <2>2, <2>3
<1>2. ASSUME NEW c \in Calls, (\E outcome \in Outcomes : Finish(c, outcome)) \/ Abandon(c)
      PROVE  [Abstract!Next]_(Abstract!abstractVars)
  BY <1>2, ReleaseRefines
<1>3. ASSUME NEW c \in Calls, Drop(c) PROVE [Abstract!Next]_(Abstract!abstractVars)
  <2> PICK m \in Models : m = held[c].model
    BY <1>0, <1>3, HeldShape DEF Drop
  <2>0. Holds(c) /\ Released(c) /\ UNCHANGED <<circuit, now>> /\ MayDrop
    BY <1>3 DEF Drop, Released, circuit
  <2>1. /\ AbsTrusted' = [AbsTrusted EXCEPT ![m] = @ \ {c}]
        /\ AbsProbers' = [AbsProbers EXCEPT ![m] = @ \ {c}]
    BY <1>0, <2>0, ReleasedMaps DEF circuit
  <2>2. c \notin TrustedOf(m) \/ c \notin ProbersOf(m)
    BY DEF TrustedOf, ProbersOf, HoldsProbe
  <2>6. c \notin ProbersOf(m) => AbsProbers' = AbsProbers
    <3>1. c \notin ProbersOf(m) => ProbersOf(m) \ {c} = ProbersOf(m)
      OBVIOUS
    <3> QED
      BY <2>1, <3>1 DEF AbsProbers
  <2>7. c \notin TrustedOf(m) => AbsTrusted' = AbsTrusted
    <3>1. c \notin TrustedOf(m) => TrustedOf(m) \ {c} = TrustedOf(m)
      OBVIOUS
    <3> QED
      BY <2>1, <3>1 DEF AbsTrusted
  <2>3. CASE c \in TrustedOf(m)
    <3>1. AbsProbers' = AbsProbers
      BY <2>2, <2>3, <2>6
    <3>2. Abstract!Withdraw(c, m)
      BY <2>0, <2>1, <2>3, <3>1
      DEF Abstract!Withdraw, AbsTrusted, AbsProbers, TrustedOf, ProbersOf, circuit
    <3> QED
      BY <3>2 DEF Abstract!Next
  <2>4. CASE c \in ProbersOf(m)
    <3>1. AbsTrusted' = AbsTrusted
      BY <2>2, <2>4, <2>7
    <3>2. ProbersOf(m) \ {c} = {}
      BY <2>4 DEF BreakerInv, OneProbe, ProbersOf, HoldsProbe, HoldsFor
    <3>3. AbsProbers' = [AbsProbers EXCEPT ![m] = {}]
      BY <2>1, <3>2 DEF AbsProbers
    <3>4. Abstract!Withdraw(c, m)
      BY <2>0, <2>4, <3>1, <3>3
      DEF Abstract!Withdraw, AbsTrusted, AbsProbers, TrustedOf, ProbersOf, circuit
    <3> QED
      BY <3>4 DEF Abstract!Next
  <2>5. CASE c \notin TrustedOf(m) /\ c \notin ProbersOf(m)
    <3>1. AbsTrusted' = AbsTrusted /\ AbsProbers' = AbsProbers
      BY <2>5, <2>6, <2>7
    <3> QED
      BY <2>0, <3>1
      DEF Abstract!abstractVars, AbsTrusted, AbsProbers, TrustedOf, ProbersOf, circuit
  <2> QED
    BY <2>3, <2>4, <2>5
<1>4. CASE Tick \/ UNCHANGED breakerVars
  <2>1. UNCHANGED <<failures, openUntil, epoch, held>>
    BY <1>4 DEF Tick, breakerVars
  <2>2. AbsTrusted' = AbsTrusted /\ AbsProbers' = AbsProbers
    BY <2>1 DEF AbsTrusted, AbsProbers, TrustedOf, ProbersOf, HoldsProbe, HoldsFor, Holds, Current
  <2>3. now' = now \/ now' = now + 1
    BY <1>4 DEF Tick, breakerVars
  <2> QED
    BY <2>1, <2>2, <2>3
    DEF Abstract!Next, Abstract!Advance, Abstract!abstractVars,
        AbsTrusted, AbsProbers, TrustedOf, ProbersOf
<1> QED
  BY <1>1, <1>2, <1>3, <1>4 DEF BreakerNext

(* The breaker of resilience.py implements HalfOpen: a completion counts   *)
(* exactly when its call is trusted or is the probe.                       *)
THEOREM Implements == BreakerSpec => AbstractSpec
<1>1. BreakerInit => Abstract!Init
  BY InitRefines
<1>2. BreakerInv /\ [BreakerNext]_breakerVars => [Abstract!Next]_(Abstract!abstractVars)
  BY StepRefines
<1> QED
  BY <1>1, <1>2, Invariant, PTL DEF BreakerSpec, AbstractSpec, Abstract!Spec
(***************************************************************************)
(* 4. The callers of the breaker.                                          *)
(***************************************************************************)

(* What a call that may still send has sent so far: nothing.               *)
NothingSentYet ==
    \A c \in Calls :
        /\ pc[c] \in {"idle", "entering", "connecting", "sleeping"} => sends[c] = 0
        /\ pc[c] \in {"settling", "deciding"} /\ frame[c].safe => sends[c] = 0

(* The inductive invariant.  NothingSentYet carries the certificate of the *)
(* transport from the failed attempt to the next one.                      *)
CallInv ==
    /\ TypeOK
    /\ HeldWhileInside
    /\ NothingSentYet
    /\ NoDuplicateGeneration

LEMMA FrameShape ==
    ASSUME TypeOK, NEW c \in Calls
    PROVE  /\ frame[c] \in Frames
           /\ frame[c].model \in Models /\ frame[c].kind \in Kinds
           /\ frame[c].failure \in Outcomes /\ frame[c].safe \in BOOLEAN
           /\ frame[c].attempt \in Nat \ {0} /\ frame[c].chunks \in Nat
           /\ frame[c].deadline \in Nat
BY DEF TypeOK, Frames

LEMMA NewFrameTyped ==
    ASSUME NEW k \in Kinds, NEW m \in Models, NEW d \in Nat
    PROVE  NewFrame(k, m, d) \in Frames
BY DEF NewFrame, Frames, Outcomes, CountedFailures

LEMMA NoFrameTyped == NoFrame \in Frames
BY ModelsAssumption, NewFrameTyped DEF NoFrame, Kinds

(* What each kind of step does to the breaker is an operation of it.       *)
LEMMA StepOfBreaker ==
    ASSUME TypeOK, [Next]_vars
    PROVE  [BreakerNext]_breakerVars
<1>1. ASSUME NEW c \in Calls, EnterBreaker(c) PROVE BreakerNext
  BY <1>1, FrameShape DEF EnterBreaker, BreakerNext
<1>2. ASSUME NEW c \in Calls, Settle(c) PROVE BreakerNext
  BY <1>2, FrameShape DEF Settle, BreakerNext
<1>3. ASSUME NEW c \in Calls, CleanUp(c) \/ Cancel(c) \/ Unwind(c)
      PROVE  [BreakerNext]_breakerVars
  BY <1>3 DEF CleanUp, Cancel, Unwind, ToCleanUp, BreakerNext
<1>4. CASE Time
  BY <1>4 DEF Time, BreakerNext
<1>5. CASE UNCHANGED breakerVars
  BY <1>5
<1>6. CASE UNCHANGED vars
  BY <1>6 DEF vars, breakerVars
<1>7. ASSUME NEW c \in Calls,
             \/ \E k \in Kinds, m \in Models : Start(c, k, m)
             \/ RefusedEntry(c) \/ ConnectFails(c) \/ PreSendFault(c) \/ SendRequest(c)
             \/ ExchangeFails(c) \/ Respond(c) \/ YieldChunk(c) \/ StreamEnds(c)
             \/ PullChunk(c) \/ CloseStream(c) \/ GiveUp(c) \/ BackOff(c) \/ Wake(c)
      PROVE  UNCHANGED breakerVars
  BY <1>7 DEF CloseStream, Start, RefusedEntry, ConnectFails, PreSendFault, SendRequest, ExchangeFails,
              Respond, YieldChunk, StreamEnds, PullChunk, GiveUp, BackOff, Wake, Fail
<1> QED
  BY <1>1, <1>2, <1>3, <1>4, <1>5, <1>6, <1>7 DEF Next, Progress, Consume

LEMMA FailTyped ==
    ASSUME TypeOK, NEW c \in Calls, NEW f \in Outcomes, NEW s \in BOOLEAN, Fail(c, f, s)
    PROVE  pc' \in [Calls -> Places] /\ frame' \in [Calls -> Frames] /\ UNCHANGED sends
BY DEF Fail, GoTo, TypeOK, Frames, Places, Inside

LEMMA LeaveTyped ==
    ASSUME TypeOK, NEW c \in Calls, Leave(c)
    PROVE  /\ pc' \in [Calls -> Places] /\ frame' \in [Calls -> Frames]
           /\ sends' \in [Calls -> Nat]
BY NoFrameTyped DEF Leave, GoTo, TypeOK, Places, Inside

LEMMA DelayTyped ==
    ASSUME TypeOK, NEW c \in Calls, CanRetry(c)
    PROVE  Delay(c) \in Nat
<1>1. frame[c].attempt \in 1 .. 4
  BY FrameShape, AttemptsAssumption DEF CanRetry
<1>2. Doubling[frame[c].attempt] \in {1, 2, 4, 8}
  BY <1>1 DEF Doubling
<1>3. InitialBackoff * Doubling[frame[c].attempt] \in Nat
  BY <1>2, BackoffAssumption
<1> QED
  BY <1>3, BackoffAssumption DEF Delay

(* Every step keeps the calls in shape.                                    *)
LEMMA CallTypeStep ==
    ASSUME TypeOK, [Next]_vars
    PROVE  TypeOK'
<1>0. BreakerTypeOK'
  BY StepOfBreaker, TypeStep DEF TypeOK
<1> DEFINE Shape == /\ pc \in [Calls -> Places]
                    /\ frame \in [Calls -> Frames]
                    /\ sends \in [Calls -> Nat]
<1>1. ASSUME NEW c \in Calls, NEW k \in Kinds, NEW m \in Models, Start(c, k, m) PROVE Shape'
  <2>1. now + Timeout \in Nat
    BY TimeoutAssumption DEF TypeOK, BreakerTypeOK
  <2> QED
    BY <1>1, <2>1, NewFrameTyped DEF Start, GoTo, TypeOK, Places
<1>2. ASSUME NEW c \in Calls,
             RefusedEntry(c) \/ CleanUp(c) \/ Cancel(c) \/ Unwind(c) \/ GiveUp(c)
      PROVE  Shape'
  <2>1. CASE Leave(c)
    BY <2>1, LeaveTyped
  <2>2. CASE ToCleanUp(c)
    BY <2>2 DEF ToCleanUp, GoTo, TypeOK, Places, Inside
  <2> QED
    BY <1>2, <2>1, <2>2 DEF RefusedEntry, CleanUp, Cancel, Unwind, GiveUp
<1>3. ASSUME NEW c \in Calls,
             \/ ConnectFails(c) \/ PreSendFault(c) \/ ExchangeFails(c)
             \/ Respond(c) \/ StreamEnds(c)
      PROVE  Shape'
  <2>1. \E f \in Outcomes, s \in BOOLEAN : Fail(c, f, s)
    BY <1>3, FailuresAssumption
    DEF ConnectFails, PreSendFault, ExchangeFails, Respond, StreamEnds, Outcomes, CountedFailures
  <2> QED
    BY <2>1, FailTyped DEF TypeOK
<1>4. ASSUME NEW c \in Calls, EnterBreaker(c) \/ SendRequest(c) \/ PullChunk(c) \/ CloseStream(c)
      PROVE  Shape'
  BY <1>4 DEF CloseStream, EnterBreaker, SendRequest, PullChunk, GoTo, TypeOK, Places, Inside
<1>5. ASSUME NEW c \in Calls, YieldChunk(c) PROVE Shape'
  BY <1>5 DEF YieldChunk, GoTo, TypeOK, Frames, Places, Inside
<1>6. ASSUME NEW c \in Calls, Settle(c) PROVE Shape'
  <2>1. CASE Leave(c)
    BY <2>1, LeaveTyped
  <2>2. FinishOpened(c, frame[c].failure) \in BOOLEAN
    BY DEF FinishOpened
  <2>3. CASE GoTo(c, "deciding") /\ UNCHANGED sends
             /\ frame' = [frame EXCEPT ![c].opened = FinishOpened(c, frame[c].failure)]
    <3> PICK b \in BOOLEAN : b = FinishOpened(c, frame[c].failure)
      BY <2>2
    <3>1. frame' = [frame EXCEPT ![c].opened = b]
      BY <2>3
    <3> QED
      BY <2>3, <3>1 DEF GoTo, TypeOK, Frames, Places
  <2> QED
    BY <1>6, <2>1, <2>3 DEF Settle
<1>7. ASSUME NEW c \in Calls, BackOff(c) PROVE Shape'
  <2>1. now + Delay(c) \in Nat
    BY <1>7, DelayTyped DEF BackOff, TypeOK, BreakerTypeOK
  <2> QED
    BY <1>7, <2>1 DEF BackOff, GoTo, TypeOK, Frames, Places
<1>8. ASSUME NEW c \in Calls, Wake(c) PROVE Shape'
  <2>1. CASE Leave(c)
    BY <2>1, LeaveTyped
  <2>2. CASE /\ GoTo(c, "entering") /\ UNCHANGED sends
             /\ frame' = [frame EXCEPT ![c] =
                   [NewFrame(@.kind, @.model, @.deadline) EXCEPT !.attempt = frame[c].attempt + 1]]
    <3> DEFINE f == NewFrame(frame[c].kind, frame[c].model, frame[c].deadline)
    <3>1. f \in Frames
      BY FrameShape, NewFrameTyped
    <3>2. frame[c].attempt + 1 \in Nat \ {0}
      BY FrameShape
    <3>3. [f EXCEPT !.attempt = frame[c].attempt + 1] \in Frames
      BY <3>1, <3>2 DEF Frames
    <3> QED
      BY <2>2, <3>3 DEF GoTo, TypeOK, Places
  <2> QED
    BY <1>8, <2>1, <2>2 DEF Wake
<1>9. ASSUME UNCHANGED callVars PROVE Shape'
  BY <1>9 DEF callVars, TypeOK, Places, Inside
<1>10. Shape'
  BY <1>1, <1>2, <1>3, <1>4, <1>5, <1>6, <1>7, <1>8, <1>9
  DEF Next, Progress, Consume, Time, vars, callVars
<1> QED
  BY <1>0, <1>10 DEF TypeOK
-----------------------------------------------------------------------------
(* The part of the invariant that is about one call.                       *)
CallOK(c) ==
    /\ Holds(c) <=> pc[c] \in Inside
    /\ Holds(c) => held[c].model = frame[c].model
    /\ pc[c] \in {"idle", "entering", "connecting", "sleeping"} => sends[c] = 0
    /\ pc[c] \in {"settling", "deciding"} /\ frame[c].safe => sends[c] = 0
    /\ sends[c] <= 1

LEMMA CallInvIsCallOK == CallInv <=> TypeOK /\ \A c \in Calls : CallOK(c)
BY DEF CallInv, CallOK, HeldWhileInside, NothingSentYet, NoDuplicateGeneration

(* A step of one call leaves the others where they are.                    *)
Aside(c) ==
    \A d \in Calls : d # c =>
        pc'[d] = pc[d] /\ frame'[d] = frame[d] /\ sends'[d] = sends[d] /\ held'[d] = held[d]

LEMMA LeaveOK ==
    ASSUME TypeOK, NEW c \in Calls, CallOK(c), Leave(c),
           \/ Abandon(c) \/ Drop(c) \/ (\E o \in Outcomes : Finish(c, o))
           \/ UNCHANGED breakerVars /\ ~Holds(c)
    PROVE  CallOK(c)' /\ Aside(c)
<1>1. pc'[c] = "idle" /\ sends'[c] = 0 /\ held'[c] = NoAdmission
  BY DEF Leave, GoTo, Abandon, Drop, Finish, breakerVars, Holds, TypeOK, BreakerTypeOK
<1>2. CallOK(c)'
  BY <1>1 DEF CallOK, Holds, Inside
<1>3. Aside(c)
  BY DEF Aside, Leave, GoTo, Abandon, Drop, Finish, breakerVars, TypeOK, BreakerTypeOK
<1> QED
  BY <1>2, <1>3

LEMMA FailOK ==
    ASSUME TypeOK, NEW c \in Calls, CallOK(c), pc[c] \in {"connecting", "waiting"},
           NEW f, NEW s \in BOOLEAN, Fail(c, f, s), s => pc[c] = "connecting"
    PROVE  CallOK(c)' /\ Aside(c)
<1>1. /\ pc'[c] = "settling" /\ frame'[c].safe = s /\ frame'[c].model = frame[c].model
      /\ sends' = sends /\ held' = held
  BY FrameShape DEF Fail, GoTo, breakerVars, TypeOK, Frames
<1>2. Aside(c)
  BY <1>1 DEF Aside, Fail, GoTo, TypeOK
<1>3. CallOK(c)'
  BY <1>1 DEF CallOK, Holds, Inside
<1> QED
  BY <1>2, <1>3

(* Every step of a call keeps its own part and touches no other's.         *)
LEMMA OwnStep ==
    ASSUME TypeOK, NEW c \in Calls, CallOK(c),
           \/ \E k \in Kinds, m \in Models : Start(c, k, m)
           \/ Progress(c) \/ Consume(c) \/ Cancel(c) \/ Unwind(c)
    PROVE  CallOK(c)' /\ Aside(c)
<1>1. ASSUME NEW k \in Kinds, NEW m \in Models, Start(c, k, m) PROVE CallOK(c)' /\ Aside(c)
  BY <1>1 DEF Start, At, GoTo, CallOK, Aside, TypeOK, breakerVars, Holds, Inside
<1>2. CASE EnterBreaker(c)
  <2>1. /\ held'[c] # NoAdmission /\ held'[c].model = frame[c].model
        /\ \A d \in Calls : d # c => held'[d] = held[d]
    BY <1>2, EnterEffect, FrameShape DEF EnterBreaker, TypeOK
  <2> QED
    BY <1>2, <2>1 DEF EnterBreaker, At, GoTo, CallOK, Aside, TypeOK, Holds, Inside
<1>3. CASE RefusedEntry(c) \/ GiveUp(c)
  BY <1>3, LeaveOK DEF RefusedEntry, GiveUp, At, CallOK, Inside
<1>4. CASE ConnectFails(c) \/ PreSendFault(c) \/ ExchangeFails(c) \/ Respond(c) \/ StreamEnds(c)
  BY <1>4, FailOK DEF ConnectFails, PreSendFault, ExchangeFails, Respond, StreamEnds, At
<1>5. CASE SendRequest(c)
  BY <1>5 DEF SendRequest, At, GoTo, CallOK, Aside, TypeOK, breakerVars, Holds, Inside
<1>6. CASE YieldChunk(c)
  <2>1. frame'[c].model = frame[c].model
    BY <1>6, FrameShape DEF YieldChunk, TypeOK, Frames
  <2> QED
    BY <1>6, <2>1 DEF YieldChunk, At, GoTo, CallOK, Aside, TypeOK, breakerVars, Holds, Inside
<1>7. CASE PullChunk(c) \/ CloseStream(c)
  BY <1>7 DEF PullChunk, CloseStream, At, GoTo, CallOK, Aside, TypeOK, breakerVars, Holds, Inside
<1>8. CASE CleanUp(c) \/ Cancel(c) \/ Unwind(c)
  <2>1. CASE pc[c] \in {"connecting", "waiting"} /\ ToCleanUp(c)
    BY <2>1 DEF ToCleanUp, GoTo, CallOK, Aside, TypeOK, breakerVars, Holds, Inside
  <2>2. CASE Leave(c) /\ (Abandon(c) \/ Drop(c))
    BY <2>2, LeaveOK
  <2>3. CASE Leave(c) /\ At(c, "sleeping") /\ UNCHANGED breakerVars
    BY <2>3, LeaveOK DEF At, CallOK, Inside
  <2> QED
    BY <1>8, <2>1, <2>2, <2>3 DEF CleanUp, Cancel, Unwind
<1>9. CASE Settle(c)
  <2>1. frame[c].failure \in Outcomes
    BY FrameShape
  <2>2. CASE Leave(c)
    BY <1>9, <2>1, <2>2, LeaveOK DEF Settle
  <2>3. CASE GoTo(c, "deciding") /\ UNCHANGED sends
             /\ frame' = [frame EXCEPT ![c].opened = FinishOpened(c, frame[c].failure)]
    <3>1. held'[c] = NoAdmission /\ \A d \in Calls : d # c => held'[d] = held[d]
      BY <1>9 DEF Settle, Finish, TypeOK, BreakerTypeOK
    <3>2. frame'[c].safe = frame[c].safe /\ \A d \in Calls : d # c => frame'[d] = frame[d]
      BY <2>3, FrameShape DEF TypeOK, Frames
    <3> QED
      BY <1>9, <2>3, <3>1, <3>2 DEF Settle, At, GoTo, CallOK, Aside, TypeOK, Holds, Inside
  <2> QED
    BY <1>9, <2>2, <2>3 DEF Settle
<1>10. CASE BackOff(c)
  <2>1. frame[c].safe /\ pc[c] = "deciding" /\ sends[c] = 0 /\ ~Holds(c)
    BY <1>10 DEF BackOff, CanRetry, At, CallOK, Inside
  <2> QED
    BY <1>10, <2>1 DEF BackOff, GoTo, CallOK, Aside, TypeOK, breakerVars, Holds, Inside
<1>11. CASE Wake(c)
  <2>1. CASE Leave(c)
    BY <1>11, <2>1, LeaveOK DEF Wake, At, CallOK, Inside
  <2>2. CASE GoTo(c, "entering") /\ UNCHANGED sends
    BY <1>11, <2>2 DEF Wake, At, GoTo, Leave, CallOK, Aside, TypeOK, breakerVars, Holds, Inside
  <2> QED
    BY <1>11, <2>1, <2>2 DEF Wake
<1> QED
  BY <1>1, <1>2, <1>3, <1>4, <1>5, <1>6, <1>7, <1>8, <1>9, <1>10, <1>11 DEF Progress, Consume

LEMMA CallStep == CallInv /\ [Next]_vars => CallInv'
<1> SUFFICES ASSUME CallInv, [Next]_vars PROVE CallInv'
  OBVIOUS
<1>1. TypeOK /\ TypeOK'
  BY CallTypeStep DEF CallInv
<1>2. \A c \in Calls : CallOK(c)
  BY CallInvIsCallOK
<1>3. ASSUME NEW c \in Calls,
             \/ \E k \in Kinds, m \in Models : Start(c, k, m)
             \/ Progress(c) \/ Consume(c) \/ Cancel(c) \/ Unwind(c)
      PROVE  \A d \in Calls : CallOK(d)'
  <2>1. CallOK(c)' /\ Aside(c)
    BY <1>1, <1>2, <1>3, OwnStep
  <2>2. \A d \in Calls : d # c => CallOK(d)'
    BY <1>2, <2>1 DEF Aside, CallOK, Holds
  <2> QED
    BY <2>1, <2>2
<1>4. ASSUME UNCHANGED <<pc, frame, sends, held>> PROVE \A d \in Calls : CallOK(d)'
  BY <1>2, <1>4 DEF CallOK, Holds
<1>5. \A d \in Calls : CallOK(d)'
  BY <1>3, <1>4 DEF Next, Time, Tick, callVars, vars
<1> QED
  BY <1>1, <1>5 DEF CallInv, CallOK, HeldWhileInside, NothingSentYet, NoDuplicateGeneration

LEMMA CallInit == Init => CallInv
<1> SUFFICES ASSUME Init PROVE CallInv
  OBVIOUS
<1>1. TypeOK
  BY InitInv, NoFrameTyped DEF Init, TypeOK, BreakerInv, Places
<1>2. \A c \in Calls : CallOK(c)
  BY DEF Init, BreakerInit, CallOK, Holds, Inside
<1> QED
  BY <1>1, <1>2, CallInvIsCallOK

(* The inductive invariant holds of every run.                             *)
THEOREM CallInvariant == Spec => []CallInv
BY CallInit, CallStep, PTL DEF Spec

(* Calls are always somewhere in the code, with locals of the right shape. *)
THEOREM CallsTypeCorrect == Spec => []TypeOK
<1>1. CallInv => TypeOK
  BY DEF CallInv
<1> QED
  BY <1>1, CallInvariant, PTL

(* Both registries use the breaker only through enter, finish and abandon, *)
(* as the breaker's own specification allows.                              *)
LEMMA CallsUseBreaker == Spec => BreakerSpec
<1>1. Init => BreakerInit
  BY DEF Init
<1>2. CallInv /\ [Next]_vars => [BreakerNext]_breakerVars
  BY StepOfBreaker DEF CallInv
<1> QED
  BY <1>1, <1>2, CallInvariant, PTL DEF Spec, BreakerSpec

(* The request of one call leaves for the provider at most once, whatever  *)
(* fails, however often it is retried and whatever other calls do.         *)
THEOREM NeverSentTwice == Spec => []NoDuplicateGeneration
<1>1. CallInv => NoDuplicateGeneration
  BY DEF CallInv
<1> QED
  BY <1>1, CallInvariant, PTL

(* A call holds its admission exactly from enter to finish or abandon.     *)
THEOREM AdmissionsReturned == Spec => []HeldWhileInside
<1>1. CallInv => HeldWhileInside
  BY DEF CallInv
<1> QED
  BY <1>1, CallInvariant, PTL

(* However the probe of a task, or of a thread that streams, or of one     *)
(* that completes and reports, comes to its end, its circuit is closed or  *)
(* begins a whole new recovery period.                                     *)
THEOREM CallersSettleProbes == Spec => ReportedProbesSettle
<1> DEFINE A == \A c \in Calls : LET m == frame[c].model IN
                   /\ HoldsProbe(c, m) /\ held'[c] = NoAdmission
                   /\ Flavour = "async" \/ frame[c].kind = "stream" \/ At(c, "settling")
                   => ~probeInFlight'[m] /\ openUntil'[m] \in {0, now + RecoverySeconds}
<1>1. CallInv /\ BreakerInv /\ [Next]_vars => [A]_vars
  <2> SUFFICES ASSUME CallInv, BreakerInv, Next, NEW c \in Calls, NEW m \in Models,
                      m = frame[c].model, HoldsProbe(c, m), held'[c] = NoAdmission,
                      Flavour = "async" \/ frame[c].kind = "stream" \/ At(c, "settling")
               PROVE  ~probeInFlight'[m] /\ openUntil'[m] \in {0, now + RecoverySeconds}
    BY FrameShape DEF CallInv
  <2>1. TypeOK /\ BreakerTypeOK /\ CallOK(c) /\ \A d \in Calls : CallOK(d)
    BY CallInvIsCallOK DEF BreakerInv
  <2>2. Current(c) /\ held[c].probe /\ held[c].model = m /\ Holds(c)
    BY DEF BreakerInv, ProbeIsLive, HoldsProbe, HoldsFor
  <2>3. ASSUME (\E o \in Outcomes : Finish(c, o)) \/ Abandon(c)
        PROVE  ~probeInFlight'[m] /\ openUntil'[m] \in {0, now + RecoverySeconds}
    <3>1. Open(m) \/ Close(m)
      BY <2>2, <2>3, ReleaseCases
    <3> QED
      BY <2>1, <3>1 DEF Open, Close, BreakerTypeOK
  <2>4. ~UNCHANGED held
    BY <2>2 DEF Holds
  <2>5. PICK d \in Calls : \/ \E k \in Kinds, n \in Models : Start(d, k, n)
                           \/ Progress(d) \/ Consume(d) \/ Cancel(d) \/ Unwind(d)
    BY <2>4 DEF Next, Time, Tick
  <2>6. d = c
    BY <2>1, <2>2, <2>5, OwnStep DEF Aside, Holds
  <2>7. \/ EnterBreaker(c) \/ Settle(c) \/ CleanUp(c) \/ Cancel(c) \/ Unwind(c)
    BY <2>4, <2>5, <2>6
    DEF Progress, Consume, Start, RefusedEntry, ConnectFails, PreSendFault, SendRequest,
        ExchangeFails, Respond, YieldChunk, StreamEnds, PullChunk, CloseStream, GiveUp, BackOff,
        Wake, Fail, breakerVars
  <2>8. ~EnterBreaker(c)
    BY <2>2 DEF EnterBreaker, Enter
  <2>9. CASE Settle(c)
    BY <2>1, <2>3, <2>9, FrameShape DEF Settle
  <2>10. CASE CleanUp(c) \/ Cancel(c)
    BY <2>3, <2>4, <2>10 DEF CleanUp, Cancel, ToCleanUp, breakerVars
  <2>11. ~Unwind(c)
    BY <2>4, FlavourAssumption DEF Unwind, ToCleanUp, breakerVars, At
  <2> QED
    BY <2>7, <2>8, <2>9, <2>10, <2>11
<1>2. Spec => []BreakerInv
  BY CallsUseBreaker, Invariant, PTL
<1> QED
  BY <1>1, <1>2, CallInvariant, PTL DEF Spec, ReportedProbesSettle

(* No cancellation of a task, wherever it strikes, leaves a circuit marked *)
(* as being probed without a task that will report on it.                  *)
THEOREM TasksOwnTheirProbes == Flavour = "async" /\ Spec => []ProbeHasOwner
<1> SUFFICES ASSUME Flavour = "async" PROVE Spec => []ProbeHasOwner
  OBVIOUS
<1>1. ~MayDrop
  BY UnwindAssumption
<1>2. BreakerSpec => []ProbeHasOwner
  BY <1>1, ProbeOwned
<1> QED
  BY <1>2, CallsUseBreaker, PTL
=============================================================================
