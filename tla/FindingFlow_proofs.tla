------------------------- MODULE FindingFlow_proofs -------------------------
(***************************************************************************)
(* Theorems about FindingFlow, for any findings, votes, chunks and bounds, *)
(* and whatever the models answer.                                         *)
(***************************************************************************)
EXTENDS FindingFlow, Lists_proofs

(* A list without repetition has as many items as its range has members.     *)
LEMMA CountedOnce ==
  ASSUME NEW T, NEW list \in Seq(T), IsInjective(list)
  PROVE  IsFiniteSet(Range(list)) /\ Cardinality(Range(list)) = Len(list) /\ Len(list) \in Nat
<1>1. DOMAIN list = 1 .. Len(list) /\ Len(list) \in Nat
  OBVIOUS
<1>2. IsFiniteSet(1 .. Len(list)) /\ Cardinality(1 .. Len(list)) = Len(list)
  BY <1>1, CountOfInitial
<1>3. list \in Bijection(1 .. Len(list), Range(list))
  BY <1>1 DEF IsInjective, Range, Bijection, Injection, Surjection
<1> QED
  BY <1>1, <1>2, <1>3, FS_Bijection DEF ExistsBijection

-----------------------------------------------------------------------------
(* The operators of the stages.                                              *)

(* The surest of a group is one of it: some member has none that is surer.   *)
LEMMA SurestIs ==
  ASSUME NEW S \in SUBSET Detections, S # {}
  PROVE  Surest(S) \in S
<1>1. IsFiniteSet(S) /\ Confidence \in [Detections -> Int]
  BY FlowAssumption, FS_Subset
<1> QED
  BY <1>1, Greatest DEF Surest

(* The survivors of a vote are detections.                                   *)
LEMMA SurvivorsAre ==
  ASSUME NEW runs, \A r \in DOMAIN runs : runs[r] \in SUBSET Detections, NEW threshold
  PROVE  Survivors(runs, threshold) \in SUBSET Detections
<1> DEFINE S == {d \in UNION Range(runs) : Votes(d, runs) >= threshold}
<1>1. S \in SUBSET Detections
  BY DEF Range
<1> HIDE DEF S
<1>2. \A d \in S : Surest({e \in S : Key(e) = Key(d)}) \in Detections
  <2> TAKE d \in S
  <2> DEFINE G == {e \in S : Key(e) = Key(d)}
  <2>1. G \in SUBSET Detections /\ G # {}
    BY <1>1
  <2> HIDE DEF G
  <2>2. Surest(G) \in Detections
    BY <2>1, SurestIs
  <2> QED
    BY <2>2 DEF G
<1>3. OnePerKey(S) \in SUBSET Detections
  BY <1>2 DEF OnePerKey
<1> QED
  BY <1>3 DEF S, Survivors

(* After the collapse across chunks no finding is there twice.               *)
Once(list) == list \in Seq(Detections) /\ IsInjective(list)

LEMMA CollapseIs ==
  ASSUME NEW list \in Seq(Detections)
  PROVE  Once(Collapse(list))
<1> DEFINE K == {i \in DOMAIN list : \A j \in 1 .. (i - 1) : Key(list[j]) # Key(list[i])}
           first == Picked(list, K)
           group(n) == {d \in Range(list) : Key(d) = Key(first[n])}
<1>1. K \in SUBSET DOMAIN list
  OBVIOUS
<1>2. DOMAIN list = 1 .. Len(list) /\ Len(list) \in Nat
  OBVIOUS
<1>3. ASSUME NEW i \in K, NEW j \in K, Key(list[i]) = Key(list[j])
      PROVE  i = j
  <2>1. i \in Nat /\ j \in Nat /\ i >= 1 /\ j >= 1
    BY <1>2
  <2>2. ~(i < j)
    BY <1>3, <2>1
  <2>3. ~(j < i)
    BY <1>3, <2>1
  <2> QED
    BY <2>1, <2>2, <2>3
<1> HIDE DEF K
<1>4. /\ first \in Seq(Detections) /\ Range(first) = {list[i] : i \in K}
      /\ IsInjective(first)
  BY <1>1, <1>3, PickedIs
<1>5. Collapse(list) = [n \in DOMAIN first |-> Surest(group(n))]
  BY DEF Collapse, K
<1> HIDE DEF first
<1>6. ASSUME NEW n \in DOMAIN first
      PROVE  Surest(group(n)) \in Detections /\ Key(Surest(group(n))) = Key(first[n])
  <2>1. first[n] \in Range(first)
    BY DEF Range
  <2>2. first[n] \in group(n)
    BY <1>1, <1>4, <2>1 DEF Range
  <2>3. group(n) \in SUBSET Detections
    BY DEF Range
  <2>4. Surest(group(n)) \in group(n)
    BY <2>2, <2>3, SurestIs
  <2> QED
    BY <2>3, <2>4
<1> HIDE DEF group
<1>7. \A m, n \in DOMAIN first : Key(first[m]) = Key(first[n]) => m = n
  <2> SUFFICES ASSUME NEW m \in DOMAIN first, NEW n \in DOMAIN first, Key(first[m]) = Key(first[n])
               PROVE  m = n
    OBVIOUS
  <2>1. PICK i \in K : first[m] = list[i]
    BY <1>4 DEF Range
  <2>2. PICK j \in K : first[n] = list[j]
    BY <1>4 DEF Range
  <2>3. first[m] = first[n]
    BY <1>3, <2>1, <2>2
  <2> QED
    BY <1>4, <2>3 DEF IsInjective
<1>8. DOMAIN first = 1 .. Len(first) /\ Len(first) \in Nat
  BY <1>4
<1>9. Collapse(list) \in [1 .. Len(first) -> Detections]
  BY <1>5, <1>6, <1>8
<1>10. Collapse(list) \in Seq(Detections)
  BY <1>8, <1>9, SeqDef
<1>11. IsInjective(Collapse(list))
  BY <1>5, <1>6, <1>7 DEF IsInjective
<1> QED
  BY <1>10, <1>11 DEF Once

-----------------------------------------------------------------------------
(* Deduplication: who stands for whom.                                       *)

(* The greedy choice exists: it does for every beginning of the list, or     *)
(* there would be a first at which it fails.                                 *)
LEMMA StandingIs ==
  ASSUME NEW list \in Seq(Detections)
  PROVE  /\ Standing(list) \in SUBSET DOMAIN list
         /\ \A j \in DOMAIN list :
              j \in Standing(list) <=> \A i \in Standing(list) : i < j => ~Trivial(list[i], list[j])
<1> DEFINE L == Len(list)
           chosen(S, n) ==
             \A j \in 1 .. n : j \in S <=> \A i \in S : i < j => ~Trivial(list[i], list[j])
           fails == {n \in 0 .. L : ~\E S \in SUBSET (1 .. n) : chosen(S, n)}
<1>1. DOMAIN list = 1 .. L /\ L \in Nat
  OBVIOUS
<1>2. SUFFICES fails = {}
  <2>1. L \in 0 .. L
    BY <1>1
  <2>2. \E S \in SUBSET (1 .. L) : chosen(S, L)
    BY <1>2, <2>1
  <2> QED
    BY <1>1, <2>2 DEF Standing
<1>3. SUFFICES ASSUME fails # {} PROVE FALSE
  OBVIOUS
<1>4. fails \in SUBSET Nat
  BY <1>1
<1>5. PICK n \in fails : \A m \in fails : n <= m
  BY <1>3, <1>4, Smallest
<1>6. n # 0
  <2>1. chosen({}, 0) /\ {} \in SUBSET (1 .. 0)
    OBVIOUS
  <2> QED
    BY <1>5, <2>1
<1>7. n \in Nat /\ n - 1 \in 0 .. L /\ n - 1 \in Nat /\ n \in 1 .. n /\ 1 .. n = (1 .. (n - 1)) \cup {n}
  BY <1>1, <1>5, <1>6
<1> HIDE DEF fails
<1>8. n - 1 \notin fails
  BY <1>5, <1>7
<1>9. PICK S \in SUBSET (1 .. (n - 1)) : chosen(S, n - 1)
  BY <1>7, <1>8 DEF fails
<1> DEFINE T == IF \A i \in S : i < n => ~Trivial(list[i], list[n]) THEN S \cup {n} ELSE S
<1>10. T \in SUBSET (1 .. n) /\ \A i \in T : i # n => i \in S
  BY <1>7
<1>11. \A i \in S : i \in Nat /\ i < n /\ i \in T
  BY <1>7
<1>12. n \in T <=> \A i \in S : i < n => ~Trivial(list[i], list[n])
  <2>1. n \notin S
    BY <1>7, <1>11
  <2>2. CASE \A i \in S : i < n => ~Trivial(list[i], list[n])
    BY <2>2, Zenon
  <2>3. CASE ~\A i \in S : i < n => ~Trivial(list[i], list[n])
    BY <2>1, <2>3, Zenon
  <2> QED
    BY <2>2, <2>3
<1> HIDE DEF T
<1>13. ASSUME NEW j \in 1 .. n
       PROVE  j \in T <=> \A i \in T : i < j => ~Trivial(list[i], list[j])
  <2>1. CASE j = n
    BY <1>10, <1>11, <1>12, <2>1
  <2>2. CASE j # n
    <3>1. j \in 1 .. (n - 1) /\ j < n
      BY <1>7, <2>2
    <3>2. j \in S <=> \A i \in S : i < j => ~Trivial(list[i], list[j])
      BY <1>9, <3>1
    <3>3. \A i \in T : i < j => i \in S
      BY <1>7, <1>10, <3>1
    <3> QED
      BY <1>10, <1>11, <2>2, <3>2, <3>3
  <2> QED
    BY <2>1, <2>2
<1>14. chosen(T, n)
  BY <1>13
<1> QED
  BY <1>5, <1>10, <1>14 DEF fails

(* Each goes to itself or to an earlier one.                                 *)
Backward(parent, D) == parent \in [D -> D] /\ \A i \in D : parent[i] <= i

LEMMA ParentsAre ==
  ASSUME NEW list \in Seq(Detections)
  PROVE  Backward(Parents(list), DOMAIN list)
<1> DEFINE S == Standing(list)
           same(j) == {i \in S : i < j /\ Trivial(list[i], list[j])}
           first(j) == CHOOSE i \in same(j) : \A k \in same(j) : i <= k
<1>1. DOMAIN list \in SUBSET Nat
  OBVIOUS
<1>2. /\ S \in SUBSET DOMAIN list
      /\ \A j \in DOMAIN list : j \in S <=> \A i \in S : i < j => ~Trivial(list[i], list[j])
  BY StandingIs
<1>3. Parents(list) = [j \in DOMAIN list |-> IF j \in S THEN j ELSE first(j)]
  BY DEF Parents
<1> HIDE DEF S
<1>4. ASSUME NEW j \in DOMAIN list, j \notin S
      PROVE  first(j) \in DOMAIN list /\ first(j) <= j
  <2>1. same(j) \in SUBSET Nat /\ same(j) # {}
    BY <1>1, <1>2, <1>4
  <2>2. \E i \in same(j) : \A k \in same(j) : i <= k
    BY <2>1, Smallest
  <2>3. first(j) \in same(j)
    BY <2>2
  <2>4. first(j) \in S /\ first(j) < j
    BY <2>3
  <2> QED
    BY <1>1, <1>2, <2>4
<1> HIDE DEF first
<1>5. \A j \in DOMAIN list : Parents(list)[j] \in DOMAIN list /\ Parents(list)[j] <= j
  BY <1>1, <1>3, <1>4
<1> QED
  BY <1>3, <1>5 DEF Backward

LEMMA AnswersAre ==
  ASSUME NEW list \in Seq(Detections), NEW p \in Answers(Parents(list))
  PROVE  Backward(p, DOMAIN list)
<1>1. /\ DOMAIN Parents(list) = DOMAIN list
      /\ \A i \in DOMAIN list : Parents(list)[i] <= i
  BY ParentsAre DEF Backward
<1>2. /\ p \in [DOMAIN list -> DOMAIN list]
      /\ \A i \in DOMAIN list : p[i] <= i \/ p[i] = Parents(list)[i]
  BY <1>1 DEF Answers
<1> QED
  BY <1>1, <1>2 DEF Backward

(* Following the parents ends at one that stands for itself.                 *)
LEMMA RootIs ==
  ASSUME NEW D \in SUBSET Nat, NEW parent, Backward(parent, D), NEW i \in D
  PROVE  RootOf(parent)[i] \in D /\ parent[RootOf(parent)[i]] = RootOf(parent)[i]
<1> DEFINE closed(S) == i \in S /\ (\A k \in S : parent[k] \in S)
           R == {r \in D : \A S \in SUBSET D : closed(S) => r \in S}
<1>1. DOMAIN parent = D /\ parent \in [D -> D] /\ \A k \in D : parent[k] <= k
  BY DEF Backward
<1>2. i \in R
  OBVIOUS
<1>3. \A r \in R : parent[r] \in R
  BY <1>1
<1>4. PICK r \in R : \A k \in R : r <= k
  BY <1>2, Smallest
<1>7. r \in Nat /\ parent[r] \in Nat /\ parent[r] <= r
  BY <1>1
<1> HIDE DEF R
<1>5. parent[r] = r
  BY <1>1, <1>3, <1>4, <1>7
<1>6. RootOf(parent)[i] = CHOOSE x \in D : parent[x] = x /\ \A S \in SUBSET D : closed(S) => x \in S
  BY <1>1 DEF RootOf
<1> QED
  BY <1>4, <1>5, <1>6 DEF R

-----------------------------------------------------------------------------
(* The ranking of stage 8.                                                   *)

Permutes(order, D) == order \in [D -> D] /\ IsInjective(order) /\ Range(order) = D

(* Whatever the model ranks, every finding of the list is ranked once.       *)
LEMMA RankedIs ==
  ASSUME live \in Seq(Detections), NEW answer \in Seq(Nat)
  PROVE  Permutes(Ranked(answer), DOMAIN live)
<1> DEFINE D == DOMAIN live
           K == {i \in DOMAIN answer : answer[i] \in D /\ \A j \in 1 .. (i - 1) : answer[j] # answer[i]}
           V == Valid(answer)
           R == D \ Range(V)
           A == Ascending(R)
           N == Ranked(answer)
<1>1. D = 1 .. Len(live) /\ Len(live) \in Nat /\ D \in SUBSET Nat
  OBVIOUS
<1>2. IsFiniteSet(D) /\ Cardinality(D) = Len(live)
  BY <1>1, CountOfInitial
<1>3. K \in SUBSET DOMAIN answer /\ V = Picked(answer, K)
  BY DEF Valid
<1>4. \A i, j \in K : answer[i] = answer[j] => i = j
  <2> SUFFICES ASSUME NEW i \in K, NEW j \in K, answer[i] = answer[j]
               PROVE  i = j
    OBVIOUS
  <2>1. i \in Nat /\ j \in Nat /\ i >= 1 /\ j >= 1
    OBVIOUS
  <2>2. ~(i < j)
    BY <2>1
  <2>3. ~(j < i)
    BY <2>1
  <2> QED
    BY <2>1, <2>2, <2>3
<1>5. \A i \in K : answer[i] \in D
  OBVIOUS
<1> HIDE DEF K
<1>6. V \in Seq(Nat) /\ Range(V) = {answer[i] : i \in K} /\ IsInjective(V)
  BY <1>3, <1>4, PickedIs
<1>7. Range(V) \in SUBSET D
  BY <1>5, <1>6
<1>8. R \in SUBSET Nat /\ IsFiniteSet(R)
  BY <1>1, <1>2, FS_Subset
<1>9. Numbering(A, R)
  BY <1>8, AscendingIs
<1>10. A \in Seq(R) /\ Len(A) = Cardinality(R) /\ DOMAIN A = 1 .. Len(A) /\ Len(A) \in Nat
  <2> HIDE DEF R, A
  <2> DEFINE c == Cardinality(R)
  <2>1. c \in Nat /\ A \in [1 .. c -> R]
    BY <1>9 DEF Numbering
  <2> HIDE DEF c
  <2>2. A \in Seq(R) /\ Len(A) = c
    BY <2>1, ListOf
  <2>3. DOMAIN A = 1 .. c
    BY <2>1
  <2> QED
    BY <2>1, <2>2, <2>3 DEF c
<1>11. N = V \o A
  BY DEF Ranked
<1>12. DOMAIN V = 1 .. Len(V) /\ Len(V) \in Nat /\ \A n \in 1 .. Len(V) : V[n] \in Range(V)
  BY <1>6 DEF Range
<1>13. \A n \in 1 .. Len(A) : A[n] \in R
  BY <1>10
<1>14. \A m, n \in 1 .. Len(A) : A[m] = A[n] => m = n
  BY <1>9, <1>10 DEF Numbering
<1>15. \A i \in R : \E n \in 1 .. Len(A) : A[n] = i
  BY <1>9, <1>10 DEF Numbering
<1>16. \A i \in Range(V) : \E n \in 1 .. Len(V) : V[n] = i
  BY <1>12 DEF Range
<1>17. R \cap Range(V) = {} /\ R \cup Range(V) = D /\ R \in SUBSET D
  BY <1>7
<1> HIDE DEF R, A, V, D, N
<1> DEFINE T == Len(V) + Len(A)
<1>18. A \in Seq(Nat)
  <2>1. A \in [1 .. Len(A) -> R]
    BY <1>10, LenProperties
  <2>2. A \in [1 .. Len(A) -> Nat]
    BY <1>8, <2>1
  <2> QED
    BY <1>10, <2>2, ListOf
<1>19. /\ N \in Seq(Nat) /\ Len(N) = T /\ T \in Nat
       /\ \A n \in 1 .. T : N[n] = IF n <= Len(V) THEN V[n] ELSE A[n - Len(V)]
  <2>1. /\ V \o A \in Seq(Nat) /\ Len(V \o A) = Len(V) + Len(A)
        /\ \A n \in 1 .. Len(V) + Len(A) : (V \o A)[n] = IF n <= Len(V) THEN V[n] ELSE A[n - Len(V)]
    BY <1>6, <1>18, ConcatProperties
  <2>2. Len(V) + Len(A) \in Nat
    BY <1>10, <1>12
  <2> QED
    BY <1>11, <2>1, <2>2, Zenon
<1>20. DOMAIN N = 1 .. T /\ N = [n \in 1 .. T |-> N[n]]
  BY <1>19
<1>21. ASSUME NEW n \in 1 .. T
       PROVE  \/ n \in 1 .. Len(V) /\ N[n] = V[n] /\ N[n] \in Range(V)
              \/ n - Len(V) \in 1 .. Len(A) /\ N[n] = A[n - Len(V)] /\ N[n] \in R
  BY <1>10, <1>12, <1>13, <1>19
<1>22. ASSUME NEW m \in 1 .. T, NEW n \in 1 .. T, N[m] = N[n]
       PROVE  m = n
  <2>1. m \in Nat /\ n \in Nat
    OBVIOUS
  <2>2. CASE m \in 1 .. Len(V) /\ N[m] = V[m] /\ N[m] \in Range(V)
    <3>1. n \in 1 .. Len(V) /\ N[n] = V[n]
      BY <1>17, <1>21, <1>22, <2>2
    <3> QED
      BY <1>6, <1>12, <1>22, <2>2, <3>1 DEF IsInjective
  <2>3. CASE m - Len(V) \in 1 .. Len(A) /\ N[m] = A[m - Len(V)] /\ N[m] \in R
    <3>1. n - Len(V) \in 1 .. Len(A) /\ N[n] = A[n - Len(V)]
      BY <1>17, <1>21, <1>22, <2>3
    <3>2. m - Len(V) = n - Len(V)
      BY <1>14, <1>22, <2>3, <3>1
    <3> QED
      BY <1>12, <2>1, <3>2
  <2> QED
    BY <1>21, <2>2, <2>3
<1>23. ASSUME NEW i \in D
       PROVE  \E n \in 1 .. T : N[n] = i
  <2>1. CASE i \in Range(V)
    <3>1. PICK n \in 1 .. Len(V) : V[n] = i
      BY <1>16, <2>1
    <3>2. n \in 1 .. T /\ n <= Len(V)
      BY <1>10, <1>12
    <3> QED
      BY <1>19, <3>1, <3>2
  <2>2. CASE i \in R
    <3>1. PICK n \in 1 .. Len(A) : A[n] = i
      BY <1>15, <2>2
    <3>2. n + Len(V) \in 1 .. T /\ ~(n + Len(V) <= Len(V)) /\ (n + Len(V)) - Len(V) = n
      BY <1>10, <1>12
    <3>3. N[n + Len(V)] = i
      BY <1>19, <3>1, <3>2
    <3> QED
      BY <3>2, <3>3
  <2> QED
    BY <1>17, <2>1, <2>2
<1>24. \A n \in 1 .. T : N[n] \in D
  BY <1>7, <1>17, <1>21
<1> HIDE DEF T
<1>25. N \in [1 .. T -> D]
  BY <1>20, <1>24
<1>26. N \in Bijection(1 .. T, D)
  BY <1>20, <1>22, <1>23, <1>25 DEF Bijection, Injection, Surjection, IsInjective
<1>27. T = Len(live)
  <2>1. IsFiniteSet(1 .. T) /\ Cardinality(1 .. T) = T
    BY <1>19, CountOfInitial
  <2> QED
    BY <1>2, <1>26, <2>1, FS_Bijection DEF ExistsBijection
<1>28. N \in [D -> D] /\ DOMAIN N = D
  BY <1>1, <1>20, <1>25, <1>27
<1>29. IsInjective(N)
  BY <1>20, <1>22 DEF IsInjective
<1>30. Range(N) = D
  BY <1>20, <1>23, <1>24 DEF Range
<1> QED
  BY <1>28, <1>29, <1>30 DEF Permutes, N, D

(* Sorting by severity moves every finding and loses none.                   *)
LEMMA SortedIs ==
  ASSUME live \in Seq(Detections), NEW ranked, Permutes(ranked, DOMAIN live)
  PROVE  Permutes(Sorted(ranked), DOMAIN live)
<1> DEFINE D == DOMAIN live
           sev(i) == SeverityOf[live[ranked[i]]]
           before(i, j) == sev(i) < sev(j) \/ (sev(i) = sev(j) /\ i <= j)
           upto == [i \in D |-> {j \in D : before(j, i)}]
           order == Ordered(upto)
<1>1. D = 1 .. Len(live) /\ Len(live) \in Nat /\ D \in SUBSET Nat
  OBVIOUS
<1>2. IsFiniteSet(D) /\ Cardinality(D) = Len(live)
  BY <1>1, CountOfInitial
<1>3. ranked \in [D -> D] /\ DOMAIN ranked = D /\ IsInjective(ranked) /\ Range(ranked) = D
  BY DEF Permutes
<1>4. \A i \in D : sev(i) \in Nat /\ i \in Nat
  <2> TAKE i \in D
  <2>1. ranked[i] \in D
    BY <1>3
  <2>2. live[ranked[i]] \in Detections
    BY <2>1
  <2> QED
    BY <1>1, <2>2, FlowAssumption
<1>5. Sorted(ranked) = [n \in DOMAIN order |-> ranked[order[n]]]
  BY <1>3 DEF Sorted
<1>6. /\ upto \in [D -> SUBSET D]
      /\ \A i, j \in D : j \in upto[i] <=> before(j, i)
  OBVIOUS
<1> DEFINE key == [i \in D |-> sev(i)]
<1>7. key \in [D -> Int] /\ \A i \in D : key[i] = sev(i)
  BY <1>4
<1> HIDE DEF sev, D, upto, key
<1>8. \A i, j \in D : j \in upto[i] <=> key[j] < key[i] \/ (key[j] = key[i] /\ j <= i)
  BY <1>6, <1>7
<1> HIDE DEF before
<1>9. D \in SUBSET Nat
  BY <1>1
<1>10. LinearOrder(upto, D)
  BY <1>6, <1>7, <1>8, <1>9, ByKey
<1>11. Numbering(order, D)
  BY <1>2, <1>10, OrderedIs
<1>12. /\ order \in [D -> D] /\ DOMAIN order = D
       /\ \A m, n \in D : order[m] = order[n] => m = n
       /\ \A i \in D : \E n \in D : order[n] = i
  BY <1>1, <1>2, <1>11 DEF Numbering
<1> HIDE DEF order
<1>13. Sorted(ranked) \in [D -> D] /\ DOMAIN Sorted(ranked) = D /\ \A n \in D : Sorted(ranked)[n] = ranked[order[n]]
  BY <1>3, <1>5, <1>12
<1>14. IsInjective(Sorted(ranked))
  BY <1>3, <1>12, <1>13 DEF IsInjective
<1>15. ASSUME NEW i \in D PROVE i \in Range(Sorted(ranked))
  <2>1. PICK m \in D : ranked[m] = i
    BY <1>3 DEF Range
  <2>2. PICK n \in D : order[n] = m
    BY <1>12
  <2> QED
    BY <1>13, <2>1, <2>2 DEF Range
<1>16. Range(Sorted(ranked)) = D
  BY <1>13, <1>15 DEF Range
<1> QED
  BY <1>13, <1>14, <1>16 DEF Permutes, D

-----------------------------------------------------------------------------
(* The inductive invariant.  The list and the dropped findings share out     *)
(* what stage 4 found; no number is given before stage 7; and each duplicate *)
(* is shown by the finding it refers to.                                     *)
Shared(list, drops) ==
  /\ Once(list)
  /\ \A g, h \in drops : g.of = h.of => g = h
  /\ \A g \in drops : g.of \notin Range(list)
  /\ Range(raw) = Range(list) \cup {g.of : g \in drops}

Unnumbered == \A g \in gone : g.canonical = 0

FlowInv ==
  /\ raw \in Seq(Detections) /\ live \in Seq(Detections)
  /\ gone \subseteq [of : Detections, reason : Reasons, canonical : Nat]
  /\ step = "s4" => gone = {}
  /\ step # "s4" => Once(raw) /\ Shared(live, gone)
  /\ step = "s5" => gone = {}
  /\ step \in {"s5-dedup", "s5-semantic", "s6", "s7"} => Unnumbered
  /\ DuplicatesShown

(* What is dropped is what leaves the list.                                  *)
LEMMA DroppedKeeps ==
  ASSUME NEW list, NEW drops, Shared(list, drops),
         NEW left, Once(left), Range(left) \subseteq Range(list),
         NEW more, {g.of : g \in more} = Range(list) \ Range(left),
         \A g, h \in more : g.of = h.of => g = h
  PROVE  Shared(left, drops \cup more)
<1>1. \A g \in more : g.of \in Range(list) /\ g.of \notin Range(left)
  OBVIOUS
<1>2. \A g \in drops : g.of \notin Range(list)
  BY DEF Shared
<1>3. \A g, h \in drops \cup more : g.of = h.of => g = h
  BY <1>1, <1>2 DEF Shared
<1>4. \A g \in drops \cup more : g.of \notin Range(left)
  BY <1>1, <1>2
<1>5. Range(raw) = Range(left) \cup {g.of : g \in drops \cup more}
  BY DEF Shared
<1> QED
  BY <1>3, <1>4, <1>5, Zenon DEF Shared

(* Sharing out is what Accounted says: the sizes of disjoint parts add up.   *)
LEMMA SharedAccounts ==
  ASSUME Once(raw), Shared(live, gone)
  PROVE  /\ \A d \in Range(raw) : (d \in Range(live)) # (\E g \in gone : g.of = d)
         /\ Cardinality(gone) + Len(live) = Len(raw)
<1> DEFINE G == {g.of : g \in gone}
           f == [g \in gone |-> g.of]
<1>1. /\ IsFiniteSet(Range(raw)) /\ Cardinality(Range(raw)) = Len(raw) /\ Len(raw) \in Nat
      /\ IsFiniteSet(Range(live)) /\ Cardinality(Range(live)) = Len(live) /\ Len(live) \in Nat
  BY CountedOnce DEF Shared, Once
<1>2. Range(raw) = Range(live) \cup G /\ Range(live) \cap G = {}
  BY DEF Shared
<1>3. G \in SUBSET Range(raw)
  BY <1>2
<1>4. f \in Bijection(gone, G)
  BY DEF Shared, Bijection, Injection, Surjection, IsInjective
<1> HIDE DEF G, f
<1>5. IsFiniteSet(G) /\ Cardinality(G) \in Nat
  BY <1>1, <1>3, FS_Subset, FS_CardinalityType
<1>6. f \in Injection(gone, G) /\ f \in Surjection(gone, G)
  BY <1>4 DEF Bijection
<1>7. IsFiniteSet(gone)
  BY <1>5, <1>6, FS_Injection
<1>8. Cardinality(G) = Cardinality(gone)
  BY <1>4, <1>7, FS_Bijection DEF ExistsBijection
<1>9. Cardinality(Range(live) \cap G) = 0
  BY <1>2, FS_EmptySet
<1>10. Cardinality(Range(raw)) = Cardinality(Range(live)) + Cardinality(G) - Cardinality(Range(live) \cap G)
  BY <1>1, <1>2, <1>5, FS_Union
<1>11. Cardinality(gone) + Len(live) = Len(raw)
  BY <1>1, <1>5, <1>8, <1>9, <1>10
<1>12. \A d : d \in G <=> \E g \in gone : g.of = d
  BY DEF G
<1>13. \A d \in Range(raw) : \/ d \in Range(live) /\ ~\E g \in gone : g.of = d
                             \/ d \notin Range(live) /\ \E g \in gone : g.of = d
  BY <1>2, <1>12
<1>14. \A d \in Range(raw) : (d \in Range(live)) # (\E g \in gone : g.of = d)
  BY <1>13, Zenon
<1> QED
  BY <1>11, <1>14, Zenon

LEMMA InvAccounted ==
  ASSUME FlowInv
  PROVE  Accounted
  BY SharedAccounts DEF FlowInv, Accounted

LEMMA DropIs ==
  ASSUME NEW S \in SUBSET Detections, NEW reason \in Reasons
  PROVE  /\ {g.of : g \in Drop(S, reason)} = S
         /\ \A g, h \in Drop(S, reason) : g.of = h.of => g = h
         /\ Drop(S, reason) \subseteq [of : Detections, reason : Reasons, canonical : Nat]
         /\ \A g \in Drop(S, reason) : g.canonical = 0 /\ g.reason = reason
<1>1. \A d \in S : [of |-> d, reason |-> reason, canonical |-> 0].of = d
  OBVIOUS
<1>2. \A g \in Drop(S, reason) : \E d \in S : g = [of |-> d, reason |-> reason, canonical |-> 0]
  BY DEF Drop
<1>3. \A d \in S : [of |-> d, reason |-> reason, canonical |-> 0] \in Drop(S, reason)
  BY DEF Drop
<1>4. {g.of : g \in Drop(S, reason)} = S
  BY <1>1, <1>2, <1>3
<1> QED
  BY <1>1, <1>2, <1>4

-----------------------------------------------------------------------------
(* Deduplication keeps the invariant.                                        *)

(* Before numbers are given a duplicate is shown by a finding that is still  *)
(* in the list, or that was in it until stage 6 refuted it.                  *)
Holders == Range(live) \cup {h.of : h \in {h \in gone : h.reason = "FALSE_POSITIVE"}}

LEMMA UnnumberedShown ==
  ASSUME Unnumbered
  PROVE  DuplicatesShown <=>
           \A g \in gone : g.reason = "DUPLICATE" /\ Apart(g.of) => \E d \in Holders : SiteOf[g.of] \in also[d]
  BY Zenon DEF Unnumbered, DuplicatesShown, Holders

(* The roots are what is left, and the collapsed what is dropped.            *)
LEMMA RootsAre ==
  ASSUME NEW list, Once(list), NEW parent, Backward(parent, DOMAIN list)
  PROVE  /\ Once(Roots(list, parent))
         /\ Range(Roots(list, parent)) = {list[j] : j \in {j \in DOMAIN list : parent[j] = j}}
         /\ Range(Roots(list, parent)) \subseteq Range(list)
<1> DEFINE K == {j \in DOMAIN list : parent[j] = j}
<1>1. K \in SUBSET DOMAIN list /\ list \in Seq(Detections)
  BY DEF Once
<1>2. \A i, j \in K : list[i] = list[j] => i = j
  BY DEF Once, IsInjective
<1>3. Roots(list, parent) = Picked(list, K)
  BY DEF Roots
<1>4. {list[j] : j \in K} \subseteq Range(list)
  BY DEF Range
<1> HIDE DEF K
<1>5. /\ Picked(list, K) \in Seq(Detections) /\ IsInjective(Picked(list, K))
      /\ Range(Picked(list, K)) = {list[i] : i \in K}
  BY <1>1, <1>2, PickedIs
<1> QED
  BY <1>3, <1>4, <1>5 DEF Once, K

(* The duplicates one pass records, each with the number of its root.        *)
Collapsed(parent, number) ==
  {[of |-> live[j], reason |-> "DUPLICATE", canonical |-> number[j]] : j \in {j \in DOMAIN live : parent[j] # j}}

LEMMA CollapsedIs ==
  ASSUME Once(live), NEW parent, Backward(parent, DOMAIN live), NEW number \in [DOMAIN live -> Nat]
  PROVE  /\ {g.of : g \in Collapsed(parent, number)} = Range(live) \ Range(Roots(live, parent))
         /\ \A g, h \in Collapsed(parent, number) : g.of = h.of => g = h
         /\ Collapsed(parent, number) \subseteq [of : Detections, reason : Reasons, canonical : Nat]
<1> DEFINE C == Collapsed(parent, number)
           J == {j \in DOMAIN live : parent[j] # j}
           rec(j) == [of |-> live[j], reason |-> "DUPLICATE", canonical |-> number[j]]
<1>1. \A j \in DOMAIN live : /\ live[j] \in Detections /\ live[j] \in Range(live)
                             /\ rec(j).of = live[j]
                             /\ rec(j) \in [of : Detections, reason : Reasons, canonical : Nat]
  BY DEF Once, Range, Reasons
<1>2. \A i, j \in DOMAIN live : live[i] = live[j] => i = j
  BY DEF Once, IsInjective
<1>3. C = {rec(j) : j \in J}
  BY DEF Collapsed
<1>4. Range(Roots(live, parent)) = {live[j] : j \in {j \in DOMAIN live : parent[j] = j}}
  BY RootsAre
<1>5. \A d \in Range(live) : \E j \in DOMAIN live : d = live[j]
  BY DEF Range
<1> HIDE DEF rec, C
<1>6. ASSUME NEW g \in C
      PROVE  g.of \in Range(live) /\ g.of \notin Range(Roots(live, parent))
  <2>1. PICK j \in J : g = rec(j)
    BY <1>3
  <2> QED
    BY <1>1, <1>2, <1>4, <2>1
<1>7. ASSUME NEW d \in Range(live), d \notin Range(Roots(live, parent))
      PROVE  \E g \in C : g.of = d
  <2>1. PICK j \in DOMAIN live : d = live[j]
    BY <1>5
  <2>2. j \in J
    BY <1>4, <1>7, <2>1
  <2> QED
    BY <1>1, <1>3, <2>1, <2>2
<1>8. {g.of : g \in C} = Range(live) \ Range(Roots(live, parent))
  BY <1>6, <1>7
<1>9. \A g, h \in C : g.of = h.of => g = h
  <2> SUFFICES ASSUME NEW g \in C, NEW h \in C, g.of = h.of PROVE g = h
    OBVIOUS
  <2>1. PICK i \in J : g = rec(i)
    BY <1>3
  <2>2. PICK j \in J : h = rec(j)
    BY <1>3
  <2>3. live[i] = live[j]
    BY <1>1, <2>1, <2>2
  <2> QED
    BY <1>2, <2>1, <2>2, <2>3
<1>10. C \subseteq [of : Detections, reason : Reasons, canonical : Nat]
  BY <1>1, <1>3
<1> QED
  BY <1>8, <1>9, <1>10 DEF C

(* The number of a duplicate is the place of its root in the new list.       *)
Number(parent, numbered) ==
  [j \in DOMAIN live |->
     IF numbered THEN CHOOSE i \in DOMAIN Roots(live, parent) : Roots(live, parent)[i] = live[RootOf(parent)[j]]
     ELSE 0]

LEMMA NumberIs ==
  ASSUME Once(live), NEW parent, Backward(parent, DOMAIN live), NEW numbered \in BOOLEAN
  PROVE  /\ Number(parent, numbered) \in [DOMAIN live -> Nat]
         /\ ~numbered => \A j \in DOMAIN live : Number(parent, numbered)[j] = 0
         /\ numbered => \A j \in DOMAIN live :
              /\ Number(parent, numbered)[j] \in DOMAIN Roots(live, parent)
              /\ Number(parent, numbered)[j] # 0
              /\ Roots(live, parent)[Number(parent, numbered)[j]] = live[RootOf(parent)[j]]
<1> DEFINE R == Roots(live, parent)
           place(j) == CHOOSE i \in DOMAIN R : R[i] = live[RootOf(parent)[j]]
<1>1. R \in Seq(Detections) /\ DOMAIN R = 1 .. Len(R) /\ Len(R) \in Nat
  BY RootsAre DEF Once
<1>2. DOMAIN live \in SUBSET Nat
  BY DEF Once
<1>3. ASSUME NEW j \in DOMAIN live
      PROVE  place(j) \in DOMAIN R /\ R[place(j)] = live[RootOf(parent)[j]]
  <2>1. RootOf(parent)[j] \in DOMAIN live /\ parent[RootOf(parent)[j]] = RootOf(parent)[j]
    BY <1>2, RootIs
  <2>2. live[RootOf(parent)[j]] \in Range(R)
    BY <2>1, RootsAre
  <2>3. \E i \in DOMAIN R : R[i] = live[RootOf(parent)[j]]
    BY <2>2 DEF Range
  <2> QED
    BY <2>3
<1>4. \A j \in DOMAIN live : Number(parent, numbered)[j] = IF numbered THEN place(j) ELSE 0
  BY DEF Number
<1>5. Number(parent, numbered) = [j \in DOMAIN live |-> Number(parent, numbered)[j]]
  BY DEF Number
<1> HIDE DEF R, place
<1>6. \A j \in DOMAIN live : place(j) \in Nat /\ place(j) # 0
  BY <1>1, <1>3
<1>7. \A j \in DOMAIN live : Number(parent, numbered)[j] \in Nat
  BY <1>4, <1>6
<1> QED
  BY <1>3, <1>4, <1>5, <1>6, <1>7 DEF R

(* What a finding showed its root shows, and the site of the finding too, if *)
(* the two lie apart.                                                        *)
LEMMA AttachedIs ==
  ASSUME Once(live), NEW parent, Backward(parent, DOMAIN live)
  PROVE  /\ \A j \in DOMAIN live : /\ live[RootOf(parent)[j]] \in Range(Roots(live, parent))
                                   /\ also[live[j]] \subseteq Attached(live, parent)[live[RootOf(parent)[j]]]
         /\ \A j \in DOMAIN live : parent[j] # j /\ Apart(live[j]) =>
              SiteOf[live[j]] \in Attached(live, parent)[live[RootOf(parent)[j]]]
         /\ \A d \in Detections : d \notin Range(live) => also[d] \subseteq Attached(live, parent)[d]
<1> DEFINE D == DOMAIN live
           behind(d) == {j \in D : parent[j] # j /\ live[RootOf(parent)[j]] = d}
           collapsed == {live[j] : j \in {j \in D : parent[j] # j}}
           shown(d) == also[d] \cup {SiteOf[live[j]] : j \in {j \in behind(d) : ~Overlap(live[j], d)}}
                              \cup UNION {also[live[j]] : j \in behind(d)}
<1>1. \A d \in Detections : Attached(live, parent)[d] = IF d \in collapsed THEN {} ELSE shown(d)
  BY DEF Attached
<1>2. D \in SUBSET Nat /\ \A j \in D : live[j] \in Detections /\ live[j] \in Range(live)
  BY DEF Once, Range
<1>3. \A i, j \in D : live[i] = live[j] => i = j
  BY DEF Once, IsInjective
<1>4. collapsed \subseteq Range(live)
  BY <1>2
<1>5. ASSUME NEW j \in D
      PROVE  /\ RootOf(parent)[j] \in D /\ parent[RootOf(parent)[j]] = RootOf(parent)[j]
             /\ live[RootOf(parent)[j]] \in Range(Roots(live, parent))
             /\ live[RootOf(parent)[j]] \in Detections
             /\ live[RootOf(parent)[j]] \notin collapsed
  <2>1. RootOf(parent)[j] \in D /\ parent[RootOf(parent)[j]] = RootOf(parent)[j]
    BY <1>2, RootIs
  <2>2. live[RootOf(parent)[j]] \in Range(Roots(live, parent))
    BY <2>1, RootsAre
  <2>3. live[RootOf(parent)[j]] \notin collapsed
    BY <1>3, <2>1
  <2> QED
    BY <1>2, <2>1, <2>2, <2>3
<1>6. ASSUME NEW j \in D
      PROVE  Attached(live, parent)[live[RootOf(parent)[j]]] = shown(live[RootOf(parent)[j]])
  BY <1>1, <1>5
<1>7. ASSUME NEW j \in D, parent[j] = j
      PROVE  RootOf(parent)[j] = j
  <2> DEFINE closed(S) == j \in S /\ (\A k \in S : parent[k] \in S)
  <2>1. DOMAIN parent = D
    BY DEF Backward
  <2>2. RootOf(parent)[j] = CHOOSE r \in D : parent[r] = r /\ \A S \in SUBSET D : closed(S) => r \in S
    BY <2>1 DEF RootOf
  <2>3. closed({j})
    BY <1>7
  <2>4. \A r \in D : (parent[r] = r /\ \A S \in SUBSET D : closed(S) => r \in S) => r = j
    BY <2>3
  <2>5. parent[j] = j /\ \A S \in SUBSET D : closed(S) => j \in S
    BY <1>7
  <2> HIDE DEF closed
  <2> QED
    BY <2>2, <2>4, <2>5
<1>8. ASSUME NEW j \in D
      PROVE  also[live[j]] \subseteq Attached(live, parent)[live[RootOf(parent)[j]]]
  <2>1. CASE parent[j] = j
    BY <1>6, <1>7, <2>1
  <2>2. CASE parent[j] # j
    <3>1. j \in behind(live[RootOf(parent)[j]])
      BY <2>2
    <3>2. also[live[j]] \subseteq shown(live[RootOf(parent)[j]])
      BY <3>1
    <3> QED
      BY <1>6, <3>2
  <2> QED
    BY <2>1, <2>2
<1>9. ASSUME NEW j \in D, parent[j] # j, Apart(live[j])
      PROVE  SiteOf[live[j]] \in Attached(live, parent)[live[RootOf(parent)[j]]]
  <2>1. RootOf(parent)[j] # j
    BY <1>5, <1>9
  <2>2. live[RootOf(parent)[j]] # live[j]
    BY <1>3, <1>5, <2>1
  <2>3. ~Overlap(live[j], live[RootOf(parent)[j]])
    BY <1>5, <1>9, <2>2 DEF Apart
  <2>4. j \in {k \in behind(live[RootOf(parent)[j]]) : ~Overlap(live[k], live[RootOf(parent)[j]])}
    BY <1>9, <2>3
  <2>5. SiteOf[live[j]] \in shown(live[RootOf(parent)[j]])
    BY <2>4
  <2> QED
    BY <1>6, <2>5
<1>10. \A d \in Detections : d \notin Range(live) => also[d] \subseteq Attached(live, parent)[d]
  BY <1>1, <1>4
<1> QED
  BY <1>5, <1>8, <1>9, <1>10

LEMMA DedupStep ==
  ASSUME FlowInv, step \in {"s5-dedup", "s5-semantic", "s7"},
         NEW parent, Backward(parent, DOMAIN live), NEW numbered \in BOOLEAN,
         NEW then \in {"s5-semantic", "s6", "s8"}, numbered <=> then = "s8",
         Dedup(parent, then, numbered)
  PROVE  FlowInv'
<1> DEFINE N == Number(parent, numbered)
           C == Collapsed(parent, N)
           R == Roots(live, parent)
<1>1. /\ raw \in Seq(Detections) /\ Once(raw) /\ Shared(live, gone) /\ Once(live)
      /\ gone \subseteq [of : Detections, reason : Reasons, canonical : Nat]
      /\ Unnumbered /\ DuplicatesShown
  BY DEF FlowInv, Shared
<1>2. /\ live' = R /\ also' = Attached(live, parent) /\ gone' = gone \cup C
      /\ step' = then /\ raw' = raw
  BY DEF Dedup, Collapsed, Number
<1>3. /\ N \in [DOMAIN live -> Nat]
      /\ ~numbered => \A j \in DOMAIN live : N[j] = 0
      /\ numbered => \A j \in DOMAIN live :
           N[j] \in DOMAIN R /\ N[j] # 0 /\ R[N[j]] = live[RootOf(parent)[j]]
  BY <1>1, NumberIs
<1> HIDE DEF N
<1>4. /\ {g.of : g \in C} = Range(live) \ Range(R)
      /\ \A g, h \in C : g.of = h.of => g = h
      /\ C \subseteq [of : Detections, reason : Reasons, canonical : Nat]
  BY <1>1, <1>3, CollapsedIs
<1>5. \A g \in C : \E j \in DOMAIN live : parent[j] # j /\ g.of = live[j] /\ g.canonical = N[j]
  BY DEF Collapsed
<1>6. Once(R) /\ Range(R) \subseteq Range(live)
  BY <1>1, RootsAre
<1> HIDE DEF R, C
<1>7. Shared(R, gone \cup C)
  BY <1>1, <1>4, <1>6, DroppedKeeps
<1>8. Once(raw)' /\ Shared(live, gone)'
  BY <1>1, <1>2, <1>7 DEF Once, Shared
<1>9. live' \in Seq(Detections) /\ gone' \subseteq [of : Detections, reason : Reasons, canonical : Nat]
  BY <1>1, <1>2, <1>4, <1>6 DEF Once
<1>10. ~numbered => Unnumbered'
  BY <1>1, <1>2, <1>3, <1>5 DEF Unnumbered
<1>11. DuplicatesShown'
  <2> SUFFICES ASSUME NEW g \in gone', g.reason = "DUPLICATE", Apart(g.of)
               PROVE  IF g.canonical # 0
                        THEN g.canonical \in DOMAIN live' /\ SiteOf[g.of] \in also'[live'[g.canonical]]
                        ELSE \E d \in Holders' : SiteOf[g.of] \in also'[d]
    BY DEF DuplicatesShown, Holders
  <2>1. /\ \A j \in DOMAIN live : /\ live[RootOf(parent)[j]] \in Range(R)
                                  /\ also[live[j]] \subseteq also'[live[RootOf(parent)[j]]]
        /\ \A j \in DOMAIN live : parent[j] # j /\ Apart(live[j]) =>
             SiteOf[live[j]] \in also'[live[RootOf(parent)[j]]]
        /\ \A d \in Detections : d \notin Range(live) => also[d] \subseteq also'[d]
    BY <1>1, <1>2, AttachedIs DEF R
  <2>2. Range(R) \subseteq Holders'
    BY <1>2 DEF Holders
  <2>3. CASE g \in C
    <3>1. PICK j \in DOMAIN live : parent[j] # j /\ g.of = live[j] /\ g.canonical = N[j]
      BY <1>5, <2>3
    <3>2. SiteOf[g.of] \in also'[live[RootOf(parent)[j]]]
      BY <2>1, <3>1
    <3>3. CASE numbered
      BY <1>2, <1>3, <3>1, <3>2, <3>3
    <3>4. CASE ~numbered
      BY <1>3, <2>1, <2>2, <3>1, <3>2, <3>4
    <3> QED
      BY <3>3, <3>4
  <2>4. CASE g \in gone
    <3>1. g.canonical = 0
      BY <1>1, <2>4 DEF Unnumbered
    <3>2. PICK d \in Holders : SiteOf[g.of] \in also[d]
      BY <1>1, <2>4, UnnumberedShown
    <3>3. CASE d \in Range(live)
      <4>1. PICK j \in DOMAIN live : d = live[j]
        BY <3>3 DEF Range
      <4> QED
        BY <2>1, <2>2, <3>1, <3>2, <4>1
    <3>4. CASE d \notin Range(live)
      <4>1. PICK h \in gone : h.reason = "FALSE_POSITIVE" /\ d = h.of
        BY <3>4 DEF Holders
      <4>2. d \in Detections
        BY <1>1, <4>1
      <4>3. d \in Holders'
        BY <1>2, <4>1 DEF Holders
      <4> QED
        BY <2>1, <3>1, <3>2, <3>4, <4>2, <4>3
    <3> QED
      BY <3>3, <3>4
  <2> QED
    BY <1>2, <2>3, <2>4
<1> QED
  BY <1>1, <1>2, <1>8, <1>9, <1>10, <1>11 DEF FlowInv

LEMMA PrefilterStep ==
  ASSUME FlowInv, Prefilter
  PROVE  FlowInv'
<1>1. live \in Seq(Detections)
  BY DEF FlowInv
<1>2. Backward(Parents(live), DOMAIN live)
  BY <1>1, ParentsAre
<1>3. PICK then \in {"s5-semantic", "s6"} : step = "s5-dedup" /\ Dedup(Parents(live), then, FALSE)
  BY DEF Prefilter
<1> QED
  BY <1>2, <1>3, DedupStep

LEMMA SemanticStep ==
  ASSUME FlowInv, PreSemantic \/ Semantic
  PROVE  FlowInv'
<1>1. live \in Seq(Detections)
  BY DEF FlowInv
<1>2. \A parent \in Answers(Parents(live)) : Backward(parent, DOMAIN live)
  BY <1>1, AnswersAre
<1>3. CASE PreSemantic
  <2>1. PICK parent \in Answers(Parents(live)) : step = "s5-semantic" /\ Dedup(parent, "s6", FALSE)
    BY <1>3 DEF PreSemantic
  <2> QED
    BY <1>2, <2>1, DedupStep
<1>4. CASE Semantic
  <2>1. PICK parent \in Answers(Parents(live)) : step = "s7" /\ Dedup(parent, "s8", TRUE)
    BY <1>4 DEF Semantic
  <2> QED
    BY <1>2, <2>1, DedupStep
<1> QED
  BY <1>3, <1>4

-----------------------------------------------------------------------------
(* The other steps.                                                          *)

LEMMA DeepDiveStep ==
  ASSUME FlowInv, NEW c \in DOMAIN Chunks,
         NEW runs \in [1 .. RunsOf(Chunks[c]) -> SUBSET Chunks[c].sees], DeepDive(runs)
  PROVE  FlowInv'
<1>1. /\ step = "s4" /\ step' = step /\ live' = live /\ gone' = gone /\ also' = also
      /\ gone = {} /\ raw \in Seq(Detections) /\ live \in Seq(Detections)
  BY DEF DeepDive, FlowInv
<1>2. Chunks[c].sees \subseteq Detections
  <2> DEFINE T == [sees : SUBSET Detections, special : BOOLEAN]
  <2>1. Chunks \in Seq(T)
    BY FlowAssumption
  <2> HIDE DEF T
  <2>2. Chunks[c] \in T
    BY <2>1
  <2> QED
    BY <2>2 DEF T
<1>3. \A threshold : Survivors(runs, threshold) \in SUBSET Detections
  <2>1. \A r \in DOMAIN runs : runs[r] \in SUBSET Detections
    BY <1>2
  <2> QED
    BY <2>1, SurvivorsAre
<1>4. PICK threshold : \E order \in SetToSeqs(Survivors(runs, threshold)) : raw' = raw \o order
  BY DEF DeepDive
<1> DEFINE S == Survivors(runs, threshold)
<1>5. PICK order \in SetToSeqs(S) : raw' = raw \o order
  BY <1>4
<1>6. S \in SUBSET Detections
  BY <1>3
<1> HIDE DEF S
<1>7. order \in Seq(Detections)
  <2>1. IsFiniteSet(S) /\ Cardinality(S) \in Nat
    BY <1>6, FlowAssumption, FS_Subset, FS_CardinalityType
  <2>2. order \in [1 .. Cardinality(S) -> S]
    BY DEF SetToSeqs
  <2>3. order \in [1 .. Cardinality(S) -> Detections]
    BY <1>6, <2>2
  <2> QED
    BY <2>1, <2>3, ListOf
<1>8. raw' \in Seq(Detections)
  BY <1>1, <1>5, <1>7, ConcatProperties
<1>9. DuplicatesShown'
  BY <1>1 DEF DuplicatesShown
<1> QED
  BY <1>1, <1>8, <1>9 DEF FlowInv

LEMMA EndAuditStep ==
  ASSUME FlowInv, EndAudit
  PROVE  FlowInv'
<1>1. /\ raw \in Seq(Detections) /\ gone = {} /\ gone' = {}
      /\ raw' = Collapse(raw) /\ live' = Collapse(raw) /\ step' = "s5"
  BY DEF FlowInv, EndAudit
<1>2. Once(Collapse(raw))
  BY <1>1, CollapseIs
<1>3. Once(raw)' /\ Shared(live, gone)'
  BY <1>1, <1>2 DEF Once, Shared
<1>4. raw' \in Seq(Detections) /\ live' \in Seq(Detections)
  BY <1>1, <1>2 DEF Once
<1>5. DuplicatesShown'
  BY <1>1 DEF DuplicatesShown
<1> QED
  BY <1>1, <1>3, <1>4, <1>5 DEF FlowInv

(* policy_filter and stage 6 keep some of the list and record the rest.      *)
LEMMA FilterStep ==
  ASSUME FlowInv, step # "s4", NEW S, NEW reason \in Reasons,
         live' = Keep(live, S), gone' = gone \cup Drop(Range(live) \ S, reason), raw' = raw
  PROVE  /\ live' \in Seq(Detections)
         /\ gone' \subseteq [of : Detections, reason : Reasons, canonical : Nat]
         /\ Once(raw)' /\ Shared(live, gone)'
         /\ Range(live') = Range(live) \cap S
         /\ \A g \in gone' : g \in gone \/ (g.canonical = 0 /\ g.reason = reason)
         /\ \A d \in Range(live) \ S : \E g \in gone' : g.of = d /\ g.reason = reason
<1> DEFINE M == Drop(Range(live) \ S, reason)
<1>1. /\ Once(raw) /\ Once(live) /\ Shared(live, gone)
      /\ gone \subseteq [of : Detections, reason : Reasons, canonical : Nat]
  BY DEF FlowInv, Shared
<1>2. Range(live) \ S \in SUBSET Detections
  BY <1>1 DEF Once, Range
<1>3. /\ {g.of : g \in M} = Range(live) \ S
      /\ \A g, h \in M : g.of = h.of => g = h
      /\ M \subseteq [of : Detections, reason : Reasons, canonical : Nat]
      /\ \A g \in M : g.canonical = 0 /\ g.reason = reason
  BY <1>2, DropIs
<1>4. Once(Keep(live, S)) /\ Range(Keep(live, S)) = Range(live) \cap S
  BY <1>1, KeepIs DEF Once
<1> HIDE DEF M
<1>5. {g.of : g \in M} = Range(live) \ Range(Keep(live, S))
  BY <1>3, <1>4
<1>6. Range(Keep(live, S)) \subseteq Range(live)
  BY <1>4
<1>7. Shared(Keep(live, S), gone \cup M)
  BY <1>1, <1>3, <1>4, <1>5, <1>6, DroppedKeeps
<1>8. Once(raw)' /\ Shared(live, gone)'
  BY <1>1, <1>7 DEF Once, Shared, M
<1>9. \A d \in Range(live) \ S : \E g \in M : g.of = d /\ g.reason = reason
  BY <1>3
<1> QED
  BY <1>1, <1>3, <1>4, <1>8, <1>9 DEF Once, M

LEMMA PoliciesStep ==
  ASSUME FlowInv, Policies
  PROVE  FlowInv'
<1>1. /\ step = "s5" /\ gone = {} /\ step' = "s5-dedup" /\ raw' = raw
      /\ live' = Keep(live, Allowed) /\ gone' = gone \cup Drop(Range(live) \ Allowed, "EXCLUDED")
  BY DEF FlowInv, Policies
<1>2. /\ live' \in Seq(Detections)
      /\ gone' \subseteq [of : Detections, reason : Reasons, canonical : Nat]
      /\ Once(raw)' /\ Shared(live, gone)'
      /\ \A g \in gone' : g.canonical = 0 /\ g.reason = "EXCLUDED"
  BY <1>1, FilterStep DEF Reasons
<1>3. DuplicatesShown'
  BY <1>2 DEF DuplicatesShown
<1>4. Unnumbered'
  BY <1>2 DEF Unnumbered
<1> QED
  BY <1>1, <1>2, <1>3, <1>4 DEF FlowInv

LEMMA VerifyStep ==
  ASSUME FlowInv, NEW kept, Verify(kept)
  PROVE  FlowInv'
<1>1. /\ step = "s6" /\ step' = "s7" /\ raw' = raw /\ also' = also
      /\ live' = Keep(live, kept) /\ gone' = gone \cup Drop(Range(live) \ kept, "FALSE_POSITIVE")
      /\ Unnumbered /\ DuplicatesShown
  BY DEF FlowInv, Verify
<1>2. /\ live' \in Seq(Detections)
      /\ gone' \subseteq [of : Detections, reason : Reasons, canonical : Nat]
      /\ Once(raw)' /\ Shared(live, gone)'
      /\ Range(live') = Range(live) \cap kept
      /\ \A g \in gone' : g \in gone \/ (g.canonical = 0 /\ g.reason = "FALSE_POSITIVE")
      /\ \A d \in Range(live) \ kept : \E g \in gone' : g.of = d /\ g.reason = "FALSE_POSITIVE"
  BY <1>1, FilterStep DEF Reasons
<1>3. Unnumbered'
  BY <1>1, <1>2 DEF Unnumbered
<1>4. ASSUME NEW d \in Holders PROVE d \in Holders'
  <2>1. CASE d \in Range(live)
    BY <1>2, <2>1 DEF Holders
  <2>2. CASE d \notin Range(live)
    <3>1. PICK h \in gone : h.reason = "FALSE_POSITIVE" /\ d = h.of
      BY <2>2 DEF Holders
    <3> QED
      BY <1>1, <3>1 DEF Holders
  <2> QED
    BY <2>1, <2>2
<1>5. DuplicatesShown'
  <2> SUFFICES ASSUME NEW g \in gone', g.reason = "DUPLICATE", Apart(g.of)
               PROVE  g.canonical = 0 /\ \E d \in Holders' : SiteOf[g.of] \in also'[d]
    BY Zenon DEF DuplicatesShown, Holders
  <2>1. g \in gone /\ g.canonical = 0
    BY <1>2, <1>3 DEF Unnumbered
  <2>2. PICK d \in Holders : SiteOf[g.of] \in also[d]
    BY <1>1, <2>1, UnnumberedShown
  <2> QED
    BY <1>1, <1>4, <2>1, <2>2
<1> QED
  BY <1>1, <1>2, <1>3, <1>5 DEF FlowInv

(* What has a number keeps it pointed at the same finding as the report is   *)
(* sorted.                                                                   *)
LEMMA RemappedIs ==
  ASSUME NEW D, NEW order, Permutes(order, D), NEW c
  PROVE  /\ c \in D => Remapped(order, c) \in D /\ order[Remapped(order, c)] = c
         /\ c \notin D => Remapped(order, c) = c
<1>1. DOMAIN order = D /\ Range(order) = D
  BY DEF Permutes
<1>2. c \in D => \E k \in DOMAIN order : order[k] = c
  BY <1>1 DEF Range
<1>3. CASE c \in D
  <2>1. Remapped(order, c) = CHOOSE k \in DOMAIN order : order[k] = c
    BY <1>1, <1>3 DEF Remapped
  <2> QED
    BY <1>1, <1>2, <1>3, <2>1
<1>4. CASE c \notin D
  BY <1>1, <1>4 DEF Remapped
<1> QED
  BY <1>3, <1>4

LEMMA ChainStep ==
  ASSUME FlowInv, NEW answer \in BoundedSeq(0 .. Len(live), MaxRanked), Chain(answer)
  PROVE  FlowInv'
<1> DEFINE D == DOMAIN live
           order == Sorted(Ranked(answer))
           new(c) == IF c = 0 THEN 0 ELSE Remapped(order, c)
           moved(d) == [of |-> d.of, reason |-> d.reason, canonical |-> new(d.canonical)]
<1>1. /\ Once(raw) /\ Once(live) /\ Shared(live, gone) /\ DuplicatesShown
      /\ gone \subseteq [of : Detections, reason : Reasons, canonical : Nat]
      /\ live \in Seq(Detections) /\ D = 1 .. Len(live) /\ Len(live) \in Nat /\ D \in SUBSET Nat
  BY DEF FlowInv, Chain, Shared, Once
<1>2. answer \in Seq(Nat)
  <2>1. PICK m \in 0 .. MaxRanked : answer \in [1 .. m -> 0 .. Len(live)]
    BY DEF BoundedSeq, SeqOf
  <2>2. m \in Nat /\ answer \in [1 .. m -> Nat]
    BY <1>1, <2>1, FlowAssumption
  <2> QED
    BY <2>2, ListOf
<1>3. Permutes(order, D)
  BY <1>1, <1>2, RankedIs, SortedIs
<1>4. /\ step = "s8" /\ step' = "s9" /\ raw' = raw /\ also' = also
      /\ live' = [i \in DOMAIN order |-> live[order[i]]]
      /\ gone' = {moved(d) : d \in gone}
  BY DEF Chain
<1> HIDE DEF order, D
<1>5. order \in [D -> D] /\ DOMAIN order = D /\ IsInjective(order) /\ Range(order) = D
  BY <1>3 DEF Permutes
<1>6. \A i \in D : live[i] \in Detections
  BY <1>1 DEF D
<1>7. live' = [i \in D |-> live[order[i]]]
  BY <1>4, <1>5
<1>8. \A i \in D : live'[i] = live[order[i]] /\ order[i] \in D
  BY <1>5, <1>7
<1>9. live' \in [1 .. Len(live) -> Detections]
  BY <1>1, <1>5, <1>6, <1>7
<1>10. live' \in Seq(Detections) /\ DOMAIN live' = D
  BY <1>1, <1>7, <1>9, ListOf
<1>11. IsInjective(live')
  BY <1>1, <1>5, <1>8, <1>10 DEF IsInjective, Once, D
<1>12. Range(live') = Range(live)
  <2>1. ASSUME NEW d \in Range(live') PROVE d \in Range(live)
    <3>1. PICK i \in D : d = live'[i]
      BY <1>10 DEF Range
    <3>2. order[i] \in D /\ d = live[order[i]]
      BY <1>8, <3>1
    <3> QED
      BY <3>2 DEF Range, D
  <2>2. ASSUME NEW d \in Range(live) PROVE d \in Range(live')
    <3>1. PICK j \in D : d = live[j]
      BY DEF Range, D
    <3>2. PICK i \in D : order[i] = j
      BY <1>5 DEF Range
    <3>3. live'[i] = d
      BY <1>8, <3>1, <3>2
    <3> QED
      BY <1>10, <3>3 DEF Range
  <2> QED
    BY <2>1, <2>2
<1>13. \A c \in Nat : /\ new(c) \in Nat
                      /\ new(c) = 0 <=> c = 0
                      /\ c # 0 /\ c \in D => new(c) \in D /\ order[new(c)] = c
  <2> TAKE c \in Nat
  <2>1. /\ c \in D => Remapped(order, c) \in D /\ order[Remapped(order, c)] = c
        /\ c \notin D => Remapped(order, c) = c
    BY <1>3, RemappedIs
  <2>2. 0 \notin D
    BY <1>1
  <2> QED
    BY <1>1, <2>1, <2>2
<1> HIDE DEF new
<1>14. ASSUME NEW d \in gone
       PROVE  /\ moved(d) \in [of : Detections, reason : Reasons, canonical : Nat]
              /\ moved(d).of = d.of /\ moved(d).reason = d.reason /\ moved(d).canonical = new(d.canonical)
  <2>1. d.of \in Detections /\ d.reason \in Reasons /\ d.canonical \in Nat
    BY <1>1
  <2>2. new(d.canonical) \in Nat
    BY <1>13, <2>1
  <2> QED
    BY <2>1, <2>2
<1> HIDE DEF moved
<1>15. gone' \subseteq [of : Detections, reason : Reasons, canonical : Nat]
  BY <1>4, <1>14
<1>16. \A g \in gone' : \E d \in gone : g = moved(d)
  BY <1>4
<1>17. \A d \in gone : moved(d) \in gone'
  BY <1>4
<1>18. Once(raw)' /\ Shared(live, gone)'
  <2>1. \A g, h \in gone' : g.of = h.of => g = h
    <3> SUFFICES ASSUME NEW g \in gone', NEW h \in gone', g.of = h.of PROVE g = h
      OBVIOUS
    <3>1. PICK d \in gone : g = moved(d)
      BY <1>16
    <3>2. PICK e \in gone : h = moved(e)
      BY <1>16
    <3> QED
      BY <1>1, <1>14, <3>1, <3>2 DEF Shared
  <2>2. \A g \in gone' : \E d \in gone : g.of = d.of
    BY <1>14, <1>16
  <2>3. \A d \in gone : \E g \in gone' : g.of = d.of
    BY <1>14, <1>17
  <2>4. {g.of : g \in gone'} = {g.of : g \in gone}
    BY <2>2, <2>3
  <2>5. \A g \in gone' : g.of \notin Range(live')
    BY <1>1, <1>12, <2>2 DEF Shared
  <2>6. Range(raw') = Range(live') \cup {g.of : g \in gone'}
    BY <1>1, <1>4, <1>12, <2>4 DEF Shared
  <2>7. Once(raw)' /\ Once(live)'
    BY <1>1, <1>4, <1>10, <1>11 DEF Once
  <2> QED
    BY <2>1, <2>5, <2>6, <2>7, Zenon DEF Shared
<1>19. Holders \subseteq Holders'
  <2> SUFFICES ASSUME NEW d \in Holders PROVE d \in Holders'
    OBVIOUS
  <2>1. CASE d \in Range(live)
    BY <1>12, <2>1 DEF Holders
  <2>2. CASE d \notin Range(live)
    <3>1. PICK h \in gone : h.reason = "FALSE_POSITIVE" /\ d = h.of
      BY <2>2 DEF Holders
    <3>2. moved(h) \in gone' /\ moved(h).reason = "FALSE_POSITIVE" /\ moved(h).of = d
      BY <1>14, <1>17, <3>1
    <3> QED
      BY <3>2 DEF Holders
  <2> QED
    BY <2>1, <2>2
<1>20. DuplicatesShown'
  <2> SUFFICES ASSUME NEW g \in gone', g.reason = "DUPLICATE", Apart(g.of)
               PROVE  IF g.canonical # 0
                        THEN g.canonical \in DOMAIN live' /\ SiteOf[g.of] \in also'[live'[g.canonical]]
                        ELSE \E d \in Holders' : SiteOf[g.of] \in also'[d]
    BY Zenon DEF DuplicatesShown, Holders
  <2>1. PICK d \in gone : g = moved(d)
    BY <1>16
  <2>2. g.of = d.of /\ d.reason = "DUPLICATE" /\ g.canonical = new(d.canonical) /\ d.canonical \in Nat
    BY <1>1, <1>14, <2>1
  <2>3. IF d.canonical # 0
          THEN d.canonical \in DOMAIN live /\ SiteOf[d.of] \in also[live[d.canonical]]
          ELSE \E e \in Holders : SiteOf[d.of] \in also[e]
    BY <1>1, <2>2, Zenon DEF DuplicatesShown, Holders
  <2>4. CASE d.canonical # 0
    <3>1. d.canonical \in D /\ SiteOf[d.of] \in also[live[d.canonical]]
      BY <2>3, <2>4 DEF D
    <3>2. g.canonical # 0 /\ g.canonical \in D /\ order[g.canonical] = d.canonical
      BY <1>13, <2>2, <2>4, <3>1
    <3>3. live'[g.canonical] = live[d.canonical]
      BY <1>8, <3>2
    <3> QED
      BY <1>4, <1>10, <2>2, <3>1, <3>2, <3>3
  <2>5. CASE d.canonical = 0
    <3>1. g.canonical = 0
      BY <1>13, <2>2, <2>5
    <3>2. PICK e \in Holders : SiteOf[d.of] \in also[e]
      BY <2>3, <2>5
    <3> QED
      BY <1>4, <1>19, <2>2, <3>1, <3>2
  <2> QED
    BY <2>4, <2>5
<1> QED
  BY <1>1, <1>4, <1>10, <1>15, <1>18, <1>20 DEF FlowInv

-----------------------------------------------------------------------------
(* The theorems.                                                             *)

LEMMA FlowInitially ==
  ASSUME FlowInit
  PROVE  FlowInv
  BY DEF FlowInit, FlowInv, DuplicatesShown

LEMMA FlowInductive ==
  ASSUME FlowInv, [FlowNext]_flowVars
  PROVE  FlowInv'
<1>1. CASE UNCHANGED flowVars
  BY <1>1 DEF flowVars, FlowInv, Shared, Once, Unnumbered, DuplicatesShown
<1>2. CASE EmitSarif
  BY <1>2 DEF EmitSarif, FlowInv, Shared, Once, Unnumbered, DuplicatesShown
<1>3. CASE \E c \in DOMAIN Chunks : \E runs \in [1 .. RunsOf(Chunks[c]) -> SUBSET Chunks[c].sees] :
             audited = c - 1 /\ DeepDive(runs)
  BY <1>3, DeepDiveStep
<1>4. CASE \E kept \in SUBSET Detections : Verify(kept)
  BY <1>4, VerifyStep
<1>5. CASE \E answer \in BoundedSeq(0 .. Len(live), MaxRanked) : Chain(answer)
  BY <1>5, ChainStep
<1> QED
  BY <1>1, <1>2, <1>3, <1>4, <1>5, EndAuditStep, PoliciesStep, PrefilterStep, SemanticStep DEF FlowNext

LEMMA FlowInvariant == FlowSpec => []FlowInv
<1>1. FlowInit => FlowInv
  BY FlowInitially
<1>2. FlowInv /\ [FlowNext]_flowVars => FlowInv'
  BY FlowInductive
<1> QED
  BY <1>1, <1>2, PTL DEF FlowSpec

(* From stage 5 on every finding of stage 4 is in the list or among the      *)
(* dropped, once, whatever the models answer and however the report is       *)
(* sorted (s7_dedup.py:232-256, s8_chain.py:256-320).                        *)
THEOREM EveryFindingAccounted == FlowSpec => []Accounted
<1>1. FlowInv => Accounted
  BY InvAccounted
<1> QED
  BY <1>1, FlowInvariant, PTL

(* The site of a duplicate is shown to the end by the finding it was         *)
(* collapsed into, and its number is that finding's (s7_dedup.py:70-102,     *)
(* s8_chain.py:334-348).                                                     *)
THEOREM EveryDuplicateShown == FlowSpec => []DuplicatesShown
<1>1. FlowInv => DuplicatesShown
  BY DEF FlowInv
<1> QED
  BY <1>1, FlowInvariant, PTL

-----------------------------------------------------------------------------
(* The types.  The number of a duplicate is at most the length of the list   *)
(* that stage 4 left, since the list never grows.                            *)

(* What the SARIF is read back from: whatever a line looks like, one that    *)
(* begins a result has the finding it stands in.                             *)
Written == {l \in [looks : Looks, of : Nat] : l.looks = "heading" => l.of \in Detections}

LEMMA MarkdownIs ==
  ASSUME live \in Seq(Detections)
  PROVE  Markdown \in Seq(Written)
<1> DEFINE text(i) == [k \in DOMAIN TextOf[live[i]] |-> Line(TextOf[live[i]][k], live[i])]
           one(i) == <<Line("heading", live[i])>> \o text(i)
           ss == [i \in DOMAIN live |-> one(i)]
<1>1. /\ Detections \subseteq Nat /\ "heading" \in Looks /\ "boundary" \in Looks
      /\ "boundary" # "heading"
  <2>1. Detections \subseteq Nat
    BY FlowAssumption, FS_CardinalityType
  <2>2. "heading" \in Looks /\ "boundary" \in Looks /\ "boundary" # "heading"
    BY DEF Looks
  <2> QED
    BY <2>1, <2>2
<1>2. DOMAIN live = 1 .. Len(live) /\ Len(live) \in Nat /\ \A i \in DOMAIN live : live[i] \in Detections
  OBVIOUS
<1>3. \A d \in Detections : \A looks \in Looks : Line(looks, d) \in Written
  BY <1>1 DEF Line, Written
<1>4. ASSUME NEW i \in DOMAIN live PROVE one(i) \in Seq(Written)
  <2>1. live[i] \in Detections /\ TextOf[live[i]] \in Seq(Looks)
    BY <1>2, FlowAssumption
  <2>2. /\ Len(TextOf[live[i]]) \in Nat /\ DOMAIN TextOf[live[i]] = 1 .. Len(TextOf[live[i]])
        /\ \A k \in DOMAIN TextOf[live[i]] : TextOf[live[i]][k] \in Looks
    BY <2>1
  <2>3. text(i) \in [1 .. Len(TextOf[live[i]]) -> Written]
    BY <1>3, <2>1, <2>2
  <2>4. text(i) \in Seq(Written)
    BY <2>2, <2>3, ListOf
  <2>5. Line("heading", live[i]) \in Written
    BY <1>1, <1>3, <2>1
  <2>6. <<Line("heading", live[i])>> \in Seq(Written)
    BY <2>5
  <2> HIDE DEF text
  <2> QED
    BY <2>4, <2>6, ConcatProperties
<1>5. ss \in Seq(Seq(Written))
  <2> HIDE DEF one
  <2>1. ss \in [1 .. Len(live) -> Seq(Written)]
    BY <1>2, <1>4
  <2> QED
    BY <1>2, <2>1, ListOf
<1>6. Line("boundary", 1) \in Written
  BY <1>1 DEF Line, Written
<1>7. Markdown = FlattenSeq(ss) \o <<Line("boundary", 1)>>
  BY DEF Markdown
<1> HIDE DEF ss
<1>8. FlattenSeq(ss) \in Seq(Written) /\ <<Line("boundary", 1)>> \in Seq(Written)
  BY <1>5, <1>6, FlattenIs
<1> QED
  BY <1>7, <1>8, ConcatProperties

LEMMA ReadBackIs ==
  ASSUME NEW lines \in Seq(Written)
  PROVE  ReadBack(lines) \in Seq(Detections)
<1> DEFINE ends == {i \in DOMAIN lines : lines[i].looks = "boundary"}
           K == {i \in DOMAIN lines : lines[i].looks = "heading" /\ \A j \in ends : i < j}
           h == Picked(lines, K)
<1>1. /\ h \in Seq(Written) /\ Range(h) = {lines[i] : i \in K}
      /\ DOMAIN h = 1 .. Len(h) /\ Len(h) \in Nat
  <2>1. K \in SUBSET DOMAIN lines
    OBVIOUS
  <2> HIDE DEF K
  <2> QED
    BY <2>1, PickedIs
<1>2. \A i \in K : lines[i].of \in Detections
  BY DEF Written
<1>3. ReadBack(lines) = [n \in DOMAIN h |-> h[n].of]
  BY DEF ReadBack
<1>4. \A n \in DOMAIN h : \E i \in K : h[n] = lines[i]
  BY <1>1 DEF Range
<1> HIDE DEF K, h
<1>5. ReadBack(lines) \in [1 .. Len(h) -> Detections]
  BY <1>1, <1>2, <1>3, <1>4
<1> QED
  BY <1>1, <1>5, ListOf

LEMMA AttachedTyped ==
  ASSUME also \in [Detections -> SUBSET Sites], live \in Seq(Detections), NEW parent
  PROVE  Attached(live, parent) \in [Detections -> SUBSET Sites]
<1> DEFINE behind(d) == {j \in DOMAIN live : parent[j] # j /\ live[RootOf(parent)[j]] = d}
           shown(d) == also[d] \cup {SiteOf[live[j]] : j \in {j \in behind(d) : ~Overlap(live[j], d)}}
                              \cup UNION {also[live[j]] : j \in behind(d)}
<1>1. \A j \in DOMAIN live : live[j] \in Detections /\ SiteOf[live[j]] \in Sites /\ also[live[j]] \subseteq Sites
  BY DEF Sites
<1>2. \A d \in Detections : shown(d) \in SUBSET Sites
  BY <1>1
<1>3. /\ DOMAIN Attached(live, parent) = Detections
      /\ Attached(live, parent) = [d \in Detections |-> Attached(live, parent)[d]]
      /\ \A d \in Detections : Attached(live, parent)[d] \in {{}, shown(d)}
  BY DEF Attached
<1> HIDE DEF shown
<1>4. \A d \in Detections : Attached(live, parent)[d] \in SUBSET Sites
  BY <1>2, <1>3
<1> QED
  BY <1>3, <1>4

(* The list and the numbers stay below what stage 4 found.                   *)
TypedInv ==
  /\ FlowInv
  /\ step \in Steps /\ audited \in 0 .. Len(Chunks)
  /\ also \in [Detections -> SUBSET Sites] /\ sarif \in Seq(Detections)
  /\ step # "s4" => \A g \in gone : g.canonical <= Len(raw)

LEMMA NotLonger ==
  ASSUME NEW all, Once(all), NEW some, Once(some), Range(some) \subseteq Range(all)
  PROVE  Len(some) \in Nat /\ Len(all) \in Nat /\ Len(some) <= Len(all)
<1>1. /\ IsFiniteSet(Range(all)) /\ Cardinality(Range(all)) = Len(all) /\ Len(all) \in Nat
      /\ IsFiniteSet(Range(some)) /\ Cardinality(Range(some)) = Len(some) /\ Len(some) \in Nat
  BY CountedOnce DEF Once
<1> QED
  BY <1>1, FS_Subset

LEMMA TypedInitially ==
  ASSUME FlowInit
  PROVE  TypedInv
<1>1. FlowInv
  BY FlowInitially
<1>2. /\ Len(Chunks) \in Nat /\ 0 \in 0 .. Len(Chunks)
  BY FlowAssumption
<1>3. also \in [Detections -> SUBSET Sites] /\ sarif \in Seq(Detections) /\ step \in Steps
  BY DEF FlowInit, Steps
<1> QED
  BY <1>1, <1>2, <1>3 DEF FlowInit, TypedInv

LEMMA DedupTyped ==
  ASSUME TypedInv, FlowInv', step \in {"s5-dedup", "s5-semantic", "s7"},
         NEW parent, Backward(parent, DOMAIN live), NEW numbered \in BOOLEAN,
         NEW then \in {"s5-semantic", "s6", "s8"}, Dedup(parent, then, numbered)
  PROVE  TypedInv'
<1> DEFINE N == Number(parent, numbered)
           R == Roots(live, parent)
<1>1. /\ step' = then /\ audited' = audited /\ sarif' = sarif /\ raw' = raw
      /\ live' = R /\ also' = Attached(live, parent) /\ gone' = gone \cup Collapsed(parent, N)
  BY DEF Dedup, Number, Collapsed
<1>2. Once(live) /\ live \in Seq(Detections)
  BY DEF TypedInv, FlowInv, Shared, Once
<1>3. Len(R) \in Nat /\ Len(raw) \in Nat /\ Len(R) <= Len(raw) /\ DOMAIN R = 1 .. Len(R)
  <2>1. Once(raw) /\ Range(R) \subseteq Range(raw)
    BY <1>1 DEF FlowInv, Shared, Once
  <2> QED
    BY <1>2, <2>1, RootsAre, NotLonger DEF Once
<1>4. \A j \in DOMAIN live : N[j] <= Len(raw)
  <2>1. N \in [DOMAIN live -> Nat]
    BY <1>2, NumberIs
  <2>2. CASE numbered
    <3>1. \A j \in DOMAIN live : N[j] \in DOMAIN R
      BY <1>2, <2>2, NumberIs
    <3> QED
      BY <1>3, <2>1, <3>1
  <2>3. CASE ~numbered
    <3>1. \A j \in DOMAIN live : N[j] = 0
      BY <1>2, <2>3, NumberIs
    <3> QED
      BY <1>3, <3>1
  <2> QED
    BY <2>2, <2>3
<1>5. \A g \in Collapsed(parent, N) : \E j \in DOMAIN live : g.canonical = N[j]
  BY DEF Collapsed
<1>6. \A g \in gone' : g.canonical <= Len(raw')
  BY <1>1, <1>4, <1>5 DEF TypedInv
<1>7. also' \in [Detections -> SUBSET Sites]
  BY <1>1, <1>2, AttachedTyped DEF TypedInv
<1> QED
  BY <1>1, <1>6, <1>7 DEF TypedInv, Steps

LEMMA ChainTyped ==
  ASSUME TypedInv, NEW answer \in BoundedSeq(0 .. Len(live), MaxRanked), Chain(answer)
  PROVE  TypedInv'
<1> DEFINE order == Sorted(Ranked(answer))
<1>1. /\ step = "s8" /\ step' = "s9" /\ raw' = raw /\ also' = also /\ audited' = audited /\ sarif' = sarif
      /\ gone' = {[of |-> d.of, reason |-> d.reason,
                   canonical |-> IF d.canonical = 0 THEN 0 ELSE Remapped(order, d.canonical)] : d \in gone}
  BY DEF Chain
<1>2. FlowInv'
  BY ChainStep DEF TypedInv
<1>3. Once(raw) /\ Once(live) /\ Range(live) \subseteq Range(raw) /\ live \in Seq(Detections)
  BY <1>1 DEF TypedInv, FlowInv, Shared
<1>4. Len(live) \in Nat /\ Len(raw) \in Nat /\ Len(live) <= Len(raw) /\ DOMAIN live = 1 .. Len(live)
  BY <1>3, NotLonger
<1>5. Permutes(order, DOMAIN live)
  <2>1. PICK m \in 0 .. MaxRanked : answer \in [1 .. m -> 0 .. Len(live)]
    BY DEF BoundedSeq, SeqOf
  <2>2. m \in Nat /\ answer \in [1 .. m -> Nat]
    BY <1>4, <2>1, FlowAssumption
  <2>3. answer \in Seq(Nat)
    BY <2>2, ListOf
  <2> QED
    BY <1>3, <2>3, RankedIs, SortedIs
<1> HIDE DEF order
<1>6. \A c \in Nat : c <= Len(raw) => Remapped(order, c) <= Len(raw)
  BY <1>4, <1>5, RemappedIs
<1>7. \A d \in gone : d.canonical \in Nat /\ d.canonical <= Len(raw)
  BY <1>1 DEF TypedInv, FlowInv
<1>8. \A g \in gone' : \E d \in gone :
        g.canonical = IF d.canonical = 0 THEN 0 ELSE Remapped(order, d.canonical)
  BY <1>1
<1>9. \A g \in gone' : g.canonical <= Len(raw')
  BY <1>1, <1>4, <1>6, <1>7, <1>8
<1> QED
  BY <1>1, <1>2, <1>9 DEF TypedInv, Steps

LEMMA TypedInductive ==
  ASSUME TypedInv, [FlowNext]_flowVars
  PROVE  TypedInv'
<1>1. FlowInv'
  BY FlowInductive DEF TypedInv
<1> USE DEF Steps
<1>2. CASE UNCHANGED flowVars
  BY <1>1, <1>2 DEF flowVars, TypedInv
<1>3. ASSUME NEW c \in DOMAIN Chunks,
             NEW runs \in [1 .. RunsOf(Chunks[c]) -> SUBSET Chunks[c].sees], DeepDive(runs)
      PROVE  TypedInv'
  <2>1. /\ step = "s4" /\ step' = "s4" /\ also' = also /\ sarif' = sarif
        /\ audited' = audited + 1 /\ audited < Len(Chunks)
    BY <1>3 DEF DeepDive
  <2>2. Len(Chunks) \in Nat /\ audited' \in 0 .. Len(Chunks)
    BY <2>1, FlowAssumption DEF TypedInv
  <2> QED
    BY <1>1, <2>1, <2>2 DEF TypedInv
<1>4. CASE EndAudit
  <2>1. /\ step' = "s5" /\ also' = also /\ sarif' = sarif /\ audited' = audited
    BY <1>4 DEF EndAudit
  <2>2. gone' = {}
    BY <1>4 DEF EndAudit, TypedInv, FlowInv
  <2> QED
    BY <1>1, <2>1, <2>2 DEF TypedInv
<1>5. ASSUME NEW S, NEW reason, step # "s4", gone' = gone \cup Drop(S, reason),
             raw' = raw, also' = also, sarif' = sarif, audited' = audited, step' \in Steps
      PROVE  TypedInv'
  <2>1. \A g \in Drop(S, reason) : g.canonical = 0
    BY DEF Drop
  <2>2. Len(raw) \in Nat
    BY DEF TypedInv, FlowInv
  <2>3. \A g \in gone' : g.canonical <= Len(raw')
    BY <1>5, <2>1, <2>2 DEF TypedInv
  <2> QED
    BY <1>1, <1>5, <2>3 DEF TypedInv
<1>6. CASE Policies
  BY <1>5, <1>6 DEF Policies
<1>7. ASSUME NEW kept, Verify(kept) PROVE TypedInv'
  BY <1>5, <1>7 DEF Verify
<1>8. CASE Prefilter
  BY <1>1, <1>8, DedupTyped, ParentsAre DEF Prefilter, TypedInv, FlowInv
<1>9. CASE PreSemantic \/ Semantic
  BY <1>1, <1>9, DedupTyped, AnswersAre DEF PreSemantic, Semantic, TypedInv, FlowInv
<1>10. CASE EmitSarif
  <2>1. /\ step = "s9" /\ step' = "done" /\ also' = also /\ audited' = audited /\ gone' = gone /\ raw' = raw
        /\ sarif' = ReadBack(Markdown)
    BY <1>10 DEF EmitSarif
  <2>2. sarif' \in Seq(Detections)
    BY <2>1, MarkdownIs, ReadBackIs DEF TypedInv, FlowInv
  <2> QED
    BY <1>1, <2>1, <2>2 DEF TypedInv
<1> QED
  BY <1>2, <1>3, <1>4, <1>6, <1>7, <1>8, <1>9, <1>10, ChainTyped DEF FlowNext

(* The list of findings, the dropped ones with the numbers they refer to,    *)
(* the sites shown and what is read back from the report have their types,   *)
(* whatever text the findings contain (s9_sarif.py, enrich.py:708-809).      *)
THEOREM FlowTyped == FlowSpec => []FlowTypeOK
<1>1. FlowInit => TypedInv
  BY TypedInitially
<1>2. TypedInv /\ [FlowNext]_flowVars => TypedInv'
  BY TypedInductive
<1>3. TypedInv => FlowTypeOK
  <2> SUFFICES ASSUME TypedInv PROVE FlowTypeOK
    OBVIOUS
  <2>1. /\ gone \subseteq [of : Detections, reason : Reasons, canonical : Nat]
        /\ step = "s4" => gone = {} /\ raw \in Seq(Detections) /\ live \in Seq(Detections)
        /\ step # "s4" => \A g \in gone : g.canonical <= Len(raw)
    BY DEF TypedInv, FlowInv
  <2>2. raw \in Seq(Detections) /\ live \in Seq(Detections) /\ Len(raw) \in Nat
    BY DEF TypedInv, FlowInv
  <2>3. \A g \in gone : g.canonical \in Nat /\ g.canonical <= Len(raw)
    BY <2>1
  <2>4. gone \subseteq [of : Detections, reason : Reasons, canonical : 0 .. Len(raw)]
    BY <2>1, <2>2, <2>3
  <2> QED
    BY <2>2, <2>4 DEF TypedInv, FlowTypeOK
<1> QED
  BY <1>1, <1>2, <1>3, PTL DEF FlowSpec

=============================================================================
