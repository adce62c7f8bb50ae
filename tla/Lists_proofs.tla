---------------------------- MODULE Lists_proofs ----------------------------
(***************************************************************************)
(* What the operators on lists give, for any lists: the ones of Lists, and *)
(* the ones of the community modules that the components use.              *)
(***************************************************************************)
EXTENDS Lists, SequencesExt, FiniteSetTheorems, SequenceTheorems, WellFoundedInduction, TLAPS

-----------------------------------------------------------------------------
(* Orders and lists.                                                         *)

LEMMA Smallest ==
  ASSUME NEW S \in SUBSET Nat, S # {}
  PROVE  \E n \in S : \A m \in S : n <= m
<1> DEFINE Less == {p \in Nat \X Nat : p[1] < p[2]}
<1>1. IsWellFoundedOn(Less, Nat)
  BY NatLessThanWellFounded, Zenon DEF OpToRel
<1>2. \A m, n \in Nat : <<m, n>> \in Less <=> m < n
  OBVIOUS
<1> HIDE DEF Less
<1>3. PICK n \in S : \A m \in S : <<m, n>> \notin Less
  BY <1>1, WFMin
<1>4. \A m \in S : ~(m < n)
  BY <1>2, <1>3, Zenon
<1> QED
  BY <1>4

LEMMA ListOf ==
  ASSUME NEW T, NEW n \in Nat, NEW f \in [1 .. n -> T]
  PROVE  f \in Seq(T) /\ Len(f) = n
  BY SeqDef, LenProperties

LEMMA CountOfInitial ==
  ASSUME NEW n \in Nat
  PROVE  IsFiniteSet(1 .. n) /\ Cardinality(1 .. n) = n
  BY FS_Interval

(* upto orders K: of two members, the one's predecessors are the other's.    *)
LinearOrder(upto, K) ==
  /\ upto \in [K -> SUBSET K]
  /\ \A i \in K : i \in upto[i]
  /\ \A i, j \in K : i # j => \/ upto[i] \subseteq upto[j] /\ j \notin upto[i]
                              \/ upto[j] \subseteq upto[i] /\ i \notin upto[j]

(* seq is the members of K, each of them once.                               *)
Numbering(seq, K) ==
  /\ Cardinality(K) \in Nat
  /\ seq \in [1 .. Cardinality(K) -> K]
  /\ \A m, n \in 1 .. Cardinality(K) : seq[m] = seq[n] => m = n
  /\ \A i \in K : \E n \in 1 .. Cardinality(K) : seq[n] = i

(* Then no two members are equally far, and they are numbered from 1.        *)
LEMMA OrderedIs ==
  ASSUME NEW K, IsFiniteSet(K), NEW upto, LinearOrder(upto, K)
  PROVE  /\ Numbering(Ordered(upto), K)
         /\ \A n \in 1 .. Cardinality(K) : Cardinality(upto[Ordered(upto)[n]]) = n
<1>0. /\ upto \in [K -> SUBSET K] /\ DOMAIN upto = K
      /\ \A i \in K : i \in upto[i]
      /\ \A i, j \in K : i # j => \/ upto[i] \subseteq upto[j] /\ j \notin upto[i]
                                  \/ upto[j] \subseteq upto[i] /\ i \notin upto[j]
  BY DEF LinearOrder
<1> DEFINE C == Cardinality(K)
           place == [i \in K |-> Cardinality(upto[i])]
<1>1. C \in Nat
  BY FS_CardinalityType
<1>2. \A i \in K : /\ IsFiniteSet(upto[i]) /\ Cardinality(upto[i]) \in 1 .. C
                   /\ Cardinality(upto[i]) \in Nat
  <2> TAKE i \in K
  <2>1. IsFiniteSet(upto[i]) /\ Cardinality(upto[i]) <= C
    BY <1>0, FS_Subset
  <2>2. Cardinality(upto[i]) \in Nat
    BY <2>1, FS_CardinalityType
  <2>3. Cardinality(upto[i]) # 0
    BY <1>0, <2>1, FS_EmptySet
  <2> QED
    BY <1>1, <2>1, <2>2, <2>3
<1>3. ASSUME NEW i \in K, NEW j \in K, upto[i] \subseteq upto[j], j \notin upto[i]
      PROVE  Cardinality(upto[i]) # Cardinality(upto[j])
  <2>1. upto[i] \in SUBSET upto[j] /\ upto[j] # upto[i]
    BY <1>0, <1>3
  <2> QED
    BY <1>2, <2>1, FS_Subset
<1>4. \A i, j \in K : Cardinality(upto[i]) = Cardinality(upto[j]) => i = j
  BY <1>0, <1>3
<1>5. place \in Injection(K, 1 .. C)
  BY <1>2, <1>4 DEF Injection, IsInjective
<1>6. IsFiniteSet(1 .. C) /\ Cardinality(1 .. C) = C
  BY <1>1, CountOfInitial
<1>7. place \in Surjection(K, 1 .. C)
  BY <1>5, <1>6, FS_Injection
<1>8. \A n \in 1 .. C : \E i \in K : Cardinality(upto[i]) = n
  BY <1>7 DEF Surjection
<1>9. \A n \in 1 .. C : /\ Ordered(upto)[n] \in K
                        /\ Cardinality(upto[Ordered(upto)[n]]) = n
  BY <1>0, <1>8 DEF Ordered
<1>10. Ordered(upto) = [n \in 1 .. C |-> Ordered(upto)[n]]
  BY <1>0 DEF Ordered
<1> HIDE DEF C, place
<1>11. \A m, n \in 1 .. C : Ordered(upto)[m] = Ordered(upto)[n] => m = n
  BY <1>9
<1>12. \A i \in K : \E n \in 1 .. C : Ordered(upto)[n] = i
  <2> TAKE i \in K
  <2> DEFINE n == Cardinality(upto[i])
  <2>1. n \in 1 .. C
    BY <1>2
  <2>2. Ordered(upto)[n] = i
    BY <1>4, <1>9, <2>1
  <2> QED
    BY <2>1, <2>2
<1>13. Ordered(upto) \in [1 .. C -> K]
  BY <1>9, <1>10
<1> QED
  BY <1>1, <1>9, <1>11, <1>12, <1>13 DEF C, Numbering

LEMMA AscendingIs ==
  ASSUME NEW K \in SUBSET Nat, IsFiniteSet(K)
  PROVE  /\ Numbering(Ascending(K), K)
         /\ \A m, n \in 1 .. Cardinality(K) : m < n => Ascending(K)[m] < Ascending(K)[n]
<1> DEFINE upto == [i \in K |-> {j \in K : j <= i}]
<1>1. upto \in [K -> SUBSET K]
  OBVIOUS
<1>5. \A i \in K : i \in upto[i]
  OBVIOUS
<1>2. \A i, j \in K : i # j => \/ upto[i] \subseteq upto[j] /\ j \notin upto[i]
                               \/ upto[j] \subseteq upto[i] /\ i \notin upto[j]
  <2> TAKE i, j \in K
  <2>1. i \in Nat /\ j \in Nat
    OBVIOUS
  <2>0. \A k : /\ k \in upto[i] <=> k \in K /\ k <= i
               /\ k \in upto[j] <=> k \in K /\ k <= j
    OBVIOUS
  <2> HIDE DEF upto
  <2>4. \A k \in K : k \in Nat
    OBVIOUS
  <2>2. ASSUME i < j PROVE upto[i] \subseteq upto[j] /\ j \notin upto[i]
    <3>1. ASSUME NEW k \in upto[i] PROVE k \in upto[j]
      <4>1. k \in K /\ k <= i /\ k \in Nat
        BY <2>0, <2>4
      <4>2. k <= j
        BY <2>1, <2>2, <4>1
      <4> QED
        BY <2>0, <4>1, <4>2
    <3>2. ~(j <= i)
      BY <2>1, <2>2
    <3>3. j \notin upto[i]
      BY <2>0, <3>2, Zenon
    <3> QED
      BY <3>1, <3>3
  <2>3. ASSUME j < i PROVE upto[j] \subseteq upto[i] /\ i \notin upto[j]
    <3>1. ASSUME NEW k \in upto[j] PROVE k \in upto[i]
      <4>1. k \in K /\ k <= j /\ k \in Nat
        BY <2>0, <2>4
      <4>2. k <= i
        BY <2>1, <2>3, <4>1
      <4> QED
        BY <2>0, <4>1, <4>2
    <3>2. ~(i <= j)
      BY <2>1, <2>3
    <3>3. i \notin upto[j]
      BY <2>0, <3>2, Zenon
    <3> QED
      BY <3>1, <3>3
  <2> QED
    BY <2>1, <2>2, <2>3
<1>3. Ascending(K) = Ordered(upto)
  BY DEF Ascending
<1> HIDE DEF upto
<1>4. LinearOrder(upto, K)
  BY <1>1, <1>2, <1>5, Zenon DEF LinearOrder
<1> DEFINE C == Cardinality(K)
           A == Ascending(K)
<1>6. Numbering(A, K) /\ \A n \in 1 .. C : Cardinality(upto[A[n]]) = n
  BY <1>3, <1>4, OrderedIs
<1>7. C \in Nat /\ A \in [1 .. C -> K]
  BY <1>6 DEF Numbering
<1> HIDE DEF A, C
<1>8. ASSUME NEW m \in 1 .. C, NEW n \in 1 .. C, m < n, ~(A[m] < A[n])
      PROVE  FALSE
  <2>0. A[m] \in K /\ A[n] \in K
    BY <1>7
  <2>1. A[m] \in K /\ A[n] \in K /\ A[n] <= A[m] /\ A[m] \in Nat /\ A[n] \in Nat
    <3>1. A[m] \in Nat /\ A[n] \in Nat
      BY <2>0
    <3> QED
      BY <1>8, <2>0, <3>1
  <2>2. upto[A[n]] = {j \in K : j <= A[n]} /\ upto[A[m]] = {j \in K : j <= A[m]}
    BY <2>1 DEF upto
  <2>3. upto[A[n]] \in SUBSET upto[A[m]]
    <3>1. ASSUME NEW j \in upto[A[n]] PROVE j \in upto[A[m]]
      <4>1. j \in K /\ j <= A[n]
        BY <2>2, <3>1
      <4>2. j \in Nat
        BY <4>1
      <4>3. j <= A[m]
        BY <2>1, <4>1, <4>2
      <4> QED
        BY <2>2, <4>1, <4>3
    <3> QED
      BY <3>1
  <2>4. IsFiniteSet(upto[A[m]])
    BY <2>2, FS_Subset
  <2>5. Cardinality(upto[A[n]]) <= Cardinality(upto[A[m]])
    BY <2>3, <2>4, FS_Subset
  <2> QED
    BY <1>6, <1>7, <1>8, <2>5
<1> QED
  BY <1>6, <1>8 DEF A, C

(* Filtering a list: what stays, how much it is, and that no item is twice   *)
(* if none was.                                                              *)
LEMMA PickedIs ==
  ASSUME NEW T, NEW list \in Seq(T), NEW K \in SUBSET DOMAIN list
  PROVE  /\ Picked(list, K) \in Seq(T)
         /\ Len(Picked(list, K)) = Cardinality(K) /\ Cardinality(K) \in Nat
         /\ Len(Picked(list, K)) <= Len(list)
         /\ Range(Picked(list, K)) = {list[i] : i \in K}
         /\ (\A i, j \in K : list[i] = list[j] => i = j) => IsInjective(Picked(list, K))
<1> DEFINE C == Cardinality(K)
           A == Ascending(K)
<1>1. K \in SUBSET Nat /\ IsFiniteSet(K) /\ Cardinality(K) <= Len(list)
  <2>1. DOMAIN list = 1 .. Len(list) /\ Len(list) \in Nat
    OBVIOUS
  <2>2. IsFiniteSet(1 .. Len(list)) /\ Cardinality(1 .. Len(list)) = Len(list)
    BY <2>1, CountOfInitial
  <2> QED
    BY <2>1, <2>2, FS_Subset
<1>2. /\ C \in Nat /\ A \in [1 .. C -> K]
      /\ \A m, n \in 1 .. C : A[m] = A[n] => m = n
      /\ \A i \in K : \E n \in 1 .. C : A[n] = i
  BY <1>1, AscendingIs DEF Numbering
<1>3. Picked(list, K) = [n \in 1 .. C |-> list[A[n]]]
  BY DEF Picked
<1> HIDE DEF C, A
<1>4. \A i \in K : list[i] \in T
  OBVIOUS
<1>5. Picked(list, K) \in [1 .. C -> T]
  BY <1>2, <1>3, <1>4
<1>6. Picked(list, K) \in Seq(T) /\ Len(Picked(list, K)) = C /\ DOMAIN Picked(list, K) = 1 .. C
  BY <1>2, <1>5, SeqDef, LenProperties
<1>7. Range(Picked(list, K)) = {list[i] : i \in K}
  <2>1. Range(Picked(list, K)) = {Picked(list, K)[n] : n \in 1 .. C}
    BY <1>6 DEF Range
  <2>2. \A n \in 1 .. C : Picked(list, K)[n] = list[A[n]] /\ A[n] \in K
    BY <1>2, <1>3
  <2>3. \A i \in K : list[i] \in Range(Picked(list, K))
    BY <1>2, <2>1, <2>2
  <2>4. \A d \in Range(Picked(list, K)) : \E i \in K : d = list[i]
    BY <2>1, <2>2
  <2> QED
    BY <2>3, <2>4
<1>8. ASSUME \A i, j \in K : list[i] = list[j] => i = j
      PROVE  IsInjective(Picked(list, K))
  BY <1>2, <1>3, <1>6, <1>8 DEF IsInjective
<1> QED
  BY <1>1, <1>2, <1>6, <1>7, <1>8 DEF C

LEMMA KeepIs ==
  ASSUME NEW T, NEW list \in Seq(T), NEW S
  PROVE  /\ Keep(list, S) \in Seq(T)
         /\ Range(Keep(list, S)) = Range(list) \cap S
         /\ IsInjective(list) => IsInjective(Keep(list, S))
<1> DEFINE K == {i \in DOMAIN list : list[i] \in S}
<1>1. K \in SUBSET DOMAIN list /\ Keep(list, S) = Picked(list, K)
  BY DEF Keep
<1>2. {list[i] : i \in K} = Range(list) \cap S
  BY DEF Range
<1>3. IsInjective(list) => \A i, j \in K : list[i] = list[j] => i = j
  BY DEF IsInjective
<1> HIDE DEF K
<1> QED
  BY <1>1, <1>2, <1>3, PickedIs

(* Induction over an initial part of Nat, by a set.                          *)
LEMMA UpTo ==
  ASSUME NEW L \in Nat, NEW T, 0 \in T, \A n \in 0 .. (L - 1) : n \in T => n + 1 \in T
  PROVE  \A n \in 0 .. L : n \in T
<1> DEFINE fails == {n \in 0 .. L : n \notin T}
<1>1. SUFFICES ASSUME fails # {} PROVE FALSE
  OBVIOUS
<1>2. fails \in SUBSET Nat
  OBVIOUS
<1>3. PICK n \in fails : \A m \in fails : n <= m
  BY <1>1, <1>2, Smallest
<1>4. n \in 0 .. L /\ n # 0 /\ n \notin T
  BY <1>3
<1>5. n - 1 \in 0 .. (L - 1) /\ (n - 1) + 1 = n /\ n - 1 \in 0 .. L /\ ~(n <= n - 1)
  BY <1>4
<1>6. n - 1 \in T
  BY <1>3, <1>5
<1> QED
  BY <1>4, <1>5, <1>6

(* Two lists joined: what each has, and nothing else.                        *)
LEMMA JoinedIs ==
  ASSUME NEW T, NEW s \in Seq(T), NEW t \in Seq(T)
  PROVE  s \o t \in Seq(T) /\ Range(s \o t) = Range(s) \cup Range(t)
<1>1. /\ s \o t \in Seq(T) /\ Len(s \o t) = Len(s) + Len(t)
      /\ \A i \in 1 .. (Len(s) + Len(t)) : (s \o t)[i] = IF i <= Len(s) THEN s[i] ELSE t[i - Len(s)]
      /\ Len(s) \in Nat /\ Len(t) \in Nat
      /\ DOMAIN s = 1 .. Len(s) /\ DOMAIN t = 1 .. Len(t)
  OBVIOUS
<1>2. DOMAIN (s \o t) = 1 .. (Len(s) + Len(t))
  BY <1>1
<1>3. ASSUME NEW x \in Range(s \o t) PROVE x \in Range(s) \cup Range(t)
  <2>1. PICK i \in 1 .. (Len(s) + Len(t)) : x = (s \o t)[i]
    BY <1>2 DEF Range
  <2>2. CASE i <= Len(s)
    <3>1. i \in DOMAIN s /\ x = s[i]
      BY <1>1, <2>1, <2>2
    <3> QED
      BY <3>1 DEF Range
  <2>3. CASE ~(i <= Len(s))
    <3>1. i - Len(s) \in DOMAIN t /\ x = t[i - Len(s)]
      BY <1>1, <2>1, <2>3
    <3> QED
      BY <3>1 DEF Range
  <2> QED
    BY <2>2, <2>3
<1>4. ASSUME NEW x \in Range(s) PROVE x \in Range(s \o t)
  <2>1. PICK i \in DOMAIN s : x = s[i]
    BY DEF Range
  <2>2. i \in 1 .. (Len(s) + Len(t)) /\ i <= Len(s)
    BY <1>1
  <2>3. x = (s \o t)[i]
    BY <1>1, <2>1, <2>2
  <2> QED
    BY <1>2, <2>2, <2>3 DEF Range
<1>5. ASSUME NEW x \in Range(t) PROVE x \in Range(s \o t)
  <2>1. PICK j \in DOMAIN t : x = t[j]
    BY DEF Range
  <2> DEFINE i == Len(s) + j
  <2>2. i \in 1 .. (Len(s) + Len(t)) /\ ~(i <= Len(s)) /\ i - Len(s) = j
    BY <1>1
  <2>3. x = (s \o t)[i]
    BY <1>1, <2>1, <2>2
  <2> QED
    BY <1>2, <2>2, <2>3 DEF Range
<1> QED
  BY <1>1, <1>3, <1>4, <1>5

(* Lists one after the other, as what is there once each of them is added.   *)
Adding(ss, F) ==
  /\ FlattenSeq(ss) = IF ss = <<>> THEN <<>> ELSE F[Len(ss)]
  /\ \A i \in DOMAIN ss : F[i] = IF i = 1 THEN ss[i] ELSE F[i - 1] \o ss[i]

LEMMA FlattenAdds ==
  ASSUME NEW T, NEW ss \in Seq(Seq(T))
  PROVE  \E F : Adding(ss, F)
<1> DEFINE L == Len(ss)
           D(g) == [i \in 1 .. L |-> IF i = 1 THEN ss[i] ELSE g[i - 1] \o ss[i]]
           F == CHOOSE g : g = D(g)
           made(g, n) == \A i \in 1 .. n : g[i] = IF i = 1 THEN ss[i] ELSE g[i - 1] \o ss[i]
           can == {n \in 0 .. L : \E g \in [1 .. n -> Seq(T)] : made(g, n)}
<1>1. L \in Nat /\ DOMAIN ss = 1 .. L /\ \A i \in 1 .. L : ss[i] \in Seq(T)
  OBVIOUS
<1>2. FlattenSeq(ss) = IF L = 0 THEN ss ELSE F[L]
  BY Zenon DEF FlattenSeq
<1>3. 0 \in can
  <2> DEFINE g == [i \in 1 .. 0 |-> <<>>]
  <2>1. g \in [1 .. 0 -> Seq(T)] /\ made(g, 0)
    OBVIOUS
  <2> HIDE DEF g, made
  <2>2. 0 \in 0 .. L
    BY <1>1
  <2> QED
    BY <2>1, <2>2
<1>4. ASSUME NEW n \in 0 .. (L - 1), n \in can
      PROVE  n + 1 \in can
  <2>1. PICK g \in [1 .. n -> Seq(T)] : made(g, n)
    BY <1>4
  <2>2. n \in Nat /\ n + 1 \in 1 .. L /\ n + 1 \in 0 .. L
    BY <1>1, <1>4
  <2> DEFINE v == IF n = 0 THEN ss[1] ELSE g[n] \o ss[n + 1]
             h == [i \in 1 .. (n + 1) |-> IF i = n + 1 THEN v ELSE g[i]]
  <2>3. v \in Seq(T)
    <3>1. CASE n = 0
      BY <1>1, <2>2, <3>1
    <3>2. CASE n # 0
      <4>1. n \in 1 .. n /\ g[n] \in Seq(T) /\ ss[n + 1] \in Seq(T)
        BY <1>1, <2>2, <3>2
      <4> QED
        BY <3>2, <4>1, ConcatProperties
    <3> QED
      BY <3>1, <3>2
  <2> HIDE DEF v
  <2>4. h \in [1 .. (n + 1) -> Seq(T)]
    BY <2>2, <2>3
  <2>5. ASSUME NEW i \in 1 .. (n + 1)
        PROVE  h[i] = IF i = 1 THEN ss[i] ELSE h[i - 1] \o ss[i]
    <3>1. CASE i = n + 1
      <4>1. n # 0 => n \in 1 .. (n + 1) /\ h[n] = g[n]
        BY <2>2
      <4> QED
        BY <2>2, <3>1, <4>1 DEF v
    <3>2. CASE i # n + 1
      <4>1. i \in 1 .. n /\ h[i] = g[i] /\ (i # 1 => i - 1 \in 1 .. n /\ h[i - 1] = g[i - 1])
        BY <2>2, <3>2
      <4> QED
        BY <2>1, <4>1
    <3> QED
      BY <3>1, <3>2
  <2> QED
    BY <2>2, <2>4, <2>5
<1>5. \A n \in 0 .. L : n \in can
  <2> HIDE DEF can
  <2> QED
    BY <1>1, <1>3, <1>4, UpTo
<1>6. PICK g \in [1 .. L -> Seq(T)] : made(g, L)
  <2>1. L \in 0 .. L
    BY <1>1
  <2>2. L \in can
    BY <1>5, <2>1
  <2> HIDE DEF made
  <2> QED
    BY <2>2
<1>7. g = D(g)
  BY <1>6
<1>8. F = D(F)
  BY <1>7, Zenon
<1> HIDE DEF F
<1>9. \A i \in 1 .. L : F[i] = IF i = 1 THEN ss[i] ELSE F[i - 1] \o ss[i]
  BY <1>8
<1> HIDE DEF D, can
<1>10. ss = <<>> <=> L = 0
  BY <1>1
<1>11. Adding(ss, F)
  BY <1>1, <1>2, <1>9, <1>10 DEF Adding
<1> QED
  BY <1>11, Zenon

(* Every item of each, and nothing else.                                     *)
LEMMA FlattenIs ==
  ASSUME NEW T, NEW ss \in Seq(Seq(T))
  PROVE  /\ FlattenSeq(ss) \in Seq(T)
         /\ Range(FlattenSeq(ss)) = UNION {Range(ss[i]) : i \in DOMAIN ss}
<1> DEFINE L == Len(ss)
<1>1. L \in Nat /\ DOMAIN ss = 1 .. L /\ \A i \in 1 .. L : ss[i] \in Seq(T)
  OBVIOUS
<1>8. PICK F : Adding(ss, F)
  BY FlattenAdds
<1>2. FlattenSeq(ss) = IF L = 0 THEN ss ELSE F[L]
  <2>1. ss = <<>> <=> L = 0
    BY <1>1
  <2> QED
    BY <1>8, <2>1 DEF Adding
<1>9. \A i \in 1 .. L : F[i] = IF i = 1 THEN ss[i] ELSE F[i - 1] \o ss[i]
  BY <1>1, <1>8 DEF Adding
<1> DEFINE right == {n \in 0 .. L : n # 0 => /\ F[n] \in Seq(T)
                                             /\ Range(F[n]) = UNION {Range(ss[i]) : i \in 1 .. n}}
<1>10. 0 \in right
  BY <1>1
<1>11. ASSUME NEW n \in 0 .. (L - 1), n \in right
       PROVE  n + 1 \in right
  <2>1. n \in Nat /\ n + 1 \in 1 .. L /\ n + 1 \in 0 .. L /\ ss[n + 1] \in Seq(T)
        /\ 1 .. (n + 1) = (1 .. n) \cup {n + 1}
    BY <1>1, <1>11
  <2>2. UNION {Range(ss[i]) : i \in 1 .. (n + 1)} = (UNION {Range(ss[i]) : i \in 1 .. n}) \cup Range(ss[n + 1])
    BY <2>1
  <2>3. CASE n = 0
    BY <1>9, <2>1, <2>2, <2>3
  <2>4. CASE n # 0
    <3>1. F[n] \in Seq(T) /\ Range(F[n]) = UNION {Range(ss[i]) : i \in 1 .. n}
      BY <1>11, <2>4
    <3>2. F[n + 1] = F[n] \o ss[n + 1]
      <4>1. n + 1 # 1 /\ (n + 1) - 1 = n
        BY <2>1, <2>4
      <4> QED
        BY <1>9, <2>1, <4>1
    <3>3. F[n] \o ss[n + 1] \in Seq(T) /\ Range(F[n] \o ss[n + 1]) = Range(F[n]) \cup Range(ss[n + 1])
      BY <2>1, <3>1, ConcatProperties, RangeConcatenation
    <3> QED
      BY <2>1, <2>2, <3>1, <3>2, <3>3
  <2> QED
    BY <2>3, <2>4
<1>12. \A n \in 0 .. L : n \in right
  <2> HIDE DEF right
  <2> QED
    BY <1>1, <1>10, <1>11, UpTo
<1>13. CASE L = 0
  <2>1. ss = <<>>
    BY <1>1, <1>13
  <2> QED
    BY <1>2, <1>13, <2>1 DEF Range
<1>14. CASE L # 0
  <2>1. L \in right
    <3> HIDE DEF right
    <3>1. L \in 0 .. L
      BY <1>1
    <3> QED
      BY <1>12, <3>1
  <2> QED
    BY <1>1, <1>2, <1>14, <2>1
<1> QED
  BY <1>13, <1>14

(* The members of a finite set, each of them once.                           *)
LEMMA SetToSeqIs ==
  ASSUME NEW S, IsFiniteSet(S)
  PROVE  /\ SetToSeq(S) \in Seq(S) /\ Len(SetToSeq(S)) = Cardinality(S)
         /\ Range(SetToSeq(S)) = S /\ Cardinality(S) \in Nat
<1> DEFINE C == Cardinality(S)
           f == SetToSeq(S)
<1>1. C \in Nat /\ ExistsBijection(1 .. C, S)
  BY FS_CardinalityType
<1>2. PICK g \in Bijection(1 .. C, S) : TRUE
  BY <1>1 DEF ExistsBijection
<1>3. g \in [1 .. C -> S] /\ IsInjective(g)
  BY <1>2 DEF Bijection, Injection, IsInjective
<1>4. f = CHOOSE h \in [1 .. C -> S] : IsInjective(h)
  BY DEF SetToSeq
<1>5. f \in [1 .. C -> S] /\ IsInjective(f)
  <2> HIDE DEF f
  <2> QED
    BY <1>3, <1>4
<1>6. IsFiniteSet(1 .. C) /\ Cardinality(1 .. C) = C
  BY <1>1, CountOfInitial
<1> HIDE DEF f
<1>7. f \in Injection(1 .. C, S)
  BY <1>5 DEF Injection, IsInjective
<1>8. f \in Surjection(1 .. C, S)
  BY <1>6, <1>7, FS_Injection
<1>9. f \in Seq(S) /\ Len(f) = C /\ DOMAIN f = 1 .. C
  BY <1>1, <1>5, ListOf
<1>10. Range(f) = S
  BY <1>8, <1>9 DEF Surjection, Range
<1> QED
  BY <1>1, <1>9, <1>10 DEF f, C

(* Some member of a finite set has none above it.                            *)
LEMMA Greatest ==
  ASSUME NEW T, NEW S \in SUBSET T, IsFiniteSet(S), S # {}, NEW key \in [T -> Int]
  PROVE  \E d \in S : \A e \in S : key[e] <= key[d]
<1> DEFINE above(d) == {e \in S : ~(key[e] <= key[d])}
           counts == {Cardinality(above(d)) : d \in S}
<1>1. \A d \in S : key[d] \in Int
  OBVIOUS
<1>2. \A d \in S : IsFiniteSet(above(d)) /\ Cardinality(above(d)) \in Nat
  <2> TAKE d \in S
  <2>1. above(d) \in SUBSET S
    OBVIOUS
  <2>2. IsFiniteSet(above(d))
    BY <2>1, FS_Subset
  <2> QED
    BY <2>2, FS_CardinalityType
<1>3. counts \in SUBSET Nat /\ counts # {}
  BY <1>2
<1>4. PICK n \in counts : \A m \in counts : n <= m
  BY <1>3, Smallest
<1>5. PICK d \in S : n = Cardinality(above(d))
  BY <1>4
<1>6. ASSUME NEW e \in S, ~(key[e] <= key[d])
      PROVE  FALSE
  <2>1. \A x \in above(e) : x \in above(d)
    BY <1>1, <1>6
  <2>2. e \in above(d) /\ e \notin above(e)
    BY <1>1, <1>6
  <2>3. above(e) \in SUBSET above(d) /\ above(e) # above(d)
    BY <2>1, <2>2
  <2> HIDE DEF above
  <2>4. Cardinality(above(e)) <= Cardinality(above(d)) /\ Cardinality(above(e)) # Cardinality(above(d))
    BY <1>2, <2>3, FS_Subset
  <2>5. n <= Cardinality(above(e))
    BY <1>4
  <2> QED
    BY <1>2, <1>5, <2>4, <2>5
<1> QED
  BY <1>6

(* So many members of a finite set, none of which is below one that is left. *)
LEMMA TopMembers ==
  ASSUME NEW S, IsFiniteSet(S), NEW key \in [S -> Int], NEW n \in Nat, n <= Cardinality(S)
  PROVE  \E T \in SUBSET S : Cardinality(T) = n /\ \A x \in T, y \in S \ T : key[y] <= key[x]
<1> DEFINE top(T, m) == Cardinality(T) = m /\ \A x \in T, y \in S \ T : key[y] <= key[x]
           can == {m \in 0 .. n : \E T \in SUBSET S : top(T, m)}
<1>1. 0 \in can
  <2>1. {} \in SUBSET S /\ top({}, 0) /\ 0 \in 0 .. n
    BY FS_EmptySet
  <2> HIDE DEF top
  <2> QED
    BY <2>1
<1>2. ASSUME NEW m \in 0 .. (n - 1), m \in can PROVE m + 1 \in can
  <2>1. PICK T \in SUBSET S : top(T, m)
    BY <1>2
  <2>2. IsFiniteSet(T) /\ IsFiniteSet(S \ T) /\ Cardinality(S) \in Nat
    BY FS_Subset, FS_CardinalityType
  <2>3. S \ T # {}
    <3>1. T # S
      BY <1>2, <2>1, <2>2
    <3> QED
      BY <3>1
  <2>4. PICK d \in S \ T : \A e \in S \ T : key[e] <= key[d]
    BY <2>2, <2>3, Greatest
  <2> DEFINE R == T \cup {d}
  <2>5. Cardinality(R) = m + 1
    BY <2>1, <2>2, FS_AddElement
  <2>6. \A x \in R, y \in S \ R : key[y] <= key[x]
    BY <2>1, <2>4
  <2>7. R \in SUBSET S /\ m + 1 \in 0 .. n
    BY <1>2
  <2>8. top(R, m + 1)
    BY <2>5, <2>6
  <2> HIDE DEF top, R
  <2> QED
    BY <2>7, <2>8
<1>3. n \in can
  <2> HIDE DEF can
  <2>1. n \in 0 .. n
    OBVIOUS
  <2> QED
    BY <1>1, <1>2, <2>1, UpTo
<1> QED
  BY <1>3

(* An order by an integer key, and where that is equal by the index.         *)
LEMMA ByKey ==
  ASSUME NEW K \in SUBSET Nat, NEW key \in [K -> Int], NEW upto \in [K -> SUBSET K],
         \A i, j \in K : j \in upto[i] <=> key[j] < key[i] \/ (key[j] = key[i] /\ j <= i)
  PROVE  LinearOrder(upto, K)
<1> DEFINE before(j, i) == key[j] < key[i] \/ (key[j] = key[i] /\ j <= i)
<1>1. \A i \in K : key[i] \in Int /\ i \in Nat
  OBVIOUS
<1>2. \A i \in K : i \in upto[i]
  BY <1>1
<1>3. ASSUME NEW i \in K, NEW j \in K, i # j, before(i, j)
      PROVE  upto[i] \subseteq upto[j] /\ j \notin upto[i]
  <2>1. j \notin upto[i]
    BY <1>1, <1>3
  <2>2. ASSUME NEW k \in upto[i] PROVE k \in upto[j]
    <3>1. k \in K /\ before(k, i)
      OBVIOUS
    <3>2. before(k, j)
      BY <1>1, <1>3, <3>1
    <3> QED
      BY <3>1, <3>2
  <2> QED
    BY <2>1, <2>2
<1>4. \A i, j \in K : before(i, j) \/ before(j, i)
  BY <1>1
<1> HIDE DEF before
<1>5. \A i, j \in K : i # j => \/ upto[i] \subseteq upto[j] /\ j \notin upto[i]
                               \/ upto[j] \subseteq upto[i] /\ i \notin upto[j]
  BY <1>3, <1>4
<1> QED
  BY <1>2, <1>5, Zenon DEF LinearOrder

(* list is the parts one after the other, the i-th after the first off[i]    *)
(* items.                                                                    *)
Parts(list, parts, off) ==
  LET n == Len(parts)
  IN /\ off \in [1 .. (n + 1) -> Nat] /\ off[1] = 0 /\ Len(list) = off[n + 1]
     /\ \A i \in 1 .. n : off[i + 1] = off[i] + Len(parts[i])
     /\ \A i \in 1 .. n, j \in 1 .. (n + 1) : i < j => off[i + 1] <= off[j]
     /\ \A i \in 1 .. n : \A j \in 1 .. Len(parts[i]) : list[off[i] + j] = parts[i][j]
     /\ \A k \in 1 .. Len(list) : \E i \in 1 .. n : \E j \in 1 .. Len(parts[i]) : k = off[i] + j

LEMMA FlattenAt ==
  ASSUME NEW T, NEW parts \in Seq(Seq(T))
  PROVE  \E off : Parts(FlattenSeq(parts), parts, off)
<1> DEFINE L == Len(parts)
<1>1. L \in Nat /\ DOMAIN parts = 1 .. L /\ \A i \in 1 .. L : parts[i] \in Seq(T)
  OBVIOUS
<1>2. PICK F : Adding(parts, F)
  BY FlattenAdds
<1>3. \A i \in 1 .. L : F[i] = IF i = 1 THEN parts[i] ELSE F[i - 1] \o parts[i]
  BY <1>1, <1>2 DEF Adding
<1> DEFINE B == [i \in 1 .. (L + 1) |-> IF i = 1 THEN <<>> ELSE F[i - 1]]
<1>4. B[1] = <<>> /\ FlattenSeq(parts) = B[L + 1]
  <2>1. 1 \in 1 .. (L + 1) /\ L + 1 \in 1 .. (L + 1) /\ (L + 1) - 1 = L /\ (L + 1 = 1 <=> parts = <<>>)
    BY <1>1
  <2> QED
    BY <1>2, <2>1 DEF Adding
<1>5. \A i \in 1 .. L : B[i + 1] = B[i] \o parts[i]
  <2> TAKE i \in 1 .. L
  <2>1. i + 1 \in 1 .. (L + 1) /\ i + 1 # 1 /\ (i + 1) - 1 = i /\ i \in 1 .. (L + 1)
    BY <1>1
  <2>2. B[i + 1] = F[i]
    BY <2>1
  <2>3. CASE i = 1
    BY <1>1, <1>3, <1>4, <2>2, <2>3
  <2>4. CASE i # 1
    BY <1>3, <2>1, <2>2, <2>4
  <2> QED
    BY <2>3, <2>4
<1> HIDE DEF B
<1>6. \A i \in 1 .. (L + 1) : B[i] \in Seq(T)
  <2> DEFINE typed == {n \in 0 .. L : B[n + 1] \in Seq(T)}
  <2>1. 0 \in typed
    <3>1. 0 \in 0 .. L /\ 0 + 1 = 1 /\ <<>> \in Seq(T)
      BY <1>1
    <3> QED
      BY <1>4, <3>1
  <2>2. ASSUME NEW n \in 0 .. (L - 1), n \in typed PROVE n + 1 \in typed
    <3>1. n + 1 \in 1 .. L /\ n + 1 \in 0 .. L /\ B[n + 1] \in Seq(T)
      BY <1>1, <2>2
    <3>2. B[(n + 1) + 1] = B[n + 1] \o parts[n + 1] /\ parts[n + 1] \in Seq(T)
      BY <1>1, <1>5, <3>1
    <3>3. B[(n + 1) + 1] \in Seq(T)
      BY <3>1, <3>2, ConcatProperties
    <3> QED
      BY <3>1, <3>3
  <2>3. \A n \in 0 .. L : n \in typed
    <3> HIDE DEF typed
    <3> QED
      BY <1>1, <2>1, <2>2, UpTo
  <2> TAKE i \in 1 .. (L + 1)
  <2>4. i - 1 \in 0 .. L /\ (i - 1) + 1 = i
    BY <1>1
  <2> QED
    BY <2>3, <2>4
<1> DEFINE off == [i \in 1 .. (L + 1) |-> Len(B[i])]
<1>7. /\ off \in [1 .. (L + 1) -> Nat] /\ off[1] = 0
      /\ \A i \in 1 .. (L + 1) : off[i] = Len(B[i]) /\ DOMAIN B[i] = 1 .. off[i]
  BY <1>1, <1>4, <1>6
<1> HIDE DEF off
<1>8. \A i \in 1 .. L : /\ off[i + 1] = off[i] + Len(parts[i]) /\ Len(parts[i]) \in Nat
                        /\ off[i] \in Nat /\ off[i + 1] \in Nat /\ DOMAIN parts[i] = 1 .. Len(parts[i])
                        /\ \A k \in 1 .. off[i + 1] :
                             B[i + 1][k] = IF k <= off[i] THEN B[i][k] ELSE parts[i][k - off[i]]
  <2> TAKE i \in 1 .. L
  <2>1. i \in 1 .. (L + 1) /\ i + 1 \in 1 .. (L + 1) /\ B[i] \in Seq(T) /\ parts[i] \in Seq(T)
    BY <1>1, <1>6
  <2>2. B[i + 1] = B[i] \o parts[i]
    BY <1>5
  <2> DEFINE a == B[i]
             b == parts[i]
  <2>3. /\ Len(a \o b) = Len(a) + Len(b) /\ Len(a) \in Nat /\ Len(b) \in Nat
        /\ DOMAIN a = 1 .. Len(a) /\ DOMAIN b = 1 .. Len(b)
        /\ \A k \in 1 .. (Len(a) + Len(b)) : (a \o b)[k] = IF k <= Len(a) THEN a[k] ELSE b[k - Len(a)]
    <3>1. a \in Seq(T) /\ b \in Seq(T)
      BY <2>1
    <3> HIDE DEF a, b
    <3> QED
      BY <3>1
  <2>4. off[i] = Len(a) /\ off[i + 1] = Len(a \o b)
    BY <1>7, <2>1, <2>2
  <2>5. B[i + 1] = a \o b /\ off[i + 1] = Len(a) + Len(b)
    BY <2>2, <2>3, <2>4
  <2> HIDE DEF a, b
  <2>6. \A k \in 1 .. off[i + 1] : B[i + 1][k] = IF k <= off[i] THEN a[k] ELSE b[k - off[i]]
    BY <2>3, <2>4, <2>5
  <2>7. /\ off[i + 1] = off[i] + Len(b) /\ Len(b) \in Nat /\ off[i] \in Nat /\ off[i + 1] \in Nat
        /\ DOMAIN b = 1 .. Len(b)
    BY <2>3, <2>4, <2>5
  <2> QED
    BY <2>6, <2>7, Zenon DEF a, b
<1>9. \A i \in 1 .. L, j \in 1 .. (L + 1) : i < j => off[i + 1] <= off[j]
  <2> DEFINE up == {n \in 0 .. L : \A i \in 1 .. n : off[i + 1] <= off[n + 1]}
  <2>1. 0 \in up
    BY <1>1
  <2>2. ASSUME NEW n \in 0 .. (L - 1), n \in up PROVE n + 1 \in up
    <3>1. n \in Nat /\ n + 1 \in 1 .. L /\ n + 1 \in 0 .. L /\ (n + 1) + 1 = n + 2
      BY <1>1
    <3>2. off[n + 1] <= off[n + 2] /\ off[n + 1] \in Nat /\ off[n + 2] \in Nat
      <4>1. /\ off[(n + 1) + 1] = off[n + 1] + Len(parts[n + 1]) /\ Len(parts[n + 1]) \in Nat
            /\ off[n + 1] \in Nat /\ off[(n + 1) + 1] \in Nat
        BY <1>8, <3>1
      <4> QED
        BY <3>1, <4>1
    <3>3. \A i \in 1 .. n : off[i + 1] <= off[n + 1] /\ off[i + 1] \in Nat
      BY <1>1, <1>8, <2>2, <3>1
    <3>4. \A i \in 1 .. (n + 1) : i \in 1 .. n \/ i = n + 1
      BY <3>1
    <3>5. \A i \in 1 .. (n + 1) : off[i + 1] <= off[(n + 1) + 1]
      BY <3>1, <3>2, <3>3, <3>4
    <3> QED
      BY <3>1, <3>5
  <2>3. \A n \in 0 .. L : n \in up
    <3> HIDE DEF up
    <3> QED
      BY <1>1, <2>1, <2>2, UpTo
  <2> TAKE i \in 1 .. L, j \in 1 .. (L + 1)
  <2>4. HAVE i < j
  <2>5. j - 1 \in 0 .. L /\ (j - 1) + 1 = j /\ i \in 1 .. (j - 1)
    BY <1>1, <2>4
  <2> QED
    BY <2>3, <2>5
<1>10. \A i \in 1 .. L : \A j \in DOMAIN parts[i] : B[L + 1][off[i] + j] = parts[i][j]
  <2> DEFINE same == {n \in 0 .. L : \A i \in 1 .. n : \A j \in DOMAIN parts[i] :
                                       B[n + 1][off[i] + j] = parts[i][j]}
  <2>1. 0 \in same
    BY <1>1
  <2>2. ASSUME NEW n \in 0 .. (L - 1), n \in same PROVE n + 1 \in same
    <3>1. n \in Nat /\ n + 1 \in 1 .. L /\ n + 1 \in 0 .. L /\ (n + 1) + 1 = n + 2
      BY <1>1
    <3>2. ASSUME NEW i \in 1 .. (n + 1), NEW j \in DOMAIN parts[i]
          PROVE  B[n + 2][off[i] + j] = parts[i][j]
      <4>1. CASE i = n + 1
        <5>1. j \in 1 .. Len(parts[i]) /\ off[i] + j \in 1 .. off[n + 2] /\ ~(off[i] + j <= off[i])
              /\ (off[i] + j) - off[i] = j
          <6>1. /\ off[(n + 1) + 1] = off[n + 1] + Len(parts[n + 1]) /\ off[n + 1] \in Nat
                /\ Len(parts[n + 1]) \in Nat /\ DOMAIN parts[n + 1] = 1 .. Len(parts[n + 1])
            BY <1>8, <3>1
          <6>2. j \in 1 .. Len(parts[n + 1]) /\ off[n + 2] = off[n + 1] + Len(parts[n + 1])
            BY <3>1, <4>1, <6>1
          <6> QED
            BY <4>1, <6>1, <6>2, SMTT(20)
        <5> QED
          BY <1>8, <3>1, <4>1, <5>1
      <4>2. CASE i # n + 1
        <5>1. i \in 1 .. n /\ i \in 1 .. L /\ n + 1 \in 1 .. (L + 1) /\ i < n + 1
          BY <1>1, <3>1, <4>2
        <5>2. off[i + 1] <= off[n + 1]
          BY <1>9, <5>1
        <5>3. off[i] + j \in 1 .. off[n + 1] /\ off[i] + j \in 1 .. off[n + 2]
          <6>1. /\ off[i + 1] = off[i] + Len(parts[i]) /\ off[i] \in Nat /\ Len(parts[i]) \in Nat
                /\ j \in 1 .. Len(parts[i])
            BY <1>8, <5>1
          <6>2. /\ off[(n + 1) + 1] = off[n + 1] + Len(parts[n + 1]) /\ Len(parts[n + 1]) \in Nat
                /\ off[n + 1] \in Nat
            BY <1>8, <3>1
          <6>3. off[n + 2] = off[n + 1] + Len(parts[n + 1])
            BY <3>1, <6>2
          <6>4. off[i] + j <= off[i + 1] /\ off[i] + j >= 1 /\ off[i] + j \in Nat
            BY <6>1, SMTT(20)
          <6>5. off[i + 1] \in Nat /\ off[n + 2] \in Nat
            <7>1. off[i + 1] \in Nat
              BY <1>8, <5>1
            <7>2. off[(n + 1) + 1] \in Nat
              BY <1>8, <3>1
            <7> QED
              BY <3>1, <7>1, <7>2
          <6>6. off[i] + j <= off[n + 1]
            BY <5>2, <6>2, <6>4, <6>5, SMTT(20)
          <6>7. off[n + 1] <= off[n + 2]
            BY <6>2, <6>3, <6>5
          <6> QED
            BY <6>2, <6>4, <6>5, <6>6, <6>7, SMTT(20)
        <5>4. B[n + 2][off[i] + j] = B[n + 1][off[i] + j]
          BY <1>8, <3>1, <5>3
        <5> QED
          BY <2>2, <5>1, <5>4
      <4> QED
        BY <4>1, <4>2
    <3> QED
      BY <3>1, <3>2
  <2>3. \A n \in 0 .. L : n \in same
    <3> HIDE DEF same
    <3> QED
      BY <1>1, <2>1, <2>2, UpTo
  <2>4. L \in same
    BY <1>1, <2>3, SMTT(20)
  <2> QED
    BY <2>4
<1>11. \A k \in 1 .. off[L + 1] : \E i \in 1 .. L : \E j \in DOMAIN parts[i] : k = off[i] + j
  <2> DEFINE met == {n \in 0 .. L : \A k \in 1 .. off[n + 1] :
                                      \E i \in 1 .. n : \E j \in DOMAIN parts[i] : k = off[i] + j}
  <2>1. 0 \in met
    BY <1>1, <1>7
  <2>2. ASSUME NEW n \in 0 .. (L - 1), n \in met PROVE n + 1 \in met
    <3>1. n \in Nat /\ n + 1 \in 1 .. L /\ n + 1 \in 0 .. L /\ (n + 1) + 1 = n + 2
      BY <1>1
    <3>2. ASSUME NEW k \in 1 .. off[n + 2]
          PROVE  \E i \in 1 .. (n + 1) : \E j \in DOMAIN parts[i] : k = off[i] + j
      <4>1. CASE k <= off[n + 1]
        <5>1. k \in 1 .. off[n + 1]
          BY <1>8, <3>1, <4>1
        <5>2. PICK i \in 1 .. n : \E j \in DOMAIN parts[i] : k = off[i] + j
          BY <2>2, <5>1
        <5>3. i \in 1 .. (n + 1)
          BY <3>1
        <5> QED
          BY <5>2, <5>3
      <4>2. CASE ~(k <= off[n + 1])
        <5>1. k - off[n + 1] \in DOMAIN parts[n + 1] /\ k = off[n + 1] + (k - off[n + 1])
          BY <1>8, <3>1, <4>2, SMTT(20)
        <5>2. n + 1 \in 1 .. (n + 1)
          BY <3>1
        <5> QED
          BY <5>1, <5>2
      <4> QED
        BY <4>1, <4>2
    <3> QED
      BY <3>1, <3>2
  <2>3. \A n \in 0 .. L : n \in met
    <3> HIDE DEF met
    <3> QED
      BY <1>1, <2>1, <2>2, UpTo
  <2>4. L \in met
    BY <1>1, <2>3
  <2> QED
    BY <2>4
<1>12. L + 1 \in 1 .. (L + 1)
  BY <1>1
<1>13. Parts(FlattenSeq(parts), parts, off)
  <2> DEFINE F0 == FlattenSeq(parts)
  <2>1. off \in [1 .. (L + 1) -> Nat] /\ off[1] = 0 /\ Len(F0) = off[L + 1]
    BY <1>4, <1>7, <1>12
  <2>2. \A i \in 1 .. L : off[i + 1] = off[i] + Len(parts[i])
    BY <1>8
  <2>3. \A i \in 1 .. L : \A j \in 1 .. Len(parts[i]) : F0[off[i] + j] = parts[i][j]
    BY <1>4, <1>8, <1>10
  <2>4. ASSUME NEW k \in 1 .. Len(F0)
        PROVE  \E i \in 1 .. L : \E j \in 1 .. Len(parts[i]) : k = off[i] + j
    <3>1. k \in 1 .. off[L + 1]
      BY <2>1
    <3>2. PICK i \in 1 .. L : \E j \in DOMAIN parts[i] : k = off[i] + j
      BY <1>11, <3>1
    <3>3. DOMAIN parts[i] = 1 .. Len(parts[i])
      BY <1>8
    <3> QED
      BY <3>2, <3>3
  <2> HIDE DEF F0
  <2>5. Parts(F0, parts, off)
    BY <1>9, <2>1, <2>2, <2>3, <2>4, Zenon DEF Parts
  <2> QED
    BY <2>5 DEF F0
<1> QED
  BY <1>13, Zenon

(* The same parts but for the last one.                                      *)
Ending(parts, last) == [i \in 1 .. Len(parts) |-> IF i = Len(parts) THEN last ELSE parts[i]]

LEMMA EndingIs ==
  ASSUME NEW T, NEW parts \in Seq(Seq(T)), NEW last \in Seq(T)
  PROVE  /\ Ending(parts, last) \in Seq(Seq(T)) /\ Len(Ending(parts, last)) = Len(parts)
         /\ \A i \in 1 .. Len(parts) : Ending(parts, last)[i] = IF i = Len(parts) THEN last ELSE parts[i]
<1>1. Len(parts) \in Nat /\ \A i \in 1 .. Len(parts) : parts[i] \in Seq(T)
  OBVIOUS
<1>2. Ending(parts, last) \in [1 .. Len(parts) -> Seq(T)]
  BY <1>1 DEF Ending
<1>3. Ending(parts, last) \in Seq(Seq(T)) /\ Len(Ending(parts, last)) = Len(parts)
  BY <1>1, <1>2, ListOf
<1> QED
  BY <1>3 DEF Ending

LEMMA NotLast == \A n \in Nat : \A j \in 1 .. (n + 1) : j # n + 1 => j \in 1 .. n
  OBVIOUS

LEMMA InPart == \A a, l, b, c \in Nat : b = a + l /\ b <= c => \A j \in 1 .. l : a + j \in 1 .. c
  OBVIOUS

LEMMA PartsEnd ==
  ASSUME NEW T, NEW list \in Seq(T), NEW parts \in Seq(Seq(T)), NEW n, n = Len(parts), n # 0,
         NEW off, Parts(list, parts, off),
         NEW to \in Seq(T), NEW last \in Seq(T), Len(to) = off[n] + Len(last),
         \A k \in 1 .. off[n] : to[k] = list[k],
         \A j \in 1 .. Len(last) : to[off[n] + j] = last[j]
  PROVE  Parts(to, Ending(parts, last), [off EXCEPT ![n + 1] = Len(to)])
<1> DEFINE P == Ending(parts, last)
           O == [off EXCEPT ![n + 1] = Len(to)]
<1>1. n \in Nat /\ n \in 1 .. n /\ n \in 1 .. (n + 1) /\ n + 1 \in 1 .. (n + 1)
  <2>1. n \in Nat
    OBVIOUS
  <2> QED
    BY <2>1
<1>2. /\ off \in [1 .. (n + 1) -> Nat] /\ off[1] = 0 /\ Len(list) = off[n + 1]
      /\ \A i \in 1 .. n : off[i + 1] = off[i] + Len(parts[i])
      /\ \A i \in 1 .. n, j \in 1 .. (n + 1) : i < j => off[i + 1] <= off[j]
      /\ \A i \in 1 .. n : \A j \in 1 .. Len(parts[i]) : list[off[i] + j] = parts[i][j]
      /\ \A k \in 1 .. Len(list) : \E i \in 1 .. n : \E j \in 1 .. Len(parts[i]) : k = off[i] + j
  BY Zenon DEF Parts
<1>3. Len(list) \in Nat /\ Len(to) \in Nat /\ Len(last) \in Nat
  OBVIOUS
<1>4. \A i \in 1 .. n : Len(parts[i]) \in Nat /\ off[i] \in Nat /\ off[i + 1] \in Nat
  <2> TAKE i \in 1 .. n
  <2>1. i \in 1 .. (n + 1) /\ i + 1 \in 1 .. (n + 1)
    BY <1>1
  <2>2. parts[i] \in Seq(T)
    OBVIOUS
  <2>3. Len(parts[i]) \in Nat
    BY <2>2
  <2> QED
    BY <1>2, <2>1, <2>3
<1>5. /\ P \in Seq(Seq(T)) /\ Len(P) = n
      /\ \A i \in 1 .. n : P[i] = IF i = n THEN last ELSE parts[i]
  <2> HIDE DEF O
  <2>1. /\ Ending(parts, last) \in Seq(Seq(T)) /\ Len(Ending(parts, last)) = Len(parts)
        /\ \A i \in 1 .. Len(parts) : Ending(parts, last)[i] = IF i = Len(parts) THEN last ELSE parts[i]
    BY EndingIs, ZenonT(30)
  <2> QED
    BY <2>1
<1>6. /\ O \in [1 .. (n + 1) -> Nat] /\ O[n + 1] = Len(to)
      /\ \A i \in 1 .. n : O[i] = off[i] /\ (i # n => O[i + 1] = off[i + 1])
  <2>1. \A i \in 1 .. n : i # n + 1 /\ i \in 1 .. (n + 1) /\ i + 1 \in 1 .. (n + 1) /\ (i # n => i + 1 # n + 1)
    BY <1>1
  <2> QED
    BY <1>1, <1>2, <1>3, <2>1
<1> HIDE DEF P, O
<1>7. ASSUME NEW i \in 1 .. n, i # n PROVE off[i + 1] <= off[n] /\ i + 1 \in 1 .. n
  <2>1. i < n /\ i + 1 \in 1 .. n
    BY <1>1, <1>7
  <2> QED
    BY <1>1, <1>2, <2>1
<1>8. \A i \in 1 .. n : O[i + 1] = O[i] + Len(P[i])
  <2> TAKE i \in 1 .. n
  <2>1. CASE i = n
    BY <1>5, <1>6, <2>1
  <2>2. CASE i # n
    BY <1>2, <1>5, <1>6, <2>2
  <2> QED
    BY <2>1, <2>2
<1>9. \A i \in 1 .. n, j \in 1 .. (n + 1) : i < j => O[i + 1] <= O[j]
  <2> SUFFICES ASSUME NEW i \in 1 .. n, NEW j \in 1 .. (n + 1), i < j PROVE O[i + 1] <= O[j]
    OBVIOUS
  <2>1. CASE i = n
    <3>1. j = n + 1
      BY <1>1, <2>1
    <3> QED
      BY <1>3, <1>6, <2>1, <3>1
  <2>2. CASE i # n /\ j = n + 1
    <3>1. O[i + 1] = off[i + 1] /\ off[i + 1] \in Nat /\ off[i + 1] <= off[n] /\ off[n] \in Nat
      BY <1>1, <1>4, <1>6, <1>7, <2>2
    <3>2. O[j] = off[n] + Len(last)
      BY <1>6, <2>2
    <3> QED
      BY <1>3, <3>1, <3>2, SMTT(20)
  <2>3. CASE i # n /\ j # n + 1
    <3>1. j \in 1 .. n
      <4>1. n \in Nat /\ j \in 1 .. (n + 1) /\ j # n + 1
        BY <1>1, <2>3
      <4> QED
        BY <4>1, NotLast, Zenon
    <3>2. O[i + 1] = off[i + 1] /\ O[j] = off[j]
      BY <1>6, <2>3, <3>1
    <3> QED
      BY <1>2, <3>2
  <2> QED
    BY <2>1, <2>2, <2>3
<1>10. \A i \in 1 .. n : \A j \in 1 .. Len(P[i]) : to[O[i] + j] = P[i][j]
  <2> TAKE i \in 1 .. n
  <2> TAKE j \in 1 .. Len(P[i])
  <2>1. CASE i = n
    BY <1>5, <1>6, <2>1
  <2>2. CASE i # n
    <3>1. P[i] = parts[i] /\ O[i] = off[i]
      BY <1>5, <1>6, <2>2
    <3>2. j \in 1 .. Len(parts[i]) /\ j \in Nat
      BY <1>4, <3>1
    <3>3. off[i + 1] = off[i] + Len(parts[i]) /\ off[i + 1] <= off[n]
      BY <1>2, <1>7, <2>2
    <3>4. Len(parts[i]) \in Nat /\ off[i] \in Nat /\ off[i + 1] \in Nat /\ off[n] \in Nat
      BY <1>1, <1>4
    <3>5. off[i] + j \in 1 .. off[n]
      <4>1. j \in 1 .. Len(parts[i])
        BY <3>2
      <4> QED
        BY <3>3, <3>4, <4>1, InPart, Zenon
    <3>6. list[off[i] + j] = parts[i][j]
      BY <1>2, <3>2
    <3> QED
      BY <3>1, <3>5, <3>6
  <2> QED
    BY <2>1, <2>2
<1>11. \A k \in 1 .. Len(to) : \E i \in 1 .. n : \E j \in 1 .. Len(P[i]) : k = O[i] + j
  <2> TAKE k \in 1 .. Len(to)
  <2>1. CASE k <= off[n]
    <3>1. k \in 1 .. Len(list)
      <4>1. off[n] <= off[n + 1] /\ off[n] \in Nat
        BY <1>1, <1>2, <1>4
      <4> QED
        BY <1>2, <1>3, <2>1, <4>1
    <3>2. PICK i \in 1 .. n : \E j \in 1 .. Len(parts[i]) : k = off[i] + j
      BY <1>2, <3>1
    <3>3. PICK j \in 1 .. Len(parts[i]) : k = off[i] + j
      BY <3>2
    <3>4. i # n
      <4>1. j >= 1 /\ j \in Nat /\ off[i] \in Nat
        BY <1>4
      <4>2. ~(off[i] + j <= off[i])
        BY <4>1
      <4> QED
        BY <2>1, <3>3, <4>2
    <3>5. P[i] = parts[i] /\ O[i] = off[i]
      BY <1>5, <1>6, <3>4
    <3> QED
      BY <3>3, <3>5
  <2>2. CASE ~(k <= off[n])
    <3>1. off[n] \in Nat /\ k \in Nat /\ k <= off[n] + Len(last)
      BY <1>1, <1>3, <1>4
    <3>2. k - off[n] \in 1 .. Len(last) /\ k = off[n] + (k - off[n])
      BY <1>3, <2>2, <3>1
    <3>3. P[n] = last /\ O[n] = off[n]
      BY <1>1, <1>5, <1>6
    <3> QED
      BY <1>1, <3>2, <3>3
  <2> QED
    BY <2>1, <2>2
<1>12. O[1] = 0
  BY <1>1, <1>2, <1>6
<1>13. Parts(to, P, O)
  <2>1. Len(P) = n /\ O \in [1 .. (n + 1) -> Nat] /\ O[n + 1] = Len(to)
    BY <1>5, <1>6
  <2> QED
    BY <1>8, <1>9, <1>10, <1>11, <1>12, <2>1 DEF Parts
<1> QED
  BY <1>13 DEF P, O

=============================================================================
