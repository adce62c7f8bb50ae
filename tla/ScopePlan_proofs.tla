-------------------------- MODULE ScopePlan_proofs --------------------------
(***************************************************************************)
(* Theorems about ScopePlan, for any repository, configuration and caps,   *)
(* and whatever the agents answer.                                         *)
(***************************************************************************)
EXTENDS ScopePlan, Lists_proofs

-----------------------------------------------------------------------------
(* The shards.                                                               *)

(* Whether a shard begins at i, when the ones before it are S.               *)
Opens(files, cap, most, S, i) ==
  \A s \in S : s < i => ~ Within(SubSeq(files, s, i), cap, most) \/ \E t \in S : s < t /\ t < i

LEMMA StartsAre ==
  ASSUME NEW files \in Seq(OnDisk), NEW cap, NEW most
  PROVE  /\ Starts(files, cap, most) \in SUBSET DOMAIN files
         /\ \A i \in DOMAIN files :
              i \in Starts(files, cap, most) <=> Opens(files, cap, most, Starts(files, cap, most), i)
<1> DEFINE L == Len(files)
           opens(S, i) == Opens(files, cap, most, S, i)
           chosen(S, n) == \A j \in 1 .. n : j \in S <=> opens(S, j)
           can == {n \in 0 .. L : \E S \in SUBSET (1 .. n) : chosen(S, n)}
<1>1. DOMAIN files = 1 .. L /\ L \in Nat
  OBVIOUS
<1>2. 0 \in can
  <2>1. 0 \in 0 .. L /\ {} \in SUBSET (1 .. 0) /\ chosen({}, 0)
    BY <1>1
  <2> HIDE DEF chosen
  <2> QED
    BY <2>1
<1>3. ASSUME NEW n \in 0 .. (L - 1), n \in can PROVE n + 1 \in can
  <2>1. PICK S \in SUBSET (1 .. n) : chosen(S, n)
    BY <1>3
  <2>2. n \in Nat /\ n + 1 \in 0 .. L /\ 1 .. (n + 1) = (1 .. n) \cup {n + 1}
        /\ \A j \in 1 .. n : j \in Nat /\ ~(n + 1 < j) /\ n + 1 # j
    BY <1>1, <1>3
  <2> DEFINE R == IF opens(S, n + 1) THEN S \cup {n + 1} ELSE S
  <2>3. R \in SUBSET (1 .. (n + 1)) /\ S \subseteq R /\ \A j \in R : j # n + 1 => j \in S
    BY <2>2
  <2>4. \A j \in S : j \in 1 .. n
    BY <2>1
  <2>5. n + 1 \in R <=> opens(S, n + 1)
    BY <2>2, <2>4
  <2> HIDE DEF R
  <2>6. ASSUME NEW j \in 1 .. (n + 1) PROVE opens(R, j) <=> opens(S, j)
    <3>1. \A s \in R : s < j => s \in S
      BY <2>2, <2>3
    <3>2. \A t \in R : t < j => t \in S
      BY <3>1
    <3> QED
      BY <2>3, <3>1, <3>2 DEF Opens
  <2>7. ASSUME NEW j \in 1 .. (n + 1) PROVE j \in R <=> opens(R, j)
    <3>1. CASE j = n + 1
      BY <2>5, <2>6, <3>1
    <3>2. CASE j # n + 1
      <4>1. j \in 1 .. n
        BY <2>2, <3>2
      <4>2. j \in R <=> j \in S
        BY <2>3, <3>2
      <4>3. j \in S <=> opens(S, j)
        BY <2>1, <4>1
      <4> QED
        BY <2>6, <4>2, <4>3
    <3> QED
      BY <3>1, <3>2
  <2>8. chosen(R, n + 1)
    BY <2>7
  <2> HIDE DEF chosen
  <2> QED
    BY <2>2, <2>3, <2>8
<1>4. L \in can
  <2> HIDE DEF can
  <2>1. L \in 0 .. L
    BY <1>1
  <2> QED
    BY <1>1, <1>2, <1>3, <2>1, UpTo
<1>5. \E S \in SUBSET (1 .. L) : chosen(S, L)
  BY <1>4
<1>6. Starts(files, cap, most) = CHOOSE S \in SUBSET (1 .. L) : chosen(S, L)
  BY <1>1 DEF Starts, Opens
<1> QED
  BY <1>1, <1>5, <1>6

(* Shards that begin at the places C: they are cut from the list, one for    *)
(* each place, and none of them reaches a later one.                         *)
LEMMA ShardsAre ==
  ASSUME NEW T, NEW files \in Seq(T), NEW C \in SUBSET DOMAIN files, files # <<>> => 1 \in C
  PROVE  /\ Shards(files, C) \in Seq(Seq(T))
         /\ \A k \in DOMAIN Shards(files, C) :
              \E a \in C, e \in DOMAIN files :
                /\ a <= e /\ Shards(files, C)[k] = SubSeq(files, a, e)
                /\ \A t \in C : ~(a < t /\ t <= e)
         /\ \A i \in DOMAIN files : \E k \in DOMAIN Shards(files, C) : files[i] \in Range(Shards(files, C)[k])
<1> DEFINE L == Len(files)
           A == Ascending(C)
           N == Cardinality(C)
           end(k) == IF k < Len(A) THEN A[k + 1] - 1 ELSE L
           X == Shards(files, C)
<1>1. DOMAIN files = 1 .. L /\ L \in Nat
  OBVIOUS
<1>2. IsFiniteSet(C) /\ C \in SUBSET Nat
  <2>1. IsFiniteSet(1 .. L)
    BY <1>1, CountOfInitial
  <2> QED
    BY <1>1, <2>1, FS_Subset
<1>3. /\ N \in Nat /\ A \in [1 .. N -> C]
      /\ \A i \in C : \E n \in 1 .. N : A[n] = i
      /\ \A m, n \in 1 .. N : m < n => A[m] < A[n]
  BY <1>2, AscendingIs DEF Numbering
<1>4. Len(A) = N /\ DOMAIN A = 1 .. N
  BY <1>3, ListOf
<1>5. X = [k \in 1 .. N |-> SubSeq(files, A[k], end(k))]
  BY <1>4 DEF Shards
<1> HIDE DEF A, N, X
<1>6. ASSUME NEW k \in 1 .. N
      PROVE  /\ A[k] \in C /\ A[k] \in 1 .. L /\ end(k) \in 1 .. L /\ A[k] <= end(k)
             /\ \A t \in C : ~(A[k] < t /\ t <= end(k))
  <2>1. A[k] \in C /\ A[k] \in 1 .. L /\ k \in Nat
    BY <1>1, <1>3, SMTT(20)
  <2>2. CASE k < N
    <3>1. k + 1 \in 1 .. N /\ k < k + 1
      BY <1>3, <2>1, <2>2
    <3>2. A[k + 1] \in C /\ A[k + 1] \in 1 .. L /\ A[k] < A[k + 1]
      BY <1>1, <1>3, <3>1
    <3>3. end(k) = A[k + 1] - 1
      BY <1>4, <2>2
    <3>4. ASSUME NEW t \in C, A[k] < t, t <= end(k) PROVE FALSE
      <4>1. PICK m \in 1 .. N : A[m] = t
        BY <1>3
      <4>2. t \in Nat /\ t < A[k + 1] /\ m \in Nat
        BY <1>1, <3>2, <3>3, <3>4
      <4>3. ~(m < k) /\ m # k
        <5>1. m < k => A[m] < A[k]
          BY <1>3
        <5> QED
          BY <2>1, <3>4, <4>1, <4>2, <5>1
      <4>4. ~(k + 1 < m) /\ m # k + 1
        <5>1. k + 1 < m => A[k + 1] < A[m]
          BY <1>3, <3>1
        <5> QED
          BY <3>2, <4>1, <4>2, <5>1
      <4> QED
        BY <2>1, <4>2, <4>3, <4>4
    <3> QED
      BY <1>1, <2>1, <3>2, <3>3, <3>4
  <2>3. CASE ~(k < N)
    <3>1. k = N /\ end(k) = L
      BY <1>3, <1>4, <2>1, <2>3
    <3>2. ASSUME NEW t \in C, A[k] < t PROVE FALSE
      <4>1. PICK m \in 1 .. N : A[m] = t
        BY <1>3
      <4>2. m < k \/ m = k
        BY <1>3, <3>1
      <4>3. m < k => A[m] < A[k]
        BY <1>3
      <4>4. A[m] \in Nat /\ A[k] \in Nat
        BY <1>1, <2>1, <4>1
      <4> QED
        BY <3>2, <4>1, <4>2, <4>3, <4>4
    <3> QED
      BY <1>1, <2>1, <3>1, <3>2
  <2> QED
    BY <2>2, <2>3
<1>7. \A k \in 1 .. N : X[k] = SubSeq(files, A[k], end(k))
  BY <1>5
<1>8. X \in [1 .. N -> Seq(T)]
  <2>1. \A k \in 1 .. N : SubSeq(files, A[k], end(k)) \in Seq(T)
    <3> TAKE k \in 1 .. N
    <3>1. A[k] \in 1 .. L /\ end(k) \in 1 .. L
      BY <1>6
    <3> HIDE DEF end
    <3> QED
      BY <1>1, <3>1, SubSeqProperties
  <2> HIDE DEF end
  <2> QED
    BY <1>5, <2>1
<1>9. X \in Seq(Seq(T)) /\ DOMAIN X = 1 .. N
  BY <1>3, <1>8, ListOf
<1>10. ASSUME NEW i \in 1 .. L
       PROVE  \E k \in 1 .. N : A[k] <= i /\ i <= end(k)
  <2> DEFINE up == {k \in 1 .. N : A[k] <= i}
             after == {N - k : k \in up}
  <2>1. up # {}
    <3>1. 1 \in C
      BY <1>1, <1>10
    <3> QED
      BY <1>3, <1>10, <3>1
  <2>2. after \in SUBSET Nat /\ after # {}
    BY <1>3, <2>1
  <2>3. PICK d \in after : \A b \in after : d <= b
    BY <2>2, Smallest
  <2>4. PICK k \in up : d = N - k
    BY <2>3
  <2>5. k \in 1 .. N /\ A[k] <= i
    BY <2>4
  <2>6. ASSUME k < N PROVE i <= A[k + 1] - 1
    <3>1. k + 1 \in 1 .. N /\ A[k + 1] \in Nat
      <4>1. k + 1 \in 1 .. N
        BY <1>3, <2>5, <2>6
      <4>2. A[k + 1] \in 1 .. L
        BY <1>1, <1>3, <4>1
      <4> QED
        BY <4>1, <4>2
    <3>2. ~(A[k + 1] <= i)
      <4>1. SUFFICES ASSUME k + 1 \in up PROVE FALSE
        BY <3>1
      <4>2. N - (k + 1) \in after
        BY <4>1
      <4>3. N - k <= N - (k + 1)
        BY <2>3, <2>4, <4>2
      <4> QED
        BY <1>3, <2>5, <4>3
    <3> QED
      BY <3>1, <3>2
  <2>7. i <= end(k)
    BY <1>3, <1>4, <2>5, <2>6
  <2> QED
    BY <2>5, <2>7
<1>11. ASSUME NEW i \in DOMAIN files
       PROVE  \E k \in DOMAIN X : files[i] \in Range(X[k])
  <2>1. i \in 1 .. L
    BY <1>1
  <2>2. PICK k \in 1 .. N : A[k] <= i /\ i <= end(k)
    BY <1>10, <2>1
  <2>3. A[k] \in 1 .. L /\ end(k) \in 1 .. L /\ X[k] = SubSeq(files, A[k], end(k))
    BY <1>6, <1>7
  <2> HIDE DEF end
  <2>4. /\ DOMAIN X[k] = 1 .. (end(k) - A[k] + 1)
        /\ \A j \in 1 .. (end(k) - A[k] + 1) : X[k][j] = files[A[k] + j - 1]
    BY <1>1, <2>2, <2>3, SubSeqProperties, SMTT(20)
  <2>5. i - A[k] + 1 \in 1 .. (end(k) - A[k] + 1) /\ A[k] + (i - A[k] + 1) - 1 = i
    BY <2>1, <2>2, <2>3
  <2>6. X[k][i - A[k] + 1] = files[i]
    BY <2>4, <2>5
  <2> QED
    BY <1>9, <2>4, <2>5, <2>6 DEF Range
<1>12. ASSUME NEW k \in DOMAIN X
       PROVE  \E a \in C, e \in DOMAIN files :
                /\ a <= e /\ X[k] = SubSeq(files, a, e)
                /\ \A t \in C : ~(a < t /\ t <= e)
  <2>1. k \in 1 .. N
    BY <1>9
  <2>2. /\ A[k] \in C /\ end(k) \in DOMAIN files /\ A[k] <= end(k)
        /\ X[k] = SubSeq(files, A[k], end(k))
        /\ \A t \in C : ~(A[k] < t /\ t <= end(k))
    BY <1>1, <1>6, <1>7, <2>1
  <2> HIDE DEF end
  <2> QED
    BY <2>2
<1> QED
  BY <1>9, <1>11, <1>12 DEF X

(* _pack, for one group: no file is left out, and a shard is within the caps *)
(* unless it is a single file.                                               *)
LEMMA PackedIs ==
  ASSUME NEW files \in Seq(OnDisk), NEW cap, NEW most
  PROVE  /\ Packed(files, cap, most) \in Seq(Seq(OnDisk))
         /\ \A i \in DOMAIN files :
              \E k \in DOMAIN Packed(files, cap, most) : files[i] \in Range(Packed(files, cap, most)[k])
         /\ \A k \in DOMAIN Packed(files, cap, most) :
              Within(Packed(files, cap, most)[k], cap, most) \/ Len(Packed(files, cap, most)[k]) = 1
<1> DEFINE C == Starts(files, cap, most)
           X == Packed(files, cap, most)
<1>1. DOMAIN files = 1 .. Len(files) /\ Len(files) \in Nat
  OBVIOUS
<1>2. /\ C \in SUBSET DOMAIN files
      /\ \A i \in DOMAIN files : i \in C <=> Opens(files, cap, most, C, i)
  BY StartsAre
<1>3. X = Shards(files, C)
  BY DEF Packed
<1> HIDE DEF C, X
<1>4. files # <<>> => 1 \in C
  <2>1. ASSUME files # <<>> PROVE 1 \in DOMAIN files
    BY <1>1, <2>1
  <2>2. \A s \in C : ~(s < 1)
    BY <1>1, <1>2
  <2> QED
    BY <1>2, <2>1, <2>2 DEF Opens
<1>5. /\ X \in Seq(Seq(OnDisk))
      /\ \A k \in DOMAIN X :
           \E a \in C, e \in DOMAIN files :
             /\ a <= e /\ X[k] = SubSeq(files, a, e)
             /\ \A t \in C : ~(a < t /\ t <= e)
      /\ \A i \in DOMAIN files : \E k \in DOMAIN X : files[i] \in Range(X[k])
  BY <1>2, <1>3, <1>4, ShardsAre
<1>6. ASSUME NEW k \in DOMAIN X
      PROVE  Within(X[k], cap, most) \/ Len(X[k]) = 1
  <2>1. PICK a \in C, e \in DOMAIN files :
             /\ a <= e /\ X[k] = SubSeq(files, a, e)
             /\ \A t \in C : ~(a < t /\ t <= e)
    BY <1>5
  <2>2. a \in 1 .. Len(files) /\ e \in 1 .. Len(files)
    BY <1>1, <1>2
  <2>3. CASE a = e
    <3>1. Len(X[k]) = e - a + 1
      BY <1>1, <2>1, <2>2, SubSeqProperties
    <3> QED
      BY <2>2, <2>3, <3>1
  <2>4. CASE a # e
    <3>1. a < e /\ e \notin C
      BY <2>1, <2>2, <2>4
    <3>2. PICK s \in C : s < e /\ Within(SubSeq(files, s, e), cap, most) /\ \A t \in C : ~(s < t /\ t < e)
      BY <1>2, <3>1 DEF Opens
    <3>3. s \in 1 .. Len(files)
      BY <1>1, <1>2
    <3>4. ~(s < a)
      BY <3>1, <3>2
    <3>5. ~(a < s)
      BY <2>1, <2>2, <3>2, <3>3
    <3>6. s = a
      BY <2>2, <3>3, <3>4, <3>5
    <3> QED
      BY <2>1, <3>2, <3>6
  <2> QED
    BY <2>3, <2>4
<1> QED
  BY <1>5, <1>6 DEF X

LEMMA PackIs ==
  ASSUME NEW groups \in Seq(Seq(OnDisk)), NEW cap, NEW most
  PROVE  /\ Pack(groups, cap, most) \in Seq(Seq(OnDisk))
         /\ \A g \in Range(groups) : \A f \in Range(g) :
              \E k \in DOMAIN Pack(groups, cap, most) : f \in Range(Pack(groups, cap, most)[k])
         /\ \A k \in DOMAIN Pack(groups, cap, most) :
              Within(Pack(groups, cap, most)[k], cap, most) \/ Len(Pack(groups, cap, most)[k]) = 1
<1> DEFINE ss == [i \in DOMAIN groups |-> Packed(groups[i], cap, most)]
           X == Pack(groups, cap, most)
<1>1. DOMAIN groups = 1 .. Len(groups) /\ Len(groups) \in Nat /\ \A i \in DOMAIN groups : groups[i] \in Seq(OnDisk)
  OBVIOUS
<1>2. ss \in Seq(Seq(Seq(OnDisk))) /\ DOMAIN ss = DOMAIN groups
  BY <1>1, PackedIs, ListOf
<1>3. X = FlattenSeq(ss)
  BY DEF Pack
<1>4. \A i \in DOMAIN groups : ss[i] = Packed(groups[i], cap, most)
  OBVIOUS
<1> HIDE DEF ss, X
<1>5. X \in Seq(Seq(OnDisk)) /\ Range(X) = UNION {Range(ss[i]) : i \in DOMAIN ss}
  BY <1>2, <1>3, FlattenIs
<1>6. ASSUME NEW g \in Range(groups), NEW f \in Range(g) PROVE \E k \in DOMAIN X : f \in Range(X[k])
  <2>1. PICK i \in DOMAIN groups : g = groups[i]
    BY DEF Range
  <2>2. PICK j \in DOMAIN g : f = g[j]
    BY DEF Range
  <2>3. PICK k \in DOMAIN ss[i] : f \in Range(ss[i][k])
    BY <1>1, <1>4, <2>1, <2>2, PackedIs, SMTT(20)
  <2>4. ss[i][k] \in Range(ss[i])
    BY DEF Range
  <2>5. ss[i][k] \in Range(X)
    BY <1>2, <1>5, <2>4
  <2> QED
    BY <2>3, <2>5 DEF Range
<1>7. ASSUME NEW k \in DOMAIN X PROVE Within(X[k], cap, most) \/ Len(X[k]) = 1
  <2>1. X[k] \in Range(X)
    BY DEF Range
  <2>2. PICK i \in DOMAIN groups : X[k] \in Range(ss[i])
    BY <1>2, <1>5, <2>1
  <2>3. PICK j \in DOMAIN ss[i] : X[k] = ss[i][j]
    BY <2>2 DEF Range
  <2> QED
    BY <1>1, <1>4, <2>3, PackedIs
<1> QED
  BY <1>5, <1>6, <1>7 DEF X

LEMMA DiskFinite == IsFiniteSet(OnDisk)
<1>1. Disk \in Seq(OnDisk)
  BY ScopeAssumption
<1>2. DOMAIN Disk = 1 .. Len(Disk) /\ Len(Disk) \in Nat
  BY <1>1
<1>3. IsFiniteSet(1 .. Len(Disk))
  BY <1>2, CountOfInitial
<1>4. Disk \in Surjection(1 .. Len(Disk), OnDisk)
  BY <1>1, <1>2 DEF Surjection, OnDisk, Range
<1> QED
  BY <1>3, <1>4, FS_Surjection

LEMMA ListedIs ==
  ASSUME NEW S \in SUBSET OnDisk
  PROVE  Listed(S) \in Seq(S) /\ Listed(S) \in Seq(OnDisk) /\ Range(Listed(S)) = S
<1>1. Disk \in Seq(OnDisk) /\ Range(Disk) = OnDisk
  BY ScopeAssumption DEF OnDisk
<1>2. Listed(S) \in Seq(OnDisk) /\ Range(Listed(S)) = Range(Disk) \cap S
  BY <1>1, KeepIs DEF Listed
<1>3. Range(Listed(S)) = S
  BY <1>1, <1>2
<1>4. \A i \in 1 .. Len(Listed(S)) : Listed(S)[i] \in S
  BY <1>2, <1>3 DEF Range
<1>5. Listed(S) \in Seq(S)
  BY <1>2, <1>4, ListOf
<1> QED
  BY <1>2, <1>3, <1>5

(* The sets of a finite family, each as a list.                              *)
LEMMA ListedAll ==
  ASSUME NEW F \in SUBSET SUBSET OnDisk
  PROVE  /\ [i \in 1 .. Cardinality(F) |-> Listed(SetToSeq(F)[i])] \in Seq(Seq(OnDisk))
         /\ \A S \in F : \A f \in S :
              \E i \in 1 .. Cardinality(F) : f \in Range(Listed(SetToSeq(F)[i]))
<1> DEFINE q == SetToSeq(F)
<1>1. IsFiniteSet(F)
  BY DiskFinite, FS_SUBSET, FS_Subset
<1>2. q \in Seq(F) /\ Len(q) = Cardinality(F) /\ Range(q) = F /\ Cardinality(F) \in Nat
  BY <1>1, SetToSeqIs
<1> HIDE DEF q
<1>3. DOMAIN q = 1 .. Cardinality(F) /\ \A i \in 1 .. Cardinality(F) : q[i] \in F
  BY <1>2
<1>4. \A i \in 1 .. Cardinality(F) : Listed(q[i]) \in Seq(OnDisk) /\ Range(Listed(q[i])) = q[i]
  BY <1>3, ListedIs
<1>5. [i \in 1 .. Cardinality(F) |-> Listed(q[i])] \in Seq(Seq(OnDisk))
  BY <1>2, <1>4, ListOf
<1>6. \A S \in F : \E i \in 1 .. Cardinality(F) : q[i] = S
  BY <1>2, <1>3 DEF Range
<1> QED
  BY <1>4, <1>5, <1>6 DEF q

(* Every file lands in a group.                                              *)
LEMMA GroupsAre ==
  ASSUME modules \in Seq(Seq(OnDisk)), NEW S \in SUBSET OnDisk
  PROVE  /\ Groups(S) \in Seq(Seq(OnDisk))
         /\ S \subseteq InPlan => \A f \in S : \E g \in Range(Groups(S)) : f \in Range(g)
<1> DEFINE ofModule(i) == Keep(modules[i], (S \cap InPlan) \ UNION {Range(modules[j]) : j \in 1 .. (i - 1)})
           rest == S \ UNION {Range(modules[i]) : i \in DOMAIN modules}
           linked == {f \in rest : \E e \in FileEdges : e[1] = f /\ e[1] # e[2] /\ e[2] # NoFile}
           components == {Component(f, rest) : f \in linked}
           alone == rest \ UNION components
           dirs == {{g \in alone : Dir[g] = Dir[f]} : f \in alone}
           M == [i \in DOMAIN modules |-> ofModule(i)]
           K == {i \in DOMAIN modules : ofModule(i) # <<>>}
           g1 == Picked(M, K)
           g2 == [i \in 1 .. Cardinality(components) |-> Listed(SetToSeq(components)[i])]
           g3 == [i \in 1 .. Cardinality(dirs) |-> Listed(SetToSeq(dirs)[i])]
<1>1. Groups(S) = g1 \o g2 \o g3
  BY DEF Groups
<1>2. DOMAIN modules = 1 .. Len(modules) /\ Len(modules) \in Nat /\ \A i \in DOMAIN modules : modules[i] \in Seq(OnDisk)
  OBVIOUS
<1>3. \A i \in DOMAIN modules :
        /\ ofModule(i) \in Seq(OnDisk)
        /\ Range(ofModule(i)) = Range(modules[i]) \cap ((S \cap InPlan) \ UNION {Range(modules[j]) : j \in 1 .. (i - 1)})
  BY <1>2, KeepIs
<1>4. components \in SUBSET SUBSET OnDisk /\ dirs \in SUBSET SUBSET OnDisk
  BY DEF Component
<1>5. /\ g2 \in Seq(Seq(OnDisk)) /\ g3 \in Seq(Seq(OnDisk))
      /\ \A C \in components : \A f \in C : \E i \in 1 .. Cardinality(components) : f \in Range(g2[i])
      /\ \A C \in dirs : \A f \in C : \E i \in 1 .. Cardinality(dirs) : f \in Range(g3[i])
  <2> HIDE DEF components, dirs
  <2> QED
    BY <1>4, ListedAll
<1>6. \A f \in linked : f \in Component(f, rest)
  BY DEF Component
<1>7. \A f \in alone : f \in {g \in alone : Dir[g] = Dir[f]}
  OBVIOUS
<1>8. \A f \in rest : (\E C \in components : f \in C) \/ f \in alone
  OBVIOUS
<1>9. \A f \in alone : \E C \in dirs : f \in C
  <2> HIDE DEF alone
  <2> TAKE f \in alone
  <2>1. {g \in alone : Dir[g] = Dir[f]} \in dirs
    OBVIOUS
  <2> QED
    BY <1>7, <2>1
<1>10. M \in Seq(Seq(OnDisk)) /\ K \in SUBSET DOMAIN M
  <2> HIDE DEF ofModule
  <2> QED
    BY <1>2, <1>3, ListOf
<1>11. \A i \in DOMAIN modules : M[i] = ofModule(i)
  OBVIOUS
<1> HIDE DEF M
<1>12. g1 \in Seq(Seq(OnDisk)) /\ Range(g1) = {M[i] : i \in K}
  <2> HIDE DEF K
  <2> QED
    BY <1>10, PickedIs
<1>13. ASSUME NEW f \in S, f \in InPlan, f \notin rest
       PROVE  \E g \in Range(g1) : f \in Range(g)
  <2> DEFINE has == {i \in DOMAIN modules : f \in Range(modules[i])}
  <2>1. has \in SUBSET Nat /\ has # {}
    BY <1>2, <1>13
  <2>2. PICK i \in has : \A j \in has : i <= j
    BY <2>1, Smallest
  <2>3. \A j \in 1 .. (i - 1) : f \notin Range(modules[j])
    <3> SUFFICES ASSUME NEW j \in 1 .. (i - 1), f \in Range(modules[j]) PROVE FALSE
      OBVIOUS
    <3>1. j \in has /\ ~(i <= j)
      BY <1>2, <2>2
    <3> QED
      BY <2>2, <3>1
  <2>4. f \in Range(ofModule(i))
    <3>1. f \in Range(modules[i]) /\ f \notin UNION {Range(modules[j]) : j \in 1 .. (i - 1)}
      BY <2>2, <2>3
    <3>2. f \in (S \cap InPlan) \ UNION {Range(modules[j]) : j \in 1 .. (i - 1)}
      BY <1>13, <3>1
    <3> QED
      BY <1>3, <2>2, <3>1, <3>2
  <2>5. ofModule(i) # <<>>
    <3> HIDE DEF ofModule
    <3> QED
      BY <2>4 DEF Range
  <2>6. i \in K /\ M[i] = ofModule(i)
    BY <1>11, <2>2, <2>5
  <2> HIDE DEF ofModule, K
  <2> QED
    BY <1>12, <2>4, <2>6
<1> HIDE DEF components, dirs, alone, linked, g1, K, ofModule
<1>14. DOMAIN g2 = 1 .. Cardinality(components) /\ DOMAIN g3 = 1 .. Cardinality(dirs)
  OBVIOUS
<1> HIDE DEF g2, g3
<1>15. /\ g1 \o g2 \in Seq(Seq(OnDisk)) /\ g1 \o g2 \o g3 \in Seq(Seq(OnDisk))
       /\ Range(g1 \o g2 \o g3) = Range(g1) \cup Range(g2) \cup Range(g3)
  <2>1. g1 \o g2 \in Seq(Seq(OnDisk)) /\ Range(g1 \o g2) = Range(g1) \cup Range(g2)
    BY <1>5, <1>12, ConcatProperties, RangeConcatenation
  <2> DEFINE h == g1 \o g2
  <2>3. h \in Seq(Seq(OnDisk)) /\ g3 \in Seq(Seq(OnDisk))
    BY <1>5, <2>1
  <2> HIDE DEF h
  <2>2. h \o g3 \in Seq(Seq(OnDisk)) /\ Range(h \o g3) = Range(h) \cup Range(g3)
    BY <2>3, ConcatProperties, RangeConcatenation
  <2> QED
    BY <2>1, <2>2 DEF h
<1>16. ASSUME NEW f \in S, f \in InPlan
       PROVE  \E g \in Range(g1) \cup Range(g2) \cup Range(g3) : f \in Range(g)
  <2>1. CASE f \notin rest
    BY <1>13, <1>16, <2>1
  <2>2. CASE \E C \in components : f \in C
    <3>1. PICK i \in 1 .. Cardinality(components) : f \in Range(g2[i])
      BY <1>5, <2>2
    <3>2. g2[i] \in Range(g2)
      BY <1>14 DEF Range
    <3> QED
      BY <3>1, <3>2
  <2>3. CASE f \in alone
    <3>1. PICK i \in 1 .. Cardinality(dirs) : f \in Range(g3[i])
      BY <1>5, <1>9, <2>3
    <3>2. g3[i] \in Range(g3)
      BY <1>14 DEF Range
    <3> QED
      BY <3>1, <3>2
  <2> QED
    BY <1>8, <2>1, <2>2, <2>3
<1> QED
  BY <1>1, <1>15, <1>16

-----------------------------------------------------------------------------
(* The collapse of configuration files.                                      *)

(* Of a cluster the first file that shows a signal and could be read again   *)
(* is kept.                                                                  *)
LEMMA KeptShows ==
  ASSUME NEW S \in SUBSET OnDisk, NEW lost, NEW f \in S, f \notin KeptOf(S, lost), NEW x \in Signals[f]
  PROVE  \E g \in KeptOf(S, lost) : x \in Signals[g]
<1> DEFINE shows == {g \in S \ lost : x \in Signals[g]}
           ranks == {Production[g] : g \in shows}
<1>1. \A g \in OnDisk : Production[g] \in Nat
  BY ScopeAssumption
<1>2. f \in shows
  BY DEF KeptOf
<1>3. ranks \in SUBSET Nat /\ ranks # {}
  BY <1>1, <1>2
<1>4. PICK r \in ranks : \A q \in ranks : r <= q
  BY <1>3, Smallest
<1>5. PICK g \in shows : r = Production[g]
  BY <1>4
<1>6. CASE g \in Representatives(S)
  BY <1>5, <1>6 DEF KeptOf
<1>7. CASE \E h \in shows : h \in Representatives(S)
  BY <1>7 DEF KeptOf
<1>8. CASE \A h \in shows : h \notin Representatives(S)
  <2>1. x \notin ShownBefore(g, S, lost)
    <3> SUFFICES ASSUME NEW h \in S \ lost, h \in Representatives(S) \/ Production[h] < Production[g],
                        x \in Signals[h]
                 PROVE  FALSE
      BY DEF ShownBefore
    <3>1. h \in shows
      OBVIOUS
    <3>2. Production[h] < Production[g] /\ Production[h] \in ranks
      BY <1>8, <3>1
    <3>3. Production[g] <= Production[h] /\ Production[g] \in Nat /\ Production[h] \in Nat
      BY <1>1, <1>4, <1>5, <3>2
    <3> QED
      BY <3>2, <3>3
  <2>2. g \in KeptOf(S, lost)
    BY <1>5, <2>1 DEF KeptOf
  <2> QED
    BY <1>5, <2>2
<1> QED
  BY <1>7, <1>8

LEMMA ConfigsCollapse ==
  ASSUME scope \subseteq OnDisk, NEW lost
  PROVE  /\ Collapse0(lost) \subseteq scope
         /\ \A f \in scope \ Collapse0(lost) :
              Signals[f] \subseteq UNION {Signals[g] : g \in {g \in Collapse0(lost) : Shape[g] = Shape[f]}}
<1> DEFINE R == Collapse0(lost)
           configs == settings.configs \cap scope
           clustered(f) == Shape[f] # NoFile /\ Cardinality(Cluster(f)) >= settings.least
           kept(f) == KeptOf(Cluster(f), lost \cap Cluster(f))
<1>1. CASE Cardinality(configs) < settings.least
  BY <1>1 DEF Collapse0
<1>2. CASE ~(Cardinality(configs) < settings.least)
  <2>1. R = {f \in scope : f \in configs /\ clustered(f) => f \in kept(f)}
    BY <1>2 DEF Collapse0
  <2> HIDE DEF R
  <2>2. ASSUME NEW f \in scope \ R, NEW x \in Signals[f]
        PROVE  \E g \in R : Shape[g] = Shape[f] /\ x \in Signals[g]
    <3>1. f \in configs /\ clustered(f) /\ f \notin kept(f)
      BY <2>1, <2>2
    <3>2. f \in Cluster(f) /\ Cluster(f) \in SUBSET OnDisk
      BY <3>1 DEF Cluster
    <3>3. PICK g \in kept(f) : x \in Signals[g]
      BY <2>2, <3>1, <3>2, KeptShows
    <3>4. g \in Cluster(f)
      BY DEF KeptOf
    <3>5. g \in scope /\ Shape[g] = Shape[f] /\ Cluster(g) = Cluster(f)
      BY <3>4 DEF Cluster
    <3>6. kept(g) = kept(f)
      BY <3>5
    <3>7. g \in R
      BY <2>1, <3>5, <3>6
    <3> QED
      BY <3>3, <3>5, <3>7
  <2>3. R \subseteq scope
    BY <2>1
  <2>4. ASSUME NEW f \in scope \ R
        PROVE  Signals[f] \subseteq UNION {Signals[g] : g \in {g \in R : Shape[g] = Shape[f]}}
    BY <2>2
  <2> QED
    BY <2>3, <2>4 DEF R
<1> QED
  BY <1>1, <1>2

-----------------------------------------------------------------------------
(* The map.                                                                  *)

LEMMA ResolveIs ==
  ASSUME NEW p, NEW S \in SUBSET OnDisk
  PROVE  Resolve(p, S) \in SUBSET S
  BY DEF Resolve

LEMMA ResolvedIs ==
  ASSUME NEW paths \in Seq(Paths), NEW S \in SUBSET OnDisk
  PROVE  ResolvedSeq(paths, S) \in Seq(S)
<1> DEFINE ss == [i \in DOMAIN paths |-> SetToSeq(Resolve(paths[i], S))]
<1>1. DOMAIN paths = 1 .. Len(paths) /\ Len(paths) \in Nat
  OBVIOUS
<1>2. ASSUME NEW i \in DOMAIN paths PROVE SetToSeq(Resolve(paths[i], S)) \in Seq(S)
  <2> DEFINE R == Resolve(paths[i], S)
  <2>1. R \in SUBSET S /\ IsFiniteSet(R)
    BY ResolveIs, DiskFinite, FS_Subset
  <2> HIDE DEF R
  <2>2. SetToSeq(R) \in Seq(R)
    BY <2>1, SetToSeqIs
  <2>3. SetToSeq(R) \in Seq(S)
    BY <2>1, <2>2
  <2> QED
    BY <2>3 DEF R
<1>3. ss \in Seq(Seq(S))
  BY <1>1, <1>2, ListOf
<1> HIDE DEF ss
<1>4. FlattenSeq(ss) \in Seq(S)
  BY <1>3, FlattenIs
<1> QED
  BY <1>4 DEF ResolvedSeq, ss

Sights(S) == [fn : FnNames, order : Int, file : S]

LEMMA LocatedIs ==
  ASSUME NEW items \in Seq(Points), NEW S \in SUBSET OnDisk
  PROVE  Located(items, S) \in Seq(Sights(S))
<1> DEFINE one(i) == IF Resolve(items[i].path, S) = {} THEN <<>>
                     ELSE <<[fn |-> items[i].fn, order |-> items[i].order,
                             file |-> CHOOSE f \in Resolve(items[i].path, S) : TRUE]>>
           ss == [i \in DOMAIN items |-> one(i)]
<1>1. DOMAIN items = 1 .. Len(items) /\ Len(items) \in Nat /\ \A i \in DOMAIN items : items[i] \in Points
  OBVIOUS
<1>2. ASSUME NEW i \in DOMAIN items PROVE one(i) \in Seq(Sights(S))
  <2> DEFINE R == Resolve(items[i].path, S)
             f == CHOOSE f \in R : TRUE
             v == [fn |-> items[i].fn, order |-> items[i].order, file |-> f]
  <2>1. R \in SUBSET S
    BY ResolveIs
  <2>2. items[i].fn \in FnNames /\ items[i].order \in Int
    BY <1>1 DEF Points
  <2>3. CASE R = {}
    BY <2>3
  <2>4. CASE R # {}
    <3>1. f \in S
      BY <2>1, <2>4
    <3> HIDE DEF f
    <3>2. v \in Sights(S)
      BY <2>2, <3>1 DEF Sights
    <3>3. one(i) = <<v>>
      BY <2>4 DEF f
    <3> HIDE DEF v
    <3>4. <<v>> \in Seq(Sights(S))
      BY <3>2
    <3> QED
      BY <3>3, <3>4
  <2> QED
    BY <2>3, <2>4
<1> HIDE DEF one
<1>3. ss \in Seq(Seq(Sights(S)))
  BY <1>1, <1>2, ListOf
<1> HIDE DEF ss
<1>4. FlattenSeq(ss) \in Seq(Sights(S))
  BY <1>3, FlattenIs
<1> QED
  BY <1>4 DEF Located, ss, one

LEMMA FirstOfIs ==
  ASSUME NEW S \in SUBSET OnDisk
  PROVE  FirstOf(S) \in SUBSET S
<1> DEFINE L == Listed(S)
           C == Cardinality(S)
           k == IF C < MaxTargets THEN C ELSE MaxTargets
<1>1. L \in Seq(S) /\ Range(L) = S /\ DOMAIN L = 1 .. Len(L) /\ Len(L) \in Nat
  BY ListedIs
<1>2. L \in Surjection(1 .. Len(L), S)
  BY <1>1 DEF Surjection, Range
<1>3. IsFiniteSet(1 .. Len(L)) /\ Cardinality(1 .. Len(L)) = Len(L)
  BY <1>1, CountOfInitial
<1>4. C <= Len(L) /\ C \in Nat
  <2>1. IsFiniteSet(S)
    BY DiskFinite, FS_Subset
  <2> QED
    BY <1>2, <1>3, <2>1, FS_Surjection, FS_CardinalityType
<1>5. MaxTargets \in Nat
  BY ScopeAssumption
<1> HIDE DEF L, C
<1>6. k \in Nat /\ k <= Len(L)
  BY <1>1, <1>4, <1>5
<1> HIDE DEF k
<1>7. \A i \in 1 .. k : L[i] \in S
  BY <1>1, <1>6
<1>8. SubSeq(L, 1, k) \in Seq(S)
  BY <1>6, <1>7, SubSeqProperties
<1>9. FirstOf(S) = Range(SubSeq(L, 1, k))
  BY DEF FirstOf, L, C, k
<1> QED
  BY <1>8, <1>9 DEF Range

LEMMA TargetsAre ==
  ASSUME NEW n \in FnNames, NEW f \in OnDisk, NEW S \in SUBSET OnDisk
  PROVE  Targets(n, f, S) \in SUBSET S
<1> DEFINE d == DefsIn(n, S)
           c == IF Cardinality(d) < MaxTargets THEN Cardinality(d) ELSE MaxTargets
           near == [g \in d |-> Nearness[f][g]]
           best(T) == Cardinality(T) = c /\ \A x \in T, y \in d \ T : Nearness[f][y] <= Nearness[f][x]
<1>1. d \in SUBSET S /\ d \in SUBSET OnDisk
  BY DEF DefsIn
<1>2. IsFiniteSet(d) /\ Cardinality(d) \in Nat /\ MaxTargets \in Nat
  BY <1>1, DiskFinite, FS_Subset, FS_CardinalityType, ScopeAssumption
<1>3. near \in [d -> Int]
  BY <1>1, ScopeAssumption
<1> HIDE DEF d
<1>4. c \in Nat /\ c <= Cardinality(d)
  BY <1>2
<1>5. \E T \in SUBSET d : Cardinality(T) = c /\ \A x \in T, y \in d \ T : near[y] <= near[x]
  <2> HIDE DEF c, near
  <2> QED
    BY <1>2, <1>3, <1>4, TopMembers
<1>6. \E T \in SUBSET d : best(T)
  BY <1>5
<1>7. CASE f \in d
  BY <1>1, <1>7 DEF Targets, d
<1>8. CASE f \notin d /\ Cardinality(d) <= 1
  BY <1>1, <1>8 DEF Targets, d
<1>9. CASE f \notin d /\ ~(Cardinality(d) <= 1)
  <2>1. Targets(n, f, S) = CHOOSE T \in SUBSET d : best(T)
    BY <1>9 DEF Targets, d
  <2> HIDE DEF best
  <2> QED
    BY <1>1, <1>6, <2>1
<1> QED
  BY <1>7, <1>8, <1>9

Edges == Functions \X Functions

LEMMA FromAgentIs ==
  ASSUME NEW calls, NEW S \in SUBSET OnDisk
  PROVE  FromAgent(calls, S) \in SUBSET Edges
<1> DEFINE seen == {s.name : s \in SitesIn(S)} \cup {n \in FnNames : DefsIn(n, S) # {}}
           callers(n) == IF DefsIn(n, S) = {} THEN {NoFile} ELSE FirstOf(DefsIn(n, S))
           callees(n, f) == IF f = NoFile THEN FirstOf(DefsIn(n, S)) ELSE Targets(n, f, S)
           of(c, f) == {<<Qualified(f, c.caller), Qualified(g, c.callee)>> : g \in callees(c.callee, f)}
<1>1. seen \in SUBSET FnNames
  BY ScopeAssumption DEF SitesIn
<1>2. \A n \in FnNames : FirstOf(DefsIn(n, S)) \in SUBSET OnDisk
  BY FirstOfIs DEF DefsIn
<1>3. \A n \in FnNames : callers(n) \subseteq OnDisk \cup {NoFile}
  BY <1>2
<1>4. \A n \in FnNames : \A f \in OnDisk \cup {NoFile} : callees(n, f) \subseteq OnDisk
  BY <1>2, TargetsAre
<1> HIDE DEF seen, callers, callees
<1>5. FromAgent(calls, S) =
        UNION {UNION {of(c, f) : f \in callers(c.caller)} : c \in {c \in calls : {c.caller, c.callee} \subseteq seen}}
  BY DEF FromAgent, seen, callers, callees
<1>6. ASSUME NEW c \in calls, {c.caller, c.callee} \subseteq seen, NEW f \in callers(c.caller), NEW e \in of(c, f)
      PROVE  e \in Edges
  <2>1. c.caller \in FnNames /\ c.callee \in FnNames
    BY <1>1, <1>6
  <2>2. f \in OnDisk \cup {NoFile}
    BY <1>3, <1>6, <2>1
  <2>3. PICK g \in callees(c.callee, f) : e = <<Qualified(f, c.caller), Qualified(g, c.callee)>>
    OBVIOUS
  <2>4. g \in OnDisk
    BY <1>4, <2>1, <2>2
  <2> QED
    BY <2>1, <2>2, <2>3, <2>4 DEF Qualified, Functions, Edges
<1> HIDE DEF of
<1> QED
  BY <1>5, <1>6

LEMMA FromTextIs ==
  ASSUME NEW seeds, NEW S \in SUBSET OnDisk
  PROVE  FromText(seeds, S) \in SUBSET Edges
<1> DEFINE found(names) == {s \in SitesIn(S) : s.name \in names /\ s.in # s.name}
           edges(names) == UNION {{<<Qualified(s.file, s.in), Qualified(g, s.name)>> : g \in Targets(s.name, s.file, S)} :
                                    s \in found(names)}
           R == IF Rounds = 0 THEN 1 ELSE Rounds
           new(r) == ({s.in : s \in found(r.names)} \cap {n \in FnNames : DefsIn(n, S) # {}}) \ r.known
           next(r) == [names |-> new(r), known |-> r.known \cup new(r), edges |-> r.edges \cup edges(r.names)]
           first == [names |-> seeds, known |-> seeds, edges |-> {}]
           D(g) == [k \in 0 .. R |-> IF k = 0 THEN first ELSE next(g[k - 1])]
           F == CHOOSE g : g = D(g)
           made(g, n) == \A k \in 0 .. n : g[k] = IF k = 0 THEN first ELSE next(g[k - 1])
           can == {n \in 0 .. R : \E g : g = [k \in 0 .. n |-> g[k]] /\ made(g, n)}
<1>1. R \in Nat
  BY ScopeAssumption
<1>2. FromText(seeds, S) = F[R].edges
  BY Zenon DEF FromText
<1>3. ASSUME NEW names PROVE edges(names) \subseteq Edges
  <2>1. ASSUME NEW s \in found(names), NEW g \in Targets(s.name, s.file, S)
        PROVE  <<Qualified(s.file, s.in), Qualified(g, s.name)>> \in Edges
    <3>1. s.file \in OnDisk /\ s.in \in FnNames /\ s.name \in FnNames
      BY ScopeAssumption DEF SitesIn
    <3>2. g \in OnDisk
      BY <3>1, TargetsAre
    <3> QED
      BY <3>1, <3>2 DEF Qualified, Functions, Edges
  <2> HIDE DEF found
  <2> QED
    BY <2>1
<1> HIDE DEF edges, found, new
<1>4. 0 \in can
  <2> DEFINE g == [k \in 0 .. 0 |-> first]
  <2>1. g = [k \in 0 .. 0 |-> g[k]] /\ made(g, 0) /\ 0 \in 0 .. R
    BY <1>1
  <2> HIDE DEF g, made
  <2> QED
    BY <2>1
<1>5. ASSUME NEW n \in 0 .. (R - 1), n \in can PROVE n + 1 \in can
  <2>1. PICK g : g = [k \in 0 .. n |-> g[k]] /\ made(g, n)
    BY <1>5
  <2>2. n \in Nat /\ n + 1 \in 0 .. R /\ n \in 0 .. n
    BY <1>1, <1>5
  <2> DEFINE h == [k \in 0 .. (n + 1) |-> IF k = n + 1 THEN next(g[n]) ELSE g[k]]
  <2>3. ASSUME NEW k \in 0 .. (n + 1)
        PROVE  h[k] = IF k = 0 THEN first ELSE next(h[k - 1])
    <3> HIDE DEF next, first
    <3>1. CASE k = n + 1
      <4>1. k # 0 /\ k - 1 = n /\ n \in 0 .. (n + 1) /\ n # n + 1
        BY <2>2, <3>1
      <4>2. h[n] = g[n] /\ h[k] = next(g[n])
        BY <3>1, <4>1
      <4> QED
        BY <4>1, <4>2
    <3>2. CASE k # n + 1
      <4>1. k \in 0 .. n /\ h[k] = g[k]
        BY <2>2, <3>2
      <4>2. CASE k = 0
        BY <2>1, <4>1, <4>2
      <4>3. CASE k # 0
        <5>1. k - 1 \in 0 .. (n + 1) /\ k - 1 # n + 1
          BY <2>2, <4>1, <4>3
        <5>2. h[k - 1] = g[k - 1]
          BY <5>1
        <5>3. g[k] = next(g[k - 1])
          BY <2>1, <4>1, <4>3
        <5> QED
          BY <4>1, <4>3, <5>2, <5>3
      <4> QED
        BY <4>2, <4>3
    <3> QED
      BY <3>1, <3>2
  <2>4. h = [k \in 0 .. (n + 1) |-> h[k]]
    OBVIOUS
  <2> HIDE DEF h
  <2>5. made(h, n + 1)
    BY <2>3
  <2> HIDE DEF made
  <2> QED
    BY <2>2, <2>4, <2>5
<1>6. R \in can
  <2> HIDE DEF can
  <2>1. R \in 0 .. R
    BY <1>1
  <2> QED
    BY <1>1, <1>4, <1>5, <2>1, UpTo
<1>7. PICK g : g = [k \in 0 .. R |-> g[k]] /\ made(g, R)
  BY <1>6
<1>8. g = D(g)
  <2> HIDE DEF next, first
  <2>1. \A k \in 0 .. R : g[k] = D(g)[k]
    BY <1>7
  <2> QED
    BY <1>7, <2>1
<1>9. F = D(F)
  BY <1>8, Zenon
<1> HIDE DEF F
<1>10. \A k \in 0 .. R : F[k] = IF k = 0 THEN first ELSE next(F[k - 1])
  <2> HIDE DEF next, first
  <2> QED
    BY <1>9
<1> HIDE DEF D, can, made, R
<1> DEFINE right == {k \in 0 .. R : F[k].edges \subseteq Edges}
<1>11. 0 \in right
  <2>1. 0 \in 0 .. R
    BY <1>1
  <2>2. F[0] = first
    <3> HIDE DEF next, first
    <3> QED
      BY <1>10, <2>1
  <2> QED
    BY <2>1, <2>2
<1>12. ASSUME NEW k \in 0 .. (R - 1), k \in right PROVE k + 1 \in right
  <2>1. k + 1 \in 0 .. R /\ k + 1 # 0 /\ (k + 1) - 1 = k
    BY <1>1, <1>12
  <2>2. F[k + 1] = next(F[k])
    <3> HIDE DEF next, first
    <3> QED
      BY <1>10, <2>1
  <2>3. F[k + 1].edges = F[k].edges \cup edges(F[k].names)
    BY <2>2
  <2> QED
    BY <1>3, <1>12, <2>1, <2>3
<1>13. R \in right
  <2> HIDE DEF right
  <2>1. R \in 0 .. R
    BY <1>1
  <2> QED
    BY <1>1, <1>11, <1>12, <2>1, UpTo
<1> QED
  BY <1>2, <1>13 DEF R

-----------------------------------------------------------------------------
(* The taint chunks.                                                         *)

LEMMA FunctionsFinite == IsFiniteSet(Functions)
<1> DEFINE P == (OnDisk \cup {NoFile}) \X FnNames
           f == [p \in P |-> [file |-> p[1], name |-> p[2]]]
<1>1. IsFiniteSet(OnDisk \cup {NoFile})
  BY DiskFinite, FS_AddElement
<1>2. IsFiniteSet(P)
  <2>1. IsFiniteSet(FnNames)
    BY ScopeAssumption
  <2> QED
    BY <1>1, <2>1, FS_Product
<1>3. f \in Surjection(P, Functions)
  <2>1. f \in [P -> Functions]
    BY DEF Functions
  <2>2. ASSUME NEW q \in Functions PROVE \E p \in P : f[p] = q
    <3>1. <<q.file, q.name>> \in P /\ q = [file |-> q.file, name |-> q.name]
      BY DEF Functions
    <3>2. f[<<q.file, q.name>>] = q
      BY <3>1
    <3> QED
      BY <3>1, <3>2
  <2> HIDE DEF f
  <2> QED
    BY <2>1, <2>2 DEF Surjection
<1> QED
  BY <1>2, <1>3, FS_Surjection

LEMMA OfNativeIs ==
  ASSUME NEW T, NEW items \in Seq(T)
  PROVE  /\ OfNative(items) \in Seq(T)
         /\ \A x \in Range(OfNative(items)) : x.file \in Native
<1> DEFINE K == {i \in DOMAIN items : items[i].file \in Native}
<1>1. OfNative(items) = Picked(items, K) /\ K \in SUBSET DOMAIN items
  BY DEF OfNative
<1>2. \A i \in K : items[i].file \in Native
  OBVIOUS
<1> HIDE DEF K
<1>3. OfNative(items) \in Seq(T) /\ Range(OfNative(items)) = {items[i] : i \in K}
  BY <1>1, PickedIs
<1> QED
  BY <1>2, <1>3

LEMMA MatchIs ==
  ASSUME graph \in SUBSET Edges, NEW f \in OnDisk, NEW n \in FnNames
  PROVE  Match(f, n) \in SUBSET Functions
<1>1. \A e \in graph : e[1] \in Functions /\ e[2] \in Functions
  BY DEF Edges
<1>2. Nodes \in SUBSET Functions
  BY <1>1 DEF Nodes, NativeGraph
<1>3. Qualified(f, n) \in Functions
  BY DEF Qualified, Functions
<1> QED
  BY <1>2, <1>3 DEF Match

(* The sinks that count are functions, so there are finitely many.           *)
LEMMA ReachedIs ==
  ASSUME graph \in SUBSET Edges, sinks \in Seq(Sights(OnDisk)), NEW e, NEW h \in Reached(e)
  PROVE  h.sink \in Functions
<1> DEFINE from(start) == {[sink |-> q, path |-> Range(PathsFrom(start)[q])] :
                             q \in (DOMAIN PathsFrom(start) \cap SinkNodes) \ {start}}
           hits == UNION {from(start) : start \in Match(e.file, e.fn)}
           near == {[sink |-> Qualified(s.file, s.fn), path |-> {Qualified(e.file, e.fn), Qualified(s.file, s.fn)}] :
                      s \in {s \in Range(OfNative(sinks)) : s.file = e.file}}
<1>1. ASSUME NEW s \in Range(OfNative(sinks)) PROVE s.file \in OnDisk /\ s.fn \in FnNames
  <2>1. OfNative(sinks) \in Seq(Sights(OnDisk))
    BY OfNativeIs
  <2>2. s \in Sights(OnDisk)
    BY <2>1 DEF Range
  <2> QED
    BY <2>2 DEF Sights
<1>2. SinkNodes \in SUBSET Functions
  BY <1>1, MatchIs DEF SinkNodes
<1>3. \A s \in Range(OfNative(sinks)) : Qualified(s.file, s.fn) \in Functions
  BY <1>1 DEF Qualified, Functions
<1>4. \A x \in hits : x.sink \in SinkNodes
  OBVIOUS
<1>5. \A x \in near : x.sink \in Functions
  BY <1>3
<1>6. h \in hits \/ h \in near
  BY Zenon DEF Reached
<1> HIDE DEF hits, near
<1> QED
  BY <1>2, <1>4, <1>5, <1>6

LEMMA TaintsOfIs ==
  ASSUME graph \in SUBSET Edges, sinks \in Seq(Sights(OnDisk)), NEW e \in Sights(OnDisk)
  PROVE  IsFiniteSet(TaintsOf(e)) /\ \A t \in TaintsOf(e) : t.files \in SUBSET InPlan
<1> DEFINE P == Functions \X SUBSET OnDisk
           f == [p \in P |-> [fn |-> e.fn, sink |-> p[1], files |-> p[2]]]
           T == {f[p] : p \in P}
<1>1. IsFiniteSet(P)
  BY DiskFinite, FunctionsFinite, FS_SUBSET, FS_Product
<1>2. f \in Surjection(P, T)
  <2> HIDE DEF f
  <2>1. f \in [P -> T]
    BY DEF f
  <2> QED
    BY <2>1 DEF Surjection
<1>3. IsFiniteSet(T)
  BY <1>1, <1>2, FS_Surjection
<1>4. ASSUME NEW t \in TaintsOf(e) PROVE t \in T /\ t.files \in SUBSET InPlan
  <2>1. PICK h \in Reached(e) :
          t = [fn |-> e.fn, sink |-> h.sink,
               files |-> ({q.file : q \in h.path} \cup {e.file} \cup SinkFiles(h.sink)) \cap InPlan]
    BY DEF TaintsOf
  <2>2. h.sink \in Functions
    BY ReachedIs
  <2>3. t.files \in SUBSET InPlan /\ InPlan \in SUBSET OnDisk
    BY <2>1, ScopeAssumption DEF InPlan
  <2>4. <<h.sink, t.files>> \in P
    BY <2>2, <2>3
  <2>5. f[<<h.sink, t.files>>] = t
    BY <2>1, <2>4
  <2> HIDE DEF f
  <2> QED
    BY <2>3, <2>4, <2>5
<1> HIDE DEF T
<1>5. TaintsOf(e) \in SUBSET T
  BY <1>4
<1> QED
  BY <1>3, <1>4, <1>5, FS_Subset

LEMMA TaintsAre ==
  ASSUME graph \in SUBSET Edges, sinks \in Seq(Sights(OnDisk)), entries \in Seq(Sights(OnDisk))
  PROVE  Taints \in Seq(SUBSET InPlan)
<1> DEFINE native == OfNative(entries)
           D == DOMAIN native
           before(i, j) == \/ native[i].order < native[j].order
                           \/ native[i].order = native[j].order /\ i <= j
           upto == [i \in D |-> {j \in D : before(j, i)}]
           order == Ordered(upto)
           ss == [k \in DOMAIN order |-> SetToSeq(TaintsOf(native[order[k]]))]
           all == FlattenSeq(ss)
           K == {i \in DOMAIN all : all[i].files # {} /\ \A j \in 1 .. (i - 1) : all[j] # all[i]}
           new == Ascending(K)
           m == IF Len(new) < MaxTaint THEN Len(new) ELSE MaxTaint
           U == UNION {TaintsOf(native[i]) : i \in D}
<1>1. Taints = [k \in 1 .. m |-> all[new[k]].files]
  BY Zenon DEF Taints
<1>2. native \in Seq(Sights(OnDisk)) /\ D = 1 .. Len(native) /\ Len(native) \in Nat
  <2>1. native \in Seq(Sights(OnDisk))
    BY OfNativeIs
  <2> QED
    BY <2>1
<1>3. \A i \in D : native[i] \in Sights(OnDisk)
  BY <1>2
<1>4. IsFiniteSet(D) /\ Cardinality(D) = Len(native) /\ D \in SUBSET Nat
  BY <1>2, CountOfInitial
<1>5. order \in [1 .. Len(native) -> D]
  <2> DEFINE key == [i \in D |-> native[i].order]
  <2>1. key \in [D -> Int] /\ \A i \in D : key[i] = native[i].order
    BY <1>3 DEF Sights
  <2>2. upto \in [D -> SUBSET D] /\ \A i, j \in D : j \in upto[i] <=> before(j, i)
    OBVIOUS
  <2> HIDE DEF native, D, upto, key
  <2>3. \A i, j \in D : j \in upto[i] <=> key[j] < key[i] \/ (key[j] = key[i] /\ j <= i)
    BY <2>1, <2>2
  <2> HIDE DEF before
  <2>4. LinearOrder(upto, D)
    BY <1>4, <2>1, <2>2, <2>3, ByKey
  <2> QED
    BY <1>4, <2>4, OrderedIs DEF Numbering
<1> HIDE DEF order, native
<1>6. DOMAIN order = 1 .. Len(native) /\ \A k \in DOMAIN order : order[k] \in D
  BY <1>5
<1>7. ASSUME NEW i \in D PROVE SetToSeq(TaintsOf(native[i])) \in Seq(U)
  <2>1. IsFiniteSet(TaintsOf(native[i])) /\ TaintsOf(native[i]) \in SUBSET U
    BY <1>3, TaintsOfIs
  <2>2. SetToSeq(TaintsOf(native[i])) \in Seq(TaintsOf(native[i]))
    BY <2>1, SetToSeqIs
  <2> HIDE DEF U
  <2> QED
    BY <2>1, <2>2
<1>8. \A t \in U : t.files \in SUBSET InPlan
  BY <1>3, TaintsOfIs
<1> HIDE DEF U, D
<1>9. ss \in Seq(Seq(U))
  BY <1>2, <1>6, <1>7, ListOf
<1> HIDE DEF ss
<1>10. all \in Seq(U)
  BY <1>9, FlattenIs
<1> HIDE DEF all
<1>11. DOMAIN all = 1 .. Len(all) /\ Len(all) \in Nat /\ \A i \in DOMAIN all : all[i] \in U
  BY <1>10
<1>12. K \in SUBSET Nat /\ K \in SUBSET DOMAIN all /\ IsFiniteSet(K)
  BY <1>11, CountOfInitial, FS_Subset
<1> HIDE DEF K
<1>13. Cardinality(K) \in Nat /\ new \in [1 .. Cardinality(K) -> K]
  BY <1>12, AscendingIs DEF Numbering
<1>14. Len(new) = Cardinality(K)
  BY <1>13, ListOf
<1> HIDE DEF new
<1>15. m \in Nat /\ m <= Cardinality(K)
  <2>1. MaxTaint \in Nat
    BY ScopeAssumption
  <2> QED
    BY <1>13, <1>14, <2>1
<1> HIDE DEF m
<1>16. \A k \in 1 .. m : all[new[k]].files \in SUBSET InPlan
  <2> TAKE k \in 1 .. m
  <2>1. k \in 1 .. Cardinality(K)
    BY <1>13, <1>15
  <2>2. all[new[k]] \in U
    BY <1>11, <1>12, <1>13, <2>1
  <2> QED
    BY <1>8, <2>2
<1> QED
  BY <1>1, <1>15, <1>16, ListOf

-----------------------------------------------------------------------------
(* The passes over the chunks.                                               *)

LEMMA LastRankIs ==
  ASSUME chunks \in Seq(Chunks0)
  PROVE  LastRank \in Int
<1> DEFINE D == DOMAIN chunks
           key == [i \in D |-> chunks[i].rank]
           ranks == {c.rank : c \in Range(chunks)}
<1>1. D = 1 .. Len(chunks) /\ Len(chunks) \in Nat /\ \A i \in D : chunks[i] \in Chunks0
  OBVIOUS
<1>2. key \in [D -> Int] /\ \A i \in D : key[i] = chunks[i].rank
  BY <1>1 DEF Chunks0
<1>3. CASE chunks = <<>>
  BY <1>3 DEF LastRank
<1>4. CASE chunks # <<>>
  <2>1. D # {}
    <3>1. Len(chunks) # 0
      BY <1>4
    <3>2. 1 \in D
      BY <1>1, <3>1
    <3> QED
      BY <3>2
  <2>2. IsFiniteSet(D)
    BY <1>1, CountOfInitial
  <2> HIDE DEF key
  <2>3. PICK d \in D : \A e \in D : key[e] <= key[d]
    BY <1>2, <2>1, <2>2, Greatest
  <2>4. chunks[d].rank \in ranks /\ \A c \in Range(chunks) : c.rank <= chunks[d].rank
    BY <1>2, <2>3 DEF Range
  <2>5. ranks \in SUBSET Int
    BY <1>1 DEF Range, Chunks0
  <2>6. LastRank = CHOOSE r \in ranks : \A c \in Range(chunks) : c.rank <= r
    BY <1>4 DEF LastRank
  <2> HIDE DEF ranks
  <2> QED
    BY <2>4, <2>5, <2>6
<1> QED
  BY <1>3, <1>4

LEMMA AddedIs ==
  ASSUME NEW kind \in {"catchall", "special"}, NEW shards \in Seq(Seq(OnDisk)), NEW from \in Int
  PROVE  /\ Added(kind, shards, from) \in Seq(Chunks0)
         /\ DOMAIN Added(kind, shards, from) = DOMAIN shards
         /\ \A k \in DOMAIN shards : /\ Added(kind, shards, from)[k].files = shards[k]
                                     /\ Added(kind, shards, from)[k].kind = kind
<1> DEFINE X == Added(kind, shards, from)
<1>1. DOMAIN shards = 1 .. Len(shards) /\ Len(shards) \in Nat /\ \A k \in DOMAIN shards : shards[k] \in Seq(OnDisk)
  OBVIOUS
<1>2. X = [k \in 1 .. Len(shards) |-> [kind |-> kind, files |-> shards[k], rank |-> from + k, threat |-> NoThreat]]
  BY <1>1 DEF Added
<1>3. \A k \in 1 .. Len(shards) :
        [kind |-> kind, files |-> shards[k], rank |-> from + k, threat |-> NoThreat] \in Chunks0
  BY <1>1, ScopeAssumption DEF Chunks0
<1>4. X \in Seq(Chunks0)
  BY <1>1, <1>2, <1>3, ListOf
<1> QED
  BY <1>1, <1>2, <1>4

(* _split_oversize_risk_chunks, whoever made the chunk.                      *)
Whole(c) == Fits(c) \/ Len(c.files) = 1

LEMMA SplitIs ==
  ASSUME chunks \in Seq(Chunks0), modules \in Seq(Seq(OnDisk)), Split
  PROVE  chunks' \in Seq(Chunks0) /\ \A c \in Range(chunks') : Whole(c)
<1> DEFINE packed(c) == Pack(Groups(Range(c.files)), Cap, MostFiles)
           parts(c) == IF Fits(c) THEN <<c>> ELSE [k \in DOMAIN packed(c) |-> [c EXCEPT !.files = packed(c)[k]]]
           ss == [i \in DOMAIN chunks |-> parts(chunks[i])]
<1>1. chunks' = FlattenSeq(ss)
  BY Zenon DEF Split
<1>2. DOMAIN chunks = 1 .. Len(chunks) /\ Len(chunks) \in Nat /\ \A i \in DOMAIN chunks : chunks[i] \in Chunks0
  OBVIOUS
<1>3. ASSUME NEW c \in Chunks0
      PROVE  parts(c) \in Seq(Chunks0) /\ \A x \in Range(parts(c)) : Whole(x)
  <2>1. CASE Fits(c)
    <3>1. parts(c) = <<c>>
      BY <2>1
    <3>2. <<c>> \in Seq(Chunks0) /\ Range(<<c>>) = {c}
      BY DEF Range
    <3> QED
      BY <2>1, <3>1, <3>2 DEF Whole
  <2>2. CASE ~ Fits(c)
    <3> DEFINE p == packed(c)
    <3>1. c.files \in Seq(OnDisk)
      BY DEF Chunks0
    <3>2. Range(c.files) \in SUBSET OnDisk
      BY <3>1 DEF Range
    <3>3. Groups(Range(c.files)) \in Seq(Seq(OnDisk))
      BY <3>2, GroupsAre
    <3>4. p \in Seq(Seq(OnDisk)) /\ \A k \in DOMAIN p : Within(p[k], Cap, MostFiles) \/ Len(p[k]) = 1
      BY <3>3, PackIs
    <3>5. parts(c) = [k \in DOMAIN p |-> [c EXCEPT !.files = p[k]]]
      BY <2>2
    <3> HIDE DEF p, parts
    <3>6. DOMAIN p = 1 .. Len(p) /\ Len(p) \in Nat /\ \A k \in DOMAIN p : p[k] \in Seq(OnDisk)
      BY <3>4
    <3>7. \A k \in DOMAIN p : [c EXCEPT !.files = p[k]] \in Chunks0 /\ [c EXCEPT !.files = p[k]].files = p[k]
      BY <3>6 DEF Chunks0
    <3>8. \A k \in DOMAIN p : Whole([c EXCEPT !.files = p[k]])
      BY <3>4, <3>7 DEF Whole, Fits
    <3>9. parts(c) \in Seq(Chunks0)
      BY <3>5, <3>6, <3>7, ListOf
    <3>10. ASSUME NEW x \in Range(parts(c)) PROVE Whole(x)
      <4>1. PICK k \in DOMAIN p : x = [c EXCEPT !.files = p[k]]
        BY <3>5 DEF Range
      <4> QED
        BY <3>8, <4>1
    <3> QED
      BY <3>9, <3>10
  <2> QED
    BY <2>1, <2>2
<1>4. \A i \in DOMAIN chunks : ss[i] = parts(chunks[i])
  OBVIOUS
<1> HIDE DEF parts
<1>5. ss \in Seq(Seq(Chunks0)) /\ DOMAIN ss = DOMAIN chunks
  BY <1>2, <1>3, ListOf
<1> HIDE DEF ss
<1>6. chunks' \in Seq(Chunks0) /\ Range(chunks') = UNION {Range(ss[i]) : i \in DOMAIN ss}
  BY <1>1, <1>5, FlattenIs
<1>7. \A i \in DOMAIN ss : \A x \in Range(ss[i]) : Whole(x)
  BY <1>2, <1>3, <1>4, <1>5
<1> QED
  BY <1>6, <1>7

(* Every file of the plan that the groups are built from is in a shard.      *)
LEMMA ShardedIs ==
  ASSUME modules \in Seq(Seq(OnDisk)), NEW S \in SUBSET InPlan, NEW cap, NEW most
  PROVE  /\ Pack(Groups(S), cap, most) \in Seq(Seq(OnDisk))
         /\ \A f \in S : \E k \in DOMAIN Pack(Groups(S), cap, most) :
                           f \in Range(Pack(Groups(S), cap, most)[k])
<1>1. S \in SUBSET OnDisk
  BY ScopeAssumption DEF InPlan
<1>2. Groups(S) \in Seq(Seq(OnDisk)) /\ \A f \in S : \E g \in Range(Groups(S)) : f \in Range(g)
  BY <1>1, GroupsAre
<1> QED
  BY <1>2, PackIs

LEMMA PlanIs ==
  ASSUME scope \subseteq OnDisk, NEW answer \in PlanAnswers, Plan0(answer)
  PROVE  chunks' \in Seq(Chunks0)
<1> DEFINE R == [paths : SUBSET Paths, rank : Int, threat : STRING]
<1>1. answer \in Seq(R)
  BY ScopeAssumption
<1>2. /\ DOMAIN answer = 1 .. Len(answer) /\ Len(answer) \in Nat
      /\ \A i \in DOMAIN answer : answer[i].rank \in Int /\ answer[i].threat \in STRING
  <2>1. \A r \in R : r.rank \in Int /\ r.threat \in STRING
    OBVIOUS
  <2> HIDE DEF R
  <2>2. DOMAIN answer = 1 .. Len(answer) /\ Len(answer) \in Nat /\ \A i \in DOMAIN answer : answer[i] \in R
    BY <1>1
  <2> QED
    BY <2>1, <2>2
<1>3. \A i \in DOMAIN answer : Listed(UNION {Resolve(p, InPlan) : p \in answer[i].paths}) \in Seq(OnDisk)
  <2> TAKE i \in DOMAIN answer
  <2>1. InPlan \in SUBSET OnDisk
    BY DEF InPlan
  <2>2. UNION {Resolve(p, InPlan) : p \in answer[i].paths} \in SUBSET OnDisk
    BY <2>1, ResolveIs
  <2> QED
    BY <2>2, ListedIs
<1>4. chunks' = [i \in DOMAIN answer |->
                   [kind |-> "risk", files |-> Listed(UNION {Resolve(p, InPlan) : p \in answer[i].paths}),
                    rank |-> answer[i].rank, threat |-> answer[i].threat]]
  BY DEF Plan0
<1>5. \A i \in DOMAIN answer :
        [kind |-> "risk", files |-> Listed(UNION {Resolve(p, InPlan) : p \in answer[i].paths}),
         rank |-> answer[i].rank, threat |-> answer[i].threat] \in Chunks0
  BY <1>2, <1>3 DEF Chunks0
<1> QED
  BY <1>2, <1>4, <1>5, ListOf

LEMMA AddTaintsIs ==
  ASSUME chunks \in Seq(Chunks0), Taints \in Seq(SUBSET InPlan), AddTaints
  PROVE  chunks' \in Seq(Chunks0)
<1> DEFINE own == [i \in DOMAIN chunks |->
                     IF Taints = <<>> THEN chunks[i] ELSE [chunks[i] EXCEPT !.rank = @ + MaxTaint]]
           ahead == [k \in DOMAIN Taints |-> [kind |-> "taint", files |-> Listed(Taints[k]), rank |-> k,
                                              threat |-> NoThreat]]
<1>1. chunks' = own \o ahead
  BY DEF AddTaints
<1>2. own \in Seq(Chunks0)
  <2>1. DOMAIN chunks = 1 .. Len(chunks) /\ Len(chunks) \in Nat /\ \A i \in DOMAIN chunks : chunks[i] \in Chunks0
    OBVIOUS
  <2>2. \A i \in DOMAIN chunks : [chunks[i] EXCEPT !.rank = @ + MaxTaint] \in Chunks0
    <3>1. ASSUME NEW c \in Chunks0 PROVE [c EXCEPT !.rank = @ + MaxTaint] \in Chunks0
      <4>1. c.rank + MaxTaint \in Int
        BY ScopeAssumption, SMTT(20) DEF Chunks0
      <4> QED
        BY <4>1 DEF Chunks0
    <3> QED
      BY <2>1, <3>1
  <2> QED
    BY <2>1, <2>2, ListOf
<1>3. ahead \in Seq(Chunks0)
  <2>1. DOMAIN Taints = 1 .. Len(Taints) /\ Len(Taints) \in Nat /\ \A k \in DOMAIN Taints : Taints[k] \in SUBSET InPlan
    OBVIOUS
  <2>2. \A k \in DOMAIN Taints : Listed(Taints[k]) \in Seq(OnDisk)
    BY <2>1, ListedIs, ScopeAssumption DEF InPlan
  <2>3. \A k \in DOMAIN Taints :
          [kind |-> "taint", files |-> Listed(Taints[k]), rank |-> k, threat |-> NoThreat] \in Chunks0
    BY <2>1, <2>2, ScopeAssumption DEF Chunks0
  <2> QED
    BY <2>1, <2>3, ListOf
<1> HIDE DEF own, ahead
<1> QED
  BY <1>1, <1>2, <1>3, JoinedIs

ChunksWhole == \A c \in Range(chunks) : c.kind \in {"risk", "taint"} => Whole(c)
EligibleSwept == InPlan \cap Eligible \subseteq Swept

(* The catch-all leaves no eligible file behind.                             *)
LEMMA CatchAllIs ==
  ASSUME chunks \in Seq(Chunks0), modules \in Seq(Seq(OnDisk)), ChunksWhole, CatchAll
  PROVE  chunks' \in Seq(Chunks0) /\ ChunksWhole' /\ EligibleSwept'
<1> DEFINE S == (InPlan \ Swept) \cap Eligible
           p == Pack(Groups(S), CatchCap, CatchFiles)
           X == Added("catchall", p, LastRank)
<1>1. chunks' = chunks \o X /\ InPlan' = InPlan
  BY DEF CatchAll, InPlan
<1>2. p \in Seq(Seq(OnDisk)) /\ \A f \in S : \E k \in DOMAIN p : f \in Range(p[k])
  <2>1. S \in SUBSET InPlan
    OBVIOUS
  <2> HIDE DEF S
  <2> QED
    BY <2>1, ShardedIs
<1> HIDE DEF p
<1>3. /\ X \in Seq(Chunks0) /\ DOMAIN X = DOMAIN p
      /\ \A k \in DOMAIN p : X[k].files = p[k] /\ X[k].kind = "catchall"
  BY <1>2, LastRankIs, AddedIs
<1> HIDE DEF X
<1>4. chunks' \in Seq(Chunks0) /\ Range(chunks') = Range(chunks) \cup Range(X)
  BY <1>1, <1>3, JoinedIs
<1>5. \A c \in Range(X) : c.kind = "catchall"
  BY <1>3 DEF Range
<1>6. ChunksWhole'
  BY <1>4, <1>5 DEF ChunksWhole, Whole, Fits
<1>7. ASSUME NEW f \in InPlan \cap Eligible PROVE f \in Swept'
  <2>1. CASE f \in Swept
    BY <1>4, <2>1 DEF Swept
  <2>2. CASE f \notin Swept
    <3>1. PICK k \in DOMAIN p : f \in Range(p[k])
      BY <1>2, <2>2
    <3>2. X[k] \in Range(chunks') /\ f \in Range(X[k].files)
      BY <1>3, <1>4, <3>1 DEF Range
    <3> QED
      BY <3>2 DEF Swept
  <2> QED
    BY <2>1, <2>2
<1> QED
  BY <1>1, <1>4, <1>6, <1>7 DEF EligibleSwept

(* The specialists take no file away.                                        *)
LEMMA SpecialiseIs ==
  ASSUME chunks \in Seq(Chunks0), modules \in Seq(Seq(OnDisk)), ChunksWhole, EligibleSwept,
         NEW gated \in SUBSET Specialists, Specialise(gated)
  PROVE  chunks' \in Seq(Chunks0) /\ ChunksWhole' /\ EligibleSwept'
<1> DEFINE shards == Pack(Groups(InPlan), SpecialCap, MostFiles)
           ss == [i \in 1 .. Cardinality(Specialists \ gated) |-> shards]
           all == FlattenSeq(ss)
           known(c) == IF c.threat \in threats THEN c ELSE [c EXCEPT !.threat = NoThreat]
           X == Added("special", all, LastRank)
           planned == chunks \o X
<1>1. chunks' = [i \in DOMAIN planned |-> known(planned[i])] /\ InPlan' = InPlan
  BY DEF Specialise, InPlan
<1>2. shards \in Seq(Seq(OnDisk))
  BY ShardedIs
<1> HIDE DEF shards
<1>3. all \in Seq(Seq(OnDisk))
  <2>1. Cardinality(Specialists \ gated) \in Nat
    <3>1. IsFiniteSet(Specialists)
      BY ScopeAssumption
    <3>2. Specialists \ gated \in SUBSET Specialists
      OBVIOUS
    <3>3. IsFiniteSet(Specialists \ gated)
      BY <3>1, <3>2, FS_Subset
    <3> QED
      BY <3>3, FS_CardinalityType
  <2>2. ss \in Seq(Seq(Seq(OnDisk)))
    BY <1>2, <2>1, ListOf
  <2> HIDE DEF ss
  <2> QED
    BY <2>2, FlattenIs
<1> HIDE DEF all
<1>4. X \in Seq(Chunks0) /\ DOMAIN X = DOMAIN all /\ \A k \in DOMAIN all : X[k].kind = "special"
  BY <1>3, LastRankIs, AddedIs
<1> HIDE DEF X
<1>5. planned \in Seq(Chunks0) /\ Range(planned) = Range(chunks) \cup Range(X)
  BY <1>4, JoinedIs
<1>6. \A c \in Range(planned) : c.kind \in {"risk", "taint"} => Whole(c)
  <2>1. \A c \in Range(X) : c.kind = "special"
    BY <1>4 DEF Range
  <2> QED
    BY <1>5, <2>1 DEF ChunksWhole
<1>7. \A f \in InPlan \cap Eligible : \E c \in Range(planned) : f \in Range(c.files)
  BY <1>5 DEF EligibleSwept, Swept
<1> HIDE DEF planned
<1>8. DOMAIN planned = 1 .. Len(planned) /\ Len(planned) \in Nat /\ \A i \in DOMAIN planned : planned[i] \in Chunks0
  BY <1>5
<1>9. \A c \in Chunks0 : known(c) \in Chunks0 /\ known(c).files = c.files /\ known(c).kind = c.kind
  BY ScopeAssumption DEF Chunks0
<1> HIDE DEF known
<1>10. chunks' \in Seq(Chunks0) /\ DOMAIN chunks' = DOMAIN planned
  <2>1. \A i \in DOMAIN planned : known(planned[i]) \in Chunks0
    BY <1>8, <1>9
  <2> QED
    BY <1>1, <1>8, <2>1, ListOf
<1>11. ASSUME NEW c \in Range(chunks'), c.kind \in {"risk", "taint"} PROVE Whole(c)
  <2>1. PICK i \in DOMAIN planned : c = known(planned[i])
    BY <1>1 DEF Range
  <2>2. planned[i].kind \in {"risk", "taint"} /\ c.files = planned[i].files
    BY <1>8, <1>9, <1>11, <2>1
  <2>3. Whole(planned[i])
    BY <1>6, <2>2 DEF Range
  <2> QED
    BY <2>2, <2>3 DEF Whole, Fits
<1>12. ASSUME NEW f \in InPlan \cap Eligible PROVE \E c \in Range(chunks') : f \in Range(c.files)
  <2>1. PICK c \in Range(planned) : f \in Range(c.files)
    BY <1>7
  <2>2. PICK i \in DOMAIN planned : c = planned[i]
    BY DEF Range
  <2>3. chunks'[i] \in Range(chunks') /\ chunks'[i] = known(planned[i])
    BY <1>1, <1>10 DEF Range
  <2>4. chunks'[i].files = c.files
    BY <1>8, <1>9, <2>2, <2>3
  <2> QED
    BY <2>1, <2>3, <2>4
<1>13. ChunksWhole'
  BY <1>11 DEF ChunksWhole, Whole, Fits
<1>14. EligibleSwept'
  BY <1>1, <1>12 DEF EligibleSwept, Swept
<1> QED
  BY <1>10, <1>13, <1>14

-----------------------------------------------------------------------------
(* The inductive invariant.  Nothing is read of the map before the scope is  *)
(* final; what was collapsed is shown by what was kept; after the split no   *)
(* chunk of the model's is over the caps, and after the catch-all no         *)
(* eligible file is outside of every chunk.                                  *)
CollapsedShown ==
  \A f \in walked \ scope :
    Signals[f] \subseteq UNION {Signals[g] : g \in {g \in scope : Shape[g] = Shape[f]}}

PlanInv ==
  /\ ScopeTypeOK
  /\ stage \in {"exclude", "walk"} => walked = {}
  /\ stage \in {"exclude", "walk", "collapse"} =>
       walked = scope /\ modules = <<>> /\ entries = <<>> /\ sinks = <<>>
  /\ CollapsedShown
  /\ stage \in {"catchall", "special", "planned"} => ChunksWhole
  /\ stage \in {"special", "planned"} => EligibleSwept

LEMMA PlanInvTypes ==
  ASSUME PlanInv
  PROVE  /\ scope \in SUBSET OnDisk /\ walked \in SUBSET OnDisk
         /\ modules \in Seq(Seq(OnDisk)) /\ entries \in Seq(Sights(OnDisk)) /\ sinks \in Seq(Sights(OnDisk))
         /\ graph \in SUBSET Edges /\ chunks \in Seq(Chunks0)
<1>1. /\ walked \subseteq OnDisk /\ scope \subseteq walked
      /\ modules \in Seq(Seq(scope)) /\ {entries, sinks} \subseteq Seq(Sights(scope))
      /\ graph \subseteq Edges /\ chunks \in Seq(Chunks0)
  BY DEF PlanInv, ScopeTypeOK, Sights, Edges
<1>2. scope \in SUBSET OnDisk
  BY <1>1
<1>3. Seq(scope) \subseteq Seq(OnDisk)
  BY <1>2
<1>4. modules \in Seq(Seq(OnDisk))
  <2> HIDE DEF OnDisk
  <2> QED
    BY <1>1, <1>3
<1>5. Sights(scope) \subseteq Sights(OnDisk)
  BY <1>2 DEF Sights
<1>6. entries \in Seq(Sights(OnDisk)) /\ sinks \in Seq(Sights(OnDisk))
  BY <1>1, <1>5
<1> QED
  BY <1>1, <1>2, <1>4, <1>6

LEMMA PlanInitial == ScopeInit => PlanInv
<1> SUFFICES ASSUME ScopeInit PROVE PlanInv
  OBVIOUS
<1> USE DEF ScopeInit
<1>1. /\ <<>> \in Seq(Seq(scope)) /\ <<>> \in Seq(Sights(scope)) /\ <<>> \in Seq(Chunks0)
  OBVIOUS
<1>2. ScopeTypeOK
  BY <1>1 DEF ScopeTypeOK, Stages, Sights
<1> QED
  BY <1>2 DEF PlanInv, CollapsedShown

(* The steps that come before the map.                                       *)
LEMMA InventoryPlans ==
  ASSUME PlanInv,
         \/ \E o \in Overlays : AutoExclude(o)
         \/ Walk
         \/ \E lost \in SUBSET settings.configs : CollapseConfigs(lost)
  PROVE  PlanInv'
<1>1. /\ scope \in SUBSET OnDisk /\ walked \in SUBSET OnDisk /\ graph \in SUBSET Edges /\ chunks \in Seq(Chunks0)
      /\ settings.marks \subseteq Settings0.marks \cup UNION {o.marks : o \in Overlays}
  BY PlanInvTypes DEF PlanInv, ScopeTypeOK
<1>2. \A T : <<>> \in Seq(T)
  OBVIOUS
<1>3. ASSUME NEW o \in Overlays, AutoExclude(o) PROVE PlanInv'
  <2>1. /\ stage = "exclude" /\ stage' = "walk" /\ settings'.marks = settings.marks \cup o.marks
        /\ UNCHANGED <<walked, scope, modules, entries, sinks, graph, threats, chunks>>
    BY <1>3 DEF AutoExclude
  <2>2. /\ walked = {} /\ scope = {} /\ modules = <<>> /\ entries = <<>> /\ sinks = <<>>
    BY <2>1 DEF PlanInv
  <2>3. settings'.marks \subseteq Settings0.marks \cup UNION {x.marks : x \in Overlays}
    BY <1>1, <2>1
  <2>4. ScopeTypeOK'
    BY <1>1, <1>2, <2>1, <2>2, <2>3 DEF ScopeTypeOK, Stages, Edges
  <2> QED
    BY <2>1, <2>2, <2>4 DEF PlanInv, CollapsedShown
<1>4. CASE Walk
  <2>1. /\ stage = "walk" /\ stage' = "collapse" /\ scope' = walked' /\ walked' \in SUBSET OnDisk
        /\ UNCHANGED <<settings, modules, entries, sinks, graph, threats, chunks>>
    BY <1>4 DEF Walk
  <2>2. modules = <<>> /\ entries = <<>> /\ sinks = <<>>
    BY <2>1 DEF PlanInv
  <2>3. ScopeTypeOK'
    BY <1>1, <1>2, <2>1, <2>2 DEF ScopeTypeOK, Stages, Edges
  <2> QED
    BY <2>1, <2>2, <2>3 DEF PlanInv, CollapsedShown
<1>5. ASSUME NEW lost \in SUBSET settings.configs, CollapseConfigs(lost) PROVE PlanInv'
  <2>1. /\ stage = "collapse" /\ stage' = "map" /\ scope' = Collapse0(lost) /\ walked' = walked
        /\ UNCHANGED <<settings, modules, entries, sinks, graph, threats, chunks>>
    BY <1>5 DEF CollapseConfigs
  <2>2. walked = scope /\ modules = <<>> /\ entries = <<>> /\ sinks = <<>>
    BY <2>1 DEF PlanInv
  <2>3. /\ scope' \subseteq scope
        /\ \A f \in scope \ scope' :
             Signals[f] \subseteq UNION {Signals[g] : g \in {g \in scope' : Shape[g] = Shape[f]}}
    BY <1>1, <2>1, ConfigsCollapse
  <2>4. ScopeTypeOK'
    BY <1>1, <1>2, <2>1, <2>2, <2>3 DEF ScopeTypeOK, Stages, Edges
  <2>5. CollapsedShown'
    BY <2>1, <2>2, <2>3 DEF CollapsedShown
  <2> QED
    BY <2>1, <2>4, <2>5 DEF PlanInv
<1> QED
  BY <1>3, <1>4, <1>5

(* The map and the threats.                                                  *)
LEMMA MapPlans ==
  ASSUME PlanInv, NEW answer \in MapAnswers, MapRepository(answer)
  PROVE  PlanInv'
<1> DEFINE seeds == {e.fn : e \in Range(entries')} \cup {s.fn : s \in Range(sinks')}
                      \cup UNION {{c.caller, c.callee} : c \in answer.calls}
<1>1. /\ stage = "map" /\ stage' = "threats"
      /\ modules' = [i \in DOMAIN answer.modules |-> ResolvedSeq(answer.modules[i], scope)]
      /\ entries' = Located(answer.entries, scope) /\ sinks' = Located(answer.sinks, scope)
      /\ graph' = FromAgent(answer.calls, scope) \cup FromText(seeds, scope)
      /\ UNCHANGED <<settings, walked, scope, threats, chunks>>
  BY DEF MapRepository
<1>2. scope \in SUBSET OnDisk
  BY PlanInvTypes
<1>3. answer.modules \in Seq(Seq(Paths)) /\ answer.entries \in Seq(Points) /\ answer.sinks \in Seq(Points)
  BY ScopeAssumption
<1>4. modules' \in Seq(Seq(scope))
  <2>1. /\ DOMAIN answer.modules = 1 .. Len(answer.modules) /\ Len(answer.modules) \in Nat
        /\ \A i \in DOMAIN answer.modules : answer.modules[i] \in Seq(Paths)
    BY <1>3
  <2>2. \A i \in DOMAIN answer.modules : ResolvedSeq(answer.modules[i], scope) \in Seq(scope)
    BY <1>2, <2>1, ResolvedIs
  <2> QED
    BY <1>1, <2>1, <2>2, ListOf
<1>5. entries' \in Seq(Sights(scope)) /\ sinks' \in Seq(Sights(scope))
  BY <1>1, <1>2, <1>3, LocatedIs
<1> HIDE DEF seeds
<1>6. graph' \subseteq Edges
  BY <1>1, <1>2, FromAgentIs, FromTextIs
<1>7. ScopeTypeOK'
  BY <1>1, <1>4, <1>5, <1>6 DEF PlanInv, ScopeTypeOK, Stages, Sights, Edges
<1> QED
  BY <1>1, <1>7 DEF PlanInv, CollapsedShown

LEMMA ThreatsPlan ==
  ASSUME PlanInv, NoThreatModel \/ \E answer \in ThreatAnswers : ModelThreats(answer)
  PROVE  PlanInv'
<1>1. /\ stage = "threats" /\ stage' \in {"plan", "failed"}
      /\ UNCHANGED <<settings, walked, scope, modules, entries, sinks, graph, chunks>>
  BY DEF NoThreatModel, ModelThreats
<1>2. ScopeTypeOK'
  BY <1>1 DEF PlanInv, ScopeTypeOK, Stages
<1> QED
  BY <1>1, <1>2 DEF PlanInv, CollapsedShown

(* The passes over the chunks leave the rest alone.                          *)
LEMMA PassPlans ==
  ASSUME PlanInv,
         \/ \E answer \in PlanAnswers : Plan0(answer)
         \/ AddTaints \/ Split \/ CatchAll
         \/ \E gated \in SUBSET Specialists : Specialise(gated)
  PROVE  PlanInv'
<1>1. /\ scope \in SUBSET OnDisk /\ modules \in Seq(Seq(OnDisk)) /\ graph \in SUBSET Edges
      /\ entries \in Seq(Sights(OnDisk)) /\ sinks \in Seq(Sights(OnDisk)) /\ chunks \in Seq(Chunks0)
  BY PlanInvTypes
<1>2. ASSUME UNCHANGED <<settings, walked, scope, modules, entries, sinks, graph, threats>>,
             stage' \in {"taint", "split", "catchall", "special", "planned"}, chunks' \in Seq(Chunks0),
             stage' \in {"catchall", "special", "planned"} => ChunksWhole',
             stage' \in {"special", "planned"} => EligibleSwept'
      PROVE  PlanInv'
  <2>1. ScopeTypeOK'
    BY <1>2 DEF PlanInv, ScopeTypeOK, Stages
  <2> QED
    BY <1>2, <2>1 DEF PlanInv, CollapsedShown
<1>3. ASSUME NEW answer \in PlanAnswers, Plan0(answer) PROVE PlanInv'
  <2>1. chunks' \in Seq(Chunks0)
    BY <1>1, <1>3, PlanIs
  <2> QED
    BY <1>2, <1>3, <2>1 DEF Plan0
<1>4. CASE AddTaints
  <2>1. chunks' \in Seq(Chunks0)
    BY <1>1, <1>4, TaintsAre, AddTaintsIs
  <2> QED
    BY <1>2, <1>4, <2>1 DEF AddTaints
<1>5. CASE Split
  <2>1. chunks' \in Seq(Chunks0) /\ \A c \in Range(chunks') : Whole(c)
    BY <1>1, <1>5, SplitIs
  <2>2. ChunksWhole'
    BY <2>1 DEF ChunksWhole, Whole, Fits
  <2> QED
    BY <1>2, <1>5, <2>1, <2>2 DEF Split
<1>6. CASE CatchAll
  <2>1. stage = "catchall" /\ ChunksWhole
    BY <1>6 DEF CatchAll, PlanInv
  <2>2. chunks' \in Seq(Chunks0) /\ ChunksWhole' /\ EligibleSwept'
    BY <1>1, <1>6, <2>1, CatchAllIs
  <2> QED
    BY <1>2, <1>6, <2>2 DEF CatchAll
<1>7. ASSUME NEW gated \in SUBSET Specialists, Specialise(gated) PROVE PlanInv'
  <2>1. stage = "special" /\ ChunksWhole /\ EligibleSwept
    BY <1>7 DEF Specialise, PlanInv
  <2>2. chunks' \in Seq(Chunks0) /\ ChunksWhole' /\ EligibleSwept'
    BY <1>1, <1>7, <2>1, SpecialiseIs
  <2> QED
    BY <1>2, <1>7, <2>2 DEF Specialise
<1> QED
  BY <1>3, <1>4, <1>5, <1>6, <1>7

LEMMA PlanStep == PlanInv /\ [ScopeNext]_scopeVars => PlanInv'
<1> SUFFICES ASSUME PlanInv, [ScopeNext]_scopeVars PROVE PlanInv'
  OBVIOUS
<1>1. CASE UNCHANGED scopeVars
  BY <1>1 DEF scopeVars, PlanInv, ScopeTypeOK, CollapsedShown, ChunksWhole, Whole, Fits, EligibleSwept,
              InPlan, Swept
<1>2. CASE ScopeNext
  BY <1>2, InventoryPlans, MapPlans, ThreatsPlan, PassPlans DEF ScopeNext
<1> QED
  BY <1>1, <1>2

LEMMA PlanHolds == ScopeSpec => []PlanInv
  BY PlanInitial, PlanStep, PTL DEF ScopeSpec

(* Every variable of the scope and the plan has its type: above all, what    *)
(* the map and the chunks name are files in scope, whatever paths the agents *)
(* wrote (s1_preprocess.py:_resolve_scope_path).                             *)
THEOREM ScopeTyped == ScopeSpec => []ScopeTypeOK
<1>1. PlanInv => ScopeTypeOK
  BY DEF PlanInv
<1> QED
  BY <1>1, PlanHolds, PTL

(* Nothing falls through the plan: an eligible native file is in a chunk, a  *)
(* chunk of the model's or of a path is within the caps or a single file,    *)
(* and a collapsed configuration shows no signal that no file of its shape   *)
(* in scope shows (s3_decompose.py:91-94, s1_preprocess.py:240-246).         *)
THEOREM NothingLeftUnscanned == ScopeSpec => []NothingUnscanned
<1>1. PlanInv => NothingUnscanned
  BY DEF PlanInv, NothingUnscanned, CollapsedShown, ChunksWhole, Whole, EligibleSwept
<1> QED
  BY <1>1, PlanHolds, PTL

=============================================================================
