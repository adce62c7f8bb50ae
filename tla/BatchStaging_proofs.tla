------------------------- MODULE BatchStaging_proofs -------------------------
(***************************************************************************)
(* Theorems about BatchStaging, for any repositories and lists, any number *)
(* of batches and of faults.                                               *)
(***************************************************************************)
EXTENDS BatchStaging, FiniteSetTheorems, SequenceTheorems, FunctionTheorems, TLAPS

-----------------------------------------------------------------------------
(* The units of a batch.                                                     *)

LEMMA ListTyped ==
  ASSUME NEW l \in Lists
  PROVE  /\ l \in Seq(Repos) /\ IsInjective(l) /\ Len(l) \in Nat \ {0} /\ DOMAIN l = 1 .. Len(l)
         /\ IsFiniteSet(DOMAIN l) /\ \A i \in DOMAIN l : l[i] \in Repos
<1>1. l \in Seq(Repos) /\ IsInjective(l) /\ l # <<>>
  BY BatchAssumption
<1>2. Len(l) \in Nat \ {0} /\ DOMAIN l = 1 .. Len(l) /\ \A i \in DOMAIN l : l[i] \in Repos
  BY <1>1
<1>3. IsFiniteSet(DOMAIN l)
  BY <1>2, FS_Interval
<1> QED
  BY <1>1, <1>2, <1>3

(* Two places with equally many before them are one.                         *)
LEMMA PlaceInjective ==
  ASSUME NEW n \in Nat, NEW S \in SUBSET (1 .. n), NEW i \in S, NEW j \in S,
         Cardinality(S \cap 1 .. i) = Cardinality(S \cap 1 .. j), i =< j
  PROVE  i = j
<1>1. IsFiniteSet(S \cap 1 .. j)
  <2>1. IsFiniteSet(1 .. n)
    BY FS_Interval
  <2> QED
    BY <2>1, FS_Subset
<1>2. S \cap 1 .. i \in SUBSET (S \cap 1 .. j)
  OBVIOUS
<1>3. S \cap 1 .. j = S \cap 1 .. i
  BY <1>1, <1>2, FS_Subset
<1>4. j \in S \cap 1 .. j
  OBVIOUS
<1> QED
  BY <1>3, <1>4

LEMMA PlacesAreAll ==
  ASSUME NEW n \in Nat, NEW S \in SUBSET (1 .. n)
  PROVE  /\ Cardinality(S) \in Nat
         /\ \A i \in S : Cardinality(S \cap 1 .. i) \in 1 .. Cardinality(S)
         /\ \A k \in 1 .. Cardinality(S) : \E i \in S : Cardinality(S \cap 1 .. i) = k
<1> DEFINE c == [i \in S |-> Cardinality(S \cap 1 .. i)]
           m == Cardinality(S)
<1>1. IsFiniteSet(S) /\ m \in Nat
  <2>1. IsFiniteSet(1 .. n)
    BY FS_Interval
  <2> QED
    BY <2>1, FS_Subset, FS_CardinalityType
<1>2. ASSUME NEW i \in S PROVE Cardinality(S \cap 1 .. i) \in 1 .. m
  <2>1. IsFiniteSet(S \cap 1 .. i) /\ Cardinality(S \cap 1 .. i) <= m
    BY <1>1, FS_Subset
  <2>2. i \in S \cap 1 .. i
    OBVIOUS
  <2>3. Cardinality(S \cap 1 .. i) \in Nat /\ Cardinality(S \cap 1 .. i) # 0
    BY <2>1, <2>2, FS_CardinalityType, FS_EmptySet
  <2> QED
    BY <1>1, <2>1, <2>3
<1>3. c \in Injection(S, 1 .. m)
  <2>1. c \in [S -> 1 .. m]
    BY <1>2
  <2>2. ASSUME NEW i \in S, NEW j \in S, c[i] = c[j] PROVE i = j
    <3>1. i =< j \/ j =< i
      OBVIOUS
    <3> QED
      BY <2>2, <3>1, PlaceInjective
  <2> QED
    BY <2>1, <2>2 DEF Injection, IsInjective
<1>4. IsFiniteSet(1 .. m) /\ Cardinality(1 .. m) = m
  BY <1>1, FS_Interval
<1>5. c \in Surjection(S, 1 .. m)
  <2> HIDE DEF c
  <2> QED
    BY <1>3, <1>4, FS_Injection
<1>6. \A k \in 1 .. m : \E i \in S : c[i] = k
  BY <1>5 DEF Surjection
<1> QED
  BY <1>1, <1>2, <1>6

(* InOrder has every row of the places it is given, each once.               *)
LEMMA InOrderIsAll ==
  ASSUME NEW l \in Lists, NEW S \in SUBSET DOMAIN l
  PROVE  /\ InOrder(l, S) \in Seq(Repos) /\ IsInjective(InOrder(l, S))
         /\ \A k \in DOMAIN InOrder(l, S) : \E i \in S : InOrder(l, S)[k] = l[i]
         /\ \A i \in S : \E k \in DOMAIN InOrder(l, S) : InOrder(l, S)[k] = l[i]
<1> DEFINE m == Cardinality(S)
           pos(k) == CHOOSE i \in S : Cardinality(S \cap 1 .. i) = k
<1>1. Len(l) \in Nat /\ S \in SUBSET (1 .. Len(l)) /\ \A i \in S : l[i] \in Repos
  BY ListTyped
<1>2. /\ m \in Nat
      /\ \A i \in S : Cardinality(S \cap 1 .. i) \in 1 .. m
      /\ \A k \in 1 .. m : \E i \in S : Cardinality(S \cap 1 .. i) = k
  BY <1>1, PlacesAreAll
<1>3. \A k \in 1 .. m : pos(k) \in S /\ Cardinality(S \cap 1 .. pos(k)) = k
  BY <1>2
<1>4. InOrder(l, S) = [k \in 1 .. m |-> l[pos(k)]]
  BY DEF InOrder
<1> HIDE DEF pos
<1>5. InOrder(l, S) \in [1 .. m -> Repos]
  BY <1>1, <1>3, <1>4
<1>6. IsInjective(InOrder(l, S))
  <2> SUFFICES ASSUME NEW j \in 1 .. m, NEW k \in 1 .. m, l[pos(j)] = l[pos(k)] PROVE j = k
    BY <1>4 DEF IsInjective
  <2>1. pos(j) = pos(k)
    BY <1>3, ListTyped DEF IsInjective
  <2> QED
    BY <1>3, <2>1
<1>7. ASSUME NEW i \in S PROVE \E k \in DOMAIN InOrder(l, S) : InOrder(l, S)[k] = l[i]
  <2> DEFINE k == Cardinality(S \cap 1 .. i)
  <2>1. k \in 1 .. m /\ pos(k) \in S /\ Cardinality(S \cap 1 .. pos(k)) = k
    BY <1>2, <1>3
  <2> DEFINE j == pos(k)
  <2>2. j \in S /\ Cardinality(S \cap 1 .. j) = Cardinality(S \cap 1 .. i)
    BY <2>1
  <2> HIDE DEF j
  <2>3. j = i
    <3>1. j =< i \/ i =< j
      BY <1>1, <2>2
    <3> QED
      BY <1>1, <2>2, <3>1, PlaceInjective
  <2> QED
    BY <1>4, <2>1, <2>3 DEF j
<1>8. InOrder(l, S) \in Seq(Repos)
  BY <1>2, <1>5, SeqDef
<1> QED
  BY <1>3, <1>4, <1>6, <1>7, <1>8

(* The applications of a list, each once.                                    *)
LEMMA AppsInOrder ==
  ASSUME NEW l \in Lists
  PROVE  LET n == Cardinality(Apps(l)) IN
           /\ n \in Nat
           /\ SetToSeq(Apps(l)) \in [1 .. n -> Apps(l)] /\ IsInjective(SetToSeq(Apps(l)))
           /\ \A a \in Apps(l) : \E k \in 1 .. n : SetToSeq(Apps(l))[k] = a
<1> DEFINE S == Apps(l)
           f == [i \in DOMAIN l |-> AppOf[l[i]]]
<1>1. f \in Surjection(DOMAIN l, S)
  BY ListTyped DEF Surjection, Apps, Range
<1>2. IsFiniteSet(S)
  <2> HIDE DEF f, S
  <2> QED
    BY <1>1, ListTyped, FS_Surjection
<1>3. Cardinality(S) \in Nat /\ ExistsBijection(1 .. Cardinality(S), S)
  BY <1>2, FS_CardinalityType
<1>4. \E g \in [1 .. Cardinality(S) -> S] : IsInjective(g)
  <2> HIDE DEF S
  <2>1. PICK g : g \in Bijection(1 .. Cardinality(S), S)
    BY <1>3 DEF ExistsBijection
  <2> QED
    BY <2>1 DEF Bijection, Injection
<1>5. SetToSeq(S) \in [1 .. Cardinality(S) -> S] /\ IsInjective(SetToSeq(S))
  BY <1>4 DEF SetToSeq
<1>6. SetToSeq(S) \in Surjection(1 .. Cardinality(S), S)
  <2> HIDE DEF S
  <2>1. SetToSeq(S) \in Injection(1 .. Cardinality(S), S)
    BY <1>5 DEF Injection
  <2>2. Cardinality(1 .. Cardinality(S)) = Cardinality(S)
    BY <1>3, FS_Interval
  <2> QED
    BY <1>2, <2>1, <2>2, FS_Injection
<1> QED
  BY <1>3, <1>5, <1>6 DEF Surjection

(* What a batch relies on: units that are not empty, have each row of the    *)
(* list once, and keep an application together.                              *)
Sharing(u, grouped) ==
  IF grouped THEN \A i \in DOMAIN u : AppOf[u[i]] = AppOf[u[1]] ELSE Len(u) = 1

LEMMA UnitsSound ==
  ASSUME NEW l \in Lists, NEW grouped \in BOOLEAN
  PROVE  LET us == Units(l, grouped) IN
           /\ us \in Seq(Seq(Repos))
           /\ \A k \in DOMAIN us : us[k] # <<>> /\ IsInjective(us[k]) /\ Sharing(us[k], grouped)
           /\ \A j, k \in DOMAIN us : j # k =>
                /\ Range(us[j]) \cap Range(us[k]) = {}
                /\ grouped => AppOf[us[j][1]] # AppOf[us[k][1]]
           /\ UNION {Range(us[k]) : k \in DOMAIN us} = Range(l)
<1> DEFINE us == Units(l, grouped)
<1>1. CASE ~grouped
  <2>1. us = [i \in 1 .. Len(l) |-> <<l[i]>>]
    BY <1>1, ListTyped DEF Units
  <2>2. us \in [1 .. Len(l) -> Seq(Repos)]
    BY <2>1, ListTyped
  <2>3. us \in Seq(Seq(Repos))
    BY <2>2, ListTyped, SeqDef
  <2>4. \A k \in 1 .. Len(l) : us[k] = <<l[k]>> /\ Range(us[k]) = {l[k]}
    BY <2>1 DEF Range
  <2>5. \A k \in 1 .. Len(l) : us[k] # <<>> /\ IsInjective(us[k]) /\ Len(us[k]) = 1
    <3>1. \A x : <<x>> # <<>> /\ IsInjective(<<x>>) /\ Len(<<x>>) = 1
      BY DEF IsInjective
    <3> HIDE DEF us
    <3> QED
      BY <2>4, <3>1
  <2>6. \A j, k \in 1 .. Len(l) : j # k => l[j] # l[k]
    BY ListTyped DEF IsInjective
  <2>7. UNION {Range(us[k]) : k \in 1 .. Len(l)} = Range(l)
    BY <2>4, ListTyped DEF Range
  <2> QED
    <3> HIDE DEF us
    <3>1. DOMAIN us = 1 .. Len(l)
      BY <2>2
    <3>2. \A k \in DOMAIN us : us[k] # <<>> /\ IsInjective(us[k]) /\ Sharing(us[k], grouped)
      BY <1>1, <2>5, <3>1 DEF Sharing
    <3>3. \A j, k \in DOMAIN us : j # k => Range(us[j]) \cap Range(us[k]) = {}
      BY <2>4, <2>6, <3>1
    <3> QED
      BY <1>1, <2>3, <2>7, <3>1, <3>2, <3>3 DEF us
<1>2. CASE grouped
  <2> DEFINE n == Cardinality(Apps(l))
             app(k) == SetToSeq(Apps(l))[k]
             places(k) == {i \in DOMAIN l : AppOf[l[i]] = app(k)}
  <2>1. us = [k \in 1 .. n |-> InOrder(l, places(k))]
    BY <1>2 DEF Units
  <2>2. /\ n \in Nat /\ \A k \in 1 .. n : app(k) \in Apps(l)
        /\ \A j, k \in 1 .. n : app(j) = app(k) => j = k
        /\ \A a \in Apps(l) : \E k \in 1 .. n : app(k) = a
    BY AppsInOrder DEF IsInjective
  <2> HIDE DEF n, app
  <2>3. ASSUME NEW k \in 1 .. n
        PROVE  /\ us[k] \in Seq(Repos) /\ IsInjective(us[k]) /\ us[k] # <<>>
               /\ \A i \in DOMAIN us[k] : AppOf[us[k][i]] = app(k) /\ us[k][i] \in Range(l)
               /\ \A i \in DOMAIN l : AppOf[l[i]] = app(k) => l[i] \in Range(us[k])
    <3>1. us[k] = InOrder(l, places(k)) /\ places(k) \in SUBSET DOMAIN l
      BY <2>1
    <3>2. /\ us[k] \in Seq(Repos) /\ IsInjective(us[k])
          /\ \A i \in DOMAIN us[k] : \E j \in places(k) : us[k][i] = l[j]
          /\ \A j \in places(k) : \E i \in DOMAIN us[k] : us[k][i] = l[j]
      <4> HIDE DEF us, places
      <4> QED
        BY <3>1, InOrderIsAll
    <3>3. PICK i \in DOMAIN l : AppOf[l[i]] = app(k)
      BY <2>2 DEF Apps, Range
    <3>4. us[k] # <<>>
      <4>1. \E j \in DOMAIN us[k] : us[k][j] = l[i]
        BY <3>2, <3>3
      <4> QED
        BY <4>1
    <3> HIDE DEF us
    <3> QED
      BY <3>2, <3>4 DEF Range
  <2> HIDE DEF us
  <2>4. DOMAIN us = 1 .. n /\ us \in [1 .. n -> Seq(Repos)]
    BY <2>1, <2>3
  <2>5. us \in Seq(Seq(Repos))
    BY <2>2, <2>4, SeqDef
  <2>6. \A k \in 1 .. n : 1 \in DOMAIN us[k]
    BY <2>3
  <2>7. \A k \in DOMAIN us : us[k] # <<>> /\ IsInjective(us[k]) /\ Sharing(us[k], grouped)
    BY <1>2, <2>3, <2>4, <2>6 DEF Sharing
  <2>8. ASSUME NEW j \in DOMAIN us, NEW k \in DOMAIN us, j # k
        PROVE  Range(us[j]) \cap Range(us[k]) = {} /\ AppOf[us[j][1]] # AppOf[us[k][1]]
    BY <2>2, <2>3, <2>4, <2>6, <2>8, SMTT(20) DEF Range
  <2>9. UNION {Range(us[k]) : k \in DOMAIN us} = Range(l)
    <3>1. \A r \in Range(l) : \E k \in 1 .. n : r \in Range(us[k])
      <4> SUFFICES ASSUME NEW i \in DOMAIN l PROVE \E k \in 1 .. n : l[i] \in Range(us[k])
        BY DEF Range
      <4>1. PICK k \in 1 .. n : app(k) = AppOf[l[i]]
        BY <2>2 DEF Range, Apps
      <4> QED
        BY <2>3, <4>1
    <3>2. \A k \in 1 .. n : Range(us[k]) \subseteq Range(l)
      BY <2>3 DEF Range
    <3> QED
      BY <2>4, <3>1, <3>2
  <2> QED
    BY <2>5, <2>7, <2>8, <2>9 DEF us
<1> QED
  BY <1>1, <1>2

-----------------------------------------------------------------------------
(* Types, and the place of a batch in its units.                             *)

Working == pc \in {"stage", "scan", "purge"}

Results == [unit : Seq(Repos), dirs : SUBSET Dirs, staged : SUBSET Nat,
            status : {"OK", "FAILED", "ABORTED"}]

Recorded ==
  /\ todo \in Seq(Seq(Repos)) /\ results \in Seq(Results)
  /\ Working => unit # <<>>
  /\ pc = "summary" => todo = <<>>
  /\ pc = "purge" => status # ""
  /\ pc = "scan" \/ (pc = "purge" /\ status = "OK") => staged # {}
  /\ \A k \in DOMAIN results : results[k].status = "OK" => results[k].staged # {}

(* The units of the list: those that ended, the current one, those to come.  *)
Current == IF Working THEN 1 ELSE 0

Follows(us) ==
  /\ Len(results) + Current + Len(todo) = Len(us)
  /\ \A k \in 1 .. Len(results) : results[k].unit = us[k]
  /\ Working => unit = us[Len(results) + 1]
  /\ \A i \in 1 .. Len(todo) : todo[i] = us[Len(results) + Current + i]

Followed == pc # "idle" => \E l \in Lists : Follows(Units(l, opts.grouped))

BatchInv == TypeOK /\ Recorded /\ Followed

(* Where the rows of a unit may be staged.                                   *)
LEMMA DirTyped ==
  ASSUME NEW u \in Seq(Repos), NEW i \in DOMAIN u
  PROVE  DirOf(u, i) \in Dirs
<1>1. u[i] \in Repos
  OBVIOUS
<1>2. Slug(u, i) \in Repos \cup {Clean}
  BY <1>1 DEF Slug
<1> QED
  BY <1>1, <1>2 DEF DirOf, Dirs

LEMMA HereTyped ==
  ASSUME BatchInv, Staging
  PROVE  /\ at + 1 \in DOMAIN unit /\ Row \in Repos /\ Here \in Dirs
         /\ at + 1 \in 1 .. Len(unit) /\ at \in Nat
<1>1. unit \in Seq(Repos) /\ at \in 0 .. Len(unit) /\ at < Len(unit)
  BY DEF BatchInv, TypeOK, Staging
<1>2. Len(unit) \in Nat /\ DOMAIN unit = 1 .. Len(unit)
  BY <1>1
<1>3. at \in Nat /\ at + 1 \in 1 .. Len(unit)
  BY <1>1, <1>2
<1>4. unit[at + 1] \in Repos
  BY <1>1, <1>2, <1>3
<1> QED
  BY <1>1, <1>2, <1>3, <1>4, DirTyped DEF Here, Row

LEMMA PurgedTyped ==
  ASSUME BatchInv
  PROVE  Purged \in SUBSET Dirs
<1>1. unit \in Seq(Repos) /\ at \in 0 .. Len(unit) /\ staged \subseteq 1 .. at
  BY DEF BatchInv, TypeOK
<1>2. Len(unit) \in Nat /\ DOMAIN unit = 1 .. Len(unit)
  BY <1>1
<1>3. \A i \in staged : i \in DOMAIN unit
  BY <1>1, <1>2
<1> QED
  BY <1>1, <1>3, DirTyped DEF Purged

LEMMA StagedTyped ==
  ASSUME BatchInv
  PROVE  staged \in SUBSET Nat /\ staged \subseteq DOMAIN unit
<1>1. unit \in Seq(Repos) /\ at \in 0 .. Len(unit) /\ staged \subseteq 1 .. at
  BY DEF BatchInv, TypeOK
<1>2. Len(unit) \in Nat /\ DOMAIN unit = 1 .. Len(unit)
  BY <1>1
<1>3. at \in Nat
  BY <1>1, <1>2
<1> QED
  BY <1>1, <1>2, <1>3

(* A step within a unit keeps the place of the batch.                        *)
LEMMA SameUnit ==
  ASSUME BatchInv, Working, Working', UNCHANGED <<todo, unit, results, opts>>
  PROVE  Followed'
<1>1. Current = 1 /\ Current' = 1
  BY DEF Current
<1>2. PICK l \in Lists : Follows(Units(l, opts.grouped))
  BY DEF BatchInv, Followed, Working
<1>3. Follows(Units(l, opts.grouped))'
  BY <1>1, <1>2 DEF Follows, Units, InOrder, Apps
<1> QED
  BY <1>3 DEF Followed

(* Trees keep their type.                                                    *)
LEMMA TreesTyped ==
  /\ Nowhere \in Trees
  /\ \A r \in Repos, s \in {"none", "part", "whole"} :
       [of |-> r, src |-> s, out |-> FALSE] \in Trees
  /\ \A t \in Trees : [t EXCEPT !.src = "part", !.out = FALSE] \in Trees
  /\ \A t \in Trees : [of |-> NoRepo, src |-> "none", out |-> t.out] \in Trees
  BY DEF Nowhere, Trees

LEMMA FaultTyped ==
  ASSUME BatchInv, faults < MaxFaults
  PROVE  faults + 1 \in 0 .. MaxFaults
<1>1. faults \in 0 .. MaxFaults /\ MaxFaults \in Nat
  BY BatchAssumption DEF BatchInv, TypeOK
<1> QED
  BY <1>1

(* What trying a row changes.                                                *)
Try == UseInPlace \/ Reuse \/ CannotRemove \/ Fetch \/ FetchFails

LEMMA TryTree ==
  ASSUME BatchInv, Try \/ CutShort
  PROVE  tree' \in [Dirs -> Trees] /\ \A d \in Dirs \ {Here} : tree'[d] = tree[d]
<1>1. Staging /\ tree \in [Dirs -> Trees]
  BY DEF Try, UseInPlace, Reuse, CannotRemove, Fetch, FetchFails, CutShort, Fetchable, BatchInv,
         TypeOK
<1>2. Row \in Repos /\ Here \in Dirs
  BY <1>1, HereTyped
<1>3. UNCHANGED tree \/ \E t \in Trees : tree' = [tree EXCEPT ![Here] = t]
  <2>1. CASE UseInPlace \/ Reuse
    BY <2>1 DEF UseInPlace, Reuse
  <2>2. CASE CannotRemove
    <3>1. tree[Here] \in Trees /\ [tree[Here] EXCEPT !.src = "part", !.out = FALSE] \in Trees
      BY <1>1, <1>2, TreesTyped
    <3> QED
      BY <2>2, <3>1, Zenon DEF CannotRemove
  <2>3. CASE CutShort
    BY <1>2, <2>3, TreesTyped DEF CutShort
  <2>4. CASE Fetch
    BY <1>2, <2>4, TreesTyped DEF Fetch
  <2>5. CASE FetchFails
    BY <1>2, <2>3, <2>5, TreesTyped DEF FetchFails
  <2> QED
    BY <2>1, <2>2, <2>3, <2>4, <2>5 DEF Try
<1> QED
  BY <1>1, <1>2, <1>3

LEMMA TryDisk ==
  ASSUME BatchInv, Try
  PROVE  /\ marker' \in [Dirs -> Repos \cup {NoRepo}] /\ stuck' \subseteq Dirs
         /\ unbound' \subseteq Dirs /\ reused' \subseteq Dirs /\ origin' = origin
         /\ faults' \in 0 .. MaxFaults
         /\ \A d \in Dirs \ {Here} : /\ marker'[d] = marker[d]
                                    /\ (d \in stuck' <=> d \in stuck)
                                    /\ (d \in unbound' <=> d \in unbound)
<1>1. Staging
  BY DEF Try, UseInPlace, Reuse, CannotRemove, Fetch, FetchFails, CutShort, Fetchable
<1>2. Row \in Repos /\ Here \in Dirs
  BY <1>1, HereTyped
<1>3. /\ marker \in [Dirs -> Repos \cup {NoRepo}] /\ stuck \subseteq Dirs
      /\ unbound \subseteq Dirs /\ reused \subseteq Dirs /\ faults \in 0 .. MaxFaults
  BY DEF BatchInv, TypeOK
<1>4. origin' = origin
  BY DEF Try, UseInPlace, Reuse, CannotRemove, Fetch, FetchFails, Tried
<1>5. faults' \in 0 .. MaxFaults
  BY <1>3, FaultTyped DEF Try, UseInPlace, Reuse, CannotRemove, Fetch, FetchFails
<1>6. marker' = marker \/ marker' = [marker EXCEPT ![Here] = Row]
  BY DEF Try, UseInPlace, Reuse, CannotRemove, Fetch, FetchFails
<1>7. stuck' = stuck \/ stuck' = stuck \cup {Here} \/ stuck' = stuck \ {Here}
  BY DEF Try, UseInPlace, Reuse, CannotRemove, Fetch, FetchFails
<1>8. unbound' = unbound \/ unbound' = unbound \cup {Here} \/ unbound' = unbound \ {Here}
  BY DEF Try, UseInPlace, Reuse, CannotRemove, Fetch, FetchFails, CutShort
<1>9. reused' = reused \/ reused' = reused \cup {Here}
  BY DEF Try, UseInPlace, Reuse, CannotRemove, Fetch, FetchFails
<1> QED
  BY <1>2, <1>3, <1>4, <1>5, <1>6, <1>7, <1>8, <1>9

LEMMA TrySound ==
  ASSUME BatchInv, Try
  PROVE  BatchInv'
<1>1. /\ Staging /\ at' = at + 1 /\ staged' \in {staged, staged \cup {at + 1}}
      /\ UNCHANGED <<origin, opts, todo, unit, results, batches>>
      /\ pc' \in {"stage", "purge"} /\ status' \in {status, "FAILED"}
      /\ pc' = "purge" => status' = "FAILED"
  BY DEF Try, UseInPlace, Reuse, CannotRemove, Fetch, FetchFails, CutShort, Fetchable, Tried, Staging
<1>2. at' \in 0 .. Len(unit') /\ staged' \subseteq 1 .. at'
  <2>1. at \in Nat /\ at + 1 \in 1 .. Len(unit) /\ staged \subseteq 1 .. at
    BY <1>1, HereTyped DEF BatchInv, TypeOK
  <2> QED
    BY <1>1, <2>1
<1>3. TypeOK'
  BY <1>1, <1>2, TryTree, TryDisk DEF BatchInv, TypeOK
<1>4. Working /\ Working'
  BY <1>1 DEF Working, Staging
<1>5. Recorded'
  BY <1>1, <1>4 DEF BatchInv, Recorded, Working
<1> QED
  BY <1>1, <1>3, <1>4, <1>5, SameUnit DEF BatchInv

(* The empty sequence, and the first of one that is not.                    *)
LEMMA EmptyFacts ==
  /\ \A S : <<>> \in Seq(S)
  /\ Len(<<>>) = 0 /\ DOMAIN <<>> = {}
<1>1. \A S : <<>> \in Seq(S)
  OBVIOUS
<1>2. Len(<<>>) = 0
  OBVIOUS
<1>3. DOMAIN <<>> = {}
  OBVIOUS
<1> QED
  BY <1>1, <1>2, <1>3

LEMMA HeadFacts ==
  ASSUME NEW S, NEW q \in Seq(S), q # <<>>
  PROVE  /\ Len(q) \in Nat \ {0} /\ Head(q) \in S /\ Head(q) = q[1] /\ Tail(q) \in Seq(S)
         /\ Len(Tail(q)) = Len(q) - 1 /\ \A i \in 1 .. Len(Tail(q)) : Tail(q)[i] = q[i + 1]
<1>1. Len(q) \in Nat \ {0}
  OBVIOUS
<1>2. Head(q) = q[1]
  OBVIOUS
<1> QED
  BY <1>1, <1>2, HeadTailProperties

LEMMA LenFacts ==
  ASSUME NEW S, NEW q \in Seq(S)
  PROVE  Len(q) \in Nat /\ DOMAIN q = 1 .. Len(q)
  OBVIOUS

LEMMA AppendFacts ==
  ASSUME NEW S, NEW q \in Seq(S), NEW e \in S
  PROVE  /\ Append(q, e) \in Seq(S) /\ Len(Append(q, e)) = Len(q) + 1 /\ Len(q) \in Nat
         /\ DOMAIN Append(q, e) = 1 .. Len(q) + 1 /\ DOMAIN q = 1 .. Len(q)
         /\ \A k \in 1 .. Len(q) : Append(q, e)[k] = q[k]
         /\ Append(q, e)[Len(q) + 1] = e
<1>1. Append(q, e) \in Seq(S) /\ Len(Append(q, e)) = Len(q) + 1
  BY AppendProperties
<1>2. DOMAIN Append(q, e) = 1 .. Len(q) + 1
  BY <1>1
<1> QED
  BY <1>1, <1>2, LenFacts, AppendProperties

LEMMA StartSound ==
  ASSUME BatchInv, NEW list \in Lists, NEW o \in Options, StartBatch(list, o)
  PROVE  BatchInv'
<1> DEFINE us == Units(list, o.grouped)
<1>1. o.grouped \in BOOLEAN
  BY DEF Options
<1>2. us \in Seq(Seq(Repos))
  BY <1>1, UnitsSound
<1> HIDE DEF us
<1>3. opts' = o /\ pc' = "next" /\ status' = "" /\ todo' = us
  BY DEF StartBatch, us
<1>4. Len(results') = 0 /\ DOMAIN results' = {} /\ results' \in Seq(Results)
  BY EmptyFacts, Zenon DEF StartBatch
<1>5. unit' \in Seq(Repos) /\ Len(unit') = 0 /\ at' = 0 /\ staged' = {} /\ reused' = {}
  BY EmptyFacts, Zenon DEF StartBatch
<1>6. UNCHANGED <<tree, marker, origin, stuck, unbound, faults>>
  BY DEF StartBatch, disk
<1>7. ~Working' /\ Current' = 0
  BY <1>3 DEF Working, Current
<1>8. TypeOK'
  <2>1. batches' \in 0 .. MaxBatches
    <3>1. batches \in 0 .. MaxBatches /\ MaxBatches \in Nat
      BY BatchAssumption DEF BatchInv, TypeOK
    <3>2. batches < MaxBatches /\ batches' = batches + 1
      BY DEF StartBatch
    <3> QED
      BY <3>1, <3>2
  <2>2. at' \in 0 .. Len(unit') /\ staged' \subseteq 1 .. at'
    BY <1>5
  <2> QED
    BY <1>3, <1>4, <1>5, <1>6, <2>1, <2>2 DEF BatchInv, TypeOK
<1>9. Recorded'
  BY <1>2, <1>3, <1>4, <1>7 DEF Recorded
<1>10. Follows(us)'
  <2>1. us' = us
    BY DEF us, Units, InOrder, Apps
  <2>2. Len(us) \in Nat
    BY <1>2
  <2>3. Len(results') + Current' + Len(todo') = Len(us')
    <3>1. Len(results') = 0 /\ Current' = 0
      BY <1>4, <1>7
    <3>2. Len(todo') = Len(us) /\ us' = us
      BY <1>3, <2>1
    <3> QED
      BY <2>2, <3>1, <3>2
  <2>4. \A k \in 1 .. Len(results') : results'[k].unit = us'[k]
    BY <1>4
  <2>5. ASSUME NEW i \in 1 .. Len(todo') PROVE todo'[i] = us'[Len(results') + Current' + i]
    <3>1. Len(results') + Current' + i = i
      BY <1>4, <1>7
    <3> QED
      BY <1>3, <2>1, <3>1
  <2> QED
    BY <1>7, <2>3, <2>4, <2>5 DEF Follows
<1>11. Followed'
  BY <1>3, <1>10 DEF Followed, us, Units, InOrder, Apps
<1> QED
  BY <1>8, <1>9, <1>11 DEF BatchInv

LEMMA NextUnitSound ==
  ASSUME BatchInv, NextUnit
  PROVE  BatchInv'
<1>1. PICK l \in Lists : Follows(Units(l, opts.grouped))
  BY DEF BatchInv, Followed, NextUnit
<1> DEFINE us == Units(l, opts.grouped)
<1>2. opts.grouped \in BOOLEAN
  BY DEF BatchInv, TypeOK, Options
<1>3. us \in Seq(Seq(Repos)) /\ \A k \in DOMAIN us : us[k] # <<>>
  BY <1>2, UnitsSound
<1>4. UNCHANGED us
  BY DEF NextUnit, Units, InOrder, Apps
<1>5. Follows(us)
  BY <1>1
<1> HIDE DEF us
<1>6. /\ todo \in Seq(Seq(Repos)) /\ todo # <<>> /\ unit' = Head(todo) /\ todo' = Tail(todo)
      /\ results \in Seq(Results) /\ pc = "next" /\ pc' = "stage" /\ at' = 0 /\ staged' = {}
      /\ reused' = {} /\ status' = ""
      /\ UNCHANGED <<tree, marker, origin, stuck, unbound, opts, results, batches, faults>>
  BY DEF BatchInv, Recorded, NextUnit, disk
<1>7. Current = 0 /\ Current' = 1 /\ Working' /\ ~Working
  BY <1>6 DEF Current, Working
<1>8. /\ Len(todo) \in Nat \ {0} /\ Len(todo') = Len(todo) - 1 /\ Len(results) \in Nat
      /\ unit' = todo[1] /\ unit' \in Seq(Repos) /\ todo' \in Seq(Seq(Repos))
      /\ \A i \in 1 .. Len(todo') : todo'[i] = todo[i + 1] /\ i + 1 \in 1 .. Len(todo)
  <2>1. Len(results) \in Nat
    BY <1>6, LenFacts
  <2>2. /\ Head(todo) \in Seq(Repos) /\ Head(todo) = todo[1] /\ Tail(todo) \in Seq(Seq(Repos))
        /\ Len(Tail(todo)) = Len(todo) - 1 /\ Len(todo) \in Nat \ {0}
        /\ \A i \in 1 .. Len(Tail(todo)) : Tail(todo)[i] = todo[i + 1]
    <3>1. todo \in Seq(Seq(Repos)) /\ todo # <<>>
      BY <1>6
    <3> QED
      BY <3>1, HeadFacts
  <2>3. unit' = Head(todo) /\ todo' = Tail(todo)
    BY <1>6
  <2> QED
    BY <2>1, <2>2, <2>3
<1>9. /\ Len(results) + Len(todo) = Len(us)
      /\ \A k \in 1 .. Len(results) : results[k].unit = us[k]
      /\ \A i \in 1 .. Len(todo) : todo[i] = us[Len(results) + i]
  BY <1>5, <1>7, <1>8 DEF Follows
<1>10. Follows(us)'
  <2>1. Len(results') = Len(results)
    BY <1>6
  <2>2. Len(results') + Current' + Len(todo') = Len(us')
    <3>1. /\ Len(results') = Len(results) /\ Len(results) \in Nat /\ Current' = 1
          /\ Len(todo) \in Nat /\ Len(todo') = Len(todo) - 1
      BY <1>7, <1>8, <2>1
    <3>2. Len(us') = Len(results) + Len(todo)
      BY <1>4, <1>9
    <3> QED
      BY <3>1, <3>2
  <2>3. \A k \in 1 .. Len(results') : results'[k].unit = us'[k]
    BY <1>4, <1>6, <1>9
  <2>4. unit' = us'[Len(results') + 1]
    BY <1>4, <1>8, <1>9, <2>1
  <2>5. ASSUME NEW i \in 1 .. Len(todo') PROVE todo'[i] = us'[Len(results') + Current' + i]
    <3>1. todo'[i] = todo[i + 1] /\ todo[i + 1] = us[Len(results) + (i + 1)]
      BY <1>8, <1>9
    <3>2. Len(results) + (i + 1) = Len(results') + Current' + i
      BY <1>7, <1>8, <2>1
    <3> QED
      BY <1>4, <3>1, <3>2
  <2> QED
    BY <2>2, <2>3, <2>4, <2>5 DEF Follows
<1>11. Followed'
  BY <1>10, <1>6 DEF Followed, us, Units, InOrder, Apps
<1>12. unit' # <<>>
  <2>1. Len(results) + 1 \in DOMAIN us /\ unit' = us[Len(results) + 1]
    BY <1>3, <1>8, <1>9
  <2> QED
    BY <1>3, <2>1
<1>13. TypeOK'
  <2>1. at' \in 0 .. Len(unit') /\ staged' \subseteq 1 .. at'
    <3>1. at' = 0 /\ staged' = {}
      BY <1>6
    <3>2. Len(unit') \in Nat
      BY <1>8
    <3> QED
      BY <3>1, <3>2
  <2> QED
    BY <1>6, <1>8, <2>1 DEF BatchInv, TypeOK
<1>14. Recorded'
  BY <1>6, <1>8, <1>12 DEF BatchInv, Recorded, Working
<1> QED
  BY <1>11, <1>13, <1>14 DEF BatchInv

(* The end of staging, and a scan.                                           *)
LEMMA EndsSound ==
  ASSUME BatchInv, StagingEnds
  PROVE  BatchInv'
<1>1. /\ pc = "stage" /\ pc' \in {"scan", "purge"} /\ status' \in {status, "FAILED", "OK"}
      /\ pc' = "purge" => status' # "" /\ (status' = "OK" => staged # {})
      /\ pc' = "scan" => staged # {}
      /\ UNCHANGED <<tree, marker, origin, stuck, unbound, opts, todo, unit, at, staged, results,
                     reused, batches, faults>>
  BY DEF StagingEnds, disk
<1>2. Working /\ Working'
  BY <1>1 DEF Working
<1>3. TypeOK'
  BY <1>1 DEF BatchInv, TypeOK
<1>4. Recorded'
  BY <1>1, <1>2 DEF BatchInv, Recorded
<1> QED
  BY <1>1, <1>2, <1>3, <1>4, SameUnit DEF BatchInv

LEMMA ScanTree ==
  ASSUME BatchInv, NEW s \in {"OK", "FAILED", "ABORTED"}, Scan(s)
  PROVE  /\ tree' \in [Dirs -> Trees]
         /\ \A d \in Dirs : tree'[d].of = tree[d].of /\ tree'[d].src = tree[d].src
         /\ \A d \in Dirs : tree[d].out => tree'[d].out
         /\ ~opts.grouped => \A d \in Purged : tree'[d].out
<1> DEFINE made(d) == tree[d].out \/ (~opts.grouped /\ d \in Purged)
<1>1. tree' = [d \in Dirs |-> [tree[d] EXCEPT !.out = made(d)]]
  BY DEF Scan
<1>2. \A d \in Dirs : made(d) \in BOOLEAN
  BY Zenon
<1>3. tree \in [Dirs -> Trees] /\ Purged \in SUBSET Dirs
  BY PurgedTyped DEF BatchInv, TypeOK
<1>4. \A d \in Dirs : tree[d].out => made(d)
  OBVIOUS
<1>5. ~opts.grouped => \A d \in Purged : made(d)
  OBVIOUS
<1> HIDE DEF made
<1>6. ASSUME NEW d \in Dirs
      PROVE  /\ tree'[d] \in Trees /\ tree'[d].of = tree[d].of /\ tree'[d].src = tree[d].src
             /\ tree'[d].out = made(d)
  <2>1. tree'[d] = [tree[d] EXCEPT !.out = made(d)] /\ tree[d] \in Trees /\ made(d) \in BOOLEAN
    BY <1>1, <1>2, <1>3
  <2> QED
    BY <2>1 DEF Trees
<1>7. DOMAIN tree' = Dirs /\ tree' = [d \in Dirs |-> tree'[d]]
  BY <1>1
<1> QED
  BY <1>3, <1>4, <1>5, <1>6, <1>7

LEMMA ScanSound ==
  ASSUME BatchInv, NEW s \in {"OK", "FAILED", "ABORTED"}, Scan(s)
  PROVE  BatchInv'
<1>1. /\ pc = "scan" /\ pc' = "purge" /\ status' = s
      /\ UNCHANGED <<marker, origin, stuck, unbound, opts, todo, unit, at, staged, results,
                     reused, batches, faults>>
  BY DEF Scan
<1>2. Working /\ Working'
  BY <1>1 DEF Working
<1>3. TypeOK'
  BY <1>1, ScanTree DEF BatchInv, TypeOK
<1>4. Recorded'
  BY <1>1, <1>2 DEF BatchInv, Recorded
<1> QED
  BY <1>1, <1>2, <1>3, <1>4, SameUnit DEF BatchInv

LEMMA InterruptSound ==
  ASSUME BatchInv, InterruptStaging
  PROVE  BatchInv'
<1>1. /\ Staging /\ pc = "stage" /\ pc' = "purge" /\ status' = "ABORTED"
      /\ UNCHANGED <<marker, origin, stuck, opts, todo, unit, at, staged, results, reused, batches,
                     faults>>
  BY DEF InterruptStaging, Staging
<1>2. tree' \in [Dirs -> Trees] /\ unbound' \subseteq Dirs
  <2>1. CASE CutShort
    BY <2>1, <1>1, TryTree, HereTyped DEF CutShort, BatchInv, TypeOK
  <2>2. CASE UNCHANGED <<tree, unbound>>
    BY <2>2 DEF BatchInv, TypeOK
  <2> QED
    BY <2>1, <2>2 DEF InterruptStaging
<1>3. Working /\ Working'
  BY <1>1 DEF Working
<1>4. TypeOK'
  BY <1>1, <1>2 DEF BatchInv, TypeOK
<1>5. Recorded'
  BY <1>1, <1>3 DEF BatchInv, Recorded
<1> QED
  BY <1>1, <1>3, <1>4, <1>5, SameUnit DEF BatchInv

(* A purge empties directories of the unit, and records it.                  *)
LEMMA PurgeTree ==
  ASSUME BatchInv, Purge
  PROVE  /\ tree' \in [Dirs -> Trees]
         /\ \A d \in Dirs : tree'[d] \in {tree[d], Empty(d)}
         /\ \A d \in Dirs \ Purged : tree'[d] = tree[d]
         /\ stuck' \subseteq Dirs /\ faults' \in 0 .. MaxFaults /\ origin' = origin
         /\ ~opts.keep => \A d \in Purged \ stuck' : tree'[d] = Empty(d)
         /\ \A d \in Dirs \ Purged : d \in stuck' <=> d \in stuck
<1>1. tree \in [Dirs -> Trees] /\ stuck \subseteq Dirs /\ faults \in 0 .. MaxFaults
  BY DEF BatchInv, TypeOK
<1>2. Purged \in SUBSET Dirs
  BY PurgedTyped
<1>3. \A d \in Dirs : Empty(d) \in Trees
  BY <1>1, TreesTyped DEF Empty
<1>4. CASE opts.keep /\ UNCHANGED <<tree, origin, stuck, faults>>
  BY <1>1, <1>4
<1>5. CASE ~opts.keep /\ PurgeDirs(Purged) /\ stuck' = stuck \ Purged /\ UNCHANGED faults
  <2>1. tree' = [d \in Dirs |-> IF d \in Purged THEN Empty(d) ELSE tree[d]] /\ origin' = origin
    BY <1>5 DEF PurgeDirs
  <2> QED
    BY <1>1, <1>2, <1>3, <1>5, <2>1
<1>6. CASE /\ ~opts.keep
           /\ \E d \in Purged :
                /\ faults < MaxFaults /\ faults' = faults + 1
                /\ PurgeDirs(Purged \ {d}) /\ stuck' = (stuck \ Purged) \cup {d}
  <2>1. PICK d \in Purged :
          /\ faults < MaxFaults /\ faults' = faults + 1
          /\ PurgeDirs(Purged \ {d}) /\ stuck' = (stuck \ Purged) \cup {d}
    BY <1>6
  <2>2. /\ tree' = [e \in Dirs |-> IF e \in Purged \ {d} THEN Empty(e) ELSE tree[e]]
        /\ origin' = origin
    BY <2>1 DEF PurgeDirs
  <2>3. faults' \in 0 .. MaxFaults
    BY <2>1, FaultTyped
  <2> QED
    BY <1>1, <1>2, <1>3, <1>6, <2>1, <2>2, <2>3
<1> QED
  BY <1>4, <1>5, <1>6 DEF Purge

LEMMA PurgeSound ==
  ASSUME BatchInv, Purge
  PROVE  BatchInv'
<1> DEFINE r == [unit |-> unit, dirs |-> Purged, staged |-> staged, status |-> status]
<1>1. /\ pc = "purge" /\ pc' \in {"idle", "next"} /\ results' = Append(results, r)
      /\ UNCHANGED <<marker, unbound, opts, todo, unit, at, staged, status, reused, batches>>
  BY DEF Purge, Record
<1>2. /\ unit \in Seq(Repos) /\ at \in 0 .. Len(unit) /\ staged \subseteq 1 .. at
      /\ status \in {"", "OK", "FAILED", "ABORTED"}
  BY DEF BatchInv, TypeOK
<1>3. status # "" /\ (status = "OK" => staged # {}) /\ results \in Seq(Results)
  BY <1>1 DEF BatchInv, Recorded
<1>4. r \in Results
  BY <1>2, <1>3, PurgedTyped, StagedTyped DEF Results
<1>5. r.unit = unit /\ r.status = status /\ r.staged = staged
  OBVIOUS
<1> HIDE DEF r
<1>6. /\ results' \in Seq(Results) /\ Len(results') = Len(results) + 1 /\ Len(results) \in Nat
      /\ DOMAIN results' = 1 .. Len(results) + 1 /\ DOMAIN results = 1 .. Len(results)
      /\ \A k \in 1 .. Len(results) : results'[k] = results[k]
      /\ results'[Len(results) + 1] = r
  <2>1. results \in Seq(Results) /\ r \in Results
    BY <1>3, <1>4
  <2> DEFINE q == Append(results, r)
  <2>2. /\ q \in Seq(Results) /\ Len(q) = Len(results) + 1 /\ Len(results) \in Nat
        /\ DOMAIN q = 1 .. Len(results) + 1 /\ DOMAIN results = 1 .. Len(results)
        /\ \A k \in 1 .. Len(results) : q[k] = results[k]
        /\ q[Len(results) + 1] = r
    BY <2>1, AppendFacts
  <2>3. results' = q
    BY <1>1
  <2> HIDE DEF q
  <2> QED
    BY <2>2, <2>3
<1>7. ~Working' /\ Working /\ Current = 1 /\ Current' = 0
  BY <1>1 DEF Working, Current
<1>8. TypeOK'
  <2>1. \A k \in DOMAIN results' : results'[k].status \in {"OK", "FAILED", "ABORTED"}
    <3>1. \A k \in DOMAIN results' : results'[k] \in Results
      BY <1>6
    <3> QED
      BY <3>1 DEF Results
  <2>2. pc' \in {"idle", "next", "stage", "scan", "purge", "summary"}
    BY <1>1
  <2> QED
    BY <1>1, <2>1, <2>2, PurgeTree DEF BatchInv, TypeOK
<1>9. Recorded'
  <2>1. ASSUME NEW k \in DOMAIN results', results'[k].status = "OK"
        PROVE  results'[k].staged # {}
    <3>1. CASE k = Len(results) + 1
      BY <1>3, <1>5, <1>6, <2>1, <3>1
    <3>2. CASE k \in 1 .. Len(results)
      BY <1>6, <2>1, <3>2 DEF BatchInv, Recorded
    <3> QED
      BY <1>6, <3>1, <3>2
  <2>2. pc' # "scan" /\ pc' # "purge"
    BY <1>1
  <2> QED
    BY <1>1, <1>6, <1>7, <2>1, <2>2 DEF BatchInv, Recorded
<1>10. PICK l \in Lists : Follows(Units(l, opts.grouped))
  BY <1>1 DEF BatchInv, Followed
<1> DEFINE us == Units(l, opts.grouped)
<1>11. Follows(us) /\ us' = us
  BY <1>1, <1>10 DEF Units, InOrder, Apps
<1>12. us \in Seq(Seq(Repos)) /\ Len(us) \in Nat
  <2>1. opts.grouped \in BOOLEAN
    BY DEF BatchInv, TypeOK, Options
  <2> QED
    BY <2>1, UnitsSound
<1> HIDE DEF us
<1>13. Follows(us)'
  <2>1. Len(todo) \in Nat /\ todo' = todo
    <3>1. todo \in Seq(Seq(Repos))
      BY DEF BatchInv, Recorded
    <3> QED
      BY <1>1, <3>1, LenFacts
  <2>2. /\ Len(results) + 1 + Len(todo) = Len(us)
        /\ \A k \in 1 .. Len(results) : results[k].unit = us[k]
        /\ unit = us[Len(results) + 1]
        /\ \A i \in 1 .. Len(todo) : todo[i] = us[Len(results) + 1 + i]
    BY <1>7, <1>11 DEF Follows
  <2>3. Len(results') + Current' + Len(todo') = Len(us')
    <3>1. Len(results') = Len(results) + 1 /\ Len(results) \in Nat /\ Current' = 0
      BY <1>6, <1>7
    <3>2. Len(todo') = Len(todo) /\ Len(us') = Len(us)
      BY <1>11, <2>1
    <3> QED
      BY <2>1, <2>2, <3>1, <3>2
  <2>4. ASSUME NEW k \in 1 .. Len(results') PROVE results'[k].unit = us'[k]
    <3>1. CASE k = Len(results) + 1
      BY <1>5, <1>6, <1>11, <2>2, <3>1
    <3>2. CASE k \in 1 .. Len(results)
      BY <1>6, <1>11, <2>2, <3>2
    <3> QED
      BY <1>6, <3>1, <3>2
  <2>5. ASSUME NEW i \in 1 .. Len(todo') PROVE todo'[i] = us'[Len(results') + Current' + i]
    <3>1. i \in 1 .. Len(todo) /\ todo'[i] = us'[Len(results) + 1 + i]
      BY <1>11, <2>1, <2>2
    <3>2. Len(results') + Current' + i = Len(results) + 1 + i
      BY <1>6, <1>7, <3>1
    <3> QED
      BY <3>1, <3>2
  <2> QED
    BY <1>7, <2>3, <2>4, <2>5 DEF Follows
<1>14. Followed'
  BY <1>1, <1>13 DEF Followed, us, Units, InOrder, Apps
<1> QED
  BY <1>8, <1>9, <1>14 DEF BatchInv

LEMMA SummariseSound ==
  ASSUME BatchInv, Summarise
  PROVE  BatchInv'
<1>1. /\ pc = "next" /\ pc' = "summary"
      /\ UNCHANGED <<tree, marker, origin, stuck, unbound, opts, todo, unit, at, staged, status,
                     results, reused, batches, faults>>
  BY DEF Summarise, disk
<1>2. ~Working /\ ~Working' /\ Current = 0 /\ Current' = 0
  BY <1>1 DEF Working, Current
<1>3. TypeOK' /\ Recorded'
  <2>1. todo = <<>>
    BY DEF Summarise
  <2> QED
    BY <1>1, <1>2, <2>1 DEF BatchInv, TypeOK, Recorded
<1>4. Followed'
  <2>1. PICK l \in Lists : Follows(Units(l, opts.grouped))
    BY <1>1 DEF BatchInv, Followed
  <2>2. Follows(Units(l, opts.grouped))'
    BY <1>1, <1>2, <2>1 DEF Follows, Units, InOrder, Apps
  <2> QED
    BY <2>2 DEF Followed
<1> QED
  BY <1>3, <1>4 DEF BatchInv

(* The process ends, or is killed.                                           *)
LEMMA GoneSound ==
  ASSUME BatchInv, Exit \/ Kill
  PROVE  BatchInv' /\ origin' = origin
<1>1. /\ pc' = "idle" /\ status' = ""
      /\ UNCHANGED <<marker, origin, stuck, opts, batches, faults>>
  BY DEF Exit, Kill, Gone
<1>2. /\ todo' \in Seq(Seq(Repos)) /\ results' \in Seq(Results) /\ DOMAIN results' = {}
      /\ unit' \in Seq(Repos) /\ Len(unit') = 0 /\ at' = 0 /\ staged' = {} /\ reused' = {}
  BY EmptyFacts, Zenon DEF Exit, Kill, Gone
<1>3. tree' \in [Dirs -> Trees] /\ unbound' \subseteq Dirs
  <2>1. CASE CutShort
    <3>1. tree' \in [Dirs -> Trees]
      BY <2>1, TryTree
    <3>2. Here \in Dirs
      BY <2>1, HereTyped DEF CutShort, Fetchable
    <3> QED
      BY <2>1, <3>1, <3>2 DEF CutShort, BatchInv, TypeOK
  <2>2. CASE UNCHANGED <<tree, unbound>>
    BY <2>2 DEF BatchInv, TypeOK
  <2> QED
    BY <2>1, <2>2 DEF Exit, Kill
<1>4. at' \in 0 .. Len(unit') /\ staged' \subseteq 1 .. at'
  BY <1>2
<1>5. TypeOK'
  BY <1>1, <1>2, <1>3, <1>4 DEF BatchInv, TypeOK
<1>6. Recorded'
  BY <1>1, <1>2 DEF Recorded, Working
<1>7. Followed'
  BY <1>1 DEF Followed
<1> QED
  BY <1>1, <1>5, <1>6, <1>7 DEF BatchInv

LEMMA BatchInvHolds == Spec => []BatchInv
<1>1. Init => BatchInv
  <2> SUFFICES ASSUME Init PROVE BatchInv
    OBVIOUS
  <2>1. todo \in Seq(Seq(Repos)) /\ results \in Seq(Results) /\ DOMAIN results = {}
    BY EmptyFacts, Zenon DEF Init
  <2>2. unit \in Seq(Repos) /\ Len(unit) = 0 /\ at = 0 /\ staged = {}
    BY EmptyFacts, Zenon DEF Init
  <2>3. at \in 0 .. Len(unit) /\ staged \subseteq 1 .. at
    BY <2>2
  <2>4. /\ tree \in [Dirs -> Trees] /\ marker \in [Dirs -> Repos \cup {NoRepo}]
        /\ opts \in Options /\ batches \in 0 .. MaxBatches /\ faults \in 0 .. MaxFaults
    <3>1. tree \in [Dirs -> Trees] /\ marker \in [Dirs -> Repos \cup {NoRepo}]
      BY TreesTyped DEF Init
    <3>2. opts \in Options
      BY DEF Init, Options
    <3>3. batches \in 0 .. MaxBatches /\ faults \in 0 .. MaxFaults
      <4>1. batches = 0 /\ faults = 0
        BY DEF Init
      <4>2. MaxBatches \in Nat /\ MaxFaults \in Nat
        BY BatchAssumption
      <4> QED
        BY <4>1, <4>2
    <3> QED
      BY <3>1, <3>2, <3>3
  <2>5. TypeOK
    BY <2>1, <2>2, <2>3, <2>4 DEF Init, TypeOK
  <2>6. Recorded
    BY <2>1 DEF Init, Recorded, Working
  <2>7. Followed
    BY DEF Init, Followed
  <2> QED
    BY <2>5, <2>6, <2>7 DEF BatchInv
<1>2. BatchInv /\ [Next]_vars => BatchInv'
  <2> SUFFICES ASSUME BatchInv, [Next]_vars PROVE BatchInv'
    OBVIOUS
  <2>1. ASSUME NEW list \in Lists, NEW o \in Options, StartBatch(list, o) PROVE BatchInv'
    BY <2>1, StartSound
  <2>2. ASSUME NEW s \in {"OK", "FAILED", "ABORTED"}, Scan(s) PROVE BatchInv'
    BY <2>2, ScanSound
  <2>3. ASSUME NextUnit PROVE BatchInv'
    BY <2>3, NextUnitSound
  <2>4. ASSUME Try PROVE BatchInv'
    BY <2>4, TrySound
  <2>5. ASSUME StagingEnds PROVE BatchInv'
    BY <2>5, EndsSound
  <2>6. ASSUME InterruptStaging PROVE BatchInv'
    BY <2>6, InterruptSound
  <2>7. ASSUME Purge PROVE BatchInv'
    BY <2>7, PurgeSound
  <2>8. ASSUME Summarise PROVE BatchInv'
    BY <2>8, SummariseSound
  <2>9. ASSUME Exit \/ Kill PROVE BatchInv'
    BY <2>9, GoneSound
  <2>10. ASSUME UNCHANGED vars PROVE BatchInv'
    <3>1. UNCHANGED <<tree, marker, origin, stuck, unbound, opts, todo, unit, at, staged, pc, status,
                      results, reused, batches, faults>>
      BY <2>10 DEF vars, disk
    <3>2. TypeOK' /\ Recorded'
      BY <3>1 DEF BatchInv, TypeOK, Recorded, Working
    <3>3. Followed'
      <4>1. CASE pc = "idle"
        BY <3>1, <4>1 DEF Followed
      <4>2. CASE pc # "idle"
        <5>1. PICK l \in Lists : Follows(Units(l, opts.grouped))
          BY <4>2 DEF BatchInv, Followed
        <5>2. Follows(Units(l, opts.grouped))'
          BY <3>1, <5>1, ZenonT(40) DEF Follows, Units, InOrder, Apps, Current, Working
        <5> QED
          BY <5>2 DEF Followed
      <4> QED
        BY <4>1, <4>2
    <3> QED
      BY <3>2, <3>3 DEF BatchInv
  <2> QED
    BY <2>1, <2>2, <2>3, <2>4, <2>5, <2>6, <2>7, <2>8, <2>9, <2>10 DEF Next, Try
<1> QED
  BY <1>1, <1>2, PTL DEF Spec

(* Every reachable state of a batch is well typed, its result records        *)
(* included, however often batches are killed and deletions fail.            *)
THEOREM BatchTyped == Spec => []TypeOK
<1>1. BatchInv => TypeOK
  BY DEF BatchInv
<1> QED
  BY <1>1, BatchInvHolds, PTL

(* No step of a batch, a purge that fails half-way included, takes a local   *)
(* repository away.                                                          *)
THEOREM LocalKept == Spec => []LocalIntact
<1>1. Init => LocalIntact
  BY DEF Init, LocalIntact
<1>2. LocalIntact /\ BatchInv /\ [Next]_vars => LocalIntact'
  <2> SUFFICES ASSUME LocalIntact, BatchInv, [Next]_vars PROVE origin' = origin
    BY DEF LocalIntact
  <2>1. ASSUME Try PROVE origin' = origin
    BY <2>1, TryDisk
  <2>2. ASSUME Purge PROVE origin' = origin
    BY <2>2, PurgeTree
  <2>3. ASSUME Exit \/ Kill PROVE origin' = origin
    BY <2>3, GoneSound
  <2> QED
    BY <2>1, <2>2, <2>3
       DEF Next, Try, StartBatch, NextUnit, StagingEnds, InterruptStaging, Summarise, Scan, vars, disk
<1> QED
  BY <1>1, <1>2, BatchInvHolds, PTL DEF Spec

(* What the units that ended, and the current one, have to do with the list. *)
LEMMA UnitFacts ==
  ASSUME BatchInv, pc # "idle"
  PROVE  \E l \in Lists :
           /\ \A k \in DOMAIN results : results[k].unit # <<>> /\ Range(results[k].unit) \subseteq Range(l)
           /\ \A j, k \in DOMAIN results : j # k =>
                Range(results[j].unit) \cap Range(results[k].unit) = {}
           /\ pc = "summary" => UNION {Range(results[k].unit) : k \in DOMAIN results} = Range(l)
           /\ Working =>
                /\ unit # <<>> /\ IsInjective(unit) /\ Sharing(unit, opts.grouped)
                /\ Range(unit) \subseteq Range(l)
                /\ \A k \in DOMAIN results :
                     /\ Range(results[k].unit) \cap Range(unit) = {}
                     /\ opts.grouped => AppOf[results[k].unit[1]] # AppOf[unit[1]]
<1>1. PICK l \in Lists : Follows(Units(l, opts.grouped))
  BY DEF BatchInv, Followed
<1> DEFINE us == Units(l, opts.grouped)
<1>2. opts.grouped \in BOOLEAN
  BY DEF BatchInv, TypeOK, Options
<1>3. /\ us \in Seq(Seq(Repos))
      /\ \A k \in DOMAIN us : us[k] # <<>> /\ IsInjective(us[k]) /\ Sharing(us[k], opts.grouped)
      /\ \A j, k \in DOMAIN us : j # k =>
           /\ Range(us[j]) \cap Range(us[k]) = {}
           /\ opts.grouped => AppOf[us[j][1]] # AppOf[us[k][1]]
      /\ UNION {Range(us[k]) : k \in DOMAIN us} = Range(l)
  BY <1>2, UnitsSound
<1>4. Follows(us)
  BY <1>1
<1> HIDE DEF us
<1>5. DOMAIN us = 1 .. Len(us) /\ Len(us) \in Nat
  BY <1>3
<1>6. results \in Seq(Results) /\ todo \in Seq(Seq(Repos))
  BY DEF BatchInv, Recorded
<1>7. DOMAIN results = 1 .. Len(results) /\ Len(results) \in Nat /\ Len(todo) \in Nat
  BY <1>6, LenFacts
<1>8. /\ \A k \in DOMAIN results : k \in DOMAIN us /\ results[k].unit = us[k]
      /\ Len(results) + Current =< Len(us)
      /\ Len(results) + Current + Len(todo) = Len(us)
  <2>1. /\ Len(results) + Current + Len(todo) = Len(us)
        /\ \A k \in 1 .. Len(results) : results[k].unit = us[k]
    BY <1>4 DEF Follows
  <2>2. Current \in {0, 1}
    BY DEF Current
  <2>3. Len(results) + Current =< Len(us) /\ Len(results) =< Len(us)
    BY <1>5, <1>7, <2>1, <2>2
  <2> QED
    BY <1>5, <1>7, <2>1, <2>3
<1>9. \A k \in DOMAIN us : Range(us[k]) \subseteq Range(l)
  BY <1>3
<1>10. ASSUME pc = "summary"
       PROVE  UNION {Range(results[k].unit) : k \in DOMAIN results} = Range(l)
  <2>1. Current = 0 /\ Len(todo) = 0
    <3>1. todo = <<>>
      BY <1>10 DEF BatchInv, Recorded
    <3> QED
      BY <1>10, <3>1, EmptyFacts, Zenon DEF Current, Working
  <2>2. DOMAIN results = DOMAIN us
    <3>1. Len(results) + 0 + 0 = Len(us)
      BY <1>8, <2>1, Zenon
    <3>2. \A m \in Nat : m + 0 + 0 = m
      OBVIOUS
    <3>3. Len(results) = Len(us)
      BY <1>7, <3>1, <3>2, Zenon
    <3> QED
      BY <1>5, <1>7, <3>3, Zenon
  <2> QED
    BY <1>3, <1>8, <2>2
<1>11. ASSUME Working
       PROVE  /\ unit # <<>> /\ IsInjective(unit) /\ Sharing(unit, opts.grouped)
              /\ Range(unit) \subseteq Range(l)
              /\ \A k \in DOMAIN results :
                   /\ Range(results[k].unit) \cap Range(unit) = {}
                   /\ opts.grouped => AppOf[results[k].unit[1]] # AppOf[unit[1]]
  <2>1. unit = us[Len(results) + 1] /\ Current = 1
    BY <1>4, <1>11 DEF Follows, Current
  <2>2. Len(results) + 1 \in DOMAIN us
    BY <1>5, <1>7, <1>8, <2>1
  <2>3. \A k \in DOMAIN results : k # Len(results) + 1
    BY <1>7
  <2>4. unit # <<>> /\ IsInjective(unit) /\ Sharing(unit, opts.grouped) /\ Range(unit) \subseteq Range(l)
    BY <1>3, <1>9, <2>1, <2>2, Zenon
  <2>5. ASSUME NEW k \in DOMAIN results
        PROVE  /\ Range(results[k].unit) \cap Range(unit) = {}
               /\ opts.grouped => AppOf[results[k].unit[1]] # AppOf[unit[1]]
    <3> DEFINE n == Len(results) + 1
    <3>1. k \in DOMAIN us /\ n \in DOMAIN us /\ k # n /\ results[k].unit = us[k] /\ unit = us[n]
      BY <1>8, <2>1, <2>2, <2>3
    <3> HIDE DEF n
    <3> QED
      BY <1>3, <3>1
  <2> QED
    BY <2>4, <2>5
<1> QED
  BY <1>3, <1>8, <1>9, <1>10, <1>11

(* The summary has one result for each row of the list, whatever failed.     *)
THEOREM EveryRowHasResult == Spec => []ResultForEveryRow
<1>1. BatchInv => ResultForEveryRow
  <2> SUFFICES ASSUME BatchInv, pc = "summary" PROVE ResultForEveryRow
    BY DEF ResultForEveryRow
  <2>1. \A k \in DOMAIN results : results[k].status = "OK" => results[k].staged # {}
    BY DEF BatchInv, Recorded
  <2> QED
    BY <2>1, UnitFacts DEF ResultForEveryRow
<1> QED
  BY <1>1, BatchInvHolds, PTL

-----------------------------------------------------------------------------
(* The right repository: what a marker binds is what a directory holds,      *)
(* stuck and unbound ones apart, and rows of a unit have different           *)
(* directories.                                                              *)

MarkerTrue ==
  \A d \in Dirs \ (stuck \cup unbound) :
    marker[d] # NoRepo => tree[d].of \in {marker[d], NoRepo}

HoldsRow(i) ==
  LET d == DirOf(unit, i) IN
    InPlace(unit[i]) \/ d \in stuck \cup unbound \/ tree[d].of \in {unit[i], NoRepo}

StagedRight == pc \in {"stage", "scan"} => \A i \in staged : HoldsRow(i)

LEMMA DirInjective ==
  ASSUME BatchInv, Working, NEW i \in DOMAIN unit, NEW j \in DOMAIN unit, i < j
  PROVE  DirOf(unit, i) # DirOf(unit, j)
<1>1. unit # <<>> /\ IsInjective(unit) /\ Sharing(unit, opts.grouped)
  BY UnitFacts DEF Working
<1>2. unit \in Seq(Repos)
  BY DEF BatchInv, TypeOK
<1>3. DOMAIN unit = 1 .. Len(unit) /\ Len(unit) \in Nat
  BY <1>2, LenFacts
<1>4. CASE ~opts.grouped
  BY <1>1, <1>3, <1>4 DEF Sharing
<1>5. CASE opts.grouped
  <2>1. unit[i] # unit[j] /\ unit[i] \in Repos /\ unit[j] \in Repos
    BY <1>1, <1>2, <1>3 DEF IsInjective
  <2>2. SUFFICES ASSUME TailOf[unit[i]] = TailOf[unit[j]] PROVE Slug(unit, i) # Slug(unit, j)
    BY <1>5 DEF DirOf
  <2>3. i \in 1 .. j - 1
    BY <1>3
  <2>4. Slug(unit, j) = unit[j]
    BY <2>2, <2>3 DEF Slug
  <2>5. Slug(unit, i) \in {unit[i], Clean}
    BY DEF Slug
  <2> QED
    BY <2>1, <2>4, <2>5, BatchAssumption
<1> QED
  BY <1>4, <1>5

(* What trying the row at + 1 does to its directory.                         *)
LEMMA TryRight ==
  ASSUME BatchInv, MarkerTrue, StagedRight, Try
  PROVE  MarkerTrue' /\ StagedRight'
<1>1. /\ Staging /\ at' = at + 1 /\ UNCHANGED <<unit, opts>>
      /\ staged' = staged \/ (staged' = staged \cup {at + 1} /\ ~FetchFails)
  BY DEF Try, UseInPlace, Reuse, CannotRemove, Fetch, FetchFails, CutShort, Fetchable, Tried
<1>2. Row \in Repos /\ Here \in Dirs /\ at + 1 \in DOMAIN unit /\ at \in Nat
  BY <1>1, HereTyped
<1>3. /\ tree \in [Dirs -> Trees] /\ marker \in [Dirs -> Repos \cup {NoRepo}]
  BY DEF BatchInv, TypeOK
<1>4. \A d \in Dirs \ {Here} : /\ tree'[d] = tree[d] /\ marker'[d] = marker[d]
                               /\ (d \in stuck' <=> d \in stuck)
                               /\ (d \in unbound' <=> d \in unbound)
  BY TryTree, TryDisk
<1>5. /\ Here \in stuck' \cup unbound' \/ marker'[Here] = NoRepo
         \/ tree'[Here].of \in {marker'[Here], NoRepo}
      /\ InPlace(Row) \/ FetchFails \/ Here \in stuck' \cup unbound'
         \/ tree'[Here].of \in {Row, NoRepo}
  <2>1. CASE UseInPlace
    BY <1>2, <2>1 DEF UseInPlace, MarkerTrue
  <2>2. CASE Reuse
    <3>1. marker[Here] = Row /\ marker[Here] # NoRepo /\ UNCHANGED <<tree, marker, stuck, unbound>>
      BY <1>2, <2>2, BatchAssumption DEF Reuse, Reusable
    <3> QED
      BY <1>2, <3>1 DEF MarkerTrue
  <2>3. CASE CannotRemove
    BY <2>3 DEF CannotRemove
  <2>4. CASE Fetch
    <3>1. tree'[Here].of = Row
      BY <1>2, <1>3, <2>4 DEF Fetch
    <3>2. marker'[Here] = Row \/ Here \in unbound'
      BY <1>2, <1>3, <2>4 DEF Fetch
    <3> QED
      BY <3>1, <3>2
  <2>5. CASE FetchFails
    <3>1. CASE CutShort
      BY <2>5, <3>1 DEF CutShort
    <3>2. CASE tree' = [tree EXCEPT ![Here] = Nowhere]
      BY <1>2, <1>3, <2>5, <3>2 DEF Nowhere
    <3> QED
      BY <2>5, <3>1, <3>2 DEF FetchFails
  <2> QED
    BY <2>1, <2>2, <2>3, <2>4, <2>5 DEF Try
<1>6. MarkerTrue'
  BY <1>2, <1>4, <1>5 DEF MarkerTrue
<1>7. ASSUME NEW i \in staged PROVE HoldsRow(i)'
  <2>1. Working /\ HoldsRow(i)
    BY <1>1 DEF Staging, StagedRight, Working
  <2>2. i \in DOMAIN unit /\ i < at + 1
    <3>1. at \in 0 .. Len(unit) /\ staged \subseteq 1 .. at
      BY DEF BatchInv, TypeOK
    <3>2. i \in DOMAIN unit
      BY StagedTyped
    <3> QED
      BY <1>2, <3>1, <3>2
  <2>3. DirOf(unit, i) # Here /\ DirOf(unit, i) \in Dirs
    <3>1. unit \in Seq(Repos)
      BY DEF BatchInv, TypeOK
    <3> QED
      BY <1>2, <2>1, <2>2, <3>1, DirInjective, DirTyped DEF Here
  <2>4. (unit[i])' = unit[i] /\ DirOf(unit, i)' = DirOf(unit, i) /\ InPlace(unit[i])' = InPlace(unit[i])
    BY <1>1 DEF DirOf, Slug, InPlace
  <2> QED
    BY <1>4, <2>1, <2>3, <2>4 DEF HoldsRow
<1>8. ASSUME NEW i, i = at + 1, ~FetchFails PROVE HoldsRow(i)'
  <2>1. InPlace(Row) \/ Here \in stuck' \cup unbound' \/ tree'[Here].of \in {Row, NoRepo}
    BY <1>5, <1>8
  <2>2. unit'[i] = Row /\ DirOf(unit, i)' = Here /\ InPlace(unit[i])' = InPlace(Row)
    BY <1>1, <1>8 DEF DirOf, Slug, InPlace, Here, Row
  <2> QED
    BY <2>1, <2>2 DEF HoldsRow
<1>9. StagedRight'
  <2>1. ASSUME NEW i \in staged' PROVE HoldsRow(i)'
    BY <1>1, <1>7, <1>8, <2>1
  <2>2. pc = "stage"
    BY <1>1 DEF Staging
  <2> QED
    BY <2>1 DEF StagedRight
<1> QED
  BY <1>6, <1>9

LEMMA CutRight ==
  ASSUME BatchInv, MarkerTrue, CutShort \/ UNCHANGED <<tree, unbound>>, UNCHANGED <<marker, stuck>>
  PROVE  MarkerTrue'
<1>1. CASE CutShort
  <2>1. Here \in Dirs /\ unbound' = unbound \cup {Here}
    BY <1>1, HereTyped DEF CutShort, Fetchable
  <2>2. \A d \in Dirs \ {Here} : tree'[d] = tree[d]
    BY <1>1, TryTree
  <2> QED
    BY <2>1, <2>2 DEF MarkerTrue
<1>2. CASE UNCHANGED <<tree, unbound>>
  BY <1>2 DEF MarkerTrue
<1> QED
  BY <1>1, <1>2

(* However earlier batches ended, and whatever they left in the workspace,   *)
(* a staged row is scanned from source of its own repository, directories    *)
(* that could not be removed or bound apart.                                 *)
THEOREM RightRepositoryScanned == Spec => []RightRepository
<1>1. Init => MarkerTrue /\ StagedRight
  BY DEF Init, MarkerTrue, StagedRight
<1>2. BatchInv /\ MarkerTrue /\ StagedRight /\ [Next]_vars => MarkerTrue' /\ StagedRight'
  <2> SUFFICES ASSUME BatchInv, MarkerTrue, StagedRight, [Next]_vars PROVE MarkerTrue' /\ StagedRight'
    OBVIOUS
  <2>1. CASE Try
    BY <2>1, TryRight
  <2>2. CASE \E list \in Lists, o \in Options : StartBatch(list, o)
    BY <2>2 DEF StartBatch, MarkerTrue, StagedRight, disk
  <2>3. CASE NextUnit
    BY <2>3 DEF NextUnit, MarkerTrue, StagedRight, disk
  <2>4. CASE StagingEnds \/ UNCHANGED vars
    <3>1. /\ UNCHANGED <<tree, marker, stuck, unbound, opts, unit, staged>>
          /\ pc' \in {"stage", "scan"} => pc \in {"stage", "scan"}
      BY <2>4 DEF StagingEnds, vars, disk
    <3>2. \A i : HoldsRow(i)' = HoldsRow(i)
      BY <3>1 DEF HoldsRow, DirOf, Slug, InPlace
    <3> QED
      BY <3>1, <3>2 DEF MarkerTrue, StagedRight
  <2>5. CASE InterruptStaging
    <3>1. pc' = "purge" /\ (CutShort \/ UNCHANGED <<tree, unbound>>) /\ UNCHANGED <<marker, stuck>>
      BY <2>5 DEF InterruptStaging
    <3> QED
      BY <3>1, CutRight DEF StagedRight
  <2>6. CASE Exit \/ Kill
    <3>1. pc' = "idle" /\ (CutShort \/ UNCHANGED <<tree, unbound>>) /\ UNCHANGED <<marker, stuck>>
      BY <2>6 DEF Exit, Kill, Gone
    <3> QED
      BY <3>1, CutRight DEF StagedRight
  <2>7. CASE Purge
    <3>1. pc' \notin {"stage", "scan"} /\ UNCHANGED <<marker, unbound>>
      BY <2>7 DEF Purge
    <3>2. \A d \in Dirs : tree'[d].of \in {tree[d].of, NoRepo}
      <4>1. \A d \in Dirs : Empty(d).of = NoRepo
        BY DEF Empty, Nowhere
      <4> QED
        BY <2>7, <4>1, PurgeTree
    <3>3. \A d \in Dirs \ stuck' : d \notin stuck \/ tree'[d].of = NoRepo
      <4>1. \A d \in Dirs : Empty(d).of = NoRepo
        BY DEF Empty, Nowhere
      <4>2. CASE opts.keep
        BY <2>7, <4>2 DEF Purge
      <4>3. CASE ~opts.keep
        BY <2>7, <4>1, <4>3, PurgeTree
      <4> QED
        BY <4>2, <4>3
    <3>4. ASSUME NEW d \in Dirs \ (stuck' \cup unbound'), marker'[d] # NoRepo
          PROVE  tree'[d].of \in {marker'[d], NoRepo}
      BY <3>1, <3>2, <3>3, <3>4 DEF MarkerTrue
    <3> QED
      BY <3>1, <3>4 DEF MarkerTrue, StagedRight
  <2>8. CASE Summarise
    BY <2>8 DEF Summarise, MarkerTrue, StagedRight, disk
  <2>9. ASSUME NEW s \in {"OK", "FAILED", "ABORTED"}, Scan(s) PROVE MarkerTrue' /\ StagedRight'
    <3>1. pc' = "purge" /\ UNCHANGED <<marker, stuck, unbound>>
      BY <2>9 DEF Scan
    <3>2. \A d \in Dirs : tree'[d].of = tree[d].of
      BY <2>9, ScanTree
    <3> QED
      BY <3>1, <3>2 DEF MarkerTrue, StagedRight
  <2> QED
    BY <2>1, <2>2, <2>3, <2>4, <2>5, <2>6, <2>7, <2>8, <2>9 DEF Next, Try
<1>3. StagedRight => RightRepository
  BY DEF StagedRight, HoldsRow, RightRepository
<1> QED
  BY <1>1, <1>2, <1>3, BatchInvHolds, PTL DEF Spec

-----------------------------------------------------------------------------
(* What becomes of a unit that ended, while later ones are staged.  Without  *)
(* groups this needs the rows of a list to have different names: only their  *)
(* paths are compared when it is read, and rows with one name share a clone. *)

DistinctNames == \A l \in Lists : \A q, r \in Range(l) : NameOf[q] = NameOf[r] => q = r

(* The directories that are a unit's own.                                    *)
OwnDirs(u) ==
  IF opts.grouped THEN {d \in Dirs : d[1] = AppOf[u[1]]} ELSE {<<Apart, NameOf[u[1]], Clean>>}

Owned == \A k \in DOMAIN results : results[k].dirs \subseteq OwnDirs(results[k].unit)

Sourceless ==
  pc # "idle" /\ ~opts.keep =>
    \A k \in DOMAIN results : \A d \in results[k].dirs \ stuck :
      tree[d].src \in {"absent", "none"}

ReportKept ==
  pc # "idle" /\ ~opts.grouped /\ ~opts.cloneOnly =>
    /\ \A k \in DOMAIN results : results[k].status = "OK" =>
         \A d \in results[k].dirs : tree[d].out
    /\ pc = "purge" /\ status = "OK" => \A d \in Purged : tree[d].out

LeftInv == Owned /\ Sourceless /\ ReportKept

LEMMA ResultFacts ==
  ASSUME BatchInv, NEW k \in DOMAIN results
  PROVE  results[k].dirs \subseteq Dirs /\ results[k].unit \in Seq(Repos)
<1>1. results \in Seq(Results)
  BY DEF BatchInv, Recorded
<1>2. results[k] \in Results
  BY <1>1
<1> QED
  BY <1>2 DEF Results

LEMMA RowInRange ==
  ASSUME NEW u \in Seq(Repos), u # <<>>
  PROVE  1 \in DOMAIN u /\ u[1] \in Range(u)
<1>1. 1 \in DOMAIN u
  OBVIOUS
<1> QED
  BY <1>1 DEF Range

(* The directory of the row at hand belongs to no unit that ended.           *)
LEMMA HereApart ==
  ASSUME DistinctNames, BatchInv, Owned, Staging, NEW k \in DOMAIN results
  PROVE  Here \notin results[k].dirs
<1>1. pc # "idle" /\ Working
  BY DEF Staging, Working
<1>2. PICK l \in Lists :
        /\ results[k].unit # <<>> /\ Range(results[k].unit) \subseteq Range(l)
        /\ unit # <<>> /\ Sharing(unit, opts.grouped) /\ Range(unit) \subseteq Range(l)
        /\ Range(results[k].unit) \cap Range(unit) = {}
        /\ opts.grouped => AppOf[results[k].unit[1]] # AppOf[unit[1]]
  BY <1>1, UnitFacts
<1> DEFINE v == results[k].unit
<1>3. v \in Seq(Repos) /\ results[k].dirs \subseteq OwnDirs(v)
  BY ResultFacts DEF Owned
<1> HIDE DEF v
<1>4. unit \in Seq(Repos) /\ at + 1 \in DOMAIN unit /\ at \in Nat
  BY HereTyped DEF BatchInv, TypeOK
<1>5. 1 \in DOMAIN unit /\ unit[1] \in Range(unit)
  BY <1>2, <1>4, RowInRange
<1>6. v[1] \in Range(v)
  BY <1>2, <1>3, RowInRange DEF v
<1>7. CASE opts.grouped
  <2>1. AppOf[unit[at + 1]] = AppOf[unit[1]] /\ AppOf[v[1]] # AppOf[unit[1]]
    BY <1>2, <1>4, <1>7 DEF Sharing, v
  <2>2. Here[1] = AppOf[unit[at + 1]]
    BY <1>7 DEF Here, DirOf
  <2> QED
    BY <1>3, <1>7, <2>1, <2>2 DEF OwnDirs
<1>8. CASE ~opts.grouped
  <2>1. Len(unit) = 1 /\ DOMAIN unit = 1 .. Len(unit)
    BY <1>2, <1>4, <1>8, LenFacts DEF Sharing
  <2>2. at + 1 = 1
    BY <1>4, <2>1
  <2>3. Here = <<Apart, NameOf[unit[1]], Clean>>
    BY <1>8, <2>2 DEF Here, DirOf
  <2>4. v[1] # unit[1] /\ v[1] \in Range(l) /\ unit[1] \in Range(l)
    BY <1>2, <1>5, <1>6 DEF v
  <2>5. NameOf[v[1]] # NameOf[unit[1]]
    BY <2>4 DEF DistinctNames
  <2> QED
    BY <1>3, <1>8, <2>3, <2>5 DEF OwnDirs
<1> QED
  BY <1>7, <1>8

(* A step that disturbs no directory of a unit that ended.                   *)
LEMMA LeftKept ==
  ASSUME LeftInv, pc # "idle", pc' # "idle", UNCHANGED <<results, opts>>,
         pc' = "purge" => status' # "OK",
         \A k \in DOMAIN results : \A d \in results[k].dirs :
           /\ (tree'[d]).src = tree[d].src /\ (tree[d].out => (tree'[d]).out)
           /\ (d \in stuck' <=> d \in stuck)
  PROVE  LeftInv'
<1>1. Owned'
  BY DEF LeftInv, Owned, OwnDirs
<1>2. Sourceless'
  BY DEF LeftInv, Sourceless
<1>3. ReportKept'
  BY DEF LeftInv, ReportKept
<1> QED
  BY <1>1, <1>2, <1>3 DEF LeftInv

LEMMA LeftAtHere ==
  ASSUME DistinctNames, BatchInv, LeftInv, Try \/ InterruptStaging
  PROVE  LeftInv'
<1>1. /\ Staging /\ pc = "stage" /\ pc' # "idle" /\ UNCHANGED <<results, opts>>
      /\ pc' = "purge" => status' # "OK"
  BY DEF Try, UseInPlace, Reuse, CannotRemove, Fetch, FetchFails, CutShort, Fetchable, Tried, Staging,
         InterruptStaging
<1>2. \A d \in Dirs \ {Here} : tree'[d] = tree[d] /\ (d \in stuck' <=> d \in stuck)
  <2>1. CASE Try
    BY <2>1, TryTree, TryDisk
  <2>2. CASE InterruptStaging
    BY <2>2, TryTree DEF InterruptStaging
  <2> QED
    BY <2>1, <2>2
<1>3. ASSUME NEW k \in DOMAIN results, NEW d \in results[k].dirs
      PROVE  tree'[d] = tree[d] /\ (d \in stuck' <=> d \in stuck)
  BY <1>1, <1>2, HereApart, ResultFacts DEF LeftInv
<1> QED
  BY <1>1, <1>3, LeftKept

LEMMA OwnPurged ==
  ASSUME BatchInv, Working
  PROVE  Purged \subseteq OwnDirs(unit)
<1>1. CASE opts.grouped
  BY <1>1 DEF Purged, OwnDirs
<1>2. CASE ~opts.grouped
  <2>1. unit # <<>> /\ Sharing(unit, opts.grouped) /\ unit \in Seq(Repos)
    BY UnitFacts DEF Working, BatchInv, TypeOK
  <2>2. DOMAIN unit = 1 .. Len(unit) /\ Len(unit) = 1
    BY <1>2, <2>1, LenFacts DEF Sharing
  <2>3. \A i \in staged : i = 1
    BY <2>2, StagedTyped
  <2> QED
    BY <1>2, <2>3 DEF Purged, OwnDirs, DirOf
<1> QED
  BY <1>1, <1>2

LEMMA LeftByPurge ==
  ASSUME BatchInv, LeftInv, Purge
  PROVE  LeftInv'
<1> DEFINE r == [unit |-> unit, dirs |-> Purged, staged |-> staged, status |-> status]
<1>1. pc = "purge" /\ pc' # "purge" /\ results' = Append(results, r) /\ UNCHANGED opts /\ Working
  BY DEF Purge, Record, Working
<1>2. results \in Seq(Results) /\ results' \in Seq(Results)
  BY PurgeSound DEF BatchInv, Recorded
<1>3. r.unit = unit /\ r.dirs = Purged /\ r.status = status
  OBVIOUS
<1> HIDE DEF r
<1>4. \A k \in DOMAIN results' : results'[k] = r \/ (k \in DOMAIN results /\ results'[k] = results[k])
  <2>2. Len(results') = Len(results) + 1 /\ Len(results) \in Nat
    BY <1>1, <1>2
  <2>3. DOMAIN results' = 1 .. Len(results) + 1 /\ DOMAIN results = 1 .. Len(results)
    BY <1>2, <2>2, LenFacts
  <2>4. \A k \in 1 .. Len(results) : results'[k] = results[k]
    BY <1>1, <1>2
  <2>5. results'[Len(results) + 1] = r
    BY <1>1, <1>2
  <2> QED
    BY <2>2, <2>3, <2>4, <2>5
<1>5. Owned'
  <2>1. r.dirs \subseteq OwnDirs(r.unit)
    BY <1>1, <1>3, OwnPurged
  <2>2. \A u : OwnDirs(u)' = IF opts.grouped THEN {d \in Dirs : d[1] = AppOf[u[1]]}
                                           ELSE {<<Apart, NameOf[u[1]], Clean>>}
    BY <1>1 DEF OwnDirs
  <2>3. ASSUME NEW k \in DOMAIN results' PROVE results'[k].dirs \subseteq OwnDirs(results'[k].unit)
    BY <1>4, <2>1 DEF LeftInv, Owned
  <2> QED
    BY <1>1, <2>3 DEF Owned, OwnDirs
<1>6. /\ \A d \in Dirs : tree'[d] \in {tree[d], Empty(d)}
      /\ \A d \in Dirs \ Purged : tree'[d] = tree[d] /\ (d \in stuck' <=> d \in stuck)
      /\ ~opts.keep => \A d \in Purged \ stuck' : tree'[d] = Empty(d)
  BY PurgeTree
<1>7. \A k \in DOMAIN results' : results'[k].dirs \subseteq Dirs
  BY <1>3, <1>4, ResultFacts, PurgedTyped
<1>8. Sourceless'
  <2>1. \A d \in Dirs : Empty(d).src \in {"absent", "none"}
    BY DEF Empty, Nowhere
  <2>2. SUFFICES ASSUME ~opts.keep, NEW k \in DOMAIN results', NEW d \in results'[k].dirs \ stuck'
                 PROVE  (tree'[d]).src \in {"absent", "none"}
    BY <1>1 DEF Sourceless
  <2>3. CASE d \in Purged
    BY <1>6, <1>7, <2>1, <2>2, <2>3
  <2>4. CASE d \notin Purged
    <3>1. k \in DOMAIN results /\ d \in results[k].dirs \ stuck
      BY <1>3, <1>4, <1>6, <1>7, <2>2, <2>4
    <3> QED
      BY <1>1, <1>6, <1>7, <2>2, <2>4, <3>1 DEF LeftInv, Sourceless
  <2> QED
    BY <2>3, <2>4
<1>9. ReportKept'
  <2>1. ASSUME ~opts.grouped, NEW d \in Dirs, tree[d].out PROVE Empty(d).out
    BY <2>1 DEF Empty, Nowhere
  <2>2. SUFFICES ASSUME ~opts.grouped, ~opts.cloneOnly, NEW k \in DOMAIN results',
                        results'[k].status = "OK", NEW d \in results'[k].dirs
                 PROVE  (tree'[d]).out
    BY <1>1 DEF ReportKept
  <2>3. tree[d].out
    BY <1>1, <1>3, <1>4, <2>2 DEF LeftInv, ReportKept
  <2> QED
    BY <1>6, <1>7, <2>1, <2>2, <2>3
<1> QED
  BY <1>5, <1>8, <1>9 DEF LeftInv

LEMMA LeftHolds ==
  ASSUME DistinctNames
  PROVE  Spec => []LeftInv
<1>1. Init => LeftInv
  <2>1. Init => DOMAIN results = {}
    BY EmptyFacts, Zenon DEF Init
  <2> QED
    BY <2>1 DEF Init, LeftInv, Owned, Sourceless, ReportKept
<1>2. BatchInv /\ LeftInv /\ [Next]_vars => LeftInv'
  <2> SUFFICES ASSUME BatchInv, LeftInv, [Next]_vars PROVE LeftInv'
    OBVIOUS
  <2>1. CASE Try \/ InterruptStaging
    BY <2>1, LeftAtHere
  <2>2. CASE (\E list \in Lists, o \in Options : StartBatch(list, o)) \/ Exit \/ Kill
    <3>1. DOMAIN results' = {} /\ pc' # "purge"
      BY <2>2, EmptyFacts, Zenon DEF StartBatch, Exit, Kill, Gone
    <3> QED
      BY <3>1 DEF LeftInv, Owned, Sourceless, ReportKept
  <2>3. CASE NextUnit \/ Summarise
    BY <2>3, LeftKept DEF NextUnit, Summarise, disk
  <2>4. CASE StagingEnds
    <3>1. /\ pc # "idle" /\ pc' # "idle" /\ UNCHANGED <<results, opts, tree, stuck, unit, staged>>
          /\ pc' = "purge" /\ status' = "OK" => opts.cloneOnly
      BY <2>4 DEF StagingEnds, disk
    <3>2. Owned' /\ Sourceless'
      BY <3>1 DEF LeftInv, Owned, OwnDirs, Sourceless
    <3>3. ReportKept'
      BY <3>1 DEF LeftInv, ReportKept
    <3> QED
      BY <3>2, <3>3 DEF LeftInv
  <2>5. CASE UNCHANGED vars
    <3>1. UNCHANGED <<results, opts, tree, stuck, unit, staged, pc, status>>
      BY <2>5 DEF vars, disk
    <3>2. Owned' /\ Sourceless'
      BY <3>1 DEF LeftInv, Owned, OwnDirs, Sourceless
    <3>3. Purged' = Purged
      BY <3>1 DEF Purged, DirOf, Slug
    <3>4. ReportKept'
      BY <3>1, <3>3 DEF LeftInv, ReportKept
    <3> QED
      BY <3>2, <3>4 DEF LeftInv
  <2>6. CASE Purge
    BY <2>6, LeftByPurge
  <2>7. ASSUME NEW s \in {"OK", "FAILED", "ABORTED"}, Scan(s) PROVE LeftInv'
    <3>1. /\ pc = "scan" /\ pc' = "purge" /\ UNCHANGED <<results, opts, stuck, unit, staged>>
      BY <2>7 DEF Scan
    <3>2. /\ \A d \in Dirs : (tree'[d]).src = tree[d].src /\ (tree[d].out => (tree'[d]).out)
          /\ ~opts.grouped => \A d \in Purged : (tree'[d]).out
      BY <2>7, ScanTree
    <3>3. Owned'
      BY <3>1 DEF LeftInv, Owned, OwnDirs
    <3>4. Sourceless'
      BY <3>1, <3>2, ResultFacts DEF LeftInv, Sourceless
    <3>5. Purged' = Purged
      BY <3>1 DEF Purged, DirOf, Slug
    <3>6. ReportKept'
      BY <3>1, <3>2, <3>5, ResultFacts DEF LeftInv, ReportKept
    <3> QED
      BY <3>3, <3>4, <3>6 DEF LeftInv
  <2> QED
    BY <2>1, <2>2, <2>3, <2>4, <2>5, <2>6, <2>7 DEF Next, Try
<1> QED
  BY <1>1, <1>2, BatchInvHolds, PTL DEF Spec

(* No unit that ended leaves source behind while later units are staged and  *)
(* scanned, what could not be deleted apart.                                 *)
THEOREM SourceGoneAfter ==
  ASSUME DistinctNames
  PROVE  Spec => []SourceGone
<1>1. LeftInv => SourceGone
  BY DEF LeftInv, Sourceless, SourceGone
<1> QED
  BY <1>1, LeftHolds, PTL

(* The report of a clone that was scanned outlives its purge and the later   *)
(* units of the batch.                                                       *)
THEOREM ReportsOutlivePurge ==
  ASSUME DistinctNames
  PROVE  Spec => []ReportsSurvive
<1>1. LeftInv => ReportsSurvive
  BY DEF LeftInv, ReportKept, ReportsSurvive
<1> QED
  BY <1>1, LeftHolds, PTL
=============================================================================
