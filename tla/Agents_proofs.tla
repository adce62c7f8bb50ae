---------------------------- MODULE Agents_proofs ----------------------------
(***************************************************************************)
(* Theorems about Remediation, Validation and CombinedReport, for any      *)
(* repository, policy, reports, gates, weights and thresholds, any number  *)
(* of runs, of commands and of failures, and whatever the agents edit or   *)
(* write; and about the stages of MCAgents together.                       *)
(***************************************************************************)
EXTENDS MCAgents, ScopePlan_proofs, FindingFlow_proofs

-----------------------------------------------------------------------------
(* Remediation.                                                              *)

(* What is captured before the agent is called: forbidden files that were    *)
(* there when the finding was begun, as they were read.                      *)
Captured ==
  /\ \A x \in Forbidden : base[x] # "absent" => x \in DOMAIN snap
  /\ \A x \in DOMAIN snap : snap[x] = IF x \in Binary THEN "absent" ELSE base[x]

(* A finding is being worked on, one of those that are left.                 *)
Working == pc \in {"agent", "gate", "write", "save"}

RemInv ==
  /\ RemTypeOK
  /\ todo \subseteq DOMAIN list /\ (Working => todo # {})
  /\ \A o \in DOMAIN ckpt : ckpt[o] \in done
  /\ CountedIsDone /\ (pc = "save" => finding \in done)
  /\ ~Git => intent = {}
  /\ DOMAIN snap \subseteq Files /\ \A x \in DOMAIN snap : snap[x] \in FileState
  /\ pc \in {"agent", "gate"} => Captured
  /\ ForbiddenUndone /\ AcceptIsClean

-----------------------------------------------------------------------------
(* The finding that is worked on.                                            *)

LEMMA SmallestOrdinal ==
  ASSUME NEW S \in SUBSET Nat, S # {}
  PROVE  Min(S) \in S
<1>1. PICK n \in S : \A m \in S : n <= m
  BY Smallest
<1> QED
  BY <1>1 DEF Min

(* The next finding is one of the report, so one of the findings.            *)
LEMMA NextFinding ==
  ASSUME RemInv, todo # {}
  PROVE  ordinal \in todo /\ ordinal \in Ordinals /\ finding \in Findings
<1>1. list \in Lists /\ DOMAIN list = 1 .. Len(list)
  <2>1. list # <<>>
    BY DEF RemInv
  <2>2. list \in Lists
    BY <2>1 DEF RemInv, RemTypeOK
  <2> QED
    BY <2>2, RemediationAssumption
<1>2. todo \in SUBSET Nat
  BY <1>1 DEF RemInv
<1>3. ordinal \in todo
  BY <1>2, SmallestOrdinal DEF ordinal
<1>4. ordinal \in DOMAIN list
  BY <1>3 DEF RemInv
<1>5. ordinal \in Ordinals
  BY <1>1, <1>4 DEF Ordinals
<1>6. list[ordinal] \in Findings
  BY <1>1, <1>4 DEF Findings
<1> QED
  BY <1>3, <1>5, <1>6 DEF finding

LEMMA OtherFiles ==
  /\ Forbidden \subseteq Files /\ Disk0 \in [Files -> FileState]
  /\ \A S \in SUBSET Files, how \in FileState :
       disk \in [Files -> FileState] =>
         [x \in Files |-> IF x \in S THEN how ELSE disk[x]] \in [Files -> FileState]
  BY RemediationAssumption DEF Forbidden, PolicyData, Disk0, FileState

LEMMA IntentTyped ==
  ASSUME RemInv, NEW paths \in SUBSET Files
  PROVE  Intent(paths) \subseteq Files /\ (~Git => Intent(paths) = {})
  BY DEF Intent, RemInv, RemTypeOK

-----------------------------------------------------------------------------
(* The post-gate puts back every forbidden file that can be read as text.    *)

LEMMA PostGateUndoes ==
  ASSUME RemInv, PostGate
  PROVE  ForbiddenUndone'
<1> SUFFICES ASSUME NEW x \in Forbidden \ Binary
             PROVE  \/ disk'[x] = base[x]
                    \/ Git /\ disk'[x] \in {AtHead(x), "empty"}
                    \/ ~Git /\ base[x] = "absent"
  <2>1. base' = base
    BY DEF PostGate
  <2> QED
    BY <2>1 DEF ForbiddenUndone, AtHead
<1>1. /\ x \in Files /\ x \notin Binary
      /\ base[x] # "absent" => x \in DOMAIN snap
      /\ x \in DOMAIN snap => snap[x] = base[x]
  BY OtherFiles DEF RemInv, PostGate, Captured
<1>2. disk'[x] = IF x \in Bad THEN Reverted(x) ELSE disk[x]
  BY <1>1 DEF PostGate
<1>3. CASE x \in Bad
  BY <1>1, <1>2, <1>3 DEF Reverted, AtHead
<1>4. CASE x \notin Bad /\ Git
  <2>1. x \notin WholeTree
    BY <1>4 DEF Bad, Candidates
  <2>2. disk[x] = AtHead(x)
    BY <1>1, <1>4, <2>1 DEF WholeTree
  <2> QED
    BY <1>2, <1>4, <2>2
<1>5. CASE x \notin Bad /\ ~Git
  <2>1. WholeTree = {} /\ Tracked = {} /\ Intent(Scope) = {}
    BY <1>5, RemediationAssumption DEF WholeTree, Intent, RemInv
  <2>2. disk[x] = "absent"
    BY <1>1, <1>5, <2>1 DEF Bad, Candidates, Present
  <2>3. x \notin SynthDiff
    <3>1. GitDiff = {}
      BY <2>1 DEF GitDiff
    <3>2. DiffFiles = SynthDiff
      BY <3>1 DEF DiffFiles
    <3> QED
      BY <1>5, <3>2 DEF Bad, Candidates
  <2>4. x \in DOMAIN snap => snap[x] = "absent"
    BY <1>1, <2>2, <2>3 DEF SynthDiff, Read
  <2> QED
    BY <1>1, <1>5, <2>4
<1> QED
  BY <1>3, <1>4, <1>5

(* What is accepted left no edit of a forbidden file in the work tree.       *)
LEMMA PostGateAccepts ==
  ASSUME RemInv, PostGate
  PROVE  AcceptIsClean'
<1> SUFFICES ASSUME Git, Bad = {}, NEW x \in Forbidden
             PROVE  disk'[x] = AtHead(x)
  BY DEF AcceptIsClean, PostGate, AtHead
<1>1. x \in Files /\ x \notin WholeTree
  BY OtherFiles DEF Bad, Candidates
<1>2. disk'[x] = disk[x]
  BY <1>1 DEF PostGate
<1> QED
  BY <1>1, <1>2 DEF WholeTree

-----------------------------------------------------------------------------
(* Every step keeps the invariant.                                           *)

(* Steps that leave the disk and what is known of the finding alone.         *)
LEMMA FindingBegun ==
  ASSUME RemInv, NEW killed \in BOOLEAN, Deny(killed) \/ Snapshot(killed)
  PROVE  RemInv'
<1>1. /\ base' = disk /\ changes' = {} /\ gates' = FALSE
      /\ final' \in {"none", "REJECT"} /\ pc' \in {"write", "agent"} /\ todo # {}
      /\ UNCHANGED <<disk, intent, ckpt, done, list, todo, resume, fixed, runs, failures>>
  BY DEF Deny, Snapshot
<1>2. CASE Deny(killed)
  <2>1. snap' = <<>> /\ DOMAIN snap' = {} /\ pc' = "write" /\ final' = "REJECT"
    BY <1>2 DEF Deny
  <2>2. RemTypeOK'
    BY <1>1, <2>1 DEF RemInv, RemTypeOK
  <2>3. ForbiddenUndone' /\ AcceptIsClean'
    BY <1>1, <2>1 DEF ForbiddenUndone, AcceptIsClean
  <2> QED
    BY <1>1, <2>1, <2>2, <2>3 DEF RemInv, Working, CountedIsDone
<1>3. CASE Snapshot(killed)
  <2>1. /\ snap' = [x \in {FileOf[finding]} \cup (Present \cap Forbidden) |-> Read(x)]
        /\ pc' = "agent" /\ final' = "none"
    BY <1>3 DEF Snapshot
  <2>2. FileOf[finding] \in Files
    BY <1>1, NextFinding, RemediationAssumption
  <2>3. DOMAIN snap' \subseteq Files /\ \A x \in DOMAIN snap' : snap'[x] = Read(x)
    BY <2>1, <2>2 DEF Present
  <2>4. \A x \in Files : Read(x) \in FileState
    BY DEF Read, RemInv, RemTypeOK, FileState
  <2>5. Captured'
    <3>1. \A x \in Forbidden : disk[x] # "absent" => x \in DOMAIN snap'
      BY <2>1, OtherFiles DEF Present
    <3> QED
      BY <1>1, <2>3, <3>1 DEF Captured, Read, Forbidden
  <2>6. RemTypeOK'
    BY <1>1, <2>1 DEF RemInv, RemTypeOK
  <2>7. ForbiddenUndone' /\ AcceptIsClean'
    BY <2>1 DEF ForbiddenUndone, AcceptIsClean
  <2>8. \A x \in DOMAIN snap' : snap'[x] \in FileState
    BY <2>3, <2>4
  <2> QED
    BY <1>1, <2>1, <2>3, <2>5, <2>6, <2>7, <2>8 DEF RemInv, Working, CountedIsDone, FileState
<1> QED
  BY <1>2, <1>3

LEMMA AgentSound ==
  ASSUME RemInv, NEW S \in SUBSET Files, NEW how \in {"edited", "absent"},
         NEW reported \in SUBSET Files, NEW ok \in BOOLEAN,
         AgentReturns(S, how, reported, ok)
  PROVE  RemInv'
<1>1. disk' \in [Files -> FileState]
  BY OtherFiles DEF AgentReturns, RemInv, RemTypeOK, FileState
<1>2. RemTypeOK'
  BY <1>1 DEF AgentReturns, RemInv, RemTypeOK
<1>3. Captured'
  BY DEF AgentReturns, RemInv, Captured, Forbidden
<1> QED
  BY <1>2, <1>3 DEF AgentReturns, RemInv, Working, CountedIsDone, ForbiddenUndone, AcceptIsClean,
     FileState

(* A finding, or a run with it, is over; the disk may hold edits.            *)
LEMMA OverSound ==
  ASSUME RemInv, FindingOver, disk' \in [Files -> FileState], failures' \in 0 .. MaxFailures,
         pc' \in {"idle", "next"}, runs' = runs,
         UNCHANGED <<intent, ckpt, done>>,
         fixed' \in {fixed, {}}, list' \in {list, <<>>}, resume' \in BOOLEAN,
         todo' \subseteq todo, todo' \subseteq DOMAIN list'
  PROVE  RemInv'
<1>1. RemTypeOK'
  BY OtherFiles DEF FindingOver, RemInv, RemTypeOK
<1>2. DOMAIN snap' = {}
  BY DEF FindingOver
<1> QED
  BY <1>1, <1>2 DEF RemInv, Working, CountedIsDone, ForbiddenUndone, AcceptIsClean

LEMMA PostGateSound ==
  ASSUME RemInv, PostGate
  PROVE  RemInv'
<1>1. Scope \subseteq Files
  BY DEF Scope, WholeTree, RemInv, RemTypeOK
<1>2. intent' \subseteq Files /\ (~Git => intent' = {})
  BY <1>1, IntentTyped DEF PostGate
<1>3. \A x \in Files : Reverted(x) \in FileState
  BY DEF Reverted, FileState, RemInv, RemTypeOK
<1>4. disk' \in [Files -> FileState]
  BY <1>3 DEF PostGate, RemInv, RemTypeOK
<1>5. RemTypeOK'
  BY <1>2, <1>4 DEF PostGate, RemInv, RemTypeOK
<1> QED
  BY <1>2, <1>5, PostGateUndoes, PostGateAccepts DEF PostGate, RemInv, Working, CountedIsDone

LEMMA WriteSound ==
  ASSUME RemInv, WriteVerdict
  PROVE  RemInv'
<1>1. todo # {}
  BY DEF RemInv, WriteVerdict, Working
<1>2. finding \in Findings /\ finding' = finding
  BY <1>1, NextFinding DEF WriteVerdict, finding, ordinal
<1>3. intent' \subseteq Files /\ (~Git => intent' = {})
  BY IntentTyped DEF WriteVerdict, RemInv, RemTypeOK
<1>4. RemTypeOK'
  BY <1>2, <1>3 DEF WriteVerdict, RemInv, RemTypeOK
<1> QED
  BY <1>1, <1>2, <1>3, <1>4 DEF WriteVerdict, RemInv, Working, CountedIsDone, ForbiddenUndone,
     AcceptIsClean

LEMMA SaveSound ==
  ASSUME RemInv, Save
  PROVE  RemInv'
<1>1. todo # {}
  BY DEF RemInv, Save, Working
<1>2. finding \in Findings /\ finding \in done
  BY <1>1, NextFinding DEF Save, RemInv
<1>3. \A o \in DOMAIN ckpt' : ckpt'[o] \in Findings /\ ckpt'[o] \in done
  BY <1>2 DEF Save, RemInv, RemTypeOK
<1>4. RemTypeOK'
  BY <1>2, <1>3, OtherFiles DEF Save, FindingOver, RemInv, RemTypeOK
<1>5. DOMAIN snap' = {}
  BY DEF Save, FindingOver
<1> QED
  BY <1>2, <1>3, <1>4, <1>5 DEF Save, RemInv, Working, CountedIsDone, ForbiddenUndone,
     AcceptIsClean

LEMMA RemInductive == RemInv /\ [RemNext]_remVars => RemInv'
<1> SUFFICES ASSUME RemInv, [RemNext]_remVars PROVE RemInv'
  OBVIOUS
<1>1. ASSUME NEW l \in Lists, NEW r \in BOOLEAN, NEW S \in SUBSET DOMAIN l, StartRun(l, S, r)
      PROVE  RemInv'
  <2>1. runs' \in 0 .. MaxRuns
    BY <1>1, RemediationAssumption DEF StartRun, RemInv, RemTypeOK
  <2>2. S \subseteq Ordinals
    BY DEF Ordinals
  <2>3. RemTypeOK'
    BY <1>1, <2>1, <2>2 DEF StartRun, RemInv, RemTypeOK
  <2> QED
    BY <1>1, <2>3 DEF StartRun, RemInv, Working, CountedIsDone, ForbiddenUndone, AcceptIsClean
<1>2. CASE Skip
  <2>1. finding \in Findings /\ finding \in done
    BY <1>2, NextFinding DEF Skip, Cached, RemInv
  <2>2. RemTypeOK'
    BY <1>2, <2>1 DEF Skip, RemInv, RemTypeOK
  <2> QED
    BY <1>2, <2>1, <2>2 DEF Skip, RemInv, Working, CountedIsDone, ForbiddenUndone, AcceptIsClean
<1>3. ASSUME NEW killed \in BOOLEAN, Deny(killed) \/ Snapshot(killed) PROVE RemInv'
  BY <1>3, FindingBegun
<1>4. ASSUME NEW S \in SUBSET Files, NEW how \in {"edited", "absent"}, AgentRaises(S, how)
      PROVE  RemInv'
  <2>1. /\ FindingOver /\ pc' = "next" /\ todo' = todo \ {ordinal} /\ failures < MaxFailures
        /\ failures' = failures + 1
        /\ UNCHANGED <<intent, ckpt, done, list, resume, fixed, runs>>
    BY <1>4 DEF AgentRaises
  <2>2. disk' \in [Files -> FileState]
    BY <1>4, OtherFiles DEF AgentRaises, RemInv, RemTypeOK, FileState
  <2>3. failures' \in 0 .. MaxFailures /\ resume' \in BOOLEAN
    BY <2>1, RemediationAssumption DEF RemInv, RemTypeOK
  <2> QED
    BY <2>1, <2>2, <2>3, OverSound DEF RemInv
<1>5. ASSUME NEW S \in SUBSET Files, NEW how \in {"edited", "absent"},
             NEW reported \in SUBSET Files, NEW ok \in BOOLEAN,
             AgentReturns(S, how, reported, ok)
      PROVE  RemInv'
  BY <1>5, AgentSound
<1>6. ASSUME NEW S \in SUBSET Files, Die(S) PROVE RemInv'
  <2>1. /\ FindingOver /\ RunOver /\ failures < MaxFailures /\ failures' = failures + 1
        /\ UNCHANGED <<intent, ckpt, done, runs>>
    BY <1>6 DEF Die
  <2>2. disk' \in [Files -> FileState]
    BY <1>6, OtherFiles DEF Die, RemInv, RemTypeOK, FileState
  <2>3. failures' \in 0 .. MaxFailures
    BY <2>1, RemediationAssumption DEF RemInv, RemTypeOK
  <2> QED
    BY <2>1, <2>2, <2>3, OverSound DEF RunOver
<1>7. CASE PostGate \/ WriteVerdict \/ Save
  BY <1>7, PostGateSound, WriteSound, SaveSound
<1>8. CASE EndRun
  <2>1. RemTypeOK'
    BY <1>8 DEF EndRun, RunOver, RemInv, RemTypeOK
  <2> QED
    BY <1>8, <2>1 DEF EndRun, RunOver, RemInv, Working, CountedIsDone, ForbiddenUndone,
       AcceptIsClean
<1>9. CASE UNCHANGED remVars
  <2>1. RemTypeOK'
    BY <1>9 DEF remVars, RemInv, RemTypeOK
  <2>2. Captured <=> Captured'
    BY <1>9 DEF remVars, Captured, Forbidden
  <2> QED
    BY <1>9, <2>1, <2>2 DEF remVars, RemInv, Working, CountedIsDone, ForbiddenUndone, AcceptIsClean,
       Forbidden, AtHead, finding, ordinal
<1> QED
  BY <1>1, <1>2, <1>3, <1>4, <1>5, <1>6, <1>7, <1>8, <1>9 DEF RemNext

LEMMA RemInitially == RemInit => RemInv
<1> SUFFICES ASSUME RemInit PROVE RemInv
  OBVIOUS
<1>1. resume \in BOOLEAN /\ gates \in BOOLEAN
  BY DEF RemInit
<1>2. DOMAIN ckpt = {}
  BY DEF RemInit
<1>3. RemTypeOK
  BY <1>1, <1>2, OtherFiles, RemediationAssumption DEF RemInit, RemTypeOK
<1> QED
  BY <1>2, <1>3 DEF RemInit, RemInv, Working, CountedIsDone, ForbiddenUndone, AcceptIsClean

LEMMA RemInvariant == RemSpec => []RemInv
  BY RemInitially, RemInductive, PTL DEF RemSpec

(* What a run of the remediation, its files and its checkpoints hold is      *)
(* always of the right type, and a checkpoint names a finding of a report.   *)
THEOREM RemediationTyped == RemSpec => []RemTypeOK
<1>1. RemInv => RemTypeOK
  BY DEF RemInv
<1> QED
  BY <1>1, RemInvariant, PTL

(* Whatever an agent does to the forbidden files that can be read as text,   *)
(* the post-gate puts each back as it was or as git has it, for any policy,  *)
(* with git or without (postgate.py:107-113).                                *)
THEOREM ForbiddenRestored == RemSpec => []ForbiddenUndone
<1>1. RemInv => ForbiddenUndone
  BY DEF RemInv
<1> QED
  BY <1>1, RemInvariant, PTL

(* In a git work tree an accepted patch is never one of a tree that holds an *)
(* edit of a forbidden file, whoever made it.                                *)
THEOREM AcceptedTreeClean == RemSpec => []AcceptIsClean
<1>1. RemInv => AcceptIsClean
  BY DEF RemInv
<1> QED
  BY <1>1, RemInvariant, PTL

(* A finding is never counted as processed on the record of another one,     *)
(* through any number of runs, kills and reorderings (runner.py:47-58).      *)
THEOREM ProcessedHasRecord == RemSpec => []CountedIsDone
<1>1. RemInv => CountedIsDone
  BY DEF RemInv
<1> QED
  BY <1>1, RemInvariant, PTL

-----------------------------------------------------------------------------
(* Validation.                                                               *)

(* A session is of a report that is still in the queue.                      *)
InSession == at \in {"staged", "ended", "scored", "kept"}

SessionShape ==
  /\ dto \in [Dtos -> [status : DtoStatus, patch : 0 .. MaxPatches,
                       score : [of : Ids \cup {"none"}, patch : 0 .. MaxPatches,
                                sound : BOOLEAN]]]
  /\ wrote.first \in Ids \cup {Blank, "nothing"}
  /\ InSession => queue # <<>>

(* Unless the run is to return 1, what it selected is in the queue or has a  *)
(* verdict.                                                                  *)
Queued(d) == \E i \in DOMAIN queue : queue[i] = d
HasVerdict(d) == dto[d].status # "awaiting_validation"
Covered ==
  at # "idle" /\ ~failed /\ ~reuse =>
    \A d \in chosen : Queued(d) \/ HasVerdict(d)
JudgedIsKept == at = "kept" => HasVerdict(report)

ValInv == ValTypeOK /\ SessionShape /\ ValidatedIsScored /\ Covered /\ JudgedIsKept

-----------------------------------------------------------------------------
(* The order of the reports.                                                 *)

LEMMA DtosFinite == IsFiniteSet(Dtos) /\ Dtos \subseteq Nat /\ \A d \in Dtos : d \in 1 .. d
<1>1. IsFiniteSet(Dtos) /\ Cardinality(Dtos) \in Nat
  BY ValidationAssumption, FS_CardinalityType
<1>2. PICK n \in Nat : Dtos = 1 .. n
  BY <1>1, ValidationAssumption
<1> QED
  BY <1>1, <1>2

(* Two reports with equally many before them are one.                        *)
LEMMA RankInjective ==
  ASSUME NEW S \in SUBSET Dtos, NEW d \in S, NEW e \in S,
         Cardinality(S \cap 1 .. d) = Cardinality(S \cap 1 .. e), d =< e
  PROVE  d = e
<1>1. S \subseteq Nat /\ IsFiniteSet(S)
  BY DtosFinite, FS_Subset
<1>2. IsFiniteSet(S \cap 1 .. e)
  BY <1>1, FS_Subset
<1>3. S \cap 1 .. d \in SUBSET (S \cap 1 .. e)
  BY <1>1
<1>4. S \cap 1 .. e = S \cap 1 .. d
  BY <1>2, <1>3, FS_Subset
<1>5. e \in 1 .. e
  BY DtosFinite
<1>6. e \in 1 .. d
  BY <1>4, <1>5
<1> QED
  BY <1>1, <1>6

(* Each report of a selection has its place, each place its report.          *)
LEMMA RanksAreAll ==
  ASSUME NEW S \in SUBSET Dtos
  PROVE  /\ Cardinality(S) \in Nat
         /\ \A d \in S : Cardinality(S \cap 1 .. d) \in 1 .. Cardinality(S)
         /\ \A i \in 1 .. Cardinality(S) : \E d \in S : Cardinality(S \cap 1 .. d) = i
<1> DEFINE n == Cardinality(S)
           c == [d \in S |-> Cardinality(S \cap 1 .. d)]
<1>1. IsFiniteSet(S) /\ n \in Nat /\ S \subseteq Nat
  BY DtosFinite, FS_Subset, FS_CardinalityType
<1>2. ASSUME NEW d \in S PROVE Cardinality(S \cap 1 .. d) \in 1 .. n
  <2>1. IsFiniteSet(S \cap 1 .. d) /\ Cardinality(S \cap 1 .. d) <= n
    BY <1>1, FS_Subset
  <2>2. d \in S \cap 1 .. d
    BY DtosFinite
  <2>3. Cardinality(S \cap 1 .. d) \in Nat /\ Cardinality(S \cap 1 .. d) # 0
    BY <2>1, <2>2, FS_CardinalityType, FS_EmptySet
  <2> QED
    BY <1>1, <2>1, <2>3
<1>3. c \in Injection(S, 1 .. n)
  <2>1. c \in [S -> 1 .. n]
    BY <1>2
  <2>2. ASSUME NEW d \in S, NEW e \in S, c[d] = c[e] PROVE d = e
    <3>1. d =< e \/ e =< d
      BY <1>1
    <3> QED
      BY <2>2, <3>1, RankInjective
  <2> QED
    BY <2>1, <2>2 DEF Injection, IsInjective
<1>4. IsFiniteSet(1 .. n) /\ Cardinality(1 .. n) = n
  BY <1>1, FS_Interval
<1>5. c \in Surjection(S, 1 .. n)
  <2> HIDE DEF c
  <2> QED
    BY <1>3, <1>4, FS_Injection
<1>6. \A i \in 1 .. n : \E d \in S : c[d] = i
  BY <1>5 DEF Surjection
<1> QED
  BY <1>1, <1>2, <1>6

LEMMA InOrderIsAll ==
  ASSUME NEW S \in SUBSET Dtos
  PROVE  /\ InOrder(S) \in Seq(Dtos)
         /\ \A d \in S : \E i \in DOMAIN InOrder(S) : InOrder(S)[i] = d
<1> DEFINE n == Cardinality(S)
<1>1. /\ n \in Nat
      /\ \A d \in S : Cardinality(S \cap 1 .. d) \in 1 .. n
      /\ \A i \in 1 .. n : \E d \in S : Cardinality(S \cap 1 .. d) = i
  BY RanksAreAll
<1>2. \A i \in 1 .. n : /\ InOrder(S)[i] \in S
                        /\ Cardinality(S \cap 1 .. (InOrder(S)[i])) = i
  BY <1>1 DEF InOrder
<1>3. InOrder(S) \in [1 .. n -> Dtos]
  BY <1>2 DEF InOrder
<1>4. ASSUME NEW d \in S PROVE \E i \in DOMAIN InOrder(S) : InOrder(S)[i] = d
  <2> DEFINE i == Cardinality(S \cap 1 .. d)
             e == InOrder(S)[i]
  <2>1. i \in 1 .. n /\ e \in S /\ Cardinality(S \cap 1 .. e) = i
    BY <1>1, <1>2
  <2>2. d \in Nat /\ e \in Nat
    BY <2>1, DtosFinite
  <2>3. e = d
    <3> HIDE DEF e
    <3>1. d =< e \/ e =< d
      BY <2>2
    <3> QED
      BY <2>1, <3>1, RankInjective
  <2> QED
    BY <1>3, <2>1, <2>3
<1> QED
  BY <1>1, <1>3, <1>4, SeqDef

-----------------------------------------------------------------------------
(* The host's score.                                                         *)

(* A list that is scored FIXED is complete and passed on security.             *)
LEMMA FixedIsSound ==
  ASSUME NEW graded \in Lists0 \cup {<<>>}, HostScore(graded) = "FIXED"
  PROVE  graded # <<>> /\ SoundList(graded)
<1>1. graded # <<>> /\ ScoreFix(graded) = "FIXED"
  BY DEF HostScore
<1>2. EngineScore(graded) = "FIXED"
  BY <1>1 DEF ScoreFix
<1>3. ~Misshapen(graded) /\ ~Unevaluated(graded) /\ Capped(graded) = "FIXED"
  BY <1>2 DEF EngineScore
<1>4. ~NotClean(graded)
  <2>1. CASE RawScore(graded) >= FixedFrom /\ ~NotClean(graded)
    BY <2>1
  <2>2. CASE ~(RawScore(graded) >= FixedFrom /\ ~NotClean(graded)) /\ RawScore(graded) >= PartialFrom
    BY <1>3, <2>2 DEF Capped
  <2>3. CASE ~(RawScore(graded) >= FixedFrom /\ ~NotClean(graded)) /\ ~(RawScore(graded) >= PartialFrom)
    BY <1>3, <2>3 DEF Capped
  <2> QED
    BY <2>1, <2>2, <2>3
<1>5. Names(graded) = Gate
  BY <1>3 DEF Misshapen
<1>6. ASSUME NEW g \in Critical PROVE StatusIn(graded, g) = "pass"
  <2>1. \E i \in DOMAIN graded : graded[i].name = g
    BY <1>5, ScoreAssumption DEF Names
  <2>2. StatusIn(graded, g) \in GateStatus
    BY <1>1, <2>1, ValidationAssumption DEF StatusIn
  <2> QED
    BY <1>3, <1>4, <2>2 DEF Unevaluated, NotClean, GateStatus
<1> QED
  BY <1>1, <1>5, <1>6 DEF SoundList

LEMMA ScoreTyped ==
  ASSUME NEW graded
  PROVE  HostScore(graded) \in Verdict \cup {"raises"}
<1>1. Capped(graded) \in Verdict
  BY DEF Capped, Verdict
<1> QED
  BY <1>1 DEF HostScore, ScoreFix, EngineScore, Verdict

-----------------------------------------------------------------------------
(* Every step keeps the invariant.                                           *)

(* What is left of the queue when its first report is done with.             *)
LEMMA RestOfQueue ==
  ASSUME ValInv, queue # <<>>
  PROVE  /\ report \in Dtos /\ IdOf[report] \in Ids /\ Tail(queue) \in Seq(Dtos)
         /\ \A d : Queued(d) => d = report \/ \E i \in DOMAIN Tail(queue) : Tail(queue)[i] = d
<1>1. queue \in Seq(Dtos)
  BY DEF ValInv, ValTypeOK
<1>2. /\ Head(queue) \in Dtos /\ Tail(queue) \in Seq(Dtos)
      /\ Len(Tail(queue)) = Len(queue) - 1
      /\ \A i \in 1 .. Len(Tail(queue)) : Tail(queue)[i] = queue[i + 1]
  BY <1>1, HeadTailProperties
<1>3. Head(queue) = queue[1] /\ Len(queue) \in Nat /\ DOMAIN queue = 1 .. Len(queue)
  BY <1>1
<1>4. ASSUME NEW d, NEW i \in DOMAIN queue, queue[i] = d, d # report
      PROVE  \E j \in DOMAIN Tail(queue) : Tail(queue)[j] = d
  <2>1. i # 1 /\ i \in 1 .. Len(queue)
    BY <1>3, <1>4 DEF report
  <2>2. i - 1 \in 1 .. Len(Tail(queue)) /\ (i - 1) + 1 = i
    BY <1>2, <1>3, <2>1
  <2>3. Tail(queue)[i - 1] = d
    BY <1>2, <1>4, <2>2
  <2>4. DOMAIN Tail(queue) = 1 .. Len(Tail(queue))
    BY <1>2
  <2> QED
    BY <2>2, <2>3, <2>4
<1>5. IdOf[report] \in Ids
  BY <1>2, ValidationAssumption DEF report, Ids, Range
<1> QED
  BY <1>2, <1>4, <1>5 DEF report, Queued

(* A run that is over covers nothing.                                        *)
LEMMA RunOverSound ==
  ASSUME ValInv, at' = "idle", queue' \in Seq(Dtos), queue' = <<>>,
         wrote'.list \in Lists0 \cup {<<>>}, wrote'.first \in Ids \cup {Blank, "nothing"},
         chosen' = {}, reuse' \in BOOLEAN, failed' \in BOOLEAN,
         UNCHANGED <<dto, verdicts, written, sessions>>,
         says' \in Result, faults' \in 0 .. MaxFaults
  PROVE  ValInv'
<1>1. ValTypeOK'
  BY DEF ValInv, ValTypeOK
<1>2. SessionShape'
  BY DEF ValInv, SessionShape, InSession
<1> QED
  BY <1>1, <1>2 DEF ValInv, ValidatedIsScored, Covered, JudgedIsKept

LEMMA UnwindSound ==
  ASSUME ValInv, Unwind, says' \in Result, faults' \in 0 .. MaxFaults
  PROVE  ValInv'
<1>1. reuse' \in BOOLEAN /\ failed' \in BOOLEAN
  BY DEF Unwind
<1>2. queue' \in Seq(Dtos) /\ queue' = <<>>
  BY DEF Unwind
<1>3. wrote'.list = <<>> /\ wrote'.first = "nothing"
  BY DEF Unwind, Nothing
<1> QED
  BY <1>1, <1>2, <1>3, RunOverSound DEF Unwind

LEMMA StartSound ==
  ASSUME ValInv, at = "idle", NEW S \in SUBSET Dtos, NEW r \in BOOLEAN, Start(S, r)
  PROVE  ValInv'
<1>1. queue' \in Seq(Dtos) /\ \A d \in S : \E i \in DOMAIN queue' : queue'[i] = d
  BY InOrderIsAll DEF Start
<1>2. reuse' \in BOOLEAN /\ failed' \in BOOLEAN
  BY DEF Start
<1>3. ValTypeOK'
  BY <1>1, <1>2 DEF Start, ValInv, ValTypeOK, Result
<1>4. SessionShape'
  BY DEF Start, ValInv, SessionShape, InSession
<1>5. Covered'
  BY <1>1 DEF Start, Covered, Queued
<1> QED
  BY <1>3, <1>4, <1>5 DEF Start, ValInv, ValidatedIsScored, JudgedIsKept

(* A report is left behind: it has a verdict, or the run will return 1, or   *)
(* verdicts are reused.                                                      *)
LEMMA LeaveSound ==
  ASSUME ValInv, queue # <<>>, at # "idle", NEW result, Leave(result),
         HasVerdict(report) \/ Counts(result) \/ reuse,
         wrote'.list \in Lists0 \cup {<<>>}, wrote'.first \in Ids \cup {Blank, "nothing"},
         says' \in Result,
         \A i \in DOMAIN verdicts' : i \in Ids /\ verdicts'[i].of \in Ids \cup {Blank},
         UNCHANGED <<dto, written, reuse, chosen, sessions, faults>>
  PROVE  ValInv'
<1>1. queue' \in Seq(Dtos) /\ queue' = Tail(queue) /\ at' = "next"
  BY RestOfQueue DEF Leave
<1>2. failed' \in BOOLEAN
  BY DEF Leave, Counts, ValInv, ValTypeOK
<1>3. ValTypeOK'
  BY <1>1, <1>2 DEF ValInv, ValTypeOK
<1>4. SessionShape'
  BY <1>1 DEF ValInv, SessionShape, InSession
<1>5. Covered'
  <2> SUFFICES ASSUME ~failed', ~reuse', NEW d \in chosen PROVE Queued(d)' \/ HasVerdict(d)'
    BY DEF Covered
  <2>1. ~failed /\ ~reuse /\ ~Counts(result)
    BY DEF Leave
  <2>2. HasVerdict(d) \/ Queued(d)
    BY <2>1 DEF ValInv, Covered
  <2>3. HasVerdict(d) \/ \E i \in DOMAIN Tail(queue) : Tail(queue)[i] = d
    BY <2>1, <2>2, RestOfQueue
  <2> QED
    BY <1>1, <2>3 DEF Queued, HasVerdict
<1> QED
  BY <1>1, <1>3, <1>4, <1>5 DEF ValInv, ValidatedIsScored, JudgedIsKept

(* The verdict that is written is of the finding's own gates, and rests on   *)
(* the patch that the report holds.                                          *)
LEMMA ReportWritten ==
  ASSUME ValInv, Write
  PROVE  ValInv'
<1> DEFINE i == IdOf[report]
           score == IF GatesOf(i) = <<>> THEN NoScore
                    ELSE [of |-> i, patch |-> dto[report].patch, sound |-> SoundList(wrote.list)]
           status == StatusOf(WriteBack)
<1>1. /\ queue # <<>> /\ report \in Dtos /\ i \in Ids
      /\ at' = "kept" /\ WriteBack \in Verdict
      /\ UNCHANGED <<verdicts, written, queue, reuse, wrote, says, chosen, failed, sessions, faults>>
  BY RestOfQueue, ScoreTyped DEF Write, WriteBack, ValInv, SessionShape, InSession
<1>2. dto' = [dto EXCEPT ![report].status = status, ![report].score = score]
  BY DEF Write
<1>3. status \in DtoStatus \ {"awaiting_validation"}
  BY DEF StatusOf, DtoStatus, Validatable
<1>4. SoundList(wrote.list) \in BOOLEAN
  BY DEF SoundList
<1>5. score \in [of : Ids \cup {"none"}, patch : 0 .. MaxPatches, sound : BOOLEAN]
  <2>1. dto[report].patch \in 0 .. MaxPatches
    BY <1>1 DEF ValInv, SessionShape
  <2>2. NoScore \in [of : Ids \cup {"none"}, patch : 0 .. MaxPatches, sound : BOOLEAN]
    BY ValidationAssumption DEF NoScore
  <2> QED
    BY <1>1, <1>4, <2>1, <2>2
<1>6. status = "validated" => score = [of |-> i, patch |-> dto[report].patch, sound |-> TRUE]
  <2> SUFFICES ASSUME status = "validated"
               PROVE  score = [of |-> i, patch |-> dto[report].patch, sound |-> TRUE]
    OBVIOUS
  <2>1. WriteBack = "FIXED"
    BY <1>1 DEF StatusOf, Verdict
  <2>2. GatesOf(i) \in Lists0 \cup {<<>>}
    BY DEF GatesOf, ValInv, ValTypeOK
  <2>3. GatesOf(i) # <<>> /\ SoundList(GatesOf(i))
    BY <2>1, <2>2, FixedIsSound DEF WriteBack
  <2>4. GatesOf(i) = wrote.list
    BY <2>3 DEF GatesOf
  <2>5. SoundList(wrote.list) = TRUE
    BY <1>4, <2>3, <2>4
  <2> QED
    BY <2>3, <2>5
<1> HIDE DEF i, score, status
<1>7. /\ \A d \in Dtos \ {report} : dto'[d] = dto[d]
      /\ dto'[report] = [dto[report] EXCEPT !.status = status, !.score = score]
      /\ dto' \in [Dtos -> [status : DtoStatus, patch : 0 .. MaxPatches,
                             score : [of : Ids \cup {"none"}, patch : 0 .. MaxPatches,
                                      sound : BOOLEAN]]]
  <2>1. dto \in [Dtos -> [status : DtoStatus, patch : 0 .. MaxPatches,
                           score : [of : Ids \cup {"none"}, patch : 0 .. MaxPatches, sound : BOOLEAN]]]
    BY DEF ValInv, SessionShape
  <2>2. /\ \A d \in Dtos \ {report} : dto'[d] = dto[d]
        /\ dto'[report] = [dto[report] EXCEPT !.status = status, !.score = score]
    BY <1>1, <1>2, <2>1
  <2>3. status \in DtoStatus
    BY <1>3
  <2>4. dto'[report] \in [status : DtoStatus, patch : 0 .. MaxPatches,
                          score : [of : Ids \cup {"none"}, patch : 0 .. MaxPatches, sound : BOOLEAN]]
    BY <1>1, <1>5, <2>1, <2>2, <2>3
  <2>5. \A d \in Dtos : dto'[d] \in [status : DtoStatus, patch : 0 .. MaxPatches,
                                      score : [of : Ids \cup {"none"}, patch : 0 .. MaxPatches, sound : BOOLEAN]]
    BY <2>1, <2>2, <2>4
  <2>6. dto' = [d \in Dtos |-> dto'[d]]
    BY <1>2, <2>1
  <2> QED
    BY <2>2, <2>5, <2>6
<1>8. /\ dto'[report].status = status /\ dto'[report].score = score
      /\ dto'[report].patch = dto[report].patch
  BY <1>1, <1>7 DEF ValInv, SessionShape
<1>9. ValTypeOK'
  BY <1>1, <1>7 DEF ValInv, ValTypeOK
<1>10. ValidatedIsScored'
  <2> SUFFICES ASSUME NEW d \in Dtos, dto'[d].status = "validated"
               PROVE  dto'[d].score = [of |-> IdOf[d], patch |-> dto'[d].patch, sound |-> TRUE]
    BY DEF ValidatedIsScored
  <2>1. CASE d = report
    BY <1>6, <1>8, <2>1 DEF i
  <2>2. CASE d # report
    BY <1>7, <2>2 DEF ValInv, ValidatedIsScored
  <2> QED
    BY <2>1, <2>2
<1>11. report' = report /\ HasVerdict(report)' /\ \A d \in Dtos : HasVerdict(d) => HasVerdict(d)'
  BY <1>1, <1>3, <1>7, <1>8 DEF HasVerdict, report
<1>12. Covered' /\ JudgedIsKept'
  BY <1>1, <1>11 DEF Write, ValInv, Covered, JudgedIsKept, Queued, ValTypeOK
<1>13. SessionShape'
  BY <1>1, <1>7 DEF ValInv, SessionShape, InSession
<1> QED
  BY <1>9, <1>10, <1>12, <1>13 DEF ValInv

LEMMA CorrectedSound ==
  ASSUME ValInv, NEW d \in Dtos, Corrected(d)
  PROVE  ValInv'
<1> DEFINE new == [status |-> "awaiting_validation", patch |-> dto[d].patch + 1, score |-> NoScore]
           Typed == [status : DtoStatus, patch : 0 .. MaxPatches,
                     score : [of : Ids \cup {"none"}, patch : 0 .. MaxPatches, sound : BOOLEAN]]
<1>1. dto[d].patch + 1 \in 0 .. MaxPatches
  BY ValidationAssumption DEF Corrected, ValInv, ValTypeOK
<1>2. NoScore \in [of : Ids \cup {"none"}, patch : 0 .. MaxPatches, sound : BOOLEAN]
  BY ValidationAssumption DEF NoScore
<1>3. new \in Typed
  BY <1>1, <1>2 DEF DtoStatus, Validatable
<1>4. dto' = [dto EXCEPT ![d] = new] /\ new.status # "validated"
  BY DEF Corrected
<1>5. dto' \in [Dtos -> Typed] /\ \A e \in Dtos : dto'[e] = dto[e] \/ dto'[e] = new
  <2> HIDE DEF new, Typed
  <2>1. dto \in [Dtos -> Typed]
    BY DEF ValInv, SessionShape, Typed
  <2> QED
    BY <1>3, <1>4, <2>1
<1>6. /\ at = "idle" /\ at' = "idle"
      /\ UNCHANGED <<verdicts, written, queue, reuse, wrote, says, chosen, failed, sessions, faults>>
  BY DEF Corrected
<1>7. ValTypeOK'
  BY <1>5, <1>6 DEF ValInv, ValTypeOK
<1>8. ValidatedIsScored'
  <2> SUFFICES ASSUME NEW e \in Dtos, dto'[e].status = "validated"
               PROVE  dto'[e].score = [of |-> IdOf[e], patch |-> dto'[e].patch, sound |-> TRUE]
    BY DEF ValidatedIsScored
  <2>1. dto'[e] = dto[e]
    BY <1>4, <1>5
  <2> QED
    BY <2>1 DEF ValInv, ValidatedIsScored
<1>9. SessionShape' /\ Covered' /\ JudgedIsKept'
  BY <1>5, <1>6 DEF ValInv, SessionShape, InSession, Covered, JudgedIsKept
<1> QED
  BY <1>7, <1>8, <1>9 DEF ValInv

(* A step within a session: neither the reports nor the queue change.        *)
LEMMA SessionSound ==
  ASSUME ValInv, queue # <<>>, at # "idle", at' \in {"staged", "ended", "scored"},
         UNCHANGED <<dto, verdicts, queue, reuse, chosen, failed>>,
         written' \subseteq Root,
         wrote'.list \in Lists0 \cup {<<>>}, wrote'.first \in Ids \cup {Blank, "nothing"},
         says' \in Result, sessions' \in 0 .. MaxSessions, faults' \in 0 .. MaxFaults
  PROVE  ValInv'
<1>1. ValTypeOK'
  BY DEF ValInv, ValTypeOK
<1>2. SessionShape'
  BY DEF ValInv, SessionShape, InSession
<1>3. Covered'
  BY DEF ValInv, Covered, Queued, HasVerdict
<1> QED
  BY <1>1, <1>2, <1>3 DEF ValInv, ValidatedIsScored, JudgedIsKept

LEMMA Fault == ValInv /\ faults < MaxFaults => faults + 1 \in 0 .. MaxFaults
  BY ValidationAssumption DEF ValInv, ValTypeOK

LEMMA ValInductive == ValInv /\ [ValNext]_valVars => ValInv'
<1> SUFFICES ASSUME ValInv, [ValNext]_valVars PROVE ValInv'
  OBVIOUS
<1>1. ASSUME NEW r \in BOOLEAN, ValidateAll(r) PROVE ValInv'
  <2>1. CanBe \in SUBSET Dtos
    BY DEF CanBe
  <2> QED
    BY <1>1, <2>1, StartSound DEF ValidateAll, Start
<1>2. ASSUME NEW r \in BOOLEAN, NEW ids \in SUBSET Ids, ValidateThese(ids, r) PROVE ValInv'
  <2>1. ById(ids) \in SUBSET Dtos
    BY DEF ById
  <2> QED
    BY <1>2, <2>1, StartSound DEF ValidateThese, Start
<1>3. CASE Reuse
  <2>1. says \in Result /\ queue # <<>> /\ reuse /\ at # "idle"
    BY <1>3 DEF Reuse, Hit, ValInv, ValTypeOK
  <2> QED
    BY <1>3, <2>1, LeaveSound DEF Reuse, ValInv, ValTypeOK, SessionShape
<1>4. CASE RefuseReport
  BY <1>4, LeaveSound DEF RefuseReport, Counts, ValInv, ValTypeOK, SessionShape
<1>5. CASE StageWorkspace
  <2>1. sessions' \in 0 .. MaxSessions
    BY <1>5, ValidationAssumption DEF StageWorkspace, ValInv, ValTypeOK
  <2>2. wrote'.list = <<>> /\ wrote'.first = "nothing" /\ says' \in Result
    BY <1>5 DEF StageWorkspace, Nothing, Result
  <2>3. faults' \in 0 .. MaxFaults
    BY <1>5 DEF StageWorkspace, ValInv, ValTypeOK
  <2> QED
    BY <1>5, <2>1, <2>2, <2>3, SessionSound DEF StageWorkspace
<1>6. CASE StageRaises \/ LaunchRaises \/ KillValidation
  <2>1. Unwind /\ UNCHANGED says /\ faults' = faults + 1 /\ faults < MaxFaults
    BY <1>6 DEF StageRaises, LaunchRaises, KillValidation
  <2> QED
    BY <2>1, Fault, UnwindSound DEF ValInv, ValTypeOK
<1>7. ASSUME NEW graded \in Lists0 \cup {<<>>}, NEW of \in SUBSET Ids \cup {{Blank}},
             NEW first \in Ids \cup {Blank, "nothing"}, NEW ok \in BOOLEAN,
             Session(graded, of, first, ok)
      PROVE  ValInv'
  <2>1. queue # <<>> /\ at # "idle"
    BY <1>7 DEF Session, ValInv, SessionShape, InSession
  <2>2. wrote'.list = graded /\ wrote'.first = first
    BY <1>7 DEF Session
  <2>3. says' \in Result
    BY <1>7 DEF Session, Result
  <2>4. faults' \in 0 .. MaxFaults
    BY <1>7, Fault DEF Session, ValInv, ValTypeOK
  <2>5. written' \subseteq Root /\ sessions' \in 0 .. MaxSessions
    BY <1>7 DEF Session, ValInv, ValTypeOK
  <2> QED
    BY <1>7, <2>1, <2>2, <2>3, <2>4, <2>5, SessionSound DEF Session
<1>8. CASE Collect
  <2>1. queue # <<>> /\ at # "idle"
    BY <1>8 DEF Collect, ValInv, SessionShape, InSession
  <2>2. says' \in Result
    BY <1>8, ScoreTyped DEF Collect, Collected, Result
  <2> QED
    BY <1>8, <2>1, <2>2, SessionSound DEF Collect, ValInv, ValTypeOK, SessionShape
<1>9. CASE CollectRaises \/ WriteRaises
  <2>1. Unwind /\ says' = "raises" /\ UNCHANGED faults
    BY <1>9 DEF CollectRaises, WriteRaises
  <2> QED
    BY <2>1, UnwindSound DEF Result, ValInv, ValTypeOK
<1>10. CASE Write
  BY <1>10, ReportWritten
<1>11. CASE SaveVerdict
  <2>1. queue # <<>> /\ at # "idle" /\ HasVerdict(report)
    BY <1>11 DEF SaveVerdict, ValInv, SessionShape, InSession, JudgedIsKept
  <2>2. NameOfResult \in Ids \cup {Blank}
    BY <2>1, RestOfQueue DEF NameOfResult, ValInv, SessionShape
  <2>3. \A i \in DOMAIN verdicts' : i \in Ids /\ verdicts'[i].of \in Ids \cup {Blank}
    BY <1>11, <2>1, <2>2, RestOfQueue DEF SaveVerdict, ValInv, ValTypeOK
  <2>4. wrote'.list = <<>> /\ wrote'.first = "nothing" /\ says' \in Result
    BY <1>11 DEF SaveVerdict, Nothing, Result
  <2> QED
    BY <1>11, <2>1, <2>3, <2>4, LeaveSound DEF SaveVerdict
<1>12. CASE EndValidation
  <2>1. reuse' \in BOOLEAN /\ failed' \in BOOLEAN
    BY <1>12 DEF EndValidation
  <2> QED
    BY <1>12, <2>1, RunOverSound DEF EndValidation, ValInv, ValTypeOK, SessionShape
<1>13. ASSUME NEW d \in Dtos, Corrected(d) PROVE ValInv'
  BY <1>13, CorrectedSound
<1>14. CASE UNCHANGED valVars
  <2>1. ValTypeOK' /\ SessionShape'
    BY <1>14 DEF valVars, ValInv, ValTypeOK, SessionShape, InSession
  <2>2. ValidatedIsScored' /\ Covered' /\ JudgedIsKept'
    BY <1>14 DEF valVars, ValInv, ValidatedIsScored, Covered, JudgedIsKept, Queued, HasVerdict, report
  <2> QED
    BY <2>1, <2>2 DEF ValInv
<1> QED
  BY <1>1, <1>2, <1>3, <1>4, <1>5, <1>6, <1>7, <1>8, <1>9, <1>10, <1>11, <1>12, <1>13, <1>14
  DEF ValNext

LEMMA ValInitially == ValInit => ValInv
<1> SUFFICES ASSUME ValInit PROVE ValInv
  OBVIOUS
<1>1. reuse \in BOOLEAN /\ failed \in BOOLEAN
  BY DEF ValInit
<1>2. wrote.list = <<>> /\ wrote.first = "nothing"
  BY DEF ValInit, Nothing
<1>3. NoScore \in [of : Ids \cup {"none"}, patch : 0 .. MaxPatches, sound : BOOLEAN]
  BY ValidationAssumption DEF NoScore
<1>4. DOMAIN verdicts = {} /\ queue \in Seq(Dtos)
  BY DEF ValInit
<1>5. ValTypeOK
  BY <1>1, <1>2, <1>3, <1>4, ValidationAssumption
  DEF ValInit, ValTypeOK, DtoStatus, Validatable, Result
<1>6. SessionShape
  BY <1>2, <1>3, ValidationAssumption DEF ValInit, SessionShape, InSession, DtoStatus, Validatable
<1> QED
  BY <1>5, <1>6 DEF ValInit, ValInv, ValidatedIsScored, Covered, JudgedIsKept

LEMMA ValInvariant == ValSpec => []ValInv
  BY ValInitially, ValInductive, PTL DEF ValSpec

(* The reports, the checkpoints and the run keep their types.                *)
THEOREM ValidationTyped == ValSpec => []ValTypeOK
<1>1. ValInv => ValTypeOK
  BY DEF ValInv
<1> QED
  BY <1>1, ValInvariant, PTL

(* No report is validated but on a complete list of its own gates, security *)
(* passed, for the patch it holds, whatever the agent wrote and for any      *)
(* weights and thresholds (dto_writeback.py:127-146, _engine.py:140-175).    *)
THEOREM ValidatedHasScore == ValSpec => []ValidatedIsScored
<1>1. ValInv => ValidatedIsScored
  BY DEF ValInv
<1> QED
  BY <1>1, ValInvariant, PTL

(* A run that returns 0 without reusing verdicts has judged every report     *)
(* that it selected (cli/_run.py:170-189).                                   *)
THEOREM CleanExitHasJudged == ValSpec => []CleanExit
<1>1. ValInv => CleanExit
  BY DEF ValInv, Covered, CleanExit, Queued, HasVerdict
<1> QED
  BY <1>1, ValInvariant, PTL

-----------------------------------------------------------------------------
(* The report.  What a combined report has under the i-th of n headings;     *)
(* tailed says whether the scan wrote something after the last finding.      *)
Level == {"tail", "summary"}

SegmentOK(i, n, tailed, s) ==
  /\ 1 <= Len(s) /\ IsHeading(s[1]) /\ s[1].of = i
  /\ \A j \in 2 .. Len(s) :
       /\ s[j].is \in {"rem", "val", "tail", "summary"}
       /\ s[j].is \in Level => i = n
       /\ s[j].is = "summary" => j = Len(s)
  /\ \A j, k \in 2 .. Len(s) :
       /\ s[j].is = s[k].is => j = k
       /\ s[j].is = "val" /\ s[k].is \in Level => j < k
       /\ s[j].is = "tail" /\ s[k].is = "rem" => j < k
  /\ (i = n /\ tailed) <=> \E j \in 2 .. Len(s) : s[j].is = "tail"

Has(s, kind) == \E j \in 2 .. Len(s) : s[j].is = kind

(* What is kept of a segment is its beginning.                               *)
LEMMA BeforeIs ==
  ASSUME NEW T, NEW s \in Seq(T), NEW kind
  PROVE  \E c \in 0 .. Len(s) :
           /\ Before(kind, s) = SubSeq(s, 1, c)
           /\ \A j \in 1 .. c : s[j].is # kind
           /\ c # Len(s) => s[c + 1].is = kind
<1> DEFINE cut == {k \in DOMAIN s : s[k].is = kind}
<1>1. Len(s) \in Nat /\ DOMAIN s = 1 .. Len(s)
  OBVIOUS
<1>2. CASE cut = {}
  <2>1. Before(kind, s) = s
    BY <1>2 DEF Before
  <2>2. s = SubSeq(s, 1, Len(s))
    BY <1>1
  <2>3. \A j \in 1 .. Len(s) : s[j].is # kind
    BY <1>1, <1>2
  <2>4. Len(s) \in 0 .. Len(s)
    BY <1>1
  <2> QED
    BY <2>1, <2>2, <2>3, <2>4
<1>3. CASE cut # {}
  <2>1. cut \in SUBSET Nat
    BY <1>1
  <2>2. Min(cut) \in cut /\ \A k \in cut : Min(cut) <= k
    <3>1. PICK k \in cut : \A j \in cut : k <= j
      BY <1>3, <2>1, Smallest
    <3> HIDE DEF cut
    <3> QED
      BY <3>1 DEF Min
  <2>3. Before(kind, s) = SubSeq(s, 1, Min(cut) - 1)
    BY <1>3 DEF Before
  <2> DEFINE c == Min(cut) - 1
  <2>4. c \in 0 .. Len(s) /\ c + 1 = Min(cut) /\ c \in Nat
    BY <1>1, <2>2
  <2>5. \A j \in 1 .. c : s[j].is # kind
    <3> TAKE j \in 1 .. c
    <3>1. j \in DOMAIN s /\ ~(Min(cut) <= j)
      BY <1>1, <2>2, <2>4
    <3> QED
      BY <2>2, <3>1
  <2>6. s[c + 1].is = kind
    BY <2>2, <2>4
  <2> QED
    BY <2>3, <2>4, <2>5, <2>6
<1> QED
  BY <1>2, <1>3

(* The beginning of a list and one more.                                     *)
LEMMA CutAndAdd ==
  ASSUME NEW T, NEW s \in Seq(T), NEW c \in 0 .. Len(s), NEW b \in T
  PROVE  /\ SubSeq(s, 1, c) \o <<b>> \in Seq(T) /\ Len(SubSeq(s, 1, c) \o <<b>>) = c + 1
         /\ \A j \in 1 .. c : (SubSeq(s, 1, c) \o <<b>>)[j] = s[j]
         /\ (SubSeq(s, 1, c) \o <<b>>)[c + 1] = b
<1>1. Len(s) \in Nat /\ c \in Nat
  OBVIOUS
<1>2. SubSeq(s, 1, c) \in Seq(T) /\ Len(SubSeq(s, 1, c)) = c /\ \A j \in 1 .. c : SubSeq(s, 1, c)[j] = s[j]
  BY <1>1
<1>3. <<b>> \in Seq(T) /\ Len(<<b>>) = 1 /\ <<b>>[1] = b
  OBVIOUS
<1> QED
  BY <1>1, <1>2, <1>3

LEMMA RemediationGoesIn ==
  ASSUME NEW T, NEW s \in Seq(T), NEW i, NEW n, NEW tailed \in BOOLEAN, SegmentOK(i, n, tailed, s),
         \A j \in 2 .. Len(s) : s[j].is # "summary",
         NEW b \in T, b.is = "rem"
  PROVE  LET to == Before("rem", s) \o <<b>>
         IN /\ to \in Seq(T) /\ SegmentOK(i, n, tailed, to) /\ Has(to, "rem")
            /\ \A j \in 2 .. Len(to) : to[j].is # "summary"
<1> DEFINE to == Before("rem", s) \o <<b>>
<1>1. PICK c \in 0 .. Len(s) :
        /\ Before("rem", s) = SubSeq(s, 1, c)
        /\ \A j \in 1 .. c : s[j].is # "rem"
        /\ c # Len(s) => s[c + 1].is = "rem"
  BY BeforeIs
<1>2. to = SubSeq(s, 1, c) \o <<b>>
  BY <1>1
<1>3. /\ to \in Seq(T) /\ Len(to) = c + 1 /\ to[c + 1] = b
      /\ \A j \in 1 .. c : to[j] = s[j]
  <2>1. /\ SubSeq(s, 1, c) \o <<b>> \in Seq(T) /\ Len(SubSeq(s, 1, c) \o <<b>>) = c + 1
        /\ \A j \in 1 .. c : (SubSeq(s, 1, c) \o <<b>>)[j] = s[j]
        /\ (SubSeq(s, 1, c) \o <<b>>)[c + 1] = b
    BY CutAndAdd
  <2> HIDE DEF to
  <2> QED
    BY <1>2, <2>1
<1> HIDE DEF to
<1>4. c \in Nat /\ Len(s) \in Nat /\ 1 <= Len(s) /\ c <= Len(s)
  BY DEF SegmentOK
<1>5. c >= 1
  <2>1. s[1].is \in {"heading", "marked"}
    BY DEF SegmentOK, IsHeading
  <2>2. ASSUME c = 0 PROVE FALSE
    <3>1. s[1].is = "rem"
      BY <1>1, <1>4, <2>2
    <3> QED
      BY <2>1, <3>1
  <2> QED
    BY <1>4, <2>2
<1>6. /\ c + 1 \in 2 .. (c + 1)
      /\ \A j \in 2 .. (c + 1) : j = c + 1 \/ (j \in 2 .. Len(s) /\ j \in 1 .. c /\ j # c + 1)
  BY <1>4, <1>5
<1>7. to[1] = s[1]
  BY <1>3, <1>4, <1>5
<1>8. \A j \in 2 .. (c + 1) : j # c + 1 => to[j] = s[j] /\ s[j].is # "rem" /\ j \in 2 .. Len(s)
  BY <1>1, <1>3, <1>6
<1>9. \A j \in 2 .. (c + 1) : /\ to[j].is \in {"rem", "val", "tail", "summary"}
                              /\ to[j].is \in Level => i = n
                              /\ to[j].is # "summary"
  BY <1>3, <1>6, <1>8 DEF SegmentOK, Level
<1>10. \A j, k \in 2 .. (c + 1) :
         /\ to[j].is = to[k].is => j = k
         /\ to[j].is = "val" /\ to[k].is \in Level => j < k
         /\ to[j].is = "tail" /\ to[k].is = "rem" => j < k
  <2> SUFFICES ASSUME NEW j \in 2 .. (c + 1), NEW k \in 2 .. (c + 1)
               PROVE  /\ to[j].is = to[k].is => j = k
                      /\ to[j].is = "val" /\ to[k].is \in Level => j < k
                      /\ to[j].is = "tail" /\ to[k].is = "rem" => j < k
    OBVIOUS
  <2>1. CASE j = c + 1
    BY <1>3, <1>8, <2>1 DEF Level
  <2>2. CASE j # c + 1 /\ k = c + 1
    <3>1. j < k
      BY <1>4, <2>2
    <3> QED
      BY <1>3, <1>8, <2>2, <3>1 DEF Level
  <2>3. CASE j # c + 1 /\ k # c + 1
    <3>1. /\ to[j] = s[j] /\ j \in 2 .. Len(s)
          /\ to[k] = s[k] /\ k \in 2 .. Len(s)
      BY <1>8, <2>3
    <3> QED
      BY <3>1 DEF SegmentOK
  <2> QED
    BY <2>1, <2>2, <2>3
<1>11. (i = n /\ tailed) <=> \E j \in 2 .. (c + 1) : to[j].is = "tail"
  <2>1. (i = n /\ tailed) <=> \E j \in 2 .. Len(s) : s[j].is = "tail"
    BY DEF SegmentOK
  <2>2. ASSUME NEW j \in 2 .. Len(s), s[j].is = "tail" PROVE \E k \in 2 .. (c + 1) : to[k].is = "tail"
    <3>1. j \in 1 .. c
      <4>1. CASE c = Len(s)
        BY <1>4, <4>1
      <4>2. CASE c # Len(s)
        <5>1. c + 1 \in 2 .. Len(s)
          BY <1>4, <1>5, <4>2
        <5>2. j < c + 1
          BY <1>1, <2>2, <4>2, <5>1 DEF SegmentOK
        <5> QED
          BY <1>4, <5>2
      <4> QED
        BY <4>1, <4>2
    <3>2. to[j] = s[j] /\ j \in 2 .. (c + 1)
      BY <1>3, <1>4, <3>1
    <3> QED
      BY <2>2, <3>2
  <2>3. ASSUME NEW j \in 2 .. (c + 1), to[j].is = "tail" PROVE \E k \in 2 .. Len(s) : s[k].is = "tail"
    <3>1. j # c + 1
      BY <1>3, <2>3
    <3> QED
      BY <1>8, <2>3, <3>1
  <2> QED
    BY <2>1, <2>2, <2>3
<1>12. 1 <= Len(to)
  BY <1>3, <1>4
<1>13. SegmentOK(i, n, tailed, to)
  BY <1>3, <1>7, <1>9, <1>10, <1>11, <1>12 DEF SegmentOK
<1>14. Has(to, "rem")
  BY <1>3, <1>6 DEF Has
<1> QED
  BY <1>3, <1>9, <1>13, <1>14 DEF to

(* A Summary under the last heading, put there or taken away.                *)
LEMMA SummaryGoesIn ==
  ASSUME NEW T, NEW s \in Seq(T), NEW n, NEW tailed \in BOOLEAN, SegmentOK(n, n, tailed, s),
         \A j \in 2 .. Len(s) : s[j].is # "summary",
         NEW b \in T, b.is = "summary"
  PROVE  s \o <<b>> \in Seq(T) /\ SegmentOK(n, n, tailed, s \o <<b>>) /\ (Has(s, "rem") => Has(s \o <<b>>, "rem"))
<1> DEFINE to == s \o <<b>>
           c == Len(s)
<1>1. c \in Nat /\ 1 <= c
  BY DEF SegmentOK
<1>2. /\ to \in Seq(T) /\ Len(to) = c + 1 /\ to[c + 1] = b
      /\ \A j \in 1 .. c : to[j] = s[j]
  BY <1>1
<1> HIDE DEF to
<1>3. /\ c + 1 \in 2 .. (c + 1) /\ 1 \in 1 .. c
      /\ \A j \in 2 .. (c + 1) : j = c + 1 \/ (j \in 2 .. c /\ j \in 1 .. c /\ j < c + 1 /\ j # c + 1)
      /\ \A j \in 2 .. c : j \in 2 .. (c + 1) /\ j \in 1 .. c
  BY <1>1
<1>4. \A j \in 2 .. (c + 1) : j # c + 1 => to[j] = s[j] /\ j \in 2 .. Len(s) /\ j < c + 1
  BY <1>2, <1>3
<1>5. \A j \in 2 .. (c + 1) : /\ to[j].is \in {"rem", "val", "tail", "summary"}
                              /\ to[j].is = "summary" => j = c + 1
  BY <1>2, <1>4 DEF SegmentOK
<1>6. \A j, k \in 2 .. (c + 1) :
        /\ to[j].is = to[k].is => j = k
        /\ to[j].is = "val" /\ to[k].is \in Level => j < k
        /\ to[j].is = "tail" /\ to[k].is = "rem" => j < k
  <2> SUFFICES ASSUME NEW j \in 2 .. (c + 1), NEW k \in 2 .. (c + 1)
               PROVE  /\ to[j].is = to[k].is => j = k
                      /\ to[j].is = "val" /\ to[k].is \in Level => j < k
                      /\ to[j].is = "tail" /\ to[k].is = "rem" => j < k
    OBVIOUS
  <2>1. CASE j = c + 1
    BY <1>2, <1>5, <2>1, <1>4
  <2>2. CASE j # c + 1 /\ k = c + 1
    BY <1>2, <1>4, <2>2
  <2>3. CASE j # c + 1 /\ k # c + 1
    <3>1. /\ to[j] = s[j] /\ j \in 2 .. Len(s)
          /\ to[k] = s[k] /\ k \in 2 .. Len(s)
      BY <1>4, <2>3
    <3> QED
      BY <3>1 DEF SegmentOK
  <2> QED
    BY <2>1, <2>2, <2>3
<1>7. tailed <=> \E j \in 2 .. (c + 1) : to[j].is = "tail"
  <2>1. tailed <=> \E j \in 2 .. Len(s) : s[j].is = "tail"
    BY DEF SegmentOK
  <2> QED
    BY <1>2, <1>3, <1>4, <2>1
<1>8. to[1] = s[1] /\ 1 <= Len(to)
  BY <1>1, <1>2, <1>3
<1>9. SegmentOK(n, n, tailed, to)
  BY <1>2, <1>5, <1>6, <1>7, <1>8 DEF SegmentOK
<1>10. Has(s, "rem") => Has(to, "rem")
  BY <1>2, <1>3 DEF Has
<1> QED
  BY <1>2, <1>9, <1>10 DEF to

LEMMA SummaryComesOut ==
  ASSUME NEW T, NEW s \in Seq(T), NEW n, NEW tailed \in BOOLEAN, SegmentOK(n, n, tailed, s), Has(s, "summary")
  PROVE  LET to == SubSeq(s, 1, Len(s) - 1)
         IN /\ Len(s) >= 2 /\ s[Len(s)].is = "summary"
            /\ to \in Seq(T) /\ Len(to) = Len(s) - 1 /\ \A j \in 1 .. Len(s) - 1 : to[j] = s[j]
            /\ SegmentOK(n, n, tailed, to) /\ \A j \in 2 .. Len(to) : to[j].is # "summary"
<1> DEFINE c == Len(s) - 1
           to == SubSeq(s, 1, c)
<1>1. Len(s) \in Nat /\ 1 <= Len(s)
  BY DEF SegmentOK
<1>2. PICK m \in 2 .. Len(s) : s[m].is = "summary"
  BY DEF Has
<1>3. m = Len(s)
  BY <1>2 DEF SegmentOK
<1>4. /\ c \in Nat /\ c >= 1 /\ c <= Len(s) /\ c \in 0 .. Len(s) /\ Len(s) >= 2 /\ Len(s) \in 2 .. Len(s)
      /\ \A j \in 1 .. Len(s) - 1 : j \in 1 .. c
  BY <1>1, <1>3
<1>5. to \in Seq(T) /\ Len(to) = c /\ \A j \in 1 .. c : to[j] = s[j]
  BY <1>1, <1>4
<1>6. \A j \in 2 .. c : j \in 1 .. c /\ j \in 2 .. Len(s) /\ j # Len(s) /\ 1 \in 1 .. c
  BY <1>1, <1>4
<1>7. 1 \in 1 .. c
  BY <1>4
<1> HIDE DEF to, c
<1>8. \A j \in 2 .. c : to[j] = s[j] /\ s[j].is # "summary" /\ j \in 2 .. Len(s)
  BY <1>5, <1>6 DEF SegmentOK
<1>9. \A j \in 2 .. Len(s) : s[j].is = "tail" => j \in 2 .. c
  <2> TAKE j \in 2 .. Len(s)
  <2>1. HAVE s[j].is = "tail"
  <2>2. j # Len(s)
    BY <1>2, <1>3, <2>1
  <2> QED
    BY <1>1, <2>2 DEF c
<1>10. tailed <=> \E j \in 2 .. c : to[j].is = "tail"
  <2>1. tailed <=> \E j \in 2 .. Len(s) : s[j].is = "tail"
    BY DEF SegmentOK
  <2> QED
    BY <1>8, <1>9, <2>1
<1>11. /\ \A j \in 2 .. c : to[j].is \in {"rem", "val", "tail", "summary"} /\ to[j].is # "summary"
       /\ \A j, k \in 2 .. c :
            /\ to[j].is = to[k].is => j = k
            /\ to[j].is = "val" /\ to[k].is \in Level => j < k
            /\ to[j].is = "tail" /\ to[k].is = "rem" => j < k
  BY <1>8 DEF SegmentOK
<1>12. to[1] = s[1]
  BY <1>5, <1>7
<1>13. SegmentOK(n, n, tailed, to)
  BY <1>4, <1>5, <1>10, <1>11, <1>12 DEF SegmentOK
<1> QED
  BY <1>2, <1>3, <1>4, <1>5, <1>11, <1>13 DEF to, c

(* A verdict goes in before the sections of the report: what is above them   *)
(* ends at cut.                                                              *)
LEMMA ValidationGoesIn ==
  ASSUME NEW T, NEW s \in Seq(T), NEW i, NEW n, NEW tailed \in BOOLEAN, SegmentOK(i, n, tailed, s),
         NEW cut \in 1 .. Len(s),
         \A j \in 2 .. Len(s) : s[j].is \in Level => cut < j,
         cut # Len(s) => cut + 1 \in 2 .. Len(s) /\ s[cut + 1].is \in Level,
         NEW b \in T, b.is = "val"
  PROVE  LET to == (Before("val", SubSeq(s, 1, cut)) \o <<b>>) \o SubSeq(s, cut + 1, Len(s))
         IN /\ to \in Seq(T) /\ SegmentOK(i, n, tailed, to) /\ Has(to, "val")
            /\ Has(to, "rem") => Has(s, "rem")
<1> DEFINE above == SubSeq(s, 1, cut)
           below == SubSeq(s, cut + 1, Len(s))
           m == Len(s) - cut
           to == (Before("val", above) \o <<b>>) \o below
<1>1. Len(s) \in Nat /\ 1 <= Len(s) /\ cut \in Nat /\ 1 <= cut /\ cut <= Len(s) /\ m \in Nat
  BY DEF SegmentOK
<1>2. /\ above \in Seq(T) /\ Len(above) = cut /\ \A j \in 1 .. cut : above[j] = s[j]
      /\ below \in Seq(T) /\ Len(below) = m /\ \A j \in 1 .. m : below[j] = s[cut + j]
  BY <1>1
<1> HIDE DEF above, below
<1>3. PICK c \in 0 .. Len(above) :
        /\ Before("val", above) = SubSeq(above, 1, c)
        /\ \A j \in 1 .. c : above[j].is # "val"
        /\ c # Len(above) => above[c + 1].is = "val"
  BY <1>2, BeforeIs
<1> DEFINE new == Before("val", above) \o <<b>>
<1>4. /\ new \in Seq(T) /\ Len(new) = c + 1 /\ new[c + 1] = b
      /\ \A j \in 1 .. c : new[j] = above[j]
  <2>1. /\ SubSeq(above, 1, c) \o <<b>> \in Seq(T) /\ Len(SubSeq(above, 1, c) \o <<b>>) = c + 1
        /\ \A j \in 1 .. c : (SubSeq(above, 1, c) \o <<b>>)[j] = above[j]
        /\ (SubSeq(above, 1, c) \o <<b>>)[c + 1] = b
    BY <1>2, CutAndAdd
  <2>2. new = SubSeq(above, 1, c) \o <<b>>
    BY <1>3
  <2> HIDE DEF new
  <2> QED
    BY <2>1, <2>2
<1>5. c \in Nat /\ c <= cut
  BY <1>1, <1>2
<1>6. to = new \o below
  OBVIOUS
<1> HIDE DEF new
<1>7. /\ to \in Seq(T) /\ Len(to) = (c + 1) + m
      /\ \A j \in 1 .. (c + 1) : to[j] = new[j]
      /\ \A j \in 1 .. m : to[(c + 1) + j] = below[j]
  <2>0. new \in Seq(T) /\ below \in Seq(T)
    BY <1>2, <1>4, Zenon
  <2>1. new \o below \in Seq(T) /\ Len(new \o below) = Len(new) + Len(below)
    BY <2>0
  <2>2. /\ \A j \in 1 .. Len(new) : (new \o below)[j] = new[j]
        /\ \A j \in 1 .. Len(below) : (new \o below)[Len(new) + j] = below[j]
    BY <2>0
  <2> HIDE DEF to
  <2> QED
    BY <1>2, <1>4, <1>6, <2>1, <2>2
<1> HIDE DEF to
<1>8. c >= 1
  <2>1. s[1].is \in {"heading", "marked"}
    BY DEF SegmentOK, IsHeading
  <2>2. ASSUME c = 0 PROVE FALSE
    <3>1. above[1].is = "val" /\ above[1] = s[1]
      BY <1>1, <1>2, <1>3, <2>2
    <3> QED
      BY <2>1, <3>1
  <2> QED
    BY <1>5, <2>2
<1> DEFINE N == (c + 1) + m
(* Of each block of the new segment, where it comes from.                    *)
<1>9. c + 1 \in 2 .. N /\ to[c + 1] = b /\ to[1] = s[1]
  <2>1. c + 1 \in 2 .. N /\ c + 1 \in 1 .. (c + 1) /\ 1 \in 1 .. (c + 1) /\ 1 \in 1 .. c /\ 1 \in 1 .. cut
    BY <1>1, <1>5, <1>8
  <2> QED
    BY <1>2, <1>4, <1>7, <2>1
<1>10. \A j \in 2 .. N : j < c + 1 => to[j] = s[j] /\ j \in 2 .. Len(s) /\ j <= cut /\ s[j].is # "val"
  <2> TAKE j \in 2 .. N
  <2>1. HAVE j < c + 1
  <2>2. j \in 1 .. c /\ j \in 1 .. (c + 1) /\ j \in 1 .. cut /\ j \in 2 .. Len(s) /\ j <= cut
    BY <1>1, <1>5, <2>1
  <2> QED
    BY <1>2, <1>3, <1>4, <1>7, <2>2
<1> DEFINE whence(j) == cut + (j - (c + 1))
<1>11. \A j \in 2 .. N : j > c + 1 => /\ to[j] = s[whence(j)] /\ whence(j) \in 2 .. Len(s)
                                      /\ whence(j) > cut /\ whence(j) >= cut + 1
  <2> TAKE j \in 2 .. N
  <2>1. HAVE j > c + 1
  <2> DEFINE d == j - (c + 1)
  <2>2. d \in 1 .. m /\ j = (c + 1) + d /\ cut + d \in 2 .. Len(s) /\ cut + d > cut /\ cut + d >= cut + 1
    BY <1>1, <1>5, <2>1
  <2>3. to[(c + 1) + d] = below[d] /\ below[d] = s[cut + d]
    BY <1>2, <1>7, <2>2
  <2> QED
    BY <2>2, <2>3
<1>12. \A j, k \in 2 .. N : j > c + 1 /\ k > c + 1 => /\ whence(j) = whence(k) => j = k
                                                      /\ whence(j) < whence(k) => j < k
  BY <1>1, <1>5
<1>13. \A j \in 2 .. N : j < c + 1 \/ j = c + 1 \/ j > c + 1
  BY <1>5
<1>14. \A j \in 2 .. Len(s) : j <= cut => ~(cut < j)
  BY <1>1
<1>15. \A j \in 2 .. N : j > c + 1 => s[whence(j)].is # "val"
  <2> TAKE j \in 2 .. N
  <2>1. HAVE j > c + 1
  <2>2. cut # Len(s)
    BY <1>1, <1>11, <2>1
  <2>3. cut + 1 \in 2 .. Len(s) /\ s[cut + 1].is \in Level
    BY <2>2
  <2>4. ASSUME s[whence(j)].is = "val" PROVE FALSE
    <3>1. whence(j) < cut + 1
      BY <1>11, <2>1, <2>3, <2>4 DEF SegmentOK
    <3>2. whence(j) \in Nat /\ whence(j) >= cut + 1
      BY <1>1, <1>11, <2>1
    <3> QED
      BY <1>1, <3>1, <3>2
  <2> QED
    BY <2>4
<1>16. \A j \in 2 .. N : j < c + 1 => to[j].is \notin Level /\ to[j].is # "val"
  BY <1>10, <1>14
<1>17. \A j \in 2 .. N : j > c + 1 => to[j].is # "val"
  BY <1>11, <1>15
<1> HIDE DEF whence
<1>18. \A j \in 2 .. N : /\ to[j].is \in {"rem", "val", "tail", "summary"}
                         /\ to[j].is \in Level => i = n
                         /\ to[j].is = "summary" => j = N
  <2> TAKE j \in 2 .. N
  <2>1. CASE j < c + 1
    BY <1>10, <1>16, <2>1 DEF SegmentOK, Level
  <2>2. CASE j = c + 1
    BY <1>9, <2>2 DEF Level
  <2>3. CASE j > c + 1
    <3>1. /\ s[whence(j)].is \in {"rem", "val", "tail", "summary"} /\ (s[whence(j)].is \in Level => i = n)
          /\ s[whence(j)].is = "summary" => whence(j) = Len(s)
      BY <1>11, <2>3 DEF SegmentOK
    <3>2. whence(j) = Len(s) => j = N
      BY <1>1, <1>5 DEF whence
    <3> QED
      BY <1>11, <2>3, <3>1, <3>2
  <2> QED
    BY <1>13, <2>1, <2>2, <2>3
<1>19. \A j, k \in 2 .. N :
         /\ to[j].is = to[k].is => j = k
         /\ to[j].is = "val" /\ to[k].is \in Level => j < k
         /\ to[j].is = "tail" /\ to[k].is = "rem" => j < k
  <2> SUFFICES ASSUME NEW j \in 2 .. N, NEW k \in 2 .. N
               PROVE  /\ to[j].is = to[k].is => j = k
                      /\ to[j].is = "val" /\ to[k].is \in Level => j < k
                      /\ to[j].is = "tail" /\ to[k].is = "rem" => j < k
    OBVIOUS
  <2>0. ASSUME NEW x \in 2 .. Len(s), NEW y \in 2 .. Len(s)
        PROVE  /\ s[x].is = s[y].is => x = y
               /\ s[x].is = "tail" /\ s[y].is = "rem" => x < y
    BY DEF SegmentOK
  <2>1. CASE j = c + 1
    <3>1. k = c + 1 \/ to[k].is # "val"
      BY <1>13, <1>16, <1>17
    <3>2. to[k].is \in Level => c + 1 < k
      <4>1. CASE k < c + 1
        BY <1>16, <4>1
      <4>2. CASE k = c + 1
        BY <1>9, <4>2 DEF Level
      <4>3. CASE k > c + 1
        BY <1>5, <4>3
      <4> QED
        BY <1>13, <4>1, <4>2, <4>3
    <3> QED
      BY <1>9, <2>1, <3>1, <3>2
  <2>2. CASE k = c + 1 /\ j # c + 1
    <3>1. to[j].is # "val"
      BY <1>13, <1>16, <1>17, <2>2
    <3> QED
      BY <1>9, <2>2, <3>1 DEF Level
  <2>3. CASE j < c + 1 /\ k < c + 1
    <3>1. to[j] = s[j] /\ to[k] = s[k] /\ j \in 2 .. Len(s) /\ k \in 2 .. Len(s) /\ to[j].is # "val"
      BY <1>10, <1>16, <2>3
    <3> QED
      BY <2>0, <3>1
  <2>4. CASE j < c + 1 /\ k > c + 1
    <3>1. /\ to[j] = s[j] /\ j \in 2 .. Len(s) /\ j <= cut /\ to[j].is # "val"
          /\ to[k] = s[whence(k)] /\ whence(k) \in 2 .. Len(s) /\ whence(k) > cut /\ j < k
      BY <1>5, <1>10, <1>11, <2>4
    <3>2. j # whence(k)
      BY <1>1, <3>1
    <3> QED
      BY <2>0, <3>1, <3>2
  <2>5. CASE j > c + 1 /\ k < c + 1
    <3>1. /\ to[k] = s[k] /\ k \in 2 .. Len(s) /\ k <= cut
          /\ to[j] = s[whence(j)] /\ whence(j) \in 2 .. Len(s) /\ whence(j) > cut /\ to[j].is # "val"
      BY <1>10, <1>11, <1>17, <2>5
    <3>2. k # whence(j) /\ ~(whence(j) < k)
      BY <1>1, <3>1, SMTT(20)
    <3> QED
      BY <2>0, <3>1, <3>2
  <2>6. CASE j > c + 1 /\ k > c + 1
    <3>1. /\ to[j] = s[whence(j)] /\ whence(j) \in 2 .. Len(s) /\ to[j].is # "val"
          /\ to[k] = s[whence(k)] /\ whence(k) \in 2 .. Len(s)
      BY <1>11, <1>17, <2>6
    <3>2. (whence(j) = whence(k) => j = k) /\ (whence(j) < whence(k) => j < k)
      BY <1>12, <2>6
    <3> QED
      BY <2>0, <3>1, <3>2
  <2> QED
    BY <1>13, <2>1, <2>2, <2>3, <2>4, <2>5, <2>6
<1>20. (i = n /\ tailed) <=> \E j \in 2 .. N : to[j].is = "tail"
  <2>1. (i = n /\ tailed) <=> \E j \in 2 .. Len(s) : s[j].is = "tail"
    BY DEF SegmentOK
  <2>2. ASSUME NEW j \in 2 .. Len(s), s[j].is = "tail" PROVE \E k \in 2 .. N : to[k].is = "tail"
    <3>1. cut < j
      BY <2>2 DEF Level
    <3> DEFINE d == j - cut
    <3>2. d \in 1 .. m /\ cut + d = j /\ (c + 1) + d \in 2 .. N
      BY <1>1, <1>5, <3>1
    <3>3. to[(c + 1) + d] = s[cut + d]
      BY <1>2, <1>7, <3>2
    <3> QED
      BY <2>2, <3>2, <3>3
  <2>3. ASSUME NEW j \in 2 .. N, to[j].is = "tail" PROVE \E k \in 2 .. Len(s) : s[k].is = "tail"
    <3>1. j > c + 1
      BY <1>9, <1>13, <1>16, <2>3 DEF Level
    <3> QED
      BY <1>11, <2>3, <3>1
  <2> QED
    BY <2>1, <2>2, <2>3
<1>21. Has(to, "rem") => Has(s, "rem")
  <2>1. ASSUME NEW j \in 2 .. N, to[j].is = "rem" PROVE \E k \in 2 .. Len(s) : s[k].is = "rem"
    BY <1>9, <1>10, <1>11, <1>13, <2>1
  <2> QED
    BY <1>7, <2>1 DEF Has
<1>22. Has(to, "val")
  BY <1>7, <1>9 DEF Has
<1>23. 1 <= Len(to)
  BY <1>1, <1>5, <1>7
<1>24. SegmentOK(i, n, tailed, to)
  BY <1>7, <1>9, <1>18, <1>19, <1>20, <1>23 DEF SegmentOK
<1> QED
  BY <1>7, <1>21, <1>22, <1>24 DEF to, above, below

-----------------------------------------------------------------------------
(* A combined report is its segments one after the other, and where one has  *)
(* a Remediation each has one or has a Validation.                           *)
DocumentOK(n, tailed, T, md, ss, off) ==
  /\ md \in Seq(T) /\ ss \in Seq(Seq(T)) /\ n = Len(ss) /\ n # 0 /\ Parts(md, ss, off)
  /\ \A i \in 1 .. n : SegmentOK(i, n, tailed, ss[i])
  /\ (\E i \in 1 .. n : Has(ss[i], "rem")) => \A i \in 1 .. n : Has(ss[i], "rem") \/ Has(ss[i], "val")

Placed(n, T, md, ss, off) ==
  /\ n \in Nat /\ off[1] = 0 /\ Len(md) \in Nat /\ Len(md) = off[n + 1]
  /\ \A i \in 1 .. n : /\ ss[i] \in Seq(T) /\ Len(ss[i]) \in Nat
                       /\ off[i] \in Nat /\ off[i + 1] \in Nat /\ off[i + 1] = off[i] + Len(ss[i])
                       /\ off[i + 1] <= off[n + 1]
  /\ \A i, j \in 1 .. n : i < j => off[i + 1] <= off[j]
  /\ \A i \in 1 .. n : \A j \in 1 .. Len(ss[i]) : off[i] + j \in 1 .. Len(md) /\ md[off[i] + j] = ss[i][j]
  /\ \A k \in 1 .. Len(md) : \E i \in 1 .. n : \E j \in 1 .. Len(ss[i]) : k = off[i] + j

LEMMA PartsAre ==
  ASSUME NEW T, NEW md \in Seq(T), NEW ss \in Seq(Seq(T)), NEW n, n = Len(ss), NEW off, Parts(md, ss, off)
  PROVE  Placed(n, T, md, ss, off)
<1>1. n \in Nat /\ Len(md) \in Nat
  OBVIOUS
<1>2. /\ off \in [1 .. (n + 1) -> Nat] /\ off[1] = 0 /\ Len(md) = off[n + 1]
      /\ \A i \in 1 .. n : off[i + 1] = off[i] + Len(ss[i])
      /\ \A i \in 1 .. n, j \in 1 .. (n + 1) : i < j => off[i + 1] <= off[j]
      /\ \A i \in 1 .. n : \A j \in 1 .. Len(ss[i]) : md[off[i] + j] = ss[i][j]
      /\ \A k \in 1 .. Len(md) : \E i \in 1 .. n : \E j \in 1 .. Len(ss[i]) : k = off[i] + j
  BY Zenon DEF Parts
<1>3. \A i \in 1 .. n : ss[i] \in Seq(T)
  OBVIOUS
<1>4. \A i \in 1 .. n : Len(ss[i]) \in Nat
  BY <1>3
<1>5. \A i \in 1 .. n : /\ i \in 1 .. (n + 1) /\ i + 1 \in 1 .. (n + 1) /\ i < n + 1 /\ n + 1 \in 1 .. (n + 1)
  BY <1>1
<1>6. \A i \in 1 .. n : /\ off[i] \in Nat /\ off[i + 1] \in Nat /\ off[i + 1] <= off[n + 1]
                        /\ off[n + 1] \in Nat /\ off[i + 1] = off[i] + Len(ss[i])
  BY <1>2, <1>5
<1>7. \A i \in 1 .. n : \A j \in 1 .. Len(ss[i]) : off[i] + j \in 1 .. off[n + 1]
  <2> TAKE i \in 1 .. n
  <2> TAKE j \in 1 .. Len(ss[i])
  <2>1. off[i] \in Nat /\ Len(ss[i]) \in Nat /\ off[i + 1] \in Nat /\ off[n + 1] \in Nat
    BY <1>4, <1>6
  <2>2. off[i + 1] = off[i] + Len(ss[i]) /\ off[i + 1] <= off[n + 1]
    BY <1>6
  <2> QED
    BY <2>1, <2>2, InPart, Zenon
<1>8. \A i \in 1 .. n : \A j \in 1 .. Len(ss[i]) : off[i] + j \in 1 .. Len(md) /\ md[off[i] + j] = ss[i][j]
  BY <1>2, <1>7
<1>9. \A i, j \in 1 .. n : i < j => off[i + 1] <= off[j]
  BY <1>2, <1>5
<1> QED
  BY <1>1, <1>2, <1>3, <1>4, <1>6, <1>8, <1>9, Zenon DEF Placed

(* How often something is there that can be there once.                      *)
LEMMA AtMostOne ==
  ASSUME NEW S, \A a, b \in S : a = b
  PROVE  /\ Cardinality(S) <= 1 /\ (Cardinality(S) > 0 <=> S # {})
         /\ Cardinality(S) = IF S = {} THEN 0 ELSE 1
<1>1. CASE S = {}
  BY <1>1, FS_EmptySet
<1>2. CASE S # {}
  <2>1. PICK a \in S : TRUE
    BY <1>2
  <2>2. S = {a}
    BY <2>1
  <2>3. Cardinality(S) = 1
    BY <2>2, FS_Singleton
  <2> QED
    BY <1>2, <2>3
<1> QED
  BY <1>1, <1>2

(* What the code finds when it looks for the headings again.                 *)
LEMMA ParsedIs ==
  ASSUME NEW n, NEW tailed, NEW T, NEW md, NEW ss, NEW off, DocumentOK(n, tailed, T, md, ss, off)
  PROVE  /\ Headings(md) = n
         /\ \A i \in 1 .. n : /\ off[i] + 1 \in DOMAIN md /\ IsHeading(md[off[i] + 1]) /\ md[off[i] + 1].of = i
                              /\ HeadingAt(md, i) = off[i] + 1 /\ md[off[i] + 1] = ss[i][1]
         /\ \A k \in DOMAIN md : IsHeading(md[k]) => \E i \in 1 .. n : k = off[i] + 1
         /\ \A i, j \in 1 .. n : off[i] + 1 = off[j] + 1 => i = j
<1>1. /\ md \in Seq(T) /\ ss \in Seq(Seq(T)) /\ n = Len(ss) /\ Parts(md, ss, off)
      /\ \A i \in 1 .. n : SegmentOK(i, n, tailed, ss[i])
  BY DEF DocumentOK
<1>2. /\ n \in Nat /\ Len(md) \in Nat
      /\ \A i \in 1 .. n : Len(ss[i]) \in Nat /\ off[i] \in Nat /\ off[i + 1] \in Nat /\ off[i + 1] = off[i] + Len(ss[i])
      /\ \A i, j \in 1 .. n : i < j => off[i + 1] <= off[j]
      /\ \A i \in 1 .. n : \A j \in 1 .. Len(ss[i]) : off[i] + j \in 1 .. Len(md) /\ md[off[i] + j] = ss[i][j]
      /\ \A k \in 1 .. Len(md) : \E i \in 1 .. n : \E j \in 1 .. Len(ss[i]) : k = off[i] + j
  <2>1. Placed(n, T, md, ss, off)
    BY <1>1, PartsAre, Zenon
  <2> QED
    BY <2>1 DEF Placed
<1>3. DOMAIN md = 1 .. Len(md)
  BY <1>1
<1>4. \A i \in 1 .. n : 1 \in 1 .. Len(ss[i]) /\ IsHeading(ss[i][1]) /\ ss[i][1].of = i
  BY <1>1, <1>2 DEF SegmentOK
<1>5. \A i \in 1 .. n : \A j \in 1 .. Len(ss[i]) : IsHeading(ss[i][j]) => j = 1
  <2> TAKE i \in 1 .. n
  <2> TAKE j \in 1 .. Len(ss[i])
  <2>1. ASSUME j # 1 PROVE ~IsHeading(ss[i][j])
    <3>1. j \in 2 .. Len(ss[i])
      BY <1>2, <2>1
    <3>2. ss[i][j].is \in {"rem", "val", "tail", "summary"}
      BY <1>1, <3>1 DEF SegmentOK
    <3> QED
      BY <3>2 DEF IsHeading
  <2> QED
    BY <2>1
<1>6. \A i \in 1 .. n : /\ off[i] + 1 \in DOMAIN md /\ IsHeading(md[off[i] + 1]) /\ md[off[i] + 1].of = i
                        /\ md[off[i] + 1] = ss[i][1]
  BY <1>2, <1>3, <1>4
<1>7. \A k \in DOMAIN md : IsHeading(md[k]) => \E i \in 1 .. n : k = off[i] + 1
  <2> TAKE k \in DOMAIN md
  <2>1. HAVE IsHeading(md[k])
  <2>2. PICK i \in 1 .. n : \E j \in 1 .. Len(ss[i]) : k = off[i] + j
    BY <1>2, <1>3
  <2>3. PICK j \in 1 .. Len(ss[i]) : k = off[i] + j
    BY <2>2
  <2>4. md[k] = ss[i][j]
    BY <1>2, <2>3
  <2>5. j = 1
    BY <1>5, <2>1, <2>4
  <2> QED
    BY <2>3, <2>5
<1>8. \A i, j \in 1 .. n : off[i] + 1 = off[j] + 1 => i = j
  <2> TAKE i, j \in 1 .. n
  <2>1. HAVE off[i] + 1 = off[j] + 1
  <2>2. md[off[i] + 1].of = i /\ md[off[j] + 1].of = j
    BY <1>6
  <2> QED
    BY <2>1, <2>2
<1>9. \A i \in 1 .. n : HeadingAt(md, i) = off[i] + 1
  <2> TAKE i \in 1 .. n
  <2>1. \A k \in DOMAIN md : IsHeading(md[k]) /\ md[k].of = i => k = off[i] + 1
    <3> TAKE k \in DOMAIN md
    <3>1. HAVE IsHeading(md[k]) /\ md[k].of = i
    <3>2. PICK x \in 1 .. n : k = off[x] + 1
      BY <1>7, <3>1
    <3>3. x = i
      BY <1>6, <3>1, <3>2
    <3> QED
      BY <3>2, <3>3
  <2> QED
    BY <1>6, <2>1 DEF HeadingAt
<1>10. Headings(md) = n
  <2> DEFINE H == {k \in DOMAIN md : IsHeading(md[k])}
             f == [i \in 1 .. n |-> off[i] + 1]
  <2>1. f \in [1 .. n -> H]
    BY <1>6
  <2>2. \A i, j \in 1 .. n : f[i] = f[j] => i = j
    BY <1>8
  <2>3. \A k \in H : \E i \in 1 .. n : f[i] = k
    BY <1>7
  <2> HIDE DEF f
  <2>4. f \in Bijection(1 .. n, H)
    BY <2>1, <2>2, <2>3 DEF Bijection, Injection, Surjection, IsInjective
  <2>5. IsFiniteSet(1 .. n) /\ Cardinality(1 .. n) = n
    BY <1>2, CountOfInitial
  <2>6. Cardinality(H) = n
    <3>1. ExistsBijection(1 .. n, H)
      BY <2>4 DEF ExistsBijection
    <3> HIDE DEF H
    <3> QED
      BY <2>5, <3>1, FS_Bijection
  <2> QED
    BY <2>6 DEF Headings
<1> QED
  BY <1>6, <1>7, <1>8, <1>9, <1>10

LEMMA Bounds ==
  \A o, c, l \in Nat : o + c <= l => /\ o + 1 \in 1 .. l + 1 /\ o + c \in (o + 1) - 1 .. l
                                    /\ (o + c) - (o + 1) + 1 = c
  OBVIOUS

LEMMA SegmentIs ==
  ASSUME NEW n, NEW tailed, NEW T, NEW md, NEW ss, NEW off, DocumentOK(n, tailed, T, md, ss, off),
         NEW i \in 1 .. n, NEW c \in 0 .. Len(ss[i]), i # n => c = Len(ss[i]),
         NEW end, i = n => end = off[n] + c
  PROVE  Segment(md, i, end) = SubSeq(ss[i], 1, c)
<1>1. /\ md \in Seq(T) /\ ss \in Seq(Seq(T)) /\ n = Len(ss) /\ Parts(md, ss, off)
  BY DEF DocumentOK
<1>2. /\ n \in Nat /\ Len(md) \in Nat /\ ss[i] \in Seq(T)
      /\ Len(ss[i]) \in Nat /\ off[i] \in Nat /\ off[i + 1] \in Nat /\ off[i + 1] = off[i] + Len(ss[i])
      /\ \A j \in 1 .. Len(ss[i]) : off[i] + j \in 1 .. Len(md) /\ md[off[i] + j] = ss[i][j]
  <2>1. Placed(n, T, md, ss, off)
    BY <1>1, PartsAre, Zenon
  <2> QED
    BY <2>1 DEF Placed
<1>3. Segment(md, i, end) = SubSeq(md, off[i] + 1, IF i < n THEN off[i + 1] ELSE end)
  <2>1. Headings(md) = n /\ HeadingAt(md, i) = off[i] + 1
    BY ParsedIs
  <2>2. i < n => HeadingAt(md, i + 1) = off[i + 1] + 1
    <3>1. i < n => i + 1 \in 1 .. n
      BY <1>2
    <3> QED
      BY <3>1, ParsedIs
  <2>3. i < n => HeadingAt(md, i + 1) - 1 = off[i + 1]
    BY <1>2, <2>2
  <2> QED
    BY <2>1, <2>3 DEF Segment
<1>4. (IF i < n THEN off[i + 1] ELSE end) = off[i] + c
  <2>1. i < n \/ i = n
    BY <1>2
  <2> QED
    BY <1>2, <2>1
<1>5. SubSeq(md, off[i] + 1, off[i] + c) = SubSeq(ss[i], 1, c)
  <2>1. c \in Nat /\ c <= Len(ss[i])
    BY <1>2
  <2>2. \A j \in 1 .. c : off[i] + j \in 1 .. Len(md) /\ md[off[i] + j] = ss[i][j] /\ j \in 1 .. Len(ss[i])
    BY <1>2, <2>1
  <2>3. /\ SubSeq(ss[i], 1, c) \in Seq(T) /\ Len(SubSeq(ss[i], 1, c)) = c
        /\ \A j \in 1 .. c : SubSeq(ss[i], 1, c)[j] = ss[i][j]
    BY <1>2, <2>1
  <2> DEFINE a == off[i] + 1
             b == off[i] + c
  <2>4. /\ SubSeq(md, a, b) \in Seq(T) /\ Len(SubSeq(md, a, b)) = c
        /\ \A j \in 1 .. c : SubSeq(md, a, b)[j] = md[off[i] + j]
    <3>1. a \in 1 .. Len(md) + 1 /\ b \in a - 1 .. Len(md) /\ b - a + 1 = c
      <4>1. c # 0 => off[i] + c \in 1 .. Len(md)
        <5>1. c # 0 => c \in 1 .. c
          BY <2>1
        <5> QED
          BY <2>2, <5>1
      <4>2. off[i] <= Len(md)
        <5>1. 1 \in 1 .. Len(ss[i])
          BY <1>2 DEF DocumentOK, SegmentOK
        <5>2. off[i] + 1 \in 1 .. Len(md)
          BY <1>2, <5>1
        <5> QED
          BY <1>2, <5>2
      <4>3. off[i] + c <= Len(md)
        BY <1>2, <2>1, <4>1, <4>2
      <4> QED
        BY <1>2, <2>1, <4>3, Bounds
    <3>2. \A j \in 1 .. c : a + j - 1 = off[i] + j
      BY <1>2
    <3> HIDE DEF a, b
    <3>3. /\ SubSeq(md, a, b) \in Seq(T) /\ Len(SubSeq(md, a, b)) = b - a + 1
          /\ \A j \in 1 .. (b - a + 1) : SubSeq(md, a, b)[j] = md[a + j - 1]
      BY <1>1, <3>1, SubSeqProperties
    <3> QED
      BY <3>1, <3>2, <3>3
  <2> HIDE DEF a, b
  <2>5. SubSeq(md, a, b) = SubSeq(ss[i], 1, c)
    BY <2>2, <2>3, <2>4, SeqEqual, ZenonT(30)
  <2> QED
    BY <2>5 DEF a, b
<1> QED
  BY <1>3, <1>4, <1>5

LEMMA WholeSegmentIs ==
  ASSUME NEW n, NEW tailed, NEW T, NEW md, NEW ss, NEW off, DocumentOK(n, tailed, T, md, ss, off),
         NEW i \in 1 .. n
  PROVE  Segment(md, i, Len(md)) = ss[i]
<1>1. /\ md \in Seq(T) /\ ss \in Seq(Seq(T)) /\ n = Len(ss) /\ Parts(md, ss, off)
  BY DEF DocumentOK
<1>2. Placed(n, T, md, ss, off)
  BY <1>1, PartsAre, Zenon
<1>3. /\ n \in Nat /\ Len(md) = off[n + 1] /\ ss[i] \in Seq(T) /\ Len(ss[i]) \in Nat /\ off[i + 1] = off[i] + Len(ss[i])
  BY <1>2 DEF Placed
<1>4. Len(ss[i]) \in 0 .. Len(ss[i]) /\ (i = n => Len(md) = off[n] + Len(ss[i]))
  BY <1>3
<1>5. Segment(md, i, Len(md)) = SubSeq(ss[i], 1, Len(ss[i]))
  BY <1>4, SegmentIs
<1>6. SubSeq(ss[i], 1, Len(ss[i])) = ss[i]
  BY <1>3
<1> QED
  BY <1>5, <1>6

(* Such a report is as SectionsWhole says.                                   *)
WholeDocument(F, tailed, md) ==
  LET HowMany(i, kind) ==
        Cardinality({k \in DOMAIN Segment(md, i, Len(md)) : Segment(md, i, Len(md))[k].is = kind})
      level == {k \in DOMAIN md : md[k].is \in {"tail", "summary"}}
      heads == {k \in DOMAIN md : IsHeading(md[k])}
  IN /\ {md[k].of : k \in heads} = F /\ \A j, k \in heads : j < k => md[j].of < md[k].of
     /\ \A kind \in {"rem", "val"}, i \in F : HowMany(i, kind) <= 1
     /\ \A i, j \in F : HowMany(i, "rem") > 0 => HowMany(j, "rem") + HowMany(j, "val") > 0
     /\ Cardinality({k \in level : md[k].is = "tail"}) = IF tailed THEN 1 ELSE 0
     /\ \A k \in DOMAIN md, s \in level : md[k].is = "val" => k < s

LEMMA DocumentIsWhole ==
  ASSUME NEW n, NEW tailed \in BOOLEAN, NEW T, NEW md, NEW ss, NEW off, DocumentOK(n, tailed, T, md, ss, off)
  PROVE  WholeDocument(1 .. n, tailed, md)
<1> DEFINE HowMany(i, kind) ==
             Cardinality({k \in DOMAIN Segment(md, i, Len(md)) : Segment(md, i, Len(md))[k].is = kind})
           level == {k \in DOMAIN md : md[k].is \in {"tail", "summary"}}
           heads == {k \in DOMAIN md : IsHeading(md[k])}
<1>1. /\ md \in Seq(T) /\ ss \in Seq(Seq(T)) /\ n = Len(ss) /\ n # 0 /\ Parts(md, ss, off)
      /\ \A i \in 1 .. n : SegmentOK(i, n, tailed, ss[i])
      /\ (\E i \in 1 .. n : Has(ss[i], "rem")) => \A i \in 1 .. n : Has(ss[i], "rem") \/ Has(ss[i], "val")
  BY DEF DocumentOK
<1>2. Placed(n, T, md, ss, off)
  BY <1>1, PartsAre, Zenon
<1>3. /\ n \in Nat /\ Len(md) \in Nat /\ Len(md) = off[n + 1] /\ n \in 1 .. n
      /\ \A i \in 1 .. n : /\ ss[i] \in Seq(T) /\ Len(ss[i]) \in Nat
                           /\ off[i] \in Nat /\ off[i + 1] \in Nat /\ off[i + 1] = off[i] + Len(ss[i])
      /\ \A i, j \in 1 .. n : i < j => off[i + 1] <= off[j]
      /\ \A i \in 1 .. n : \A j \in 1 .. Len(ss[i]) : off[i] + j \in 1 .. Len(md) /\ md[off[i] + j] = ss[i][j]
      /\ \A k \in 1 .. Len(md) : \E i \in 1 .. n : \E j \in 1 .. Len(ss[i]) : k = off[i] + j
  <2>1. n \in Nat /\ n \in 1 .. n
    BY <1>1, <1>2 DEF Placed
  <2> QED
    BY <1>2, <2>1, Zenon DEF Placed
<1>4. DOMAIN md = 1 .. Len(md) /\ \A i \in 1 .. n : DOMAIN ss[i] = 1 .. Len(ss[i])
  BY <1>1, <1>3
<1>5. /\ \A i \in 1 .. n : off[i] + 1 \in heads /\ md[off[i] + 1].of = i
      /\ \A k \in heads : \E i \in 1 .. n : k = off[i] + 1
  BY ParsedIs
<1>6. {md[k].of : k \in heads} = 1 .. n
  <2> HIDE DEF heads
  <2>1. \A k \in heads : md[k].of \in 1 .. n
    BY <1>5
  <2>2. \A i \in 1 .. n : \E k \in heads : md[k].of = i
    BY <1>5
  <2> QED
    BY <2>1, <2>2
<1>7. \A j, k \in heads : j < k => md[j].of < md[k].of
  <2> SUFFICES ASSUME NEW j \in heads, NEW k \in heads, j < k PROVE md[j].of < md[k].of
    OBVIOUS
  <2>1. PICK x \in 1 .. n : j = off[x] + 1
    BY <1>5
  <2>2. PICK y \in 1 .. n : k = off[y] + 1
    BY <1>5
  <2>3. md[j].of = x /\ md[k].of = y
    BY <1>5, <2>1, <2>2
  <2> HIDE DEF heads
  <2>4. x # y
    BY <1>3, <2>1, <2>2
  <2>5. ASSUME y < x PROVE FALSE
    <3>1. off[y + 1] <= off[x] /\ off[y + 1] = off[y] + Len(ss[y])
      BY <1>3, <2>5
    <3>2. off[y] \in Nat /\ off[x] \in Nat /\ Len(ss[y]) \in Nat
      BY <1>3
    <3>3. off[x] + 1 < off[y] + 1
      BY <2>1, <2>2
    <3> QED
      BY <3>1, <3>2, <3>3
  <2>6. x \in Nat /\ y \in Nat
    BY <1>3
  <2> QED
    BY <2>3, <2>4, <2>5, <2>6
<1>8. \A i \in 1 .. n : \A kind \in {"rem", "val"} :
        HowMany(i, kind) = IF Has(ss[i], kind) THEN 1 ELSE 0
  <2> TAKE i \in 1 .. n
  <2> TAKE kind \in {"rem", "val"}
  <2> DEFINE S == {k \in DOMAIN ss[i] : ss[i][k].is = kind}
  <2>1. HowMany(i, kind) = Cardinality(S)
    <3>1. Segment(md, i, Len(md)) = ss[i]
      BY WholeSegmentIs
    <3> QED
      BY <3>1
  <2>2. \A k \in S : k \in 2 .. Len(ss[i])
    <3> TAKE k \in S
    <3>1. ss[i][1].is # kind
      BY <1>1 DEF SegmentOK, IsHeading
    <3>2. k \in 1 .. Len(ss[i]) /\ k # 1
      BY <1>4, <3>1
    <3> QED
      BY <1>3, <3>2
  <2>3. \A a, b \in S : a = b
    BY <1>1, <2>2, SMTT(20) DEF SegmentOK
  <2>4. S # {} <=> Has(ss[i], kind)
    <3>1. \A k \in 2 .. Len(ss[i]) : k \in DOMAIN ss[i]
      BY <1>3, <1>4
    <3> QED
      BY <2>2, <3>1 DEF Has
  <2> HIDE DEF S
  <2>5. Cardinality(S) = IF S = {} THEN 0 ELSE 1
    BY <2>3, AtMostOne
  <2> QED
    BY <2>1, <2>4, <2>5
<1> HIDE DEF HowMany
<1>9. \A kind \in {"rem", "val"}, i \in 1 .. n : HowMany(i, kind) <= 1
  BY <1>8
<1>10. \A i, j \in 1 .. n : HowMany(i, "rem") > 0 => HowMany(j, "rem") + HowMany(j, "val") > 0
  <2> SUFFICES ASSUME NEW i \in 1 .. n, NEW j \in 1 .. n, HowMany(i, "rem") > 0
               PROVE  HowMany(j, "rem") + HowMany(j, "val") > 0
    OBVIOUS
  <2>1. Has(ss[i], "rem")
    BY <1>8
  <2>2. Has(ss[j], "rem") \/ Has(ss[j], "val")
    BY <1>1, <2>1
  <2>3. HowMany(j, "rem") \in {0, 1} /\ HowMany(j, "val") \in {0, 1}
    BY <1>8
  <2>4. HowMany(j, "rem") = 1 \/ HowMany(j, "val") = 1
    BY <1>8, <2>2
  <2> QED
    BY <2>3, <2>4
(* A section of the report is in the last segment.                           *)
<1>11. \A k \in level : \E j \in 2 .. Len(ss[n]) : k = off[n] + j /\ md[k] = ss[n][j]
  <2> TAKE k \in level
  <2>1. PICK i \in 1 .. n : \E j \in 1 .. Len(ss[i]) : k = off[i] + j
    BY <1>3, <1>4, SMTT(20)
  <2>2. PICK j \in 1 .. Len(ss[i]) : k = off[i] + j
    BY <2>1
  <2>3. md[k] = ss[i][j]
    BY <1>3, <2>2
  <2>4. ss[i][1].is \notin {"tail", "summary"}
    BY <1>1 DEF SegmentOK, IsHeading
  <2>5. j \in 2 .. Len(ss[i])
    <3>1. j # 1
      BY <2>3, <2>4
    <3> QED
      BY <1>3, <3>1
  <2>6. i = n
    BY <1>1, <2>3, <2>5 DEF SegmentOK, Level
  <2> QED
    BY <2>2, <2>3, <2>5, <2>6
<1>12. Cardinality({k \in level : md[k].is = "tail"}) = IF tailed THEN 1 ELSE 0
  <2> DEFINE S == {k \in level : md[k].is = "tail"}
  <2>1. \A a, b \in S : a = b
    <3> SUFFICES ASSUME NEW a \in S, NEW b \in S PROVE a = b
      OBVIOUS
    <3>1. PICK j \in 2 .. Len(ss[n]) : a = off[n] + j /\ md[a] = ss[n][j]
      BY <1>11
    <3>2. PICK k \in 2 .. Len(ss[n]) : b = off[n] + k /\ md[b] = ss[n][k]
      BY <1>11
    <3>3. j = k
      <4>1. SegmentOK(n, n, tailed, ss[n])
        BY <1>1, <1>3
      <4>2. ss[n][j].is = ss[n][k].is
        BY <3>1, <3>2
      <4> HIDE DEF S, level, heads
      <4> QED
        BY <4>1, <4>2 DEF SegmentOK
    <3> QED
      BY <3>1, <3>2, <3>3
  <2>2. S # {} <=> tailed
    <3>1. (n = n /\ tailed) <=> \E j \in 2 .. Len(ss[n]) : ss[n][j].is = "tail"
      BY <1>1, <1>3 DEF SegmentOK
    <3>2. ASSUME NEW j \in 2 .. Len(ss[n]), ss[n][j].is = "tail" PROVE off[n] + j \in S
      <4>1. j \in 1 .. Len(ss[n])
        BY <1>3
      <4>2. off[n] + j \in 1 .. Len(md) /\ md[off[n] + j] = ss[n][j]
        BY <1>3, <4>1
      <4> QED
        BY <1>4, <3>2, <4>2
    <3>3. ASSUME NEW k \in S PROVE \E j \in 2 .. Len(ss[n]) : ss[n][j].is = "tail"
      <4>1. PICK j \in 2 .. Len(ss[n]) : k = off[n] + j /\ md[k] = ss[n][j]
        BY <1>11
      <4> QED
        BY <4>1
    <3> HIDE DEF S
    <3> QED
      BY <3>1, <3>2, <3>3
  <2> HIDE DEF S
  <2>3. Cardinality(S) = IF S = {} THEN 0 ELSE 1
    BY <2>1, AtMostOne
  <2> QED
    BY <2>2, <2>3 DEF S
<1>13. \A k \in DOMAIN md, s \in level : md[k].is = "val" => k < s
  <2> SUFFICES ASSUME NEW k \in DOMAIN md, NEW s \in level, md[k].is = "val" PROVE k < s
    OBVIOUS
  <2>1. PICK j \in 2 .. Len(ss[n]) : s = off[n] + j /\ md[s] = ss[n][j]
    BY <1>11
  <2>2. PICK i \in 1 .. n : \E h \in 1 .. Len(ss[i]) : k = off[i] + h
    <3>1. k \in 1 .. Len(md)
      BY <1>4
    <3> HIDE DEF level, heads
    <3> QED
      BY <1>3, <3>1
  <2>3. PICK h \in 1 .. Len(ss[i]) : k = off[i] + h
    BY <2>2
  <2>4. md[k] = ss[i][h]
    BY <1>3, <2>3
  <2>5. h \in 2 .. Len(ss[i])
    <3>1. ss[i][1].is # "val"
      BY <1>1 DEF SegmentOK, IsHeading
    <3>2. h # 1
      BY <2>4, <3>1
    <3> QED
      BY <1>3, <3>2
  <2>6. CASE i = n
    <3>1. ss[n][h].is = "val" /\ ss[n][j].is \in Level
      BY <2>1, <2>4, <2>6 DEF Level
    <3>2. h < j
      BY <1>1, <1>3, <2>5, <2>6, <3>1 DEF SegmentOK
    <3>3. off[n] \in Nat /\ h \in Nat /\ j \in Nat
      BY <1>3
    <3> QED
      BY <2>1, <2>3, <2>6, <3>2, <3>3
  <2>7. CASE i # n
    <3>1. i < n
      BY <1>3, <2>7
    <3>2. off[i] + Len(ss[i]) <= off[n]
      BY <1>3, <3>1
    <3>3. off[n] \in Nat /\ off[i] \in Nat /\ Len(ss[i]) \in Nat /\ h <= Len(ss[i]) /\ h \in Nat /\ j \in Nat /\ 1 <= j
      BY <1>3
    <3> HIDE DEF level
    <3> QED
      BY <2>1, <2>3, <3>2, <3>3
  <2> QED
    BY <2>6, <2>7
<1> QED
  BY <1>6, <1>7, <1>9, <1>10, <1>12, <1>13 DEF WholeDocument, HowMany

-----------------------------------------------------------------------------
(* What the writers of the report make of it.                                *)
LEMMA WiderList ==
  ASSUME NEW T, NEW U, T \subseteq U, NEW s \in Seq(T)
  PROVE  s \in Seq(U)
<1>1. Len(s) \in Nat /\ s \in [1 .. Len(s) -> U]
  OBVIOUS
<1> QED
  BY <1>1, ListOf

LEMMA WiderDocument ==
  ASSUME NEW T, NEW U, T \subseteq U, NEW n, NEW tailed, NEW md, NEW ss, NEW off,
         DocumentOK(n, tailed, T, md, ss, off)
  PROVE  DocumentOK(n, tailed, U, md, ss, off)
<1>1. md \in Seq(T) /\ ss \in Seq(Seq(T))
  BY DEF DocumentOK
<1>2. md \in Seq(U)
  BY <1>1, WiderList
<1>3. Seq(T) \subseteq Seq(U)
  BY WiderList
<1>4. ss \in Seq(Seq(U))
  BY <1>1, <1>3, WiderList
<1> QED
  BY <1>2, <1>4, Zenon DEF DocumentOK

(* Both put the new segments together and then what ends the file.           *)
LEMMA Beyond ==
  \A o, a, b \in Nat : \A j \in 1 .. (a + b) :
    ~(j <= a) => j - a \in 1 .. b /\ j = a + (j - a) /\ o + j = (o + a) + (j - a)
  OBVIOUS

LEMMA PutTogether ==
  ASSUME NEW T, NEW n, NEW tailed, NEW new \in Seq(Seq(T)), n = Len(new), n # 0, NEW rest \in Seq(T),
         \A i \in 1 .. n : i # n => SegmentOK(i, n, tailed, new[i]),
         SegmentOK(n, n, tailed, new[n] \o rest),
         LET ss == Ending(new, new[n] \o rest)
         IN (\E i \in 1 .. n : Has(ss[i], "rem")) => \A i \in 1 .. n : Has(ss[i], "rem") \/ Has(ss[i], "val")
  PROVE  \E off : DocumentOK(n, tailed, T, FlattenSeq(new) \o rest, Ending(new, new[n] \o rest), off)
<1> DEFINE last == new[n] \o rest
           ss == Ending(new, last)
           flat == FlattenSeq(new)
           to == flat \o rest
<1>1. n \in Nat /\ n \in 1 .. n
  BY SMT
<1>2. new[n] \in Seq(T)
  BY <1>1
<1>3. /\ last \in Seq(T) /\ Len(last) = Len(new[n]) + Len(rest) /\ Len(new[n]) \in Nat /\ Len(rest) \in Nat
      /\ \A j \in 1 .. Len(new[n]) : last[j] = new[n][j]
      /\ \A j \in 1 .. Len(rest) : last[Len(new[n]) + j] = rest[j]
  BY <1>2
<1> HIDE DEF last
<1>4. /\ ss \in Seq(Seq(T)) /\ Len(ss) = n
      /\ \A i \in 1 .. n : ss[i] = IF i = n THEN last ELSE new[i]
  <2>1. /\ Ending(new, last) \in Seq(Seq(T)) /\ Len(Ending(new, last)) = Len(new)
        /\ \A i \in 1 .. Len(new) : Ending(new, last)[i] = IF i = Len(new) THEN last ELSE new[i]
    BY <1>3, EndingIs, ZenonT(30)
  <2> QED
    BY <2>1
<1>5. flat \in Seq(T)
  BY FlattenIs
<1>6. PICK off : Parts(flat, new, off)
  BY FlattenAt
<1>7. Placed(n, T, flat, new, off)
  BY <1>5, <1>6, PartsAre
<1>8. /\ Len(flat) \in Nat /\ Len(flat) = off[n + 1] /\ off[n] \in Nat /\ off[n + 1] = off[n] + Len(new[n])
      /\ \A j \in 1 .. Len(new[n]) : off[n] + j \in 1 .. Len(flat) /\ flat[off[n] + j] = new[n][j]
  BY <1>1, <1>7 DEF Placed
<1> HIDE DEF flat
<1>9. /\ to \in Seq(T) /\ Len(to) = Len(flat) + Len(rest)
      /\ \A k \in 1 .. Len(flat) : to[k] = flat[k]
      /\ \A j \in 1 .. Len(rest) : to[Len(flat) + j] = rest[j]
  BY <1>5
<1> HIDE DEF to
<1>10. Len(to) = off[n] + Len(last)
  BY <1>3, <1>8, <1>9, SMTT(20)
<1>11. \A k \in 1 .. off[n] : to[k] = flat[k]
  <2>1. \A k \in 1 .. off[n] : k \in 1 .. Len(flat)
    BY <1>3, <1>8
  <2> QED
    BY <1>9, <2>1
<1>12. \A j \in 1 .. Len(last) : to[off[n] + j] = last[j]
  <2> TAKE j \in 1 .. Len(last)
  <2>1. CASE j <= Len(new[n])
    <3>1. j \in 1 .. Len(new[n])
      BY <1>3, <2>1
    <3> QED
      BY <1>3, <1>8, <1>9, <3>1
  <2>2. CASE ~(j <= Len(new[n]))
    <3> DEFINE d == j - Len(new[n])
    <3>1. d \in 1 .. Len(rest) /\ j = Len(new[n]) + d /\ off[n] + j = (off[n] + Len(new[n])) + d
      <4>1. j \in 1 .. (Len(new[n]) + Len(rest)) /\ off[n] \in Nat /\ Len(new[n]) \in Nat /\ Len(rest) \in Nat
        BY <1>3, <1>8
      <4> HIDE DEF d
      <4>2. j - Len(new[n]) \in 1 .. Len(rest) /\ j = Len(new[n]) + (j - Len(new[n]))
            /\ off[n] + j = (off[n] + Len(new[n])) + (j - Len(new[n]))
        BY <2>2, <4>1, Beyond
      <4> QED
        BY <4>2 DEF d
    <3> HIDE DEF d
    <3>2. to[Len(flat) + d] = rest[d] /\ last[Len(new[n]) + d] = rest[d]
      BY <1>3, <1>9, <3>1, Zenon
    <3>3. off[n] + j = Len(flat) + d
      BY <1>8, <3>1
    <3> QED
      BY <3>1, <3>2, <3>3
  <2> QED
    BY <2>1, <2>2
<1> DEFINE O == [off EXCEPT ![n + 1] = Len(to)]
<1>13. Parts(to, ss, O)
  BY <1>3, <1>5, <1>6, <1>9, <1>10, <1>11, <1>12, PartsEnd
<1>14. \A i \in 1 .. n : SegmentOK(i, n, tailed, ss[i])
  BY <1>4 DEF last
<1>15. (\E i \in 1 .. n : Has(ss[i], "rem")) => \A i \in 1 .. n : Has(ss[i], "rem") \/ Has(ss[i], "val")
  BY DEF last
<1> HIDE DEF O, ss
<1>16. DocumentOK(n, tailed, T, to, ss, O)
  BY <1>4, <1>9, <1>13, <1>14, <1>15, Zenon DEF DocumentOK
<1> QED
  BY <1>16 DEF to, ss, last, flat

(* The report without its Summary.                                           *)
WithoutSummary(md) == Picked(md, {k \in DOMAIN md : md[k].is # "summary"})

LEMMA PickedInitial ==
  ASSUME NEW T, NEW s \in Seq(T), NEW m \in 0 .. Len(s)
  PROVE  /\ Picked(s, 1 .. m) \in Seq(T) /\ Len(Picked(s, 1 .. m)) = m
         /\ \A k \in 1 .. m : Picked(s, 1 .. m)[k] = s[k]
<1>1. Len(s) \in Nat /\ m \in Nat /\ \A k \in 1 .. m : s[k] \in T
  OBVIOUS
<1>2. IsFiniteSet(1 .. m) /\ Cardinality(1 .. m) = m /\ 1 .. m \in SUBSET Nat
  BY <1>1, CountOfInitial
<1> DEFINE A == Ascending(1 .. m)
<1>3. A \in [1 .. m -> 1 .. m] /\ (\A x, y \in 1 .. m : x < y => A[x] < A[y])
  BY <1>2, AscendingIs DEF Numbering
<1> HIDE DEF A
<1>4. \A k \in 1 .. m : A[k] = k
  <2> DEFINE low == {k \in 0 .. m : \A x \in 1 .. k : A[x] >= x}
             high == {k \in 0 .. m : \A x \in 1 .. k : A[(m + 1) - x] <= (m + 1) - x}
  <2>1. 0 \in low /\ 0 \in high
    BY <1>1
  <2>2. ASSUME NEW k \in 0 .. (m - 1), k \in low PROVE k + 1 \in low
    <3>1. k \in Nat /\ k + 1 \in 1 .. m /\ k + 1 \in 0 .. m
      BY <1>1
    <3>2. A[k + 1] >= k + 1
      <4>1. CASE k = 0
        <5>1. A[1] \in 1 .. m
          BY <1>3, <3>1, <4>1
        <5> QED
          BY <1>1, <4>1, <5>1
      <4>2. CASE k # 0
        <5>1. k \in 1 .. k /\ k \in 1 .. m /\ k < k + 1
          BY <1>1, <3>1, <4>2
        <5>2. A[k] >= k /\ A[k] < A[k + 1]
          BY <1>3, <2>2, <3>1, <5>1
        <5>3. A[k] \in Nat /\ A[k + 1] \in Nat
          BY <1>1, <1>3, <3>1, <5>1
        <5> QED
          BY <3>1, <5>2, <5>3
      <4> QED
        BY <4>1, <4>2
    <3>3. \A x \in 1 .. (k + 1) : x \in 1 .. k \/ x = k + 1
      BY <3>1
    <3> QED
      BY <2>2, <3>1, <3>2, <3>3
  <2>3. ASSUME NEW k \in 0 .. (m - 1), k \in high PROVE k + 1 \in high
    <3>1. k \in Nat /\ k + 1 \in 1 .. m /\ k + 1 \in 0 .. m /\ (m + 1) - (k + 1) = m - k /\ m - k \in 1 .. m
      BY <1>1
    <3>2. A[m - k] <= m - k
      <4>1. CASE k = 0
        <5>1. A[m - k] \in 1 .. m
          BY <1>3, <3>1
        <5> QED
          BY <1>1, <4>1, <5>1
      <4>2. CASE k # 0
        <5>1. k \in 1 .. k /\ (m + 1) - k \in 1 .. m /\ m - k < (m + 1) - k
          BY <1>1, <3>1, <4>2
        <5>2. A[(m + 1) - k] <= (m + 1) - k /\ A[m - k] < A[(m + 1) - k]
          BY <1>3, <2>3, <3>1, <5>1
        <5>3. A[m - k] \in Nat /\ A[(m + 1) - k] \in Nat
          BY <1>1, <1>3, <3>1, <5>1
        <5> QED
          BY <1>1, <3>1, <5>2, <5>3
      <4> QED
        BY <4>1, <4>2
    <3>3. \A x \in 1 .. (k + 1) : x \in 1 .. k \/ x = k + 1
      BY <3>1
    <3> QED
      BY <2>3, <3>1, <3>2, <3>3
  <2>4. m \in low /\ m \in high
    <3> HIDE DEF low, high
    <3>1. \A k \in 0 .. m : k \in low
      BY <1>1, <2>1, <2>2, UpTo
    <3>2. \A k \in 0 .. m : k \in high
      BY <1>1, <2>1, <2>3, UpTo
    <3> QED
      BY <1>1, <3>1, <3>2
  <2> TAKE k \in 1 .. m
  <2>5. A[k] >= k
    BY <2>4
  <2>6. (m + 1) - k \in 1 .. m /\ (m + 1) - ((m + 1) - k) = k
    BY <1>1
  <2>7. A[(m + 1) - ((m + 1) - k)] <= (m + 1) - ((m + 1) - k)
    BY <2>4, <2>6
  <2>8. A[k] \in Nat /\ A[k] <= k
    BY <1>1, <1>3, <2>6, <2>7
  <2> QED
    BY <1>1, <2>5, <2>8
<1>5. Picked(s, 1 .. m) = [k \in 1 .. m |-> s[A[k]]]
  BY <1>2 DEF Picked, A
<1>6. \A k \in 1 .. m : Picked(s, 1 .. m)[k] = s[k]
  BY <1>4, <1>5
<1>7. Picked(s, 1 .. m) \in [1 .. m -> T]
  BY <1>1, <1>4, <1>5
<1> QED
  BY <1>1, <1>6, <1>7, ListOf

LEMMA LessOne ==
  \A o, l, m \in Nat :
    m = o + l /\ l >= 2 => /\ m - 1 \in 0 .. m /\ m - 1 \in Nat /\ (m - 1) + 1 = m /\ m - 1 = o + (l - 1)
                         /\ m \in 1 .. m
                         /\ \A j \in 1 .. (l - 1) : j \in 1 .. l /\ o + j \in 1 .. (m - 1)
  OBVIOUS

NoSummary(n, ss) == \A i \in 1 .. n : \A j \in 2 .. Len(ss[i]) : ss[i][j].is # "summary"

LEMMA SummaryTaken ==
  ASSUME NEW n, NEW tailed \in BOOLEAN, NEW T, NEW md, NEW ss, NEW off, DocumentOK(n, tailed, T, md, ss, off)
  PROVE  \E old, os : DocumentOK(n, tailed, T, WithoutSummary(md), old, os) /\ NoSummary(n, old)
<1>1. /\ md \in Seq(T) /\ ss \in Seq(Seq(T)) /\ n = Len(ss) /\ n # 0 /\ Parts(md, ss, off)
      /\ \A i \in 1 .. n : SegmentOK(i, n, tailed, ss[i])
      /\ (\E i \in 1 .. n : Has(ss[i], "rem")) => \A i \in 1 .. n : Has(ss[i], "rem") \/ Has(ss[i], "val")
  BY DEF DocumentOK
<1>2. Placed(n, T, md, ss, off)
  BY <1>1, PartsAre, Zenon
<1>3. /\ n \in Nat /\ n \in 1 .. n /\ Len(md) \in Nat /\ Len(md) = off[n + 1]
      /\ \A i \in 1 .. n : ss[i] \in Seq(T) /\ Len(ss[i]) \in Nat
      /\ off[n] \in Nat /\ off[n + 1] = off[n] + Len(ss[n])
      /\ \A i \in 1 .. n : \A j \in 1 .. Len(ss[i]) : off[i] + j \in 1 .. Len(md) /\ md[off[i] + j] = ss[i][j]
      /\ \A k \in 1 .. Len(md) : \E i \in 1 .. n : \E j \in 1 .. Len(ss[i]) : k = off[i] + j
  <2>1. n \in Nat /\ n \in 1 .. n
    BY <1>1, <1>2 DEF Placed
  <2> QED
    BY <1>2, <2>1 DEF Placed
<1>4. DOMAIN md = 1 .. Len(md)
  BY <1>1
(* A Summary stands at the end of the last segment only.                     *)
<1>5. \A i \in 1 .. n : \A j \in 1 .. Len(ss[i]) :
        ss[i][j].is = "summary" => i = n /\ j = Len(ss[n]) /\ j \in 2 .. Len(ss[n])
  <2> TAKE i \in 1 .. n
  <2> TAKE j \in 1 .. Len(ss[i])
  <2>1. HAVE ss[i][j].is = "summary"
  <2>2. j # 1
    BY <1>1, <2>1 DEF SegmentOK, IsHeading
  <2>3. j \in 2 .. Len(ss[i])
    BY <1>3, <2>2
  <2> QED
    BY <1>1, <2>1, <2>3 DEF SegmentOK, Level
<1>6. CASE Has(ss[n], "summary")
  <2> DEFINE m == Len(md) - 1
             last == SubSeq(ss[n], 1, Len(ss[n]) - 1)
             to == Picked(md, 1 .. m)
  <2>1. /\ Len(ss[n]) >= 2 /\ ss[n][Len(ss[n])].is = "summary"
        /\ last \in Seq(T) /\ Len(last) = Len(ss[n]) - 1 /\ \A j \in 1 .. Len(ss[n]) - 1 : last[j] = ss[n][j]
        /\ SegmentOK(n, n, tailed, last) /\ \A j \in 2 .. Len(last) : last[j].is # "summary"
    <3> HIDE DEF m, to
    <3>1. ss[n] \in Seq(T) /\ SegmentOK(n, n, tailed, ss[n])
      BY <1>1, <1>3
    <3>2. LET t == SubSeq(ss[n], 1, Len(ss[n]) - 1)
          IN /\ Len(ss[n]) >= 2 /\ ss[n][Len(ss[n])].is = "summary"
             /\ t \in Seq(T) /\ Len(t) = Len(ss[n]) - 1 /\ \A j \in 1 .. Len(ss[n]) - 1 : t[j] = ss[n][j]
             /\ SegmentOK(n, n, tailed, t) /\ \A j \in 2 .. Len(t) : t[j].is # "summary"
      BY <1>6, <3>1, SummaryComesOut, ZenonT(40)
    <3> QED
      BY <3>2
  <2>2. SegmentOK(n, n, tailed, last) /\ \A j \in 2 .. Len(last) : last[j].is # "summary"
    BY <2>1
  <2> HIDE DEF last
  <2>3. m \in 0 .. Len(md) /\ m \in Nat /\ m + 1 = Len(md) /\ m = off[n] + (Len(ss[n]) - 1) /\ Len(md) \in 1 .. Len(md)
    <3>1. off[n] \in Nat /\ Len(ss[n]) \in Nat /\ Len(md) \in Nat /\ Len(md) = off[n] + Len(ss[n])
      BY <1>3
    <3> HIDE DEF to, m
    <3>2. /\ Len(md) - 1 \in 0 .. Len(md) /\ Len(md) - 1 \in Nat /\ (Len(md) - 1) + 1 = Len(md)
          /\ Len(md) - 1 = off[n] + (Len(ss[n]) - 1) /\ Len(md) \in 1 .. Len(md)
      <4>1. PICK x \in Nat, y \in Nat, z \in Nat : x = Len(md) /\ y = Len(ss[n]) /\ z = off[n]
        BY <3>1
      <4>2. x = z + y /\ y >= 2
        BY <2>1, <3>1, <4>1
      <4>3. x - 1 \in 0 .. x /\ x - 1 \in Nat /\ (x - 1) + 1 = x /\ x - 1 = z + (y - 1) /\ x \in 1 .. x
        BY <4>2
      <4> QED
        BY <4>1, <4>3
    <3> QED
      BY <3>2 DEF m
  <2>4. {k \in DOMAIN md : md[k].is # "summary"} = 1 .. m
    <3>1. ASSUME NEW k \in 1 .. Len(md), md[k].is = "summary" PROVE k = Len(md)
      <4>1. PICK i \in 1 .. n : \E j \in 1 .. Len(ss[i]) : k = off[i] + j
        BY <1>3
      <4>2. PICK j \in 1 .. Len(ss[i]) : k = off[i] + j
        BY <4>1
      <4>3. ss[i][j].is = "summary"
        BY <1>3, <3>1, <4>2
      <4>4. i = n /\ j = Len(ss[n])
        BY <1>5, <4>3
      <4> QED
        BY <1>3, <4>2, <4>4
    <3>2. md[Len(md)].is = "summary"
      <4>1. Len(ss[n]) \in 1 .. Len(ss[n])
        BY <1>3, <2>1
      <4>2. md[off[n] + Len(ss[n])] = ss[n][Len(ss[n])]
        BY <1>3, <4>1
      <4> QED
        BY <1>3, <2>1, <4>2
    <3>3. \A k : k \in 1 .. m <=> k \in 1 .. Len(md) /\ k # Len(md)
      BY <1>3, <2>3
    <3> HIDE DEF m
    <3> QED
      BY <1>4, <3>1, <3>2, <3>3
  <2>5. to = WithoutSummary(md)
    BY <2>4 DEF WithoutSummary
  <2>6. to \in Seq(T) /\ Len(to) = m /\ \A k \in 1 .. m : to[k] = md[k]
    BY <1>1, <2>3, PickedInitial
  <2> HIDE DEF to, m
  <2>7. Len(to) = off[n] + Len(last)
    BY <2>1, <2>3, <2>6
  <2>8. \A k \in 1 .. off[n] : to[k] = md[k]
    <3>1. \A k \in 1 .. off[n] : k \in 1 .. m
      BY <1>3, <2>1, <2>3
    <3> QED
      BY <2>6, <3>1
  <2>9. \A j \in 1 .. Len(last) : to[off[n] + j] = last[j]
    <3> TAKE j \in 1 .. Len(last)
    <3>1. j \in 1 .. Len(ss[n]) - 1 /\ j \in 1 .. Len(ss[n]) /\ off[n] + j \in 1 .. m
      <4>1. off[n] \in Nat /\ Len(ss[n]) \in Nat /\ Len(md) \in Nat /\ Len(md) = off[n] + Len(ss[n])
        BY <1>3
      <4>2. j \in 1 .. (Len(ss[n]) - 1) /\ m = Len(md) - 1
        BY <2>1 DEF m
      <4> QED
        BY <2>1, <4>1, <4>2, LessOne
    <3>2. md[off[n] + j] = ss[n][j]
      BY <1>3, <3>1
    <3> QED
      BY <2>1, <2>6, <3>1, <3>2
  <2> DEFINE old == Ending(ss, last)
             O == [off EXCEPT ![n + 1] = Len(to)]
  <2>10. Parts(to, old, O)
    BY <1>1, <2>1, <2>6, <2>7, <2>8, <2>9, PartsEnd
  <2>11. /\ old \in Seq(Seq(T)) /\ Len(old) = n
         /\ \A i \in 1 .. n : old[i] = IF i = n THEN last ELSE ss[i]
    <3>1. /\ Ending(ss, last) \in Seq(Seq(T)) /\ Len(Ending(ss, last)) = Len(ss)
          /\ \A i \in 1 .. Len(ss) : Ending(ss, last)[i] = IF i = Len(ss) THEN last ELSE ss[i]
      <4>1. ss \in Seq(Seq(T)) /\ last \in Seq(T)
        BY <1>1, <2>1
      <4> QED
        BY <4>1, EndingIs
    <3> QED
      BY <1>1, <3>1
  <2> HIDE DEF old, O
  <2>12. \A i \in 1 .. n : SegmentOK(i, n, tailed, old[i]) /\ \A j \in 2 .. Len(old[i]) : old[i][j].is # "summary"
    <3> TAKE i \in 1 .. n
    <3>1. CASE i = n
      BY <2>2, <2>11, <3>1
    <3>2. CASE i # n
      <4>1. old[i] = ss[i]
        BY <2>11, <3>2
      <4>2. \A j \in 2 .. Len(ss[i]) : j \in 1 .. Len(ss[i])
        BY <1>3
      <4> QED
        BY <1>1, <1>5, <3>2, <4>1, <4>2
    <3> QED
      BY <3>1, <3>2
  <2>13. \A kind \in {"rem", "val"} : \A i \in 1 .. n : Has(old[i], kind) <=> Has(ss[i], kind)
    <3> TAKE kind \in {"rem", "val"}
    <3> TAKE i \in 1 .. n
    <3>1. CASE i # n
      BY <2>11, <3>1
    <3>2. CASE i = n
      <4>1. \A j : j \in 2 .. Len(ss[n]) <=> j \in 2 .. Len(last) \/ j = Len(ss[n])
        BY <1>3, <2>1, SMTT(20)
      <4>2. \A j \in 2 .. Len(last) : last[j] = ss[n][j]
        <5>1. \A j \in 2 .. Len(last) : j \in 1 .. Len(ss[n]) - 1
          BY <1>3, <2>1
        <5> QED
          BY <2>1, <5>1
      <4>3. kind # "summary" /\ old[i] = last
        BY <2>11, <3>2
      <4>4. Has(last, kind) <=> Has(ss[n], kind)
        BY <2>1, <4>1, <4>2, <4>3 DEF Has
      <4> QED
        BY <3>2, <4>3, <4>4
    <3> QED
      BY <3>1, <3>2
  <2>14. (\E i \in 1 .. n : Has(old[i], "rem")) => \A i \in 1 .. n : Has(old[i], "rem") \/ Has(old[i], "val")
    BY <1>1, <2>13
  <2>15. DocumentOK(n, tailed, T, to, old, O)
    <3>1. \A i \in 1 .. n : SegmentOK(i, n, tailed, old[i])
      BY <2>12
    <3> QED
      BY <1>1, <2>6, <2>10, <2>11, <2>14, <3>1, Zenon DEF DocumentOK
  <2> QED
    BY <2>5, <2>12, <2>15, Zenon DEF NoSummary
<1>7. CASE ~Has(ss[n], "summary")
  <2>1. \A i \in 1 .. n : \A j \in 1 .. Len(ss[i]) : ss[i][j].is # "summary"
    BY <1>5, <1>7 DEF Has
  <2>2. \A k \in DOMAIN md : md[k].is # "summary"
    <3> TAKE k \in DOMAIN md
    <3>1. PICK i \in 1 .. n : \E j \in 1 .. Len(ss[i]) : k = off[i] + j
      BY <1>3, <1>4
    <3>2. PICK j \in 1 .. Len(ss[i]) : k = off[i] + j
      BY <3>1
    <3> QED
      BY <1>3, <2>1, <3>2
  <2>3. {k \in DOMAIN md : md[k].is # "summary"} = 1 .. Len(md)
    BY <1>4, <2>2
  <2>4. Len(md) \in 0 .. Len(md)
    BY <1>3
  <2> DEFINE to == Picked(md, 1 .. Len(md))
  <2>5. to \in Seq(T) /\ Len(to) = Len(md) /\ \A k \in 1 .. Len(md) : to[k] = md[k]
    BY <1>1, <2>4, PickedInitial
  <2> HIDE DEF to
  <2>6. to = md
    BY <1>1, <2>5, SeqEqual
  <2>7. WithoutSummary(md) = md
    BY <2>3, <2>6 DEF WithoutSummary, to
  <2>8. \A i \in 1 .. n : \A j \in 2 .. Len(ss[i]) : ss[i][j].is # "summary"
    <3>1. \A i \in 1 .. n : \A j \in 2 .. Len(ss[i]) : j \in 1 .. Len(ss[i])
      BY <1>3
    <3> QED
      BY <2>1, <3>1
  <2> QED
    BY <2>7, <2>8, Zenon DEF NoSummary
<1> QED
  BY <1>6, <1>7

LEMMA RemediationDocument ==
  ASSUME NEW n, NEW tailed \in BOOLEAN, NEW T, NEW md, NEW ss, NEW off, DocumentOK(n, tailed, T, md, ss, off)
  PROVE  \E U, to, starts : DocumentOK(n, tailed, U, RemediationMd(md), to, starts)
<1>0. \E os, off1 : DocumentOK(n, tailed, T, WithoutSummary(md), os, off1) /\ NoSummary(n, os)
  BY SummaryTaken, Zenon
<1> DEFINE old == WithoutSummary(md)
           S(i) == Matches(old[HeadingAt(old, i)], DOMAIN folders)
           section(i) == RemediationSection(S(i))[1]
           end == Summary[1]
           U == (T \cup {section(i) : i \in 1 .. n}) \cup {end}
           new == [i \in 1 .. n |-> RemediationSegment(Segment(old, i, Len(old)), S(i))]
<1>1. PICK os, off1 : DocumentOK(n, tailed, T, old, os, off1) /\ NoSummary(n, os)
  BY <1>0
<1>2. DocumentOK(n, tailed, U, old, os, off1)
  BY <1>1, WiderDocument
<1>3. /\ n \in Nat /\ n \in 1 .. n /\ n # 0
      /\ \A i \in 1 .. n : os[i] \in Seq(U) /\ SegmentOK(i, n, tailed, os[i])
  <2>1. os \in Seq(Seq(U)) /\ n = Len(os) /\ n # 0 /\ \A i \in 1 .. n : SegmentOK(i, n, tailed, os[i])
    BY <1>2, Zenon DEF DocumentOK
  <2> HIDE DEF U
  <2>2. n \in Nat
    BY <2>1
  <2> QED
    BY <2>1, <2>2
<1>4. \A i \in 1 .. n : /\ section(i) \in U /\ section(i).is = "rem"
                        /\ RemediationSection(S(i)) = <<section(i)>>
  <2> TAKE i \in 1 .. n
  <2>1. section(i) \in U
    OBVIOUS
  <2> HIDE DEF S, U
  <2> QED
    BY <2>1 DEF RemediationSection, Block
<1>5. end \in U /\ end.is = "summary" /\ Summary = <<end>>
  <2>1. end \in U
    OBVIOUS
  <2> HIDE DEF U
  <2> QED
    BY <2>1 DEF Summary, Block
<1> HIDE DEF section, end, U
<1>6. \A i \in 1 .. n : new[i] = Before("rem", os[i]) \o <<section(i)>>
  <2> TAKE i \in 1 .. n
  <2>1. Segment(old, i, Len(old)) = os[i]
    BY <1>1, WholeSegmentIs
  <2> HIDE DEF old, S
  <2>2. new[i] = RemediationSegment(os[i], S(i))
    BY <2>1
  <2> QED
    BY <1>4, <2>2 DEF RemediationSegment
<1>7. Headings(old) = n
  BY <1>1, ParsedIs
<1>8. RemediationMd(md) = FlattenSeq(new) \o <<end>>
  BY <1>5, <1>7 DEF RemediationMd, WithoutSummary
<1>9. new = [i \in 1 .. n |-> new[i]]
  OBVIOUS
<1> HIDE DEF new, old, S
<1>10. \A i \in 1 .. n : /\ new[i] \in Seq(U) /\ SegmentOK(i, n, tailed, new[i]) /\ Has(new[i], "rem")
                         /\ \A j \in 2 .. Len(new[i]) : new[i][j].is # "summary"
  <2> TAKE i \in 1 .. n
  <2> DEFINE t == Before("rem", os[i]) \o <<section(i)>>
  <2>1. os[i] \in Seq(U) /\ SegmentOK(i, n, tailed, os[i]) /\ section(i) \in U /\ section(i).is = "rem"
    BY <1>3, <1>4
  <2>2. \A j \in 2 .. Len(os[i]) : os[i][j].is # "summary"
    BY <1>1 DEF NoSummary
  <2>3. /\ t \in Seq(U) /\ SegmentOK(i, n, tailed, t) /\ Has(t, "rem")
        /\ \A j \in 2 .. Len(t) : t[j].is # "summary"
    BY <2>1, <2>2, RemediationGoesIn
  <2> HIDE DEF t
  <2>4. new[i] = t
    BY <1>6 DEF t
  <2> QED
    BY <2>3, <2>4
<1>11. new \in Seq(Seq(U)) /\ Len(new) = n
  BY <1>3, <1>9, <1>10, ListOf
<1>12. SegmentOK(n, n, tailed, new[n] \o <<end>>) /\ Has(new[n] \o <<end>>, "rem")
  BY <1>3, <1>5, <1>10, SummaryGoesIn
<1>13. <<end>> \in Seq(U)
  BY <1>5
<1>14. \A i \in 1 .. n : Has(Ending(new, new[n] \o <<end>>)[i], "rem")
  <2> DEFINE last == new[n] \o <<end>>
  <2>1. last \in Seq(U)
    <3>1. new[n] \in Seq(U)
      BY <1>3, <1>10
    <3> QED
      BY <1>13, <3>1
  <2> HIDE DEF last
  <2>2. \A i \in 1 .. Len(new) : Ending(new, last)[i] = IF i = Len(new) THEN last ELSE new[i]
    <3>1. /\ Ending(new, last) \in Seq(Seq(U)) /\ Len(Ending(new, last)) = Len(new)
          /\ \A i \in 1 .. Len(new) : Ending(new, last)[i] = IF i = Len(new) THEN last ELSE new[i]
      <4>1. new \in Seq(Seq(U))
        BY <1>11
      <4> QED
        BY <2>1, <4>1, EndingIs, SMT
    <3> QED
      BY <3>1
  <2> QED
    BY <1>10, <1>11, <1>12, <2>2 DEF last
<1>15. \E starts : DocumentOK(n, tailed, U, FlattenSeq(new) \o <<end>>, Ending(new, new[n] \o <<end>>), starts)
  BY <1>3, <1>10, <1>11, <1>12, <1>13, <1>14, PutTogether
<1> QED
  BY <1>8, <1>15, Zenon

(* A list is what comes up to a place and what comes after it.               *)
LEMMA CutInTwo ==
  ASSUME NEW T, NEW s \in Seq(T), NEW c \in 0 .. Len(s)
  PROVE  /\ SubSeq(s, 1, c) \in Seq(T) /\ SubSeq(s, c + 1, Len(s)) \in Seq(T)
         /\ SubSeq(s, 1, c) \o SubSeq(s, c + 1, Len(s)) = s
<1>1. Len(s) \in Nat /\ c \in Nat /\ c <= Len(s) /\ \A k \in 1 .. Len(s) : s[k] \in T
  OBVIOUS
<1> DEFINE a == SubSeq(s, 1, c)
           m == Len(s) - c
           b == SubSeq(s, c + 1, Len(s))
<1>2. a \in Seq(T) /\ Len(a) = c /\ \A k \in 1 .. c : a[k] = s[k]
  BY <1>1
<1>3. b \in Seq(T) /\ Len(b) = m /\ \A k \in 1 .. m : b[k] = s[c + k]
  BY <1>1
<1>4. m \in Nat /\ c + m = Len(s)
  BY <1>1
<1> HIDE DEF a, b, m
<1>5. /\ a \o b \in Seq(T) /\ Len(a \o b) = c + m
      /\ \A k \in 1 .. c : (a \o b)[k] = a[k]
      /\ \A k \in 1 .. m : (a \o b)[c + k] = b[k]
  <2>1. a \in Seq(T) /\ b \in Seq(T)
    BY <1>2, <1>3
  <2>2. /\ a \o b \in Seq(T) /\ Len(a \o b) = Len(a) + Len(b)
        /\ \A k \in 1 .. Len(a) : (a \o b)[k] = a[k]
        /\ \A k \in 1 .. Len(b) : (a \o b)[Len(a) + k] = b[k]
    BY <2>1
  <2> QED
    BY <1>2, <1>3, <2>2
<1>6. \A k \in 1 .. Len(s) : (a \o b)[k] = s[k]
  <2> TAKE k \in 1 .. Len(s)
  <2>1. CASE k <= c
    <3>1. k \in 1 .. c
      BY <1>1, <2>1
    <3> QED
      BY <1>2, <1>5, <3>1
  <2>2. CASE ~(k <= c)
    <3>1. k - c \in 1 .. m /\ k = c + (k - c)
      BY <1>1, <1>4, <2>2
    <3> QED
      BY <1>3, <1>5, <3>1
  <2> QED
    BY <2>1, <2>2
<1>7. a \o b = s
  BY <1>4, <1>5, <1>6, SeqEqual
<1> QED
  BY <1>2, <1>3, <1>7 DEF a, b

(* Where the sections of the report begin, in the file and in its last       *)
(* segment.                                                                  *)
SectionsEnd(md) ==
  LET tail == {k \in DOMAIN md : md[k].is \in {"tail", "summary"}}
  IN IF tail = {} THEN Len(md) ELSE Min(tail) - 1

CutAt(md, s, o, cut) ==
  /\ SectionsEnd(md) = o + cut
  /\ \A j \in 2 .. Len(s) : s[j].is \in Level => cut < j
  /\ cut # Len(s) => cut + 1 \in 2 .. Len(s) /\ s[cut + 1].is \in Level
  /\ SubSeq(md, o + cut + 1, Len(md)) = SubSeq(s, cut + 1, Len(s))

LEMMA SectionsEndIs ==
  ASSUME NEW n, NEW tailed \in BOOLEAN, NEW T, NEW md, NEW ss, NEW off, DocumentOK(n, tailed, T, md, ss, off)
  PROVE  \E cut \in 1 .. Len(ss[n]) : CutAt(md, ss[n], off[n], cut)
<1>1. /\ md \in Seq(T) /\ ss \in Seq(Seq(T)) /\ n = Len(ss) /\ n # 0 /\ Parts(md, ss, off)
      /\ \A i \in 1 .. n : SegmentOK(i, n, tailed, ss[i])
  BY DEF DocumentOK
<1>2. Placed(n, T, md, ss, off)
  BY <1>1, PartsAre, Zenon
<1>3. /\ n \in Nat /\ n \in 1 .. n /\ Len(md) \in Nat /\ Len(md) = off[n] + Len(ss[n])
      /\ \A i \in 1 .. n : ss[i] \in Seq(T) /\ Len(ss[i]) \in Nat
      /\ off[n] \in Nat
      /\ \A i \in 1 .. n : \A j \in 1 .. Len(ss[i]) : off[i] + j \in 1 .. Len(md) /\ md[off[i] + j] = ss[i][j]
      /\ \A k \in 1 .. Len(md) : \E i \in 1 .. n : \E j \in 1 .. Len(ss[i]) : k = off[i] + j
  <2>1. n \in Nat /\ n \in 1 .. n
    BY <1>1, <1>2 DEF Placed
  <2> QED
    BY <1>2, <2>1 DEF Placed
<1>4. DOMAIN md = 1 .. Len(md) /\ Len(ss[n]) \in Nat /\ 1 <= Len(ss[n]) /\ ss[n] \in Seq(T)
  BY <1>1, <1>3 DEF SegmentOK
<1> DEFINE tail == {k \in DOMAIN md : md[k].is \in {"tail", "summary"}}
<1>5. SectionsEnd(md) = IF tail = {} THEN Len(md) ELSE Min(tail) - 1
  BY DEF SectionsEnd
<1>6. \A k \in tail : \E j \in 2 .. Len(ss[n]) : k = off[n] + j /\ ss[n][j].is \in Level
  <2> TAKE k \in tail
  <2>1. PICK i \in 1 .. n : \E j \in 1 .. Len(ss[i]) : k = off[i] + j
    BY <1>3, <1>4
  <2>2. PICK j \in 1 .. Len(ss[i]) : k = off[i] + j
    BY <2>1
  <2>3. ss[i][j].is \in Level
    BY <1>3, <2>2 DEF Level
  <2>4. ss[i][1].is \notin Level
    BY <1>1 DEF SegmentOK, IsHeading, Level
  <2>5. j \in 2 .. Len(ss[i])
    <3>1. j # 1
      BY <2>3, <2>4
    <3> QED
      BY <1>3, <3>1
  <2>6. i = n
    BY <1>1, <2>3, <2>5 DEF SegmentOK
  <2> QED
    BY <2>2, <2>3, <2>5, <2>6
<1>7. \A j \in 2 .. Len(ss[n]) : ss[n][j].is \in Level => off[n] + j \in tail
  <2> TAKE j \in 2 .. Len(ss[n])
  <2>1. HAVE ss[n][j].is \in Level
  <2>2. j \in 1 .. Len(ss[n])
    BY <1>4
  <2>3. off[n] + j \in 1 .. Len(md) /\ md[off[n] + j] = ss[n][j]
    BY <1>3, <2>2
  <2> QED
    BY <1>4, <2>1, <2>3 DEF Level
<1> HIDE DEF tail
(* What is left of the file is what is left of its last segment.             *)
<1>8. ASSUME NEW cut \in 1 .. Len(ss[n])
      PROVE  SubSeq(md, off[n] + cut + 1, Len(md)) = SubSeq(ss[n], cut + 1, Len(ss[n]))
  <2>1. PICK x \in Nat, y \in Nat, z \in Nat, w \in Nat : x = Len(md) /\ y = Len(ss[n]) /\ z = off[n] /\ w = cut
    BY <1>3, <1>4
  <2>2. PICK p \in Nat, q \in Nat, d \in Nat : p = z + w + 1 /\ q = w + 1 /\ d = y - w
    <3>1. x = z + y /\ 1 <= w /\ w <= y
      BY <1>3, <1>4, <2>1
    <3>2. z + w + 1 \in Nat /\ w + 1 \in Nat /\ y - w \in Nat
      BY <3>1
    <3> QED
      BY <3>2
  <2>3. /\ p \in Int /\ q \in Int /\ x \in Int /\ y \in Int
        /\ (IF p <= x THEN x - p + 1 ELSE 0) = d /\ (IF q <= y THEN y - q + 1 ELSE 0) = d
        /\ x - p + 1 = d /\ y - q + 1 = d
        /\ \A j \in 1 .. d : p + j - 1 = z + (w + j) /\ q + j - 1 = w + j /\ w + j \in 1 .. y
        /\ \A j \in p .. x : j \in 1 .. x
        /\ \A j \in q .. y : j \in 1 .. y
    <3>1. x = z + y /\ 1 <= w /\ w <= y
      BY <1>3, <1>4, <2>1
    <3> QED
      BY <2>2, <3>1
  <2>4. (\A k \in 1 .. Len(md) : md[k] \in T) /\ (\A k \in 1 .. Len(ss[n]) : ss[n][k] \in T)
    BY <1>1, <1>4
  <2> DEFINE u == SubSeq(md, p, x)
             v == SubSeq(ss[n], q, y)
  <2>5. u \in Seq(T) /\ Len(u) = d /\ \A j \in 1 .. d : u[j] = md[p + j - 1]
    <3>1. \A j \in p .. x : md[j] \in T
      BY <2>1, <2>3, <2>4
    <3>2. /\ SubSeq(md, p, x) \in Seq(T)
          /\ Len(SubSeq(md, p, x)) = IF p <= x THEN x - p + 1 ELSE 0
          /\ \A j \in 1 .. x - p + 1 : SubSeq(md, p, x)[j] = md[p + j - 1]
      BY <2>3, <3>1, SubSeqProperties
    <3> HIDE DEF v
    <3> QED
      BY <2>3, <3>2
  <2>6. v \in Seq(T) /\ Len(v) = d /\ \A j \in 1 .. d : v[j] = ss[n][q + j - 1]
    <3>1. \A j \in q .. y : ss[n][j] \in T
      BY <2>1, <2>3, <2>4
    <3>2. /\ SubSeq(ss[n], q, y) \in Seq(T)
          /\ Len(SubSeq(ss[n], q, y)) = IF q <= y THEN y - q + 1 ELSE 0
          /\ \A j \in 1 .. y - q + 1 : SubSeq(ss[n], q, y)[j] = ss[n][q + j - 1]
      BY <2>3, <3>1, SubSeqProperties
    <3> HIDE DEF u
    <3> QED
      BY <2>3, <3>2
  <2> HIDE DEF u, v
  <2>7. \A j \in 1 .. d : u[j] = v[j]
    <3> TAKE j \in 1 .. d
    <3>1. u[j] = md[z + (w + j)]
      BY <2>3, <2>5
    <3>2. v[j] = ss[n][w + j]
      BY <2>3, <2>6
    <3>3. md[off[n] + (w + j)] = ss[n][w + j]
      <4>1. w + j \in 1 .. Len(ss[n])
        BY <2>1, <2>3
      <4> QED
        BY <1>3, <4>1
    <3> QED
      BY <2>1, <3>1, <3>2, <3>3
  <2>8. u = v
    BY <2>5, <2>6, <2>7, SeqEqual
  <2> QED
    BY <2>1, <2>2, <2>8 DEF u, v
<1>9. CASE tail = {}
  <2> DEFINE cut == Len(ss[n])
  <2>1. cut \in 1 .. Len(ss[n]) /\ SectionsEnd(md) = off[n] + cut
    BY <1>3, <1>4, <1>5, <1>9
  <2>2. \A j \in 2 .. Len(ss[n]) : ss[n][j].is \notin Level
    BY <1>7, <1>9
  <2>3. SubSeq(md, off[n] + cut + 1, Len(md)) = SubSeq(ss[n], cut + 1, Len(ss[n]))
    BY <1>8, <2>1
  <2>4. CutAt(md, ss[n], off[n], cut)
    BY <2>1, <2>2, <2>3 DEF CutAt
  <2> QED
    BY <2>1, <2>4
<1>10. CASE tail # {}
  <2>1. tail \in SUBSET Nat
    BY <1>4 DEF tail
  <2>2. Min(tail) \in tail /\ \A k \in tail : Min(tail) <= k
    <3>1. PICK k \in tail : \A j \in tail : k <= j
      BY <1>10, <2>1, Smallest
    <3> QED
      BY <3>1 DEF Min
  <2>3. PICK j \in 2 .. Len(ss[n]) : Min(tail) = off[n] + j /\ ss[n][j].is \in Level
    BY <1>6, <2>2
  <2> DEFINE cut == j - 1
  <2>4. /\ cut \in 1 .. Len(ss[n]) /\ cut + 1 = j /\ (off[n] + j) - 1 = off[n] + cut
    <3>1. PICK x \in Nat, y \in Nat : x = off[n] /\ y = Len(ss[n])
      BY <1>3, <1>4
    <3>2. j \in 2 .. y
      BY <3>1
    <3>3. j - 1 \in 1 .. y /\ (j - 1) + 1 = j /\ (x + j) - 1 = x + (j - 1)
      BY <3>2
    <3> QED
      BY <3>1, <3>3
  <2>5. SectionsEnd(md) = off[n] + cut
    BY <1>5, <1>10, <2>3, <2>4
  <2>6. \A h \in 2 .. Len(ss[n]) : ss[n][h].is \in Level => cut < h
    <3> TAKE h \in 2 .. Len(ss[n])
    <3>1. HAVE ss[n][h].is \in Level
    <3>2. off[n] + j <= off[n] + h
      BY <1>7, <2>2, <2>3, <3>1
    <3> QED
      BY <1>3, <1>4, <3>2
  <2>7. cut + 1 \in 2 .. Len(ss[n]) /\ ss[n][cut + 1].is \in Level
    BY <2>3, <2>4
  <2>8. SubSeq(md, off[n] + cut + 1, Len(md)) = SubSeq(ss[n], cut + 1, Len(ss[n]))
    BY <1>8, <2>4
  <2> HIDE DEF cut
  <2>9. CutAt(md, ss[n], off[n], cut)
    BY <2>5, <2>6, <2>7, <2>8, Zenon DEF CutAt
  <2> QED
    BY <2>4, <2>9
<1> QED
  BY <1>9, <1>10

LEMMA ValidationDocument ==
  ASSUME NEW n, NEW tailed \in BOOLEAN, NEW T, NEW md, NEW ss, NEW off, DocumentOK(n, tailed, T, md, ss, off)
  PROVE  \E U, to, starts : DocumentOK(n, tailed, U, ValidationMd(md), to, starts)
<1> DEFINE end == SectionsEnd(md)
           S(i) == Matches(md[HeadingAt(md, i)], DOMAIN pairs)
           section(i) == ValidationSection(CHOOSE d \in S(i) : TRUE)[1]
           U == T \cup {section(i) : i \in 1 .. n}
           new == [i \in 1 .. n |-> ValidationSegment(Segment(md, i, end), S(i))]
           rest == SubSeq(md, end + 1, Len(md))
<1>1. DocumentOK(n, tailed, U, md, ss, off)
  BY WiderDocument
<1>2. /\ n \in Nat /\ n \in 1 .. n /\ n # 0
      /\ \A i \in 1 .. n : ss[i] \in Seq(U) /\ SegmentOK(i, n, tailed, ss[i])
      /\ (\E i \in 1 .. n : Has(ss[i], "rem")) => \A i \in 1 .. n : Has(ss[i], "rem") \/ Has(ss[i], "val")
  <2>1. /\ ss \in Seq(Seq(U)) /\ n = Len(ss) /\ n # 0 /\ \A i \in 1 .. n : SegmentOK(i, n, tailed, ss[i])
        /\ (\E i \in 1 .. n : Has(ss[i], "rem")) => \A i \in 1 .. n : Has(ss[i], "rem") \/ Has(ss[i], "val")
    BY <1>1, Zenon DEF DocumentOK
  <2> HIDE DEF U
  <2>2. n \in Nat
    BY <2>1
  <2>3. \A i \in 1 .. n : ss[i] \in Seq(U)
    BY <2>1
  <2> QED
    BY <2>1, <2>2, <2>3
<1>3. \A i \in 1 .. n : /\ section(i) \in U /\ section(i).is = "val"
                        /\ ValidationSection(CHOOSE d \in S(i) : TRUE) = <<section(i)>>
  <2> TAKE i \in 1 .. n
  <2>1. section(i) \in U
    OBVIOUS
  <2> HIDE DEF S, U
  <2> QED
    BY <2>1 DEF ValidationSection, Block
<1>4. Headings(md) = n
  BY <1>1, ParsedIs
<1>5. ValidationMd(md) = FlattenSeq(new) \o rest
  BY <1>4 DEF ValidationMd, SectionsEnd
<1>6. PICK cut \in 1 .. Len(ss[n]) :
        /\ end = off[n] + cut
        /\ \A j \in 2 .. Len(ss[n]) : ss[n][j].is \in Level => cut < j
        /\ cut # Len(ss[n]) => cut + 1 \in 2 .. Len(ss[n]) /\ ss[n][cut + 1].is \in Level
        /\ SubSeq(md, off[n] + cut + 1, Len(md)) = SubSeq(ss[n], cut + 1, Len(ss[n]))
  <2>1. \E cut \in 1 .. Len(ss[n]) : CutAt(md, ss[n], off[n], cut)
    BY SectionsEndIs, Zenon
  <2> QED
    BY <2>1 DEF CutAt
<1>7. rest = SubSeq(ss[n], cut + 1, Len(ss[n]))
  BY <1>6
<1>8. new = [i \in 1 .. n |-> new[i]]
  OBVIOUS
<1> HIDE DEF end, section, U
(* Of each segment, where it is cut.                                         *)
<1> DEFINE c(i) == IF i = n THEN cut ELSE Len(ss[i])
           last(i) == SubSeq(ss[i], c(i) + 1, Len(ss[i]))
           full(i) == new[i] \o last(i)
<1>9. \A i \in 1 .. n : /\ c(i) \in 1 .. Len(ss[i]) /\ c(i) \in 0 .. Len(ss[i]) /\ Len(ss[i]) \in Nat
                        /\ \A j \in 2 .. Len(ss[i]) : ss[i][j].is \in Level => c(i) < j
                        /\ c(i) # Len(ss[i]) => c(i) + 1 \in 2 .. Len(ss[i]) /\ ss[i][c(i) + 1].is \in Level
  <2> TAKE i \in 1 .. n
  <2>1. Len(ss[i]) \in Nat /\ 1 <= Len(ss[i])
    BY <1>2 DEF SegmentOK
  <2>2. CASE i = n
    <3>1. c(i) = cut /\ ss[i] = ss[n]
      BY <2>2
    <3> HIDE DEF c
    <3>2. cut \in 0 .. Len(ss[n])
      BY <2>1, <3>1
    <3> QED
      BY <1>6, <2>1, <3>1, <3>2
  <2>3. CASE i # n
    <3>1. \A j \in 2 .. Len(ss[i]) : ss[i][j].is \notin Level
      BY <1>2, <2>3 DEF SegmentOK
    <3> QED
      BY <2>1, <2>3, <3>1
  <2> QED
    BY <2>2, <2>3
<1>10. \A i \in 1 .. n : /\ last(i) \in Seq(U) /\ SubSeq(ss[i], 1, c(i)) \in Seq(U)
                         /\ SubSeq(ss[i], 1, c(i)) \o last(i) = ss[i]
  BY <1>2, <1>9, CutInTwo
<1>11. \A i \in 1 .. n : i # n => last(i) = <<>>
  <2> TAKE i \in 1 .. n
  <2>1. HAVE i # n
  <2>2. Len(ss[i]) \in Int /\ Len(ss[i]) + 1 \in Int /\ Len(ss[i]) < Len(ss[i]) + 1
    BY <1>9
  <2>3. SubSeq(ss[i], Len(ss[i]) + 1, Len(ss[i])) = <<>>
    BY <2>2, SubSeqEmpty
  <2> QED
    BY <2>1, <2>3
<1>12. last(n) = rest
  BY <1>7
<1>13. \A i \in 1 .. n : Segment(md, i, end) = SubSeq(ss[i], 1, c(i))
  <2> TAKE i \in 1 .. n
  <2>1. c(i) \in 0 .. Len(ss[i]) /\ (i # n => c(i) = Len(ss[i])) /\ (i = n => end = off[n] + c(i))
    BY <1>6, <1>9
  <2> HIDE DEF c
  <2> QED
    BY <1>1, <2>1, SegmentIs
<1> HIDE DEF c
<1>14. \A i \in 1 .. n : S(i) = {} => new[i] = SubSeq(ss[i], 1, c(i))
  BY <1>13 DEF ValidationSegment
<1>15. \A i \in 1 .. n : S(i) # {} => new[i] = Before("val", SubSeq(ss[i], 1, c(i))) \o <<section(i)>>
  <2> TAKE i \in 1 .. n
  <2>1. HAVE S(i) # {}
  <2>2. new[i] = ValidationSegment(SubSeq(ss[i], 1, c(i)), S(i))
    BY <1>13
  <2> HIDE DEF S, new
  <2> QED
    BY <1>3, <2>1, <2>2 DEF ValidationSegment
<1> HIDE DEF new, S, rest
<1>16. \A i \in 1 .. n : /\ new[i] \in Seq(U) /\ full(i) \in Seq(U) /\ SegmentOK(i, n, tailed, full(i))
                         /\ Has(full(i), "rem") => Has(ss[i], "rem")
                         /\ full(i) = ss[i] \/ Has(full(i), "val")
  <2> TAKE i \in 1 .. n
  <2>1. ss[i] \in Seq(U) /\ SegmentOK(i, n, tailed, ss[i]) /\ section(i) \in U /\ section(i).is = "val"
    BY <1>2, <1>3
  <2>2. CASE S(i) = {}
    <3>1. new[i] = SubSeq(ss[i], 1, c(i)) /\ full(i) = ss[i]
      BY <1>10, <1>14, <2>2
    <3> HIDE DEF full
    <3>2. new[i] \in Seq(U)
      BY <1>10, <3>1
    <3> QED
      BY <2>1, <3>1, <3>2
  <2>3. CASE S(i) # {}
    <3> DEFINE t == Before("val", SubSeq(ss[i], 1, c(i))) \o <<section(i)>>
    <3>1. /\ t \o last(i) \in Seq(U) /\ SegmentOK(i, n, tailed, t \o last(i)) /\ Has(t \o last(i), "val")
          /\ Has(t \o last(i), "rem") => Has(ss[i], "rem")
      <4> HIDE DEF full
      <4>1. PICK x \in 1 .. Len(ss[i]) : x = c(i)
        BY <1>9
      <4>2. /\ \A j \in 2 .. Len(ss[i]) : ss[i][j].is \in Level => x < j
            /\ x # Len(ss[i]) => x + 1 \in 2 .. Len(ss[i]) /\ ss[i][x + 1].is \in Level
        BY <1>9, <4>1
      <4>3. LET to == (Before("val", SubSeq(ss[i], 1, x)) \o <<section(i)>>) \o SubSeq(ss[i], x + 1, Len(ss[i]))
            IN /\ to \in Seq(U) /\ SegmentOK(i, n, tailed, to) /\ Has(to, "val")
               /\ Has(to, "rem") => Has(ss[i], "rem")
        BY <2>1, <4>2, ValidationGoesIn, SMTT(20)
      <4> QED
        BY <4>1, <4>3
    <3>2. t \in Seq(U)
      <4> DEFINE above == SubSeq(ss[i], 1, c(i))
      <4>1. above \in Seq(U)
        BY <1>10
      <4> HIDE DEF above
      <4>2. PICK x \in 0 .. Len(above) : Before("val", above) = SubSeq(above, 1, x)
        BY <4>1, BeforeIs
      <4>3. SubSeq(above, 1, x) \o <<section(i)>> \in Seq(U)
        BY <2>1, <4>1, CutAndAdd
      <4> QED
        BY <4>2, <4>3 DEF above
    <3> HIDE DEF t
    <3>3. new[i] = t
      BY <1>15, <2>3 DEF t
    <3> QED
      BY <3>1, <3>2, <3>3
  <2> QED
    BY <2>2, <2>3
<1>17. new \in Seq(Seq(U)) /\ Len(new) = n
  BY <1>2, <1>8, <1>16, ListOf
<1>18. \A i \in 1 .. n : i # n => new[i] = full(i)
  <2> TAKE i \in 1 .. n
  <2>1. HAVE i # n
  <2>2. last(i) = <<>> /\ new[i] \in Seq(U)
    BY <1>11, <1>16, <2>1
  <2> HIDE DEF last
  <2> QED
    BY <2>2
<1>19. new[n] \o rest = full(n) /\ rest \in Seq(U)
  BY <1>2, <1>10, <1>12
<1> HIDE DEF full, last
<1>20. \A i \in 1 .. n : Ending(new, new[n] \o rest)[i] = full(i)
  <2>1. full(n) \in Seq(U)
    BY <1>2, <1>16
  <2>2. /\ Ending(new, full(n)) \in Seq(Seq(U)) /\ Len(Ending(new, full(n))) = Len(new)
        /\ \A i \in 1 .. Len(new) : Ending(new, full(n))[i] = IF i = Len(new) THEN full(n) ELSE new[i]
    <3>1. new \in Seq(Seq(U))
      BY <1>17
    <3>2. PICK z \in Seq(U) : z = full(n)
      BY <2>1
    <3>3. /\ Ending(new, z) \in Seq(Seq(U)) /\ Len(Ending(new, z)) = Len(new)
          /\ \A i \in 1 .. Len(new) : Ending(new, z)[i] = IF i = Len(new) THEN z ELSE new[i]
      BY <3>1, EndingIs
    <3> QED
      BY <3>2, <3>3
  <2>3. \A i \in 1 .. n : Ending(new, full(n))[i] = full(i)
    BY <1>17, <1>18, <2>2
  <2> QED
    BY <1>19, <2>3
<1>21. (\E i \in 1 .. n : Has(full(i), "rem")) => \A i \in 1 .. n : Has(full(i), "rem") \/ Has(full(i), "val")
  <2> SUFFICES ASSUME NEW i \in 1 .. n, Has(full(i), "rem"), NEW j \in 1 .. n
               PROVE  Has(full(j), "rem") \/ Has(full(j), "val")
    OBVIOUS
  <2>1. Has(ss[j], "rem") \/ Has(ss[j], "val")
    BY <1>2, <1>16
  <2> QED
    BY <1>16, <2>1
<1>22. LET to == Ending(new, new[n] \o rest)
       IN (\E i \in 1 .. n : Has(to[i], "rem")) => \A i \in 1 .. n : Has(to[i], "rem") \/ Has(to[i], "val")
  BY <1>20, <1>21
<1>23. \A i \in 1 .. n : i # n => SegmentOK(i, n, tailed, new[i])
  BY <1>16, <1>18
<1>24. SegmentOK(n, n, tailed, new[n] \o rest)
  BY <1>2, <1>16, <1>19
<1>25. \E starts : DocumentOK(n, tailed, U, FlattenSeq(new) \o rest, Ending(new, new[n] \o rest), starts)
  BY <1>2, <1>17, <1>19, <1>22, <1>23, <1>24, PutTogether
<1> QED
  BY <1>5, <1>25, Zenon

(* What the scan writes is one heading after the other and the tail.         *)
LEMMA ScanDocument ==
  ASSUME NEW r \in Reported, Reports[r] # <<>>
  PROVE  \E T, ss, off : DocumentOK(Len(Reports[r]), r \in Tailed, T, ScanMarkdown(r), ss, off)
<1> DEFINE n == Len(Reports[r])
           tailed == r \in Tailed
           heading(i) == Block(IF <<r, i>> \in marked THEN "marked" ELSE "heading", i, Reports[r][i].title, "none")
           tail == Block("tail", 0, NoTitle, "none")
           T == {heading(i) : i \in 1 .. n} \cup {tail}
           new == [i \in 1 .. n |-> <<heading(i)>>]
           rest == IF tailed THEN <<tail>> ELSE <<>>
<1>1. n \in Nat /\ n # 0 /\ n \in 1 .. n /\ DOMAIN Reports[r] = 1 .. n
  <2>1. Reports[r] \in Seq(ReportData)
    BY CombinedReportAssumption DEF Reported
  <2> QED
    BY <2>1
<1>2. \A i \in 1 .. n : /\ heading(i) \in T /\ IsHeading(heading(i)) /\ heading(i).of = i
                        /\ heading(i).is \in {"heading", "marked"}
  BY DEF Block, IsHeading
<1>3. tail \in T /\ tail.is = "tail"
  BY DEF Block
<1>4. ScanMarkdown(r) = [i \in 1 .. n |-> heading(i)] \o rest
  BY <1>1 DEF ScanMarkdown
<1> HIDE DEF heading, tail, T, tailed
<1>5. \A i \in 1 .. n : new[i] \in Seq(T) /\ new[i] = <<heading(i)>>
  BY <1>2
<1>6. rest \in Seq(T)
  BY <1>3
<1>7. new \in Seq(Seq(T)) /\ Len(new) = n
  <2>1. new = [i \in 1 .. n |-> new[i]]
    OBVIOUS
  <2> HIDE DEF new, rest
  <2>2. new \in [1 .. n -> Seq(T)]
    BY <1>5, <2>1
  <2> QED
    BY <1>1, <2>2, ListOf
<1> DEFINE heads == [i \in 1 .. n |-> heading(i)]
<1>8. heads \in Seq(T) /\ Len(heads) = n
  BY <1>1, <1>2, ListOf
<1> HIDE DEF n
<1>9. FlattenSeq(new) = heads
  <2>1. PICK off : Parts(FlattenSeq(new), new, off)
    BY <1>7, FlattenAt
  <2>2. FlattenSeq(new) \in Seq(T)
    BY <1>7, FlattenIs
  <2>3. Placed(n, T, FlattenSeq(new), new, off)
    BY <1>7, <2>1, <2>2, PartsAre
  <2>4. /\ off[1] = 0 /\ Len(FlattenSeq(new)) = off[n + 1]
        /\ \A i \in 1 .. n : off[i] \in Nat /\ off[i + 1] = off[i] + Len(new[i])
        /\ \A i \in 1 .. n : \A j \in 1 .. Len(new[i]) : FlattenSeq(new)[off[i] + j] = new[i][j]
    BY <2>3 DEF Placed
  <2>5. \A i \in 1 .. n : Len(new[i]) = 1 /\ new[i][1] = heading(i) /\ 1 \in 1 .. Len(new[i])
    BY <1>5
  <2> HIDE DEF new, heads
  <2> DEFINE reached == {k \in 0 .. n : off[k + 1] = k}
  <2>6. 0 \in reached
    BY <1>1, <2>4
  <2>7. ASSUME NEW k \in 0 .. (n - 1), k \in reached PROVE k + 1 \in reached
    <3>1. k \in Nat /\ k + 1 \in 1 .. n /\ k + 1 \in 0 .. n
      BY <1>1
    <3>2. off[(k + 1) + 1] = off[k + 1] + 1
      BY <2>4, <2>5, <3>1
    <3> QED
      BY <2>7, <3>1, <3>2
  <2>8. \A k \in 0 .. n : k \in reached
    <3> HIDE DEF reached
    <3> QED
      BY <1>1, <2>6, <2>7, UpTo
  <2>9. \A i \in 1 .. n : FlattenSeq(new)[i] = heads[i]
    <3> TAKE i \in 1 .. n
    <3>1. i - 1 \in 0 .. n /\ (i - 1) + 1 = i
      BY <1>1
    <3>2. off[i] = i - 1
      BY <2>8, <3>1
    <3>3. FlattenSeq(new)[off[i] + 1] = heading(i)
      BY <2>4, <2>5
    <3> QED
      BY <3>1, <3>2, <3>3 DEF heads
  <2>10. Len(FlattenSeq(new)) = n
    <3>1. n \in 0 .. n
      BY <1>1
    <3> QED
      BY <2>4, <2>8, <3>1
  <2> QED
    BY <1>8, <2>2, <2>9, <2>10, SeqEqual
<1> HIDE DEF heads
<1>10. \A i \in 1 .. n : ~Has(new[i], "rem") /\ SegmentOK(i, n, FALSE, new[i]) /\ (i # n => SegmentOK(i, n, tailed, new[i]))
  <2> TAKE i \in 1 .. n
  <2>1. new[i] = <<heading(i)>> /\ Len(new[i]) = 1 /\ new[i][1] = heading(i) /\ \A j : j \notin 2 .. Len(new[i])
    BY <1>5
  <2>2. IsHeading(new[i][1]) /\ new[i][1].of = i /\ 1 <= Len(new[i])
    BY <1>2, <2>1
  <2> HIDE DEF new
  <2> QED
    BY <2>1, <2>2 DEF SegmentOK, Has
<1>11. SegmentOK(n, n, tailed, new[n] \o rest) /\ ~Has(new[n] \o rest, "rem") /\ new[n] \o rest \in Seq(T)
  <2>1. CASE ~tailed
    <3>1. new[n] \in Seq(T)
      BY <1>1, <1>5
    <3>2. new[n] \o rest = new[n] /\ rest = <<>>
      <4>1. rest = <<>>
        BY <2>1
      <4> HIDE DEF new, rest
      <4> QED
        BY <3>1, <4>1
    <3>3. tailed = FALSE
      BY <2>1 DEF tailed
    <3> HIDE DEF new, rest
    <3> QED
      BY <1>1, <1>10, <3>1, <3>2, <3>3
  <2>2. CASE tailed
    <3> DEFINE t == new[n] \o rest
    <3>1. heading(n) \in T /\ tail \in T /\ new[n] = <<heading(n)>> /\ rest = <<tail>>
      BY <1>1, <1>2, <1>3, <1>5, <2>2
    <3> HIDE DEF new, rest
    <3>2. t \in Seq(T) /\ Len(t) = 2 /\ t[1] = heading(n) /\ t[2] = tail
      BY <3>1
    <3> HIDE DEF t
    <3>3. \A j \in 2 .. Len(t) : j = 2
      BY <3>2
    <3>4. 2 \in 2 .. Len(t) /\ 1 <= Len(t)
      BY <3>2
    <3>5. IsHeading(t[1]) /\ t[1].of = n /\ t[2].is = "tail"
      BY <1>1, <1>2, <1>3, <3>2
    <3>6. \A j \in 2 .. Len(t) : t[j].is = "tail"
      BY <3>3, <3>5
    <3>7. ~Has(t, "rem")
      BY <3>6 DEF Has
    <3>8. SegmentOK(n, n, tailed, t)
      BY <2>2, <3>3, <3>4, <3>5, <3>6 DEF SegmentOK, Level
    <3> QED
      BY <3>2, <3>7, <3>8 DEF t
  <2> QED
    BY <2>1, <2>2
<1>12. \A i \in 1 .. n : ~Has(Ending(new, new[n] \o rest)[i], "rem")
  <2> HIDE DEF new, rest
  <2>1. \A i \in 1 .. n : Ending(new, new[n] \o rest)[i] = IF i = n THEN new[n] \o rest ELSE new[i]
    BY <1>7 DEF Ending
  <2> QED
    BY <1>7, <1>10, <1>11, <2>1
<1>13. \E starts : DocumentOK(n, tailed, T, FlattenSeq(new) \o rest, Ending(new, new[n] \o rest), starts)
  <2> HIDE DEF new, rest
  <2> QED
    BY <1>1, <1>6, <1>7, <1>10, <1>11, <1>12, PutTogether
<1>14. ScanMarkdown(r) = FlattenSeq(new) \o rest
  BY <1>4, <1>9 DEF heads
<1> HIDE DEF new, rest
<1> QED
  BY <1>13, <1>14, Zenon DEF n, tailed

-----------------------------------------------------------------------------
(* What the commands take.                                                   *)
Chosen(r) == {FolderOf(r, i) : i \in DOMAIN Reports[r]}

LEMMA LeastMember ==
  ASSUME NEW S \in SUBSET Nat, S # {}
  PROVE  Min(S) \in S /\ \A m \in S : Min(S) <= m
<1>1. PICK n \in S : \A m \in S : n <= m
  BY Smallest
<1> QED
  BY <1>1 DEF Min

LEMMA SelectTopIs ==
  ASSUME NEW r \in Reported, NEW cap \in Nat
  PROVE  SelectTop(r, cap) \in Seq(DOMAIN Reports[r])
<1> DEFINE D == DOMAIN Reports[r]
           upto == [i \in D |-> {j \in D : Higher(r, j, i)}]
           sorted == Ordered(upto)
           key == [i \in D |-> 0 - Reports[r][i].score]
<1>1. Reports[r] \in Seq(ReportData)
  BY CombinedReportAssumption DEF Reported
<1>2. /\ Len(Reports[r]) \in Nat /\ D = 1 .. Len(Reports[r])
      /\ \A i \in D : Reports[r][i] \in ReportData
  BY <1>1
<1>3. \A i \in D : Reports[r][i].score \in Nat /\ i \in Nat
  BY <1>2 DEF ReportData
<1>4. IsFiniteSet(D) /\ D \in SUBSET Nat
  BY <1>2, CountOfInitial
<1>5. CASE cap = 0
  <2>1. SelectTop(r, cap) = [i \in D |-> i]
    BY <1>5 DEF SelectTop, Indices
  <2>2. [i \in 1 .. Len(Reports[r]) |-> i] \in [1 .. Len(Reports[r]) -> 1 .. Len(Reports[r])]
    OBVIOUS
  <2>3. [i \in 1 .. Len(Reports[r]) |-> i] \in Seq(1 .. Len(Reports[r]))
    BY <1>2, <2>2, ListOf
  <2> QED
    BY <1>2, <2>1, <2>3
<1>6. CASE cap # 0
  <2>1. key \in [D -> Int] /\ upto \in [D -> SUBSET D]
    BY <1>3
  <2>2. \A i, j \in D : j \in upto[i] <=> key[j] < key[i] \/ (key[j] = key[i] /\ j <= i)
    <3> TAKE i, j \in D
    <3>1. PICK x \in Nat, y \in Nat : x = Reports[r][j].score /\ y = Reports[r][i].score
      BY <1>3
    <3>2. j \in upto[i] <=> x > y \/ (x = y /\ j <= i)
      BY <3>1 DEF Higher
    <3>3. key[j] = 0 - x /\ key[i] = 0 - y
      BY <3>1
    <3>4. (0 - x < 0 - y <=> x > y) /\ (0 - x = 0 - y <=> x = y)
      BY <3>1
    <3> QED
      BY <3>2, <3>3, <3>4
  <2> HIDE DEF upto, key
  <2>3. LinearOrder(upto, D)
    BY <1>4, <2>1, <2>2, ByKey
  <2>4. Numbering(sorted, D)
    BY <1>4, <2>3, OrderedIs
  <2>5. sorted \in Seq(D)
    <3>1. Cardinality(D) \in Nat /\ sorted \in [1 .. Cardinality(D) -> D]
      BY <2>4 DEF Numbering
    <3> HIDE DEF D, sorted
    <3> QED
      BY <3>1, ListOf
  <2>6. SelectTop(r, cap) = SubSeq(sorted, 1, Min({cap, Len(sorted)}))
    BY <1>6 DEF SelectTop, upto
  <2> HIDE DEF sorted, D
  <2>7. Min({cap, Len(sorted)}) \in 0 .. Len(sorted)
    <3>1. Len(sorted) \in Nat
      BY <2>5
    <3>2. {cap, Len(sorted)} \in SUBSET Nat /\ {cap, Len(sorted)} # {}
      BY <3>1
    <3>3. Min({cap, Len(sorted)}) \in {cap, Len(sorted)} /\ Min({cap, Len(sorted)}) <= Len(sorted)
      BY <3>2, LeastMember
    <3> QED
      BY <3>1, <3>3
  <2>8. SubSeq(sorted, 1, Min({cap, Len(sorted)})) \in Seq(D)
    BY <2>5, <2>7, CutInTwo
  <2> QED
    BY <2>6, <2>8 DEF D
<1> QED
  BY <1>5, <1>6

LEMMA CapIs ==
  ASSUME NEW cli \in Caps
  PROVE  ResolveTop(cli) \in Nat /\ (IF cli = {} THEN 0 ELSE Min(cli)) \in Nat
<1>1. cli \in SUBSET Nat /\ ProfileTop \in Nat
  BY CombinedReportAssumption
<1>2. cli # {} => Min(cli) \in Nat
  BY <1>1, LeastMember
<1> QED
  BY <1>1, <1>2 DEF ResolveTop

LEMMA LoadedIs ==
  ASSUME newest \in Reported, NEW cap \in Nat
  PROVE  LoadFindings(cap) \in Seq(Chosen(newest))
<1> DEFINE top == SelectTop(newest, cap)
<1>1. top \in Seq(DOMAIN Reports[newest])
  BY SelectTopIs
<1>2. LoadFindings(cap) = [k \in DOMAIN top |-> FolderOf(newest, top[k])]
  BY DEF LoadFindings
<1> HIDE DEF top
<1>3. Len(top) \in Nat /\ DOMAIN top = 1 .. Len(top) /\ \A k \in 1 .. Len(top) : top[k] \in DOMAIN Reports[newest]
  BY <1>1
<1>4. LoadFindings(cap) \in [1 .. Len(top) -> Chosen(newest)]
  BY <1>2, <1>3 DEF Chosen
<1> QED
  BY <1>3, <1>4, ListOf

FolderNames == (Nat \ {0}) \X Titles

LEMMA ChosenAreFolders ==
  ASSUME NEW r \in Reported, NEW d \in Chosen(r)
  PROVE  d \in FolderNames /\ d[1] \in DOMAIN Reports[r] /\ Reports[r][d[1]].loc \in Nat
<1>1. PICK i \in DOMAIN Reports[r] : d = <<i, Reports[r][i].title>>
  BY DEF Chosen, FolderOf
<1>2. Reports[r] \in Seq(ReportData)
  BY CombinedReportAssumption DEF Reported
<1>3. Reports[r][i] \in ReportData /\ i \in Nat \ {0}
  BY <1>1, <1>2
<1> QED
  BY <1>1, <1>3 DEF FolderNames, ReportData

(* The folders that validate takes, in the order of their names.             *)
LEMMA JudgedInOrder ==
  ASSUME NEW S \in SUBSET FolderNames, IsFiniteSet(S)
  PROVE  Ordered([d \in S |-> {e \in S : Later(d, e)}]) \in Seq(S)
<1> DEFINE upto == [d \in S |-> {e \in S : Later(d, e)}]
<1>1. \A d \in S : d = <<d[1], d[2]>> /\ d[1] \in Nat /\ d[2] \in Titles
  BY DEF FolderNames
<1>2. \A t \in Titles : TitleRank[t] \in Nat
  BY CombinedReportAssumption
<1>3. \A t, u \in Titles : TitleRank[t] = TitleRank[u] => t = u
  BY CombinedReportAssumption DEF IsInjective
<1>4. \A d, e \in S : Later(d, e) \/ Later(e, d)
  BY <1>1, <1>2 DEF Later
<1>5. \A d, e, f \in S : Later(d, e) /\ Later(e, f) => Later(d, f)
  <2> TAKE d, e, f \in S
  <2>1. /\ d[1] \in Nat /\ e[1] \in Nat /\ f[1] \in Nat
        /\ TitleRank[d[2]] \in Nat /\ TitleRank[e[2]] \in Nat /\ TitleRank[f[2]] \in Nat
    BY <1>1, <1>2
  <2> QED
    BY <2>1 DEF Later
<1>6. \A d, e \in S : Later(d, e) /\ Later(e, d) => d = e
  <2> TAKE d, e \in S
  <2>1. HAVE Later(d, e) /\ Later(e, d)
  <2>2. d[1] \in Nat /\ e[1] \in Nat /\ TitleRank[d[2]] \in Nat /\ TitleRank[e[2]] \in Nat
    BY <1>1, <1>2
  <2>3. d[1] = e[1] /\ TitleRank[d[2]] = TitleRank[e[2]]
    BY <2>1, <2>2 DEF Later
  <2>4. d[2] = e[2]
    BY <1>1, <1>3, <2>3
  <2> QED
    BY <1>1, <2>3, <2>4
<1>7. LinearOrder(upto, S)
  <2>1. upto \in [S -> SUBSET S]
    OBVIOUS
  <2>2. \A d \in S : d \in upto[d]
    BY <1>4
  <2>3. \A d, e \in S : Later(d, e) => upto[e] \subseteq upto[d]
    BY <1>5
  <2>4. \A d, e \in S : d # e /\ Later(d, e) => d \notin upto[e]
    BY <1>6
  <2> HIDE DEF upto
  <2>5. \A d, e \in S : d # e => \/ upto[d] \subseteq upto[e] /\ e \notin upto[d]
                                 \/ upto[e] \subseteq upto[d] /\ d \notin upto[e]
    BY <1>4, <2>3, <2>4
  <2> QED
    BY <2>1, <2>2, <2>5, Zenon DEF LinearOrder
<1> HIDE DEF upto
<1>8. Cardinality(S) \in Nat /\ Ordered(upto) \in [1 .. Cardinality(S) -> S]
  BY <1>7, OrderedIs DEF Numbering
<1>9. Ordered(upto) \in Seq(S)
  BY <1>8, ListOf
<1> QED
  BY <1>9 DEF upto

-----------------------------------------------------------------------------
(* The inductive invariant of the report.                                    *)
Documented(r, doc) ==
  /\ doc = [md |-> doc.md, sarif |-> doc.sarif]
  /\ \E T, ss, off : DocumentOK(Len(Reports[r]), r \in Tailed, T, doc.md, ss, off)

RepInv ==
  /\ RepTypeOK
  /\ DOMAIN folders \subseteq FolderNames /\ IsFiniteSet(DOMAIN folders)
  /\ doing \in {"fixing", "menu", "marking"} => HasFindings /\ left \in Seq(Chosen(newest))
  /\ doing = "marking" => left # <<>>
  /\ doing = "judging" => left \in Seq(DOMAIN folders)
  /\ doing = "copied" => newest \in DOMAIN combined
  /\ doing = "judged" => DOMAIN combined # {}
  /\ \A r \in DOMAIN combined : Reports[r] # <<>> /\ Documented(r, combined[r])

LEMMA Newest ==
  ASSUME RepInv
  PROVE  /\ newest \in Nat /\ newest <= Len(Reports) /\ Len(Reports) \in Nat /\ scans \in Seq(BOOLEAN)
         /\ DOMAIN Reports = 1 .. Len(Reports)
         /\ newest > 0 => newest \in Reported
         /\ DOMAIN combined \subseteq Reported
<1>1. scans \in Seq(BOOLEAN) /\ newest <= Len(Reports) /\ DOMAIN combined \subseteq 1 .. newest
  BY DEF RepInv, RepTypeOK
<1>2. newest \in Nat
  BY <1>1 DEF newest
<1>3. Len(Reports) \in Nat /\ DOMAIN Reports = 1 .. Len(Reports)
  BY CombinedReportAssumption
<1> QED
  BY <1>1, <1>2, <1>3 DEF Reported

LEMMA RestOfList ==
  ASSUME NEW T, NEW s \in Seq(T), s # <<>>
  PROVE  Head(s) \in T /\ Tail(s) \in Seq(T)
  OBVIOUS

(* The entries of what is left are folders' names.                           *)
LEMMA NamesOfSeq ==
  ASSUME NEW S \in SUBSET FolderNames, NEW s \in Seq(S)
  PROVE  \A k \in DOMAIN s : s[k][1] \in Nat /\ s[k][2] \in Titles
  BY DEF FolderNames

(* A status is put into a folder of the newest report.                       *)
LEMMA PutIs ==
  ASSUME RepInv, newest > 0, NEW d \in Chosen(newest), NEW status \in FolderStatus, Put(d, status)
  PROVE  /\ DOMAIN folders' = DOMAIN folders \cup {d}
         /\ DOMAIN folders' \subseteq FolderNames /\ IsFiniteSet(DOMAIN folders')
         /\ \A e \in DOMAIN folders' : /\ e[1] \in Nat \ {0} /\ e[2] \in Titles
                                       /\ folders'[e] \in [status : FolderStatus, loc : Nat]
<1>1. newest \in Reported
  BY Newest
<1>2. d \in FolderNames /\ Reports[newest][d[1]].loc \in Nat
  BY <1>1, ChosenAreFolders
<1>3. folders' = [e \in DOMAIN folders \cup {d} |->
                    IF e = d THEN [status |-> status, loc |-> Reports[newest][d[1]].loc] ELSE folders[e]]
  BY DEF Put
<1>4. DOMAIN folders' = DOMAIN folders \cup {d}
  BY <1>3
<1>5. DOMAIN folders' \subseteq FolderNames
  BY <1>2, <1>4 DEF RepInv
<1>6. IsFiniteSet(DOMAIN folders')
  BY <1>4, FS_AddElement DEF RepInv
<1>7. \A e \in DOMAIN folders' : folders'[e] \in [status : FolderStatus, loc : Nat]
  <2> TAKE e \in DOMAIN folders'
  <2>1. CASE e = d
    BY <1>2, <1>3, <1>4, <2>1
  <2>2. CASE e # d
    <3>1. e \in DOMAIN folders /\ folders'[e] = folders[e]
      BY <1>3, <1>4, <2>2
    <3> QED
      BY <3>1 DEF RepInv, RepTypeOK
  <2> QED
    BY <2>1, <2>2
<1>8. \A e \in DOMAIN folders' : e[1] \in Nat \ {0} /\ e[2] \in Titles
  BY <1>5 DEF FolderNames
<1> QED
  BY <1>4, <1>5, <1>6, <1>7, <1>8

LEMMA RepInitially == RepInit => RepInv
<1> SUFFICES ASSUME RepInit PROVE RepInv
  OBVIOUS
<1>1. /\ scans = <<>> /\ marked = {} /\ folders = <<>> /\ combined = <<>>
      /\ doing = "nothing" /\ left = <<>> /\ pairs = <<>> /\ commands = 0
  BY DEF RepInit
<1>2. Len(Reports) \in Nat /\ MaxCommands \in Nat
  BY CombinedReportAssumption
<1>3. DOMAIN folders = {} /\ DOMAIN combined = {} /\ DOMAIN left = {} /\ DOMAIN pairs = {} /\ newest = 0
  BY <1>1 DEF newest
<1>4. RepTypeOK
  BY <1>1, <1>2, <1>3 DEF RepTypeOK, newest
<1>5. IsFiniteSet(DOMAIN folders)
  BY <1>3, FS_EmptySet
<1> QED
  BY <1>1, <1>3, <1>4, <1>5 DEF RepInv

LEMMA WriteReportSound == ASSUME RepInv, NEW listed \in BOOLEAN, WriteReport(listed) PROVE RepInv'
<1>1. /\ doing = "nothing" /\ newest < Len(Reports) /\ scans' = Append(scans, listed)
      /\ UNCHANGED <<marked, folders, combined, doing, left, pairs, commands>>
  BY DEF WriteReport
<1>2. newest \in Nat /\ scans \in Seq(BOOLEAN) /\ Len(Reports) \in Nat
  BY Newest
<1>3. scans' \in Seq(BOOLEAN) /\ newest' = newest + 1 /\ newest' \in Nat /\ newest' <= Len(Reports)
  BY <1>1, <1>2 DEF newest
<1>4. 1 .. newest \subseteq 1 .. newest'
  BY <1>2, <1>3
<1>5. /\ \A m \in marked : m[1] \in 1 .. newest /\ m[2] \in DOMAIN Reports[m[1]]
      /\ DOMAIN combined \subseteq 1 .. newest
  BY DEF RepInv, RepTypeOK
<1>6. RepTypeOK'
  <2>1. /\ \A d \in DOMAIN folders :
             /\ d[1] \in Nat \ {0} /\ d[2] \in Titles
             /\ folders[d] \in [status : FolderStatus, loc : Nat]
        /\ \A k \in DOMAIN left : left[k][1] \in Nat /\ left[k][2] \in Titles
        /\ \A d \in DOMAIN pairs : d \in DOMAIN folders /\ pairs[d] \in Verdicts
        /\ commands \in 0 .. MaxCommands
    BY DEF RepInv, RepTypeOK
  <2> HIDE DEF newest
  <2> QED
    BY <1>1, <1>3, <1>4, <1>5, <2>1 DEF RepTypeOK
<1> QED
  BY <1>1, <1>6 DEF RepInv, Documented

(* What every command leaves as it is when it begins.                        *)
LEMMA BeginSound ==
  ASSUME RepInv, NEW what \in {"fixing", "menu", "judging"}, Begin(what),
         NEW S \in SUBSET FolderNames, left' \in Seq(S),
         what # "judging" => HasFindings /\ S = Chosen(newest),
         what = "judging" => S \subseteq DOMAIN folders
  PROVE  RepInv'
<1>1. /\ doing = "nothing" /\ commands < MaxCommands
      /\ commands' = commands + 1 /\ doing' = what /\ pairs' = <<>>
      /\ UNCHANGED <<scans, marked, folders, combined>>
  BY DEF Begin
<1>2. newest' = newest
  BY <1>1 DEF newest
<1>3. commands' \in 0 .. MaxCommands
  BY <1>1, CombinedReportAssumption DEF RepInv, RepTypeOK
<1>4. \A k \in DOMAIN left' : left'[k][1] \in Nat /\ left'[k][2] \in Titles
  BY NamesOfSeq
<1>5. RepTypeOK'
  BY <1>1, <1>2, <1>3, <1>4 DEF RepInv, RepTypeOK
<1>6. what = "judging" => left' \in Seq(DOMAIN folders')
  <2> SUFFICES ASSUME what = "judging" PROVE left' \in Seq(DOMAIN folders')
    OBVIOUS
  <2>1. S \subseteq DOMAIN folders'
    BY <1>1
  <2> QED
    BY <2>1, WiderList
<1>7. what # "judging" => HasFindings' /\ left' \in Seq(Chosen(newest)')
  BY <1>1, <1>2 DEF HasFindings, Chosen
<1>8. /\ DOMAIN folders' \subseteq FolderNames /\ IsFiniteSet(DOMAIN folders')
      /\ \A r \in DOMAIN combined' : Reports[r] # <<>> /\ Documented(r, combined'[r])
  BY <1>1 DEF RepInv
<1> QED
  BY <1>1, <1>5, <1>6, <1>7, <1>8 DEF RepInv, Documented

LEMMA RemediateSound == ASSUME RepInv, NEW cli \in Caps, Remediate(cli) \/ Menu(cli) PROVE RepInv'
<1>1. HasFindings /\ newest \in Reported
  <2>1. HasFindings
    BY DEF Remediate, Menu
  <2> QED
    BY <2>1, Newest DEF HasFindings
<1>2. PICK cap \in Nat : left' = LoadFindings(cap)
  BY CapIs DEF Remediate, Menu
<1>3. PICK what \in {"fixing", "menu"} : Begin(what)
  BY DEF Remediate, Menu
<1>4. left' \in Seq(Chosen(newest))
  BY <1>1, <1>2, LoadedIs
<1>5. Chosen(newest) \in SUBSET FolderNames
  BY <1>1, ChosenAreFolders
<1> QED
  BY <1>1, <1>3, <1>4, <1>5, BeginSound

LEMMA ValidateSound == ASSUME RepInv, NEW S \in SUBSET DOMAIN folders, Validate(S) PROVE RepInv'
<1>1. Begin("judging") /\ left' = Ordered([d \in S |-> {e \in S : Later(d, e)}])
  BY DEF Validate
<1>2. S \in SUBSET FolderNames /\ IsFiniteSet(S)
  BY FS_Subset DEF RepInv
<1>3. left' \in Seq(S)
  BY <1>1, <1>2, JudgedInOrder
<1> QED
  BY <1>1, <1>2, <1>3, BeginSound

(* A finding of the report is dealt with: remediate, and the menu.           *)
LEMMA PutSound ==
  ASSUME RepInv, HasFindings, NEW d \in Chosen(newest), NEW status \in FolderStatus, Put(d, status),
         UNCHANGED <<scans, marked, combined, pairs, commands>>,
         left' \in Seq(Chosen(newest)), doing' \in {"fixing", "marking"}, doing' = "marking" => left' # <<>>
  PROVE  RepInv'
<1>1. newest > 0 /\ newest \in Reported
  BY Newest DEF HasFindings
<1>2. /\ DOMAIN folders' = DOMAIN folders \cup {d}
      /\ DOMAIN folders' \subseteq FolderNames /\ IsFiniteSet(DOMAIN folders')
      /\ \A e \in DOMAIN folders' : /\ e[1] \in Nat \ {0} /\ e[2] \in Titles
                                    /\ folders'[e] \in [status : FolderStatus, loc : Nat]
  BY <1>1, PutIs
<1>3. newest' = newest
  BY DEF newest
<1>4. \A k \in DOMAIN left' : left'[k][1] \in Nat /\ left'[k][2] \in Titles
  <2>1. Chosen(newest) \in SUBSET FolderNames
    BY <1>1, ChosenAreFolders
  <2> QED
    BY <2>1, NamesOfSeq
<1>5. RepTypeOK'
  BY <1>2, <1>3, <1>4 DEF RepInv, RepTypeOK
<1>6. HasFindings' /\ left' \in Seq(Chosen(newest)')
  BY <1>3 DEF HasFindings, Chosen
<1>7. \A r \in DOMAIN combined' : Reports[r] # <<>> /\ Documented(r, combined'[r])
  BY DEF RepInv
<1> QED
  BY <1>2, <1>5, <1>6, <1>7 DEF RepInv, Documented

LEMMA RemediateOneSound ==
  ASSUME RepInv, NEW outcome \in FolderStatus \cup {"kept"}, RemediateOne(outcome)
  PROVE  RepInv'
<1>1. /\ doing = "fixing" /\ left # <<>> /\ left' = Tail(left)
      /\ UNCHANGED <<scans, marked, combined, doing, pairs, commands>>
  BY DEF RemediateOne
<1>2. HasFindings /\ left \in Seq(Chosen(newest))
  BY <1>1 DEF RepInv
<1>3. Head(left) \in Chosen(newest) /\ left' \in Seq(Chosen(newest))
  BY <1>1, <1>2, RestOfList
<1>4. CASE outcome # "kept"
  <2>1. Put(Head(left), outcome) /\ outcome \in FolderStatus
    BY <1>4 DEF RemediateOne
  <2> QED
    BY <1>1, <1>2, <1>3, <2>1, PutSound
<1>5. CASE outcome = "kept"
  <2>1. folders' = folders
    BY <1>5 DEF RemediateOne
  <2>2. newest' = newest
    BY <1>1 DEF newest
  <2>3. \A k \in DOMAIN left' : left'[k][1] \in Nat /\ left'[k][2] \in Titles
    <3>1. Chosen(newest) \in SUBSET FolderNames
      BY <1>2, Newest, ChosenAreFolders DEF HasFindings
    <3> QED
      BY <1>3, <3>1, NamesOfSeq
  <2>4. RepTypeOK'
    BY <1>1, <2>1, <2>2, <2>3 DEF RepInv, RepTypeOK
  <2>5. HasFindings' /\ left' \in Seq(Chosen(newest)')
    BY <1>2, <1>3, <2>2 DEF HasFindings, Chosen
  <2>6. doing' = "fixing" /\ \A r \in DOMAIN combined' : Reports[r] # <<>> /\ Documented(r, combined'[r])
    BY <1>1 DEF RepInv
  <2>7. DOMAIN folders' \subseteq FolderNames /\ IsFiniteSet(DOMAIN folders')
    BY <2>1 DEF RepInv
  <2> QED
    BY <2>4, <2>5, <2>6, <2>7 DEF RepInv, Documented
<1> QED
  BY <1>4, <1>5

LEMMA PickSound ==
  ASSUME RepInv, NEW d \in Rows, NEW outcome \in FolderStatus, Pick(d, outcome)
  PROVE  RepInv'
<1>1. /\ doing = "menu" /\ Put(d, outcome) /\ left' = <<d>> \o left /\ doing' = "marking"
      /\ UNCHANGED <<scans, marked, combined, pairs, commands>>
  BY DEF Pick
<1>2. HasFindings /\ left \in Seq(Chosen(newest))
  BY <1>1 DEF RepInv
<1>3. d \in Chosen(newest)
  BY <1>2 DEF Rows
<1>4. left' \in Seq(Chosen(newest)) /\ left' # <<>>
  BY <1>1, <1>2, <1>3
<1> QED
  BY <1>1, <1>2, <1>3, <1>4, PutSound

LEMMA MarkDoneSound == ASSUME RepInv, MarkDone PROVE RepInv'
<1>1. /\ doing = "marking" /\ marked' = marked \cup {<<newest, Head(left)[1]>>}
      /\ left' = Tail(left) /\ doing' = "menu"
      /\ UNCHANGED <<scans, folders, combined, pairs, commands>>
  BY DEF MarkDone
<1>2. HasFindings /\ left \in Seq(Chosen(newest)) /\ left # <<>>
  BY <1>1 DEF RepInv
<1>3. Head(left) \in Chosen(newest) /\ left' \in Seq(Chosen(newest))
  BY <1>1, <1>2, RestOfList
<1>4. newest' = newest
  BY <1>1 DEF newest
<1>5. newest \in Reported /\ newest \in 1 .. newest
  BY <1>2, Newest DEF HasFindings
<1>6. Head(left)[1] \in DOMAIN Reports[newest] /\ Chosen(newest) \in SUBSET FolderNames
  BY <1>3, <1>5, ChosenAreFolders
<1>7. \A m \in marked' : m[1] \in 1 .. newest' /\ m[2] \in DOMAIN Reports[m[1]]
  BY <1>1, <1>4, <1>5, <1>6 DEF RepInv, RepTypeOK
<1>8. \A k \in DOMAIN left' : left'[k][1] \in Nat /\ left'[k][2] \in Titles
  BY <1>3, <1>6, NamesOfSeq
<1>9. RepTypeOK'
  BY <1>1, <1>4, <1>7, <1>8 DEF RepInv, RepTypeOK
<1>10. HasFindings' /\ left' \in Seq(Chosen(newest)')
  BY <1>2, <1>3, <1>4 DEF HasFindings, Chosen
<1> QED
  BY <1>1, <1>9, <1>10 DEF RepInv, Documented

(* A copy is put in the place of one that is there, or is made.              *)
LEMMA ReplaceSound ==
  ASSUME RepInv, NEW r \in Reported, r <= newest, Reports[r] # <<>>, NEW doc, Documented(r, doc), Replace(r, doc),
         UNCHANGED <<scans, marked, folders, left, commands>>,
         doing' \in {"nothing", "copied", "judged"}, doing' = "copied" => r = newest,
         pairs' = pairs \/ pairs' = <<>>
  PROVE  RepInv'
<1>1. combined' = [q \in DOMAIN combined \cup {r} |-> IF q = r THEN doc ELSE combined[q]]
  BY DEF Replace
<1>2. newest' = newest
  BY DEF newest
<1>3. DOMAIN combined' = DOMAIN combined \cup {r}
  BY <1>1
<1>4. r \in 1 .. newest
  BY Newest DEF Reported
<1>5. \A d \in DOMAIN pairs' : d \in DOMAIN folders' /\ pairs'[d] \in Verdicts
  <2>1. CASE pairs' = pairs
    BY <2>1 DEF RepInv, RepTypeOK
  <2>2. CASE pairs' = <<>>
    BY <2>2
  <2> QED
    BY <2>1, <2>2
<1>6. RepTypeOK'
  BY <1>2, <1>3, <1>4, <1>5 DEF RepInv, RepTypeOK
<1>7. \A q \in DOMAIN combined' : Reports[q] # <<>> /\ Documented(q, combined'[q])
  BY <1>1, <1>3 DEF RepInv
<1> QED
  BY <1>2, <1>3, <1>6, <1>7 DEF RepInv, Documented

LEMMA AddRemediationSound == ASSUME RepInv, AddRemediation PROVE RepInv'
<1> DEFINE doc == [Copied(newest) EXCEPT !.sarif = RemediationSarif(newest, @)]
<1>1. /\ doing = "fixing" /\ left = <<>> /\ Replace(newest, doc) /\ doing' = "copied"
      /\ UNCHANGED <<scans, marked, folders, left, pairs, commands>>
  BY DEF AddRemediation
<1>2. newest \in Reported /\ Reports[newest] # <<>> /\ newest <= newest
  BY <1>1, Newest DEF RepInv, HasFindings
<1>3. Documented(newest, Copied(newest))
  <2>1. CASE newest \in DOMAIN combined
    BY <2>1 DEF RepInv, Copied
  <2>2. CASE newest \notin DOMAIN combined
    <3> DEFINE results == [i \in DOMAIN Reports[newest] |-> NoResult]
    <3>1. Copied(newest) = [md |-> ScanMarkdown(newest), sarif |-> results]
      BY <2>2 DEF Copied
    <3> HIDE DEF results
    <3>2. Copied(newest).md = ScanMarkdown(newest) /\ Copied(newest) = [md |-> Copied(newest).md, sarif |-> Copied(newest).sarif]
      BY <3>1
    <3>3. \E T, ss, off : DocumentOK(Len(Reports[newest]), newest \in Tailed, T, ScanMarkdown(newest), ss, off)
      BY <1>2, ScanDocument
    <3> QED
      BY <3>2, <3>3, Zenon DEF Documented
  <2> QED
    BY <2>1, <2>2
<1>4. Documented(newest, doc)
  <2>1. Copied(newest) = [md |-> Copied(newest).md, sarif |-> Copied(newest).sarif]
    BY <1>3 DEF Documented
  <2>2. doc.md = Copied(newest).md /\ doc = [md |-> doc.md, sarif |-> doc.sarif]
    BY <2>1
  <2> HIDE DEF doc
  <2> QED
    BY <1>3, <2>2, Zenon DEF Documented
<1> HIDE DEF doc
<1> QED
  BY <1>1, <1>2, <1>4, ReplaceSound

(* What is written over the copy is a document again.                        *)
LEMMA RewriteSound ==
  ASSUME RepInv, NEW r \in DOMAIN combined, NEW doc,
         \/ doc = [combined[r] EXCEPT !.md = RemediationMd(@)]
         \/ doc = [combined[r] EXCEPT !.md = ValidationMd(@)]
         \/ \E results : doc = [combined[r] EXCEPT !.sarif = results]
  PROVE  Documented(r, doc) /\ r \in Reported /\ r <= newest /\ Reports[r] # <<>>
<1> DEFINE old == combined[r]
           n == Len(Reports[r])
           tailed == r \in Tailed
<1>1. old = [md |-> old.md, sarif |-> old.sarif] /\ Reports[r] # <<>>
  BY DEF RepInv, Documented
<1>2. PICK T, ss, off : DocumentOK(n, tailed, T, old.md, ss, off)
  BY DEF RepInv, Documented
<1>3. r \in 1 .. newest /\ newest \in Nat /\ r \in Reported
  BY Newest DEF RepInv, RepTypeOK
<1>4. tailed \in BOOLEAN
  OBVIOUS
<1>5. CASE doc = [old EXCEPT !.md = RemediationMd(@)]
  <2>1. doc = [md |-> doc.md, sarif |-> doc.sarif] /\ doc.md = RemediationMd(old.md)
    <3> HIDE DEF old
    <3> QED
      BY <1>1, <1>5
  <2> HIDE DEF old, n, tailed
  <2>2. \E U, to, starts : DocumentOK(n, tailed, U, RemediationMd(old.md), to, starts)
    BY <1>2, <1>4, RemediationDocument
  <2> QED
    BY <1>1, <1>3, <2>1, <2>2 DEF Documented, n, tailed
<1>6. CASE doc = [old EXCEPT !.md = ValidationMd(@)]
  <2>1. doc = [md |-> doc.md, sarif |-> doc.sarif] /\ doc.md = ValidationMd(old.md)
    <3> HIDE DEF old
    <3> QED
      BY <1>1, <1>6
  <2> HIDE DEF old, n, tailed
  <2>2. \E U, to, starts : DocumentOK(n, tailed, U, ValidationMd(old.md), to, starts)
    BY <1>2, <1>4, ValidationDocument
  <2> QED
    BY <1>1, <1>3, <2>1, <2>2 DEF Documented, n, tailed
<1>7. CASE \E results : doc = [old EXCEPT !.sarif = results]
  <2>1. doc = [md |-> doc.md, sarif |-> doc.sarif] /\ doc.md = old.md
    <3> HIDE DEF old
    <3> QED
      BY <1>1, <1>7
  <2> HIDE DEF old, n, tailed
  <2> QED
    BY <1>1, <1>2, <1>3, <2>1 DEF Documented, n, tailed
<1> QED
  BY <1>5, <1>6, <1>7


LEMMA AddRemediationMdSound == ASSUME RepInv, AddRemediationMd PROVE RepInv'
<1> DEFINE doc == [combined[newest] EXCEPT !.md = RemediationMd(@)]
<1>1. /\ doing = "copied" /\ Replace(newest, doc) /\ doing' = "nothing"
      /\ UNCHANGED <<scans, marked, folders, left, pairs, commands>>
  BY DEF AddRemediationMd
<1>2. newest \in DOMAIN combined
  BY <1>1 DEF RepInv
<1>3. Documented(newest, doc) /\ newest \in Reported /\ newest <= newest /\ Reports[newest] # <<>>
  BY <1>2, RewriteSound
<1> HIDE DEF doc
<1> QED
  BY <1>1, <1>3, ReplaceSound

LEMMA NewestCopyIs ==
  ASSUME RepInv, DOMAIN combined # {}
  PROVE  NewestCopy \in DOMAIN combined
<1>1. DOMAIN combined \subseteq 1 .. newest /\ newest \in Nat
  BY Newest DEF RepInv, RepTypeOK
<1>2. IsFiniteSet(DOMAIN combined)
  BY <1>1, CountOfInitial, FS_Subset
<1> DEFINE key == [n \in Nat |-> n]
<1>3. DOMAIN combined \in SUBSET Nat /\ key \in [Nat -> Int]
  BY <1>1
<1>4. PICK r \in DOMAIN combined : \A q \in DOMAIN combined : key[q] <= key[r]
  <2> HIDE DEF key
  <2> QED
    BY <1>2, <1>3, Greatest
<1>5. \A q \in DOMAIN combined : q <= r
  BY <1>3, <1>4
<1> QED
  BY <1>5 DEF NewestCopy, Max

LEMMA AddValidationSound == ASSUME RepInv, AddValidation PROVE RepInv'
<1> DEFINE doc == [combined[NewestCopy] EXCEPT !.sarif = ValidationSarif(NewestCopy, @)]
<1>1. /\ doing = "judging" /\ DOMAIN combined # {} /\ Replace(NewestCopy, doc) /\ doing' = "judged"
      /\ UNCHANGED <<scans, marked, folders, left, pairs, commands>>
  BY DEF AddValidation
<1>2. NewestCopy \in DOMAIN combined
  BY <1>1, NewestCopyIs
<1>3. doc = [combined[NewestCopy] EXCEPT !.sarif = ValidationSarif(NewestCopy, combined[NewestCopy].sarif)]
  OBVIOUS
<1> HIDE DEF doc
<1>4. /\ Documented(NewestCopy, doc) /\ NewestCopy \in Reported /\ NewestCopy <= newest
      /\ Reports[NewestCopy] # <<>>
  BY <1>2, <1>3, RewriteSound
<1> QED
  BY <1>1, <1>4, ReplaceSound

LEMMA AddValidationMdSound == ASSUME RepInv, AddValidationMd PROVE RepInv'
<1> DEFINE doc == [combined[NewestCopy] EXCEPT !.md = ValidationMd(@)]
<1>1. /\ doing = "judged" /\ Replace(NewestCopy, doc) /\ doing' = "nothing" /\ pairs' = <<>>
      /\ UNCHANGED <<scans, marked, folders, left, commands>>
  BY DEF AddValidationMd
<1>2. NewestCopy \in DOMAIN combined
  BY <1>1, NewestCopyIs DEF RepInv
<1>3. /\ Documented(NewestCopy, doc) /\ NewestCopy \in Reported /\ NewestCopy <= newest
      /\ Reports[NewestCopy] # <<>>
  BY <1>2, RewriteSound
<1> HIDE DEF doc
<1> QED
  BY <1>1, <1>3, ReplaceSound

(* A finding is judged, or is refused.                                       *)
LEMMA JudgeSound ==
  ASSUME RepInv, NEW verdict \in Verdicts \cup {"unverifiable"}, JudgeOne(verdict) \/ RefuseOne
  PROVE  RepInv'
<1>1. /\ doing = "judging" /\ left # <<>> /\ left' = Tail(left)
      /\ UNCHANGED <<scans, marked, combined, doing, commands>>
  BY DEF JudgeOne, RefuseOne
<1>2. left \in Seq(DOMAIN folders) /\ DOMAIN folders \in SUBSET FolderNames
  BY <1>1 DEF RepInv
<1>3. Head(left) \in DOMAIN folders /\ left' \in Seq(DOMAIN folders)
  BY <1>1, <1>2, RestOfList
<1>4. \A k \in DOMAIN left' : left'[k][1] \in Nat /\ left'[k][2] \in Titles
  BY <1>2, <1>3, NamesOfSeq
<1>5. newest' = newest
  BY <1>1 DEF newest
<1>6. /\ DOMAIN folders' = DOMAIN folders
      /\ \A d \in DOMAIN folders' : folders'[d] \in [status : FolderStatus, loc : Nat]
      /\ \A d \in DOMAIN pairs' : d \in DOMAIN folders' /\ pairs'[d] \in Verdicts
  <2>1. /\ \A d \in DOMAIN folders : folders[d] \in [status : FolderStatus, loc : Nat]
        /\ \A d \in DOMAIN pairs : d \in DOMAIN folders /\ pairs[d] \in Verdicts
    BY DEF RepInv, RepTypeOK
  <2>2. CASE RefuseOne
    BY <2>1, <2>2 DEF RefuseOne
  <2>3. CASE JudgeOne(verdict)
    <3> DEFINE d0 == Head(left)
    <3>1. /\ folders' = [folders EXCEPT ![d0].status = StatusAfter(verdict)]
          /\ pairs' = [d \in DOMAIN pairs \cup {d0} |->
                         IF d # d0 THEN pairs[d] ELSE IF verdict = "fixed" THEN "fixed" ELSE "not_fixed"]
      BY <2>3 DEF JudgeOne
    <3>2. StatusAfter(verdict) \in FolderStatus
      BY DEF StatusAfter, FolderStatus, Verdicts
    <3>3. d0 \in DOMAIN folders
      BY <1>3
    <3> HIDE DEF d0
    <3>4. DOMAIN folders' = DOMAIN folders
      BY <3>1
    <3>5. \A d \in DOMAIN folders' : folders'[d] \in [status : FolderStatus, loc : Nat]
      <4> TAKE d \in DOMAIN folders'
      <4>1. CASE d # d0
        <5>1. folders'[d] = folders[d]
          BY <3>1, <3>4, <4>1
        <5> QED
          BY <2>1, <3>4, <5>1
      <4>2. CASE d = d0
        <5>1. folders'[d] = [folders[d] EXCEPT !.status = StatusAfter(verdict)]
          BY <3>1, <3>3, <4>2
        <5>2. folders[d] \in [status : FolderStatus, loc : Nat]
          BY <2>1, <3>3, <4>2
        <5> QED
          BY <3>2, <5>1, <5>2
      <4> QED
        BY <4>1, <4>2
    <3>6. \A d \in DOMAIN pairs' : d \in DOMAIN folders' /\ pairs'[d] \in Verdicts
      BY <2>1, <3>1, <3>3, <3>4 DEF Verdicts
    <3> QED
      BY <3>4, <3>5, <3>6
  <2> QED
    BY <2>2, <2>3
<1>7. RepTypeOK'
  BY <1>1, <1>4, <1>5, <1>6 DEF RepInv, RepTypeOK
<1>8. /\ DOMAIN folders' \subseteq FolderNames /\ IsFiniteSet(DOMAIN folders')
      /\ \A r \in DOMAIN combined' : Reports[r] # <<>> /\ Documented(r, combined'[r])
  BY <1>1, <1>6 DEF RepInv
<1>9. left' \in Seq(DOMAIN folders')
  BY <1>3, <1>6
<1> QED
  BY <1>1, <1>7, <1>8, <1>9 DEF RepInv, Documented

(* The command ends, by itself or not.                                       *)
LEMMA StopSound == ASSUME RepInv, Stop \/ NothingToAdd PROVE RepInv'
<1>1. /\ doing' = "nothing" /\ left' \in {left, <<>>} /\ pairs' \in {pairs, <<>>}
      /\ UNCHANGED <<scans, marked, folders, combined, commands>>
  BY DEF Stop, NothingToAdd
<1>2. newest' = newest
  BY <1>1 DEF newest
<1>3. \A k \in DOMAIN left' : left'[k][1] \in Nat /\ left'[k][2] \in Titles
  <2>1. CASE left' = left
    BY <2>1 DEF RepInv, RepTypeOK
  <2>2. CASE left' = <<>>
    BY <2>2
  <2> QED
    BY <1>1, <2>1, <2>2
<1>4. \A d \in DOMAIN pairs' : d \in DOMAIN folders' /\ pairs'[d] \in Verdicts
  <2>1. CASE pairs' = pairs
    BY <1>1, <2>1 DEF RepInv, RepTypeOK
  <2>2. CASE pairs' = <<>>
    BY <2>2
  <2> QED
    BY <1>1, <2>1, <2>2
<1>5. RepTypeOK'
  BY <1>1, <1>2, <1>3, <1>4 DEF RepInv, RepTypeOK
<1> QED
  BY <1>1, <1>5 DEF RepInv, Documented

LEMMA RepInductive == RepInv /\ [RepNext]_repVars => RepInv'
<1> SUFFICES ASSUME RepInv, [RepNext]_repVars PROVE RepInv'
  OBVIOUS
<1>1. ASSUME NEW listed \in BOOLEAN, WriteReport(listed) PROVE RepInv'
  BY <1>1, WriteReportSound
<1>2. ASSUME NEW cli \in Caps, Remediate(cli) \/ Menu(cli) PROVE RepInv'
  BY <1>2, RemediateSound
<1>3. ASSUME NEW outcome \in Outcomes, RemediateOne(outcome) PROVE RepInv'
  BY <1>3, RemediateOneSound, CombinedReportAssumption
<1>4. ASSUME NEW outcome \in Outcomes, NEW d \in Rows, Pick(d, outcome) PROVE RepInv'
  BY <1>4, PickSound, CombinedReportAssumption
<1>5. CASE RemediateOne("kept")
  BY <1>5, RemediateOneSound
<1>6. CASE AddRemediation
  BY <1>6, AddRemediationSound
<1>7. CASE NothingToAdd \/ Stop
  BY <1>7, StopSound
<1>8. CASE AddRemediationMd
  BY <1>8, AddRemediationMdSound
<1>9. CASE MarkDone
  BY <1>9, MarkDoneSound
<1>10. ASSUME NEW S \in SUBSET DOMAIN folders, Validate(S) PROVE RepInv'
  BY <1>10, ValidateSound
<1>11. ASSUME NEW verdict \in Verdicts \cup {"unverifiable"}, JudgeOne(verdict) PROVE RepInv'
  BY <1>11, JudgeSound
<1>12. CASE RefuseOne
  <2>1. "fixed" \in Verdicts \cup {"unverifiable"}
    BY DEF Verdicts
  <2> QED
    BY <1>12, <2>1, JudgeSound
<1>13. CASE AddValidation
  BY <1>13, AddValidationSound
<1>14. CASE AddValidationMd
  BY <1>14, AddValidationMdSound
<1>15. CASE UNCHANGED repVars
  BY <1>15 DEF repVars, RepInv, RepTypeOK, Documented, HasFindings, newest, Chosen
<1> QED
  BY <1>1, <1>2, <1>3, <1>4, <1>5, <1>6, <1>7, <1>8, <1>9, <1>10, <1>11, <1>12, <1>13, <1>14, <1>15, Zenon
     DEF RepNext

LEMMA RepInvariant == RepSpec => []RepInv
  BY RepInitially, RepInductive, PTL DEF RepSpec

(* What the commands keep in memory and in their files has its type          *)
(* (remediate.py, select/, interactive/, report_augment/,                    *)
(* validation/report/augment.py), for any reports and any number of them.    *)
THEOREM ReportTyped == RepSpec => []RepTypeOK
<1>1. RepInv => RepTypeOK
  BY DEF RepInv
<1> QED
  BY <1>1, RepInvariant, PTL

(* Whatever the reports, and however many commands run over them, a          *)
(* combined report keeps its headings, the end of the file, at most one      *)
(* section of each kind under a heading, and no Remediation under one        *)
(* without a Remediation or a Validation under each (markdown.py:119-145,    *)
(* augment.py:285-315).                                                      *)
THEOREM SectionsStayWhole == RepSpec => []SectionsWhole
<1>1. ASSUME RepInv PROVE SectionsWhole
  <2>1. ASSUME NEW r \in DOMAIN combined
        PROVE  /\ DOMAIN Reports[r] = 1 .. Len(Reports[r])
               /\ WholeDocument(DOMAIN Reports[r], r \in Tailed, combined[r].md)
    <3>1. r \in Reported
      BY <1>1, <2>1, Newest
    <3>2. Reports[r] \in Seq(ReportData)
      BY <3>1, CombinedReportAssumption DEF Reported
    <3>3. DOMAIN Reports[r] = 1 .. Len(Reports[r])
      BY <3>2
    <3>4. PICK T, ss, off : DocumentOK(Len(Reports[r]), r \in Tailed, T, combined[r].md, ss, off)
      BY <1>1, <2>1 DEF RepInv, Documented
    <3> DEFINE tailed == r \in Tailed
    <3>5. tailed \in BOOLEAN
      OBVIOUS
    <3> HIDE DEF tailed
    <3>6. DocumentOK(Len(Reports[r]), tailed, T, combined[r].md, ss, off)
      BY <3>4 DEF tailed
    <3>7. WholeDocument(1 .. Len(Reports[r]), tailed, combined[r].md)
      BY <3>5, <3>6, DocumentIsWhole
    <3> QED
      BY <3>3, <3>7 DEF tailed
  <2> QED
    BY <2>1, Zenon DEF SectionsWhole, WholeDocument
<1> QED
  BY <1>1, RepInvariant, PTL

-----------------------------------------------------------------------------
(* The parts together.                                                       *)

(* In whatever order the parts take their steps, every variable of the five  *)
(* keeps its type.                                                           *)
THEOREM AgentsTyped == Spec => []TypeOK
<1>1. Spec => ScopeSpec /\ FlowSpec /\ RemSpec /\ ValSpec /\ RepSpec
  <2>1. Init => ScopeInit /\ FlowInit /\ RemInit /\ ValInit /\ RepInit
    BY DEF Init
  <2>2. [Next]_vars => [ScopeNext]_scopeVars
    BY Zenon DEF Next, vars
  <2>3. [Next]_vars => [FlowNext]_flowVars
    BY Zenon DEF Next, vars
  <2>4. [Next]_vars => [RemNext]_remVars
    BY Zenon DEF Next, vars
  <2>5. [Next]_vars => [ValNext]_valVars
    BY Zenon DEF Next, vars
  <2>6. [Next]_vars => [RepNext]_repVars
    BY Zenon DEF Next, vars
  <2> QED
    BY <2>1, <2>2, <2>3, <2>4, <2>5, <2>6, PTL DEF Spec, ScopeSpec, FlowSpec, RemSpec, ValSpec, RepSpec
<1>2. ScopeTypeOK /\ FlowTypeOK /\ RemTypeOK /\ ValTypeOK /\ RepTypeOK => TypeOK
  BY DEF TypeOK
<1> QED
  BY <1>1, <1>2, ScopeTyped, FlowTyped, RemediationTyped, ValidationTyped, ReportTyped, PTL

=============================================================================
