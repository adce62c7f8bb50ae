---------------------------- MODULE Remediation ----------------------------
(***************************************************************************)
(* Stage 10, the Remediation Agent (remediation_agent/runner.py,           *)
(* plugin_runner/run.py, policy/, policy_gate/, artifacts/).  The findings *)
(* of a report are taken one by one: the policy may deny one; otherwise an *)
(* agent edits the repository, and the post-gate looks at what changed and *)
(* rolls back the edits of forbidden paths.  The record of each finding    *)
(* goes to an artefact and then to a checkpoint that --resume consults.    *)
(* A run may be killed between any two steps, an agent may raise after it  *)
(* has edited, and between runs a new scan may reorder the findings.       *)
(*                                                                         *)
(* A file is abstracted to whether it is as it was before the first run,   *)
(* has been edited, is empty or is not there.  The agent is confined to    *)
(* the repository and leaves the index alone.  The policy is enforced, git *)
(* does not time out, and no walk exceeds its limit.                       *)
(***************************************************************************)
EXTENDS Naturals, Sequences, FiniteSets, FiniteSetsExt, Functions

CONSTANTS
  Files,      \* the paths of the repository that matter
  Original,   \* those that are there before the first run
  Tracked,    \* those that git tracks; {} when there is no git work tree
  Binary,     \* those that cannot be read as text
  Git,        \* the target is a git work tree
  Policy,     \* the policy file, as PolicyData has it
  Lists,      \* the reports: sequences of findings
  FileOf,     \* the file of each finding
  CweOf,      \* its weakness class, NoCwe when it has none that is known
  NoCwe, MaxRuns, MaxFailures,
  MaxReported  \* so many changed files an agent reports at most

Findings == UNION {{l[i] : i \in DOMAIN l} : l \in Lists}
Ordinals == UNION {DOMAIN l : l \in Lists}
PolicyData == [loaded : BOOLEAN, deny : SUBSET Range(CweOf), allow : SUBSET Range(CweOf),
               denyPaths : SUBSET Files, forbidPaths : SUBSET Files, patches : BOOLEAN]

ASSUME RemediationAssumption ==
  /\ Original \subseteq Files /\ Tracked \subseteq Original /\ Binary \subseteq Files
  /\ Git \in BOOLEAN /\ (~Git => Tracked = {}) /\ Policy \in PolicyData
  /\ \A l \in Lists : l \in Seq(Findings)
  /\ FileOf \in [Findings -> Files] /\ Findings \subseteq DOMAIN CweOf
  /\ MaxRuns \in Nat \ {0} /\ MaxFailures \in Nat /\ MaxReported \in Nat

VARIABLES
  disk,      \* the state of each file
  intent,    \* what git add -N has recorded in the index
  ckpt,      \* remediate_<ordinal>: the identity of the finding it is of
  done,      \* the findings whose record was made
  pc, list, todo, resume,  \* the report, and the ordinals that were selected
  snap,      \* before_snapshot: the files captured, and what was read
  base,      \* the disk when the finding was begun
  changes,   \* verdict.changes
  gates,     \* the three evidence gates of the verdict pass
  final,     \* final_verdict
  fixed,     \* the findings counted as processed
  runs, failures

remVars == <<disk, intent, ckpt, done, pc, list, todo, resume, snap, base, changes, gates, final,
          fixed, runs, failures>>
ordinal == Min(todo)
finding == list[ordinal]
FileState == {"original", "edited", "empty", "absent"}
Forbidden == Policy.forbidPaths \cup Policy.denyPaths
Disk0 == [x \in Files |-> IF x \in Original THEN "original" ELSE "absent"]
NoFinding == "none"

RemTypeOK ==
  /\ disk \in [Files -> FileState] /\ base \in [Files -> FileState] /\ intent \subseteq Files
  /\ \A o \in DOMAIN ckpt : ckpt[o] \in Findings
  /\ done \subseteq Findings /\ fixed \subseteq Findings
  /\ pc \in {"idle", "next", "agent", "gate", "write", "save"}
  /\ list \in Lists \cup {<<>>} /\ todo \subseteq Ordinals /\ resume \in BOOLEAN
  /\ changes \subseteq Files /\ gates \in BOOLEAN /\ final \in {"none", "ACCEPT", "REJECT"}
  /\ runs \in 0 .. MaxRuns /\ failures \in 0 .. MaxFailures

RemInit ==
  /\ disk = Disk0 /\ base = Disk0 /\ intent = {} /\ ckpt = <<>> /\ done = {}
  /\ pc = "idle" /\ list = <<>> /\ todo = {} /\ resume = FALSE
  /\ snap = <<>> /\ changes = {} /\ gates = FALSE /\ final = "none" /\ fixed = {}
  /\ runs = 0 /\ failures = 0

-----------------------------------------------------------------------------
(* What is read of a file, and what it is compared with.                     *)

(* snapshot_files: a file that cannot be read counts as one that is absent.  *)
Read(x) == IF x \in Binary THEN "absent" ELSE disk[x]
Present == {x \in Files : disk[x] # "absent"}

AtHead(x) == IF x \in Tracked THEN "original" ELSE "absent"

(* changed_files_whole_tree: what differs from HEAD, and what git does not   *)
(* track, whoever changed it.                                                *)
WholeTree ==
  IF Git THEN {x \in Files : disk[x] # AtHead(x) \/ x \in intent} ELSE {}

(* git add -N: nothing is recorded if one of the paths is unknown to git.    *)
Intent(paths) ==
  IF Git /\ paths \subseteq Present \cup Tracked \cup intent
    THEN intent \cup (paths \ Tracked) ELSE intent

(* What the diff shows: against the index for the files that were asked for, *)
(* or against the snapshot when there is no git diff.                        *)
Scope == changes \cup WholeTree
GitDiff ==
  {x \in Scope \cap (Tracked \cup Intent(Scope)) : disk[x] # AtHead(x)}
SynthDiff ==
  {x \in DOMAIN snap : Read(x) # snap[x]}
    \cup {x \in Scope \ DOMAIN snap : Read(x) # "absent"}
DiffFiles == IF GitDiff # {} THEN GitDiff ELSE SynthDiff

(* A bug: only what the agent reports is looked at.                          *)
ReportedOnly == changes

(* A bug: only what has changed since the snapshot is looked at.             *)
SinceSnapshot == SynthDiff \cup changes

Candidates ==
  DiffFiles \cup changes \cup WholeTree
    \cup (IF WholeTree = {} THEN Present \cap Forbidden ELSE {})

Bad == Candidates \cap Forbidden

(* revert_files: to the snapshot if the file is in it.  Otherwise git checks *)
(* out what is in the index, and what is not in it is removed; by then the   *)
(* diff has put what the agent created into the index, with no content.      *)
Reverted(x) ==
  CASE x \in DOMAIN snap -> snap[x]
    [] x \notin DOMAIN snap /\ ~Git -> disk[x]
    [] x \notin DOMAIN snap /\ x \in Tracked -> "original"
    [] OTHER -> IF x \in Intent(Scope) /\ disk[x] # "absent" THEN "empty" ELSE "absent"

-----------------------------------------------------------------------------
(* A run of the remediate command.                                           *)

(* What is known of a finding is gone with its call, and of a run with it.   *)
FindingOver ==
  snap' = <<>> /\ base' = Disk0 /\ changes' = {} /\ gates' = FALSE /\ final' = "none"

RunOver ==
  pc' = "idle" /\ list' = <<>> /\ todo' = {} /\ resume' = FALSE /\ fixed' = {}

StartRun(l, selected, r) ==
  /\ pc = "idle" /\ runs < MaxRuns
  /\ runs' = runs + 1 /\ list' = l /\ todo' = selected /\ resume' = r /\ fixed' = {}
  /\ pc' = "next"
  /\ UNCHANGED <<disk, intent, ckpt, done, snap, base, changes, gates, final, failures>>

(* A bug: that there is a checkpoint is taken for proof.                     *)
CachedByOrdinal == resume /\ ordinal \in DOMAIN ckpt

(* The record is of this ordinal, and of this very finding.                  *)
Cached == resume /\ ordinal \in DOMAIN ckpt /\ ckpt[ordinal] = finding

Skip ==
  /\ pc = "next" /\ todo # {} /\ Cached
  /\ fixed' = fixed \cup {finding} /\ todo' = todo \ {ordinal}
  /\ UNCHANGED <<disk, intent, ckpt, done, pc, list, resume, snap, base, changes, gates, final,
                 runs, failures>>

(* RemediationGate.decide: the kill switch is looked at on every call, and   *)
(* the deny rules come before the allow list.                                *)
MayPatch(killed) ==
  /\ Policy.loaded /\ ~killed
  /\ CweOf[finding] \notin Policy.deny \cup {NoCwe}
  /\ FileOf[finding] \notin Policy.denyPaths
  /\ CweOf[finding] \in Policy.allow \/ Policy.patches

(* The pre-gate denies: no agent, no change.                                 *)
Deny(killed) ==
  /\ pc = "next" /\ todo # {} /\ ~Cached /\ ~MayPatch(killed)
  /\ base' = disk /\ snap' = <<>> /\ changes' = {} /\ gates' = FALSE /\ final' = "REJECT"
  /\ pc' = "write"
  /\ UNCHANGED <<disk, intent, ckpt, done, list, todo, resume, fixed, runs, failures>>

(* The finding's file and every forbidden file there is are captured.        *)
Snapshot(killed) ==
  /\ pc = "next" /\ todo # {} /\ ~Cached /\ MayPatch(killed)
  /\ base' = disk
  /\ snap' = [x \in {FileOf[finding]} \cup (Present \cap Forbidden) |-> Read(x)]
  /\ changes' = {} /\ gates' = FALSE /\ final' = "none"
  /\ pc' = "agent"
  /\ UNCHANGED <<disk, intent, ckpt, done, list, todo, resume, fixed, runs, failures>>

(* The agent edits, creates and deletes what it likes and reports what it    *)
(* likes.  It may raise after it has edited; the run goes on.                *)
AgentReturns(S, how, reported, ok) ==
  /\ pc = "agent"
  /\ disk' = [x \in Files |-> IF x \in S THEN how ELSE disk[x]]
  /\ changes' = reported /\ gates' = ok /\ pc' = "gate"
  /\ UNCHANGED <<intent, ckpt, done, list, todo, resume, snap, base, final, fixed, runs, failures>>

AgentRaises(S, how) ==
  /\ pc = "agent" /\ failures < MaxFailures
  /\ disk' = [x \in Files |-> IF x \in S THEN how ELSE disk[x]]
  /\ failures' = failures + 1 /\ todo' = todo \ {ordinal} /\ pc' = "next"
  /\ FindingOver /\ UNCHANGED <<intent, ckpt, done, list, resume, fixed, runs>>

(* enforce_post.                                                             *)
PostGate ==
  /\ pc = "gate"
  /\ intent' = Intent(Scope)
  /\ disk' = [x \in Files |-> IF x \in Bad THEN Reverted(x) ELSE disk[x]]
  /\ changes' = changes \ Bad
  /\ final' = IF Bad = {} /\ gates THEN "ACCEPT" ELSE "REJECT"
  /\ pc' = "write"
  /\ UNCHANGED <<ckpt, done, list, todo, resume, snap, base, gates, fixed, runs, failures>>

(* The artefacts, with the diff of what is left of the changes; then the     *)
(* checkpoint with the finding's identity.                                   *)
WriteVerdict ==
  /\ pc = "write"
  /\ intent' = IF changes = {} THEN intent ELSE Intent(changes)
  /\ done' = done \cup {finding} /\ pc' = "save"
  /\ UNCHANGED <<disk, ckpt, list, todo, resume, snap, base, changes, gates, final, fixed,
                 runs, failures>>

Save ==
  /\ pc = "save"
  /\ ckpt' = [o \in DOMAIN ckpt \cup {ordinal} |-> IF o = ordinal THEN finding ELSE ckpt[o]]
  /\ fixed' = fixed \cup {finding} /\ todo' = todo \ {ordinal} /\ pc' = "next"
  /\ FindingOver /\ UNCHANGED <<disk, intent, done, list, resume, runs, failures>>

EndRun ==
  /\ pc = "next" /\ todo = {}
  /\ RunOver
  /\ UNCHANGED <<disk, intent, ckpt, done, snap, base, changes, gates, final, runs, failures>>

(* The run is killed: what is on disk stays, and the agent may have edited.  *)
Die(S) ==
  /\ pc \in {"agent", "gate", "write", "save"} /\ failures < MaxFailures
  /\ S = {} \/ pc = "agent"
  /\ disk' = [x \in Files |-> IF x \in S THEN "edited" ELSE disk[x]]
  /\ failures' = failures + 1 /\ FindingOver /\ RunOver
  /\ UNCHANGED <<intent, ckpt, done, runs>>

RemNext ==
  \/ \E l \in Lists, r \in BOOLEAN : \E S \in SUBSET DOMAIN l : StartRun(l, S, r)
  \/ Skip
  \/ \E killed \in BOOLEAN : Deny(killed) \/ Snapshot(killed)
  \/ \E S \in SUBSET Files :
       \/ \E how \in {"edited", "absent"} :
            \/ AgentRaises(S, how)
            \/ \E reported \in {R \in SUBSET Files : Cardinality(R) <= MaxReported}, ok \in BOOLEAN :
                 AgentReturns(S, how, reported, ok)
       \/ Die(S)
  \/ PostGate \/ WriteVerdict \/ Save \/ EndRun

RemSpec == RemInit /\ [][RemNext]_remVars

-----------------------------------------------------------------------------
(* Once the post-gate has run, each forbidden file is as it was when the     *)
(* finding was begun, or as git has it, whatever the agent did to it and     *)
(* whether or not the agent said so (postgate.py:107-113); what it created   *)
(* is empty if the target is a git work tree.  Not so a file that cannot be  *)
(* read as text.                                                             *)
ForbiddenUndone ==
  pc = "write" =>
    \A x \in Forbidden \ Binary :
      \/ disk[x] = base[x]
      \/ Git /\ disk[x] \in {AtHead(x), "empty"}
      \/ ~Git /\ base[x] = "absent"

(* In a git work tree an ACCEPT means that the tree holds no edit of a       *)
(* forbidden file, not even one left by an agent that raised or by a run     *)
(* that was killed before its post-gate.                                     *)
AcceptIsClean ==
  pc = "write" /\ Git /\ final = "ACCEPT" =>
    \A x \in Forbidden : disk[x] = AtHead(x)

(* A finding is counted as processed only if a record was made for it, in    *)
(* this run or an earlier one, however the findings were reordered           *)
(* (runner.py:47-58).                                                        *)
CountedIsDone == fixed \subseteq done

=============================================================================
