----------------------------- MODULE AsanPass -------------------------------
(***************************************************************************)
(* Dynamic verification (pipeline/stages/asan_verify.py and the ASAN pass  *)
(* of s6_verify.py).  The findings that static verification kept are taken *)
(* in order; the first eligible one builds the repository once for all,    *)
(* and each is then given attempts, planned by a model and run by the      *)
(* harness, until a command crashes under the sanitizer or its deadline,   *)
(* less a reserve for running the commands, has come.                      *)
(*                                                                         *)
(* left is the time until the current deadline in some unit, rounded down  *)
(* as the code rounds it: a step may take none of it.  A command's output  *)
(* is abstracted to whether it is a sanitizer report of a failing process. *)
(***************************************************************************)
EXTENDS Integers, Sequences, FiniteSets, FiniteSetsExt

CONSTANTS
  Verified,     \* what static verification kept, in order
  Eligible,     \* the findings whose class is selected (should_try)
  Complexity,   \* _chain_complexity of each finding, 1 .. 5
  Limit,        \* max_findings
  BuildTime,    \* repo_build_timeout
  BuildStep,    \* build_timeout, of one command
  PlanTime,     \* the timeout of a planning call
  PlanSlack,    \* how much longer its backend's retries may take
  RunStep,      \* run_timeout, of one command
  Reserve,      \* execution_reserve
  Least, Most,  \* min_per_bug_timeout, max_per_bug_timeout
  MaxCommands   \* max_build_commands, max_run_commands

Candidates == {Verified[i] : i \in DOMAIN Verified}

ASSUME AsanAssumption ==
  /\ Verified \in Seq(Candidates) /\ Eligible \subseteq Candidates
  /\ \A i, j \in DOMAIN Verified : Verified[i] = Verified[j] => i = j
  /\ Complexity \in [Candidates -> 1 .. 5]
  /\ {Limit, PlanSlack, MaxCommands} \subseteq Nat
  /\ {BuildTime, BuildStep, PlanTime, RunStep, Reserve, Least, Most} \subseteq Nat \ {0}
  /\ Least <= Most

VARIABLES
  phase, next,     \* the finding that is being decided
  attempted,       \* how many were tried
  build,           \* the shared build: none, ok or failed
  left,            \* the time to the current deadline
  limit, commands, \* the timeout of each command of the attempt, and those to run
  crash,           \* a command of the attempt crashed
  kept, dropped,   \* what the pass returns
  reports          \* the findings during whose attempts a command reported a crash

asanVars == <<phase, next, attempted, build, left, limit, commands, crash, kept, dropped, reports>>

finding == Verified[next]
Clamp(low, x, high) == Max({low, Min({x, high})})

AsanTypeOK ==
  /\ phase \in {"next", "buildPlan", "building", "built", "repro", "running", "over"}
  /\ next \in 1 .. Len(Verified) + 1 /\ attempted \in 0 .. Len(Verified)
  /\ build \in {"none", "ok", "failed"} /\ left \in Int /\ limit \in Nat
  /\ commands \in 0 .. MaxCommands /\ crash \in BOOLEAN
  /\ kept \subseteq Candidates /\ dropped \subseteq Candidates /\ reports \subseteq Candidates

AsanInit ==
  /\ phase = "next" /\ next = 1 /\ attempted = 0 /\ build = "none"
  /\ left = 0 /\ limit = 0 /\ commands = 0 /\ crash = FALSE
  /\ kept = {} /\ dropped = {} /\ reports = {}

Drop ==
  /\ dropped' = dropped \cup {finding} /\ next' = next + 1 /\ phase' = "next"
  /\ UNCHANGED <<kept, left, limit, commands, crash, reports>>

-----------------------------------------------------------------------------
(* The pass over the findings.                                               *)

MaxFindings == IF Limit = 0 THEN Cardinality(Eligible) ELSE Min({Limit, Cardinality(Eligible)})

(* Not of a selected class, or beyond the budget of attempts.                *)
NotTried ==
  /\ phase = "next" /\ next <= Len(Verified)
  /\ finding \notin Eligible \/ attempted >= MaxFindings
  /\ Drop /\ UNCHANGED <<attempted, build>>

FirstTried ==
  /\ phase = "next" /\ next <= Len(Verified) /\ finding \in Eligible /\ attempted < MaxFindings
  /\ build = "none"
  /\ attempted' = attempted + 1
  /\ left' = BuildTime /\ phase' = "buildPlan"
  /\ UNCHANGED <<next, build, limit, commands, crash, kept, dropped, reports>>

LaterTried ==
  /\ phase = "next" /\ next <= Len(Verified) /\ finding \in Eligible /\ attempted < MaxFindings
  /\ build = "failed"
  /\ attempted' = attempted + 1
  /\ Drop /\ UNCHANGED build

(* What the estimator asks for, if it answers at all, raised to the floor    *)
(* for the finding's complexity and kept within the configured bounds.       *)
Floor(c) == Least + ((Most - Least) * (c - 1)) \div 4

Budgets ==
  {Clamp(Least, Max({asked, Floor(c)}), Most) :
     asked \in 0 .. Most + 1, c \in Complexity[finding] .. 5}

(* _adaptive_budget takes its time before the deadline is set.               *)
StartRepro ==
  /\ build = "ok"
  /\ \/ phase = "next" /\ next <= Len(Verified) /\ finding \in Eligible /\ attempted < MaxFindings
        /\ attempted' = attempted + 1
     \/ phase = "built" /\ UNCHANGED attempted
  /\ \E b \in Budgets : left' = b
  /\ phase' = "repro" /\ crash' = FALSE
  /\ UNCHANGED <<next, build, limit, commands, kept, dropped, reports>>

Done ==
  /\ phase = "next" /\ next > Len(Verified)
  /\ phase' = "over"
  /\ UNCHANGED <<next, attempted, build, left, limit, commands, crash, kept, dropped, reports>>

-----------------------------------------------------------------------------
(* build_repo.                                                               *)

(* A call of the planner, of at most t.                                      *)
Takes(d, t) == d \in 0 .. t + PlanSlack /\ left' = left - d

(* The plan fails (the attempt is over), or brings commands, whose timeout   *)
(* is fixed here for all of them.                                            *)
BuildPlan(d) ==
  /\ phase = "buildPlan" /\ left > 0
  /\ Takes(d, Max({1, Min({PlanTime, left})}))
  /\ \/ UNCHANGED <<phase, commands, limit>>
     \/ /\ phase' = "building" /\ commands' \in 0 .. MaxCommands
        /\ limit' = Max({1, Min({BuildStep, left'})})
  /\ UNCHANGED <<next, attempted, build, crash, kept, dropped, reports>>

BuildCommand(d) ==
  /\ phase = "building" /\ commands > 0
  /\ d \in 0 .. limit /\ left' = left - d
  /\ commands' = commands - 1
  /\ UNCHANGED <<phase, next, attempted, build, limit, crash, kept, dropped, reports>>

(* What the logs, the plan's own words and the disk show.  The sanitizer may *)
(* be seen in words of the model, the artifact may be an old one.            *)
Proofs == [compiled : BOOLEAN, sanitizer : {"none", "log", "words"},
           artifact : {"none", "old", "new"}]

(* A command that builds succeeded.                                          *)
Compiled(proof) == proof.compiled

Built(proof) == Compiled(proof) /\ proof.sanitizer # "none" /\ proof.artifact # "none"

BuildEvaluated ==
  /\ phase = "building" /\ commands = 0
  /\ \E proof \in Proofs :
       \/ Built(proof) /\ phase' = "built" /\ build' = "ok"
       \/ ~Built(proof) /\ phase' = "buildPlan" /\ UNCHANGED build
  /\ UNCHANGED <<next, attempted, left, limit, commands, crash, kept, dropped, reports>>

BuildFailed ==
  /\ phase = "buildPlan" /\ left <= 0
  /\ build' = "failed" /\ Drop /\ UNCHANGED attempted

-----------------------------------------------------------------------------
(* run: the attempts for one finding.                                        *)

(* A bug: the deadline is not kept in mind while commands run.               *)
RunFor(d) == left > 0 /\ d \in 0 .. limit

(* A command gets what is left, and none is started after the deadline.      *)
RunWithin(d) == left > 0 /\ d \in 0 .. Min({limit, left})

(* A bug: what the model reports of its own runs counts.                     *)
ReproPlanTrusted(d) ==
  /\ phase = "repro" /\ left > Reserve
  /\ Takes(d, Max({1, Min({PlanTime, left - Reserve})}))
  /\ phase' = "running" /\ commands' \in 0 .. MaxCommands
  /\ limit' = Max({1, Min({RunStep, left'})})
  /\ crash' \in BOOLEAN
  /\ UNCHANGED <<next, attempted, build, kept, dropped, reports>>

ReproPlan(d) ==
  /\ phase = "repro" /\ left > Reserve
  /\ Takes(d, Max({1, Min({PlanTime, left - Reserve})}))
  /\ \/ UNCHANGED <<phase, commands, limit>>
     \/ /\ phase' = "running" /\ commands' \in 0 .. MaxCommands
        /\ limit' = Max({1, Min({RunStep, left'})})
  /\ UNCHANGED <<next, attempted, build, crash, kept, dropped, reports>>

(* What is captured of a command: one that is not allowed is skipped, one    *)
(* that times out has no return code; a report has an ERROR and a SUMMARY.   *)
Captures == [ended : {"skipped", "timeout", "zero", "nonzero"}, error : BOOLEAN,
             summary : BOOLEAN]

(* _actual_asan_trigger: a whole report of a command that failed.            *)
Trigger(capture) == capture.ended = "nonzero" /\ capture.error /\ capture.summary

RunCommand(d) ==
  /\ phase = "running" /\ commands > 0 /\ RunWithin(d) /\ left' = left - d
  /\ commands' = commands - 1
  /\ \E capture \in Captures :
       /\ crash' = (crash \/ Trigger(capture))
       /\ reports' = IF Trigger(capture) THEN reports \cup {finding} ELSE reports
  /\ UNCHANGED <<phase, next, attempted, build, limit, kept, dropped>>

(* An artifact cannot be written or a command is refused: the attempt counts *)
(* as one without a crash.                                                   *)
AttemptFails ==
  /\ phase = "running" /\ commands > 0
  /\ crash' = FALSE /\ phase' = "repro"
  /\ UNCHANGED <<next, attempted, build, left, limit, commands, kept, dropped, reports>>

(* A bug: each attempt starts a new deadline.                                *)
AttemptOverRenewed ==
  /\ phase = "running" /\ (commands = 0 \/ left <= 0)
  /\ IF crash
       THEN kept' = kept \cup {finding} /\ next' = next + 1 /\ phase' = "next"
       ELSE phase' = "repro" /\ UNCHANGED <<kept, next>>
  /\ left' = Most
  /\ UNCHANGED <<attempted, build, limit, commands, crash, dropped, reports>>

AttemptOver ==
  /\ phase = "running" /\ (commands = 0 \/ left <= 0)
  /\ IF crash
       THEN kept' = kept \cup {finding} /\ next' = next + 1 /\ phase' = "next"
       ELSE phase' = "repro" /\ UNCHANGED <<kept, next>>
  /\ UNCHANGED <<attempted, build, left, limit, commands, crash, dropped, reports>>

ReproOver ==
  /\ phase = "repro" /\ left <= Reserve
  /\ Drop /\ UNCHANGED <<attempted, build>>

-----------------------------------------------------------------------------
Timed ==
  \E d \in 0 .. Max({PlanTime + PlanSlack, BuildStep, RunStep}) :
    BuildPlan(d) \/ BuildCommand(d) \/ ReproPlan(d) \/ RunCommand(d)

AsanNext ==
  \/ NotTried \/ FirstTried \/ LaterTried \/ StartRepro \/ Done
  \/ BuildEvaluated \/ BuildFailed \/ AttemptFails \/ AttemptOver \/ ReproOver
  \/ Timed

AsanSpec == AsanInit /\ [][AsanNext]_asanVars

(* The code goes on, and an attempt, which at least creates a directory, is  *)
(* not for ever too short for the clock.                                     *)
AsanFairness == WF_asanVars(AsanNext) /\ SF_asanVars(Timed /\ left' < left)
AsanFairSpec == AsanSpec /\ AsanFairness

-----------------------------------------------------------------------------
(* Only a crash that the harness itself captured, while it ran a command for *)
(* this very finding, lets the finding leave the pass as a true positive     *)
(* (s6_verify.py:236-239); and every other one is accounted for.             *)
CrashConfirmed ==
  /\ kept \subseteq reports \cap Eligible
  /\ phase = "over" => dropped = Candidates \ kept

(* However long planning takes, no command of a reproduction runs past the   *)
(* finding's deadline (asan_verify.py:741-756).                              *)
DeadlineKept == [][phase = "running" /\ commands' < commands => left' >= 0]_asanVars

(* The pass ends whatever the planner and the commands do: no attempt can    *)
(* keep a finding alive without using up its time.                           *)
PassEnds == <>(phase = "over")

=============================================================================
