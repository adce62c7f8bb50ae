----------------------------- MODULE Validation -----------------------------
(***************************************************************************)
(* Stage 11, the validation of fixes (validation/cli, ingest, execution,   *)
(* session, io, report).  A run selects remediation reports, stages for    *)
(* each a copy of the repository, lets an agent judge the fix there,       *)
(* scores what the agent wrote, and records the verdict in the report, in  *)
(* a checkpoint and in the combined report.  A session may fail and a run  *)
(* may be killed or stopped by an exception between any two steps; between *)
(* runs stage 10 may write a corrected patch.                              *)
(*                                                                         *)
(* The agent is confined by its permission gate: it writes, or not, the    *)
(* report and the gates.  One list of gates stands for all that a file     *)
(* holds.  Every report is readable and is not changed under a run.        *)
(***************************************************************************)
EXTENDS ValidationScore

CONSTANTS
  Dtos,         \* the remediation reports, in the order of their paths: 1 .. n
  IdOf,         \* the finding of each
  Lists0,       \* the lists of gates an agent may write
  Root,         \* the files in the target's root that are named as an artefact of a session is
  MaxSessions, MaxPatches, MaxFaults

Ids == Range(IdOf)
Blank == "blank"
Validatable == {"awaiting_validation", "needs_review", "validation_failed"}
DtoStatus == Validatable \cup {"validated"}

ASSUME ValidationAssumption ==
  /\ IsFiniteSet(Dtos) /\ Dtos = 1 .. Cardinality(Dtos) /\ DOMAIN IdOf = Dtos
  /\ \A list \in Lists0 : \A i \in DOMAIN list : list[i].status \in GateStatus
  /\ Root \subseteq {"manifest.json", "diff.patch"}
  /\ MaxSessions \in Nat /\ MaxPatches \in Nat /\ MaxFaults \in Nat

VARIABLES
  dto,       \* each report: its status, its patch, and the score the status rests on
  verdicts,  \* the checkpoints of the findings
  written,   \* the files of the target that a session has written to
  at,        \* where the run is
  queue, reuse,   \* the reports still to validate; --resume
  wrote,     \* what the agent wrote: the gates, whose they are, whom the report names first
  says,      \* the result of the session
  chosen,    \* the reports that the run has selected
  failed,    \* whether one of them counts as a failure, and the run returns 1
  sessions, faults

valVars == <<dto, verdicts, written, at, queue, reuse, wrote, says, chosen, failed,
             sessions, faults>>

Nothing == [list |-> <<>>, of |-> {}, first |-> "nothing"]
NoScore == [of |-> "none", patch |-> 0, sound |-> FALSE]

(* A list that is complete, and whose security gate passed.                  *)
SoundList(list) == Names(list) = Gate /\ \A g \in Critical : StatusIn(list, g) = "pass"

Result == Verdict \cup {"none", "failed", "raises"}
report == Head(queue)

ValTypeOK ==
  /\ \A d \in Dtos : /\ dto[d].status \in DtoStatus /\ dto[d].patch \in 0 .. MaxPatches
                     /\ dto[d].score \in [of : Ids \cup {"none"}, patch : 0 .. MaxPatches,
                                          sound : BOOLEAN]
  /\ \A i \in DOMAIN verdicts : i \in Ids /\ verdicts[i].of \in Ids \cup {Blank}
  /\ written \subseteq Root /\ at \in {"idle", "next", "staged", "ended", "scored", "kept"}
  /\ queue \in Seq(Dtos) /\ reuse \in BOOLEAN /\ wrote.list \in Lists0 \cup {<<>>}
  /\ says \in Result /\ chosen \subseteq Dtos /\ failed \in BOOLEAN
  /\ sessions \in 0 .. MaxSessions /\ faults \in 0 .. MaxFaults

ValInit ==
  /\ dto = [d \in Dtos |-> [status |-> "awaiting_validation", patch |-> 0, score |-> NoScore]]
  /\ verdicts = <<>> /\ written = {} /\ at = "idle" /\ queue = <<>> /\ reuse = FALSE
  /\ wrote = Nothing /\ says = "none" /\ chosen = {} /\ failed = FALSE
  /\ sessions = 0 /\ faults = 0

-----------------------------------------------------------------------------
(* select_reports: the ids that were asked for, or all that can be.          *)
InOrder(S) == [i \in 1 .. Cardinality(S) |-> CHOOSE d \in S : Cardinality(S \cap 1 .. d) = i]
CanBe == {d \in Dtos : dto[d].status \in Validatable}
ById(ids) == {d \in Dtos : IdOf[d] \in ids /\ \A e \in Dtos : IdOf[e] = IdOf[d] => e <= d}

Start(S, r) ==
  /\ at = "idle" /\ reuse' = r /\ failed' = FALSE /\ says' = "none"
  /\ chosen' = S /\ queue' = InOrder(S) /\ at' = "next"
  /\ UNCHANGED <<dto, verdicts, written, wrote, sessions, faults>>

(* The run is refused if one that was asked for cannot be validated.         *)
ValidateThese(ids, r) == ById(ids) \subseteq CanBe /\ Start(ById(ids), r)

(* --all, as the stage calls it: nothing left to validate is not an error.   *)
ValidateAll(r) == CanBe # {} /\ Start(CanBe, r)

-----------------------------------------------------------------------------
(* One report.                                                               *)

(* A bug: a report that was refused does not count.                          *)
CountsFailed(result) == result = "failed"

(* _run_reports: a session that failed counts, one of an earlier run too, and *)
(* a report that was refused.                                                *)
Counts(result) == result \in {"none", "failed"}

Leave(result) ==
  /\ failed' = (failed \/ Counts(result))
  /\ queue' = Tail(queue) /\ at' = "next"

Hit == reuse /\ IdOf[report] \in DOMAIN verdicts /\ verdicts[IdOf[report]].of = IdOf[report]

Reuse ==
  /\ at = "next" /\ queue # <<>> /\ Hit
  /\ Leave(verdicts[IdOf[report]].says)
  /\ UNCHANGED <<dto, verdicts, written, reuse, wrote, says, chosen, sessions, faults>>

(* assert_remediation_applied: none of the files of the patch is there.      *)
RefuseReport ==
  /\ at = "next" /\ queue # <<>> /\ ~Hit
  /\ Leave("none")
  /\ UNCHANGED <<dto, verdicts, written, reuse, wrote, says, chosen, sessions, faults>>

(* The repository is copied by hard links, so that what the session writes   *)
(* over a file of the copy, it writes over the file of the target.           *)
StageWorkspace ==
  /\ at = "next" /\ queue # <<>> /\ ~Hit /\ sessions < MaxSessions
  /\ written' = Root /\ sessions' = sessions + 1
  /\ wrote' = Nothing /\ says' = "none" /\ at' = "staged"
  /\ UNCHANGED <<dto, verdicts, queue, reuse, chosen, failed, faults>>

(* An exception nobody expects ends the whole run, the rest of its queue     *)
(* included: main prints it and returns 1.                                   *)
Unwind ==
  /\ at' = "idle" /\ queue' = <<>> /\ wrote' = Nothing
  /\ chosen' = {} /\ reuse' = FALSE /\ failed' = FALSE
  /\ UNCHANGED <<dto, verdicts, written, sessions>>

(* From another device os.link fails, and the copy that is tried then finds  *)
(* the directory that the first one has made.  Or the agent's program is not *)
(* found.                                                                    *)
StageRaises ==
  /\ at = "next" /\ queue # <<>> /\ ~Hit /\ faults < MaxFaults
  /\ faults' = faults + 1 /\ Unwind /\ UNCHANGED says

LaunchRaises ==
  /\ at = "staged" /\ faults < MaxFaults
  /\ faults' = faults + 1 /\ Unwind /\ UNCHANGED says

(* launch_session: the agent writes what it writes, and the session ends     *)
(* well, or fails.                                                           *)
Session(list, of, first, ok) ==
  /\ at = "staged" /\ (~ok => faults < MaxFaults) /\ (list = <<>> <=> of = {})
  /\ wrote' = [list |-> list, of |-> of, first |-> first]
  /\ says' = IF ok THEN "none" ELSE "failed"
  /\ faults' = IF ok THEN faults ELSE faults + 1
  /\ at' = "ended"
  /\ UNCHANGED <<dto, verdicts, written, queue, reuse, chosen, failed, sessions>>

GatesOf(i) == IF i \in wrote.of THEN wrote.list ELSE <<>>

(* collect_and_enrich: the result is that of the finding the report names    *)
(* first, whichever it is.  A failed session has a result all the same.      *)
Collected ==
  IF says = "failed" \/ wrote.first = "nothing" THEN "failed" ELSE HostScore(GatesOf(wrote.first))

(* A blank name, or the finding's own, is filled in with the finding's.      *)
NameOfResult ==
  IF wrote.first \in {Blank, "nothing"} \/ says = "failed" THEN IdOf[report] ELSE wrote.first

Collect ==
  /\ at = "ended" /\ Collected # "raises"
  /\ says' = Collected /\ at' = "scored"
  /\ UNCHANGED <<dto, verdicts, written, queue, reuse, wrote, chosen, failed, sessions,
                 faults>>

CollectRaises ==
  /\ at = "ended" /\ Collected = "raises"
  /\ says' = "raises" /\ Unwind /\ UNCHANGED faults

(* A bug: the verdict is the one of the finding that the report names first. *)
WriteBackFirst ==
  HostScore(IF wrote.first = "nothing" THEN <<>> ELSE GatesOf(wrote.first))

(* write_back_validation: the gates of this very finding, whether or not the *)
(* session ended well.                                                       *)
WriteBack == HostScore(GatesOf(IdOf[report]))

StatusOf(verdict) ==
  CASE verdict = "FIXED" -> "validated"
    [] verdict = "UNVERIFIABLE" -> "needs_review"
    [] OTHER -> "validation_failed"

Write ==
  /\ at = "scored" /\ WriteBack # "raises"
  /\ dto' = [dto EXCEPT ![report].status = StatusOf(WriteBack),
               ![report].score = IF GatesOf(IdOf[report]) = <<>> THEN NoScore
                                 ELSE [of |-> IdOf[report], patch |-> dto[report].patch,
                                       sound |-> SoundList(wrote.list)]]
  /\ at' = "kept"
  /\ UNCHANGED <<verdicts, written, queue, reuse, wrote, says, chosen, failed, sessions,
                 faults>>

WriteRaises ==
  /\ at = "scored" /\ WriteBack = "raises"
  /\ says' = "raises" /\ Unwind /\ UNCHANGED faults

SaveVerdict ==
  /\ at = "kept"
  /\ verdicts' = [i \in DOMAIN verdicts \cup {IdOf[report]} |->
                    IF i = IdOf[report] THEN [of |-> NameOfResult, says |-> says] ELSE verdicts[i]]
  /\ Leave(says) /\ wrote' = Nothing /\ says' = "none"
  /\ UNCHANGED <<dto, written, reuse, chosen, sessions, faults>>

EndValidation ==
  /\ at = "next" /\ queue = <<>>
  /\ at' = "idle" /\ chosen' = {} /\ reuse' = FALSE /\ failed' = FALSE
  /\ UNCHANGED <<dto, verdicts, written, queue, wrote, says, sessions, faults>>

-----------------------------------------------------------------------------
KillValidation ==
  /\ at # "idle" /\ faults < MaxFaults
  /\ faults' = faults + 1 /\ Unwind /\ UNCHANGED says

(* Stage 10 writes a corrected patch into a report that is not validated.    *)
Corrected(d) ==
  /\ at = "idle" /\ \A e \in Dtos : dto[e].patch < MaxPatches
  /\ dto' = [dto EXCEPT ![d] = [status |-> "awaiting_validation", patch |-> dto[d].patch + 1,
                                score |-> NoScore]]
  /\ UNCHANGED <<verdicts, written, at, queue, reuse, wrote, says, chosen, failed, sessions,
                 faults>>

ValNext ==
  \/ \E r \in BOOLEAN :
       \/ ValidateAll(r)
       \/ \E ids \in SUBSET Ids \ {{}} : ValidateThese(ids, r)
  \/ Reuse \/ RefuseReport \/ StageWorkspace \/ StageRaises \/ LaunchRaises
  \/ \E list \in Lists0 \cup {<<>>}, of \in SUBSET Ids \cup {{Blank}},
        first \in Ids \cup {Blank, "nothing"}, ok \in BOOLEAN : Session(list, of, first, ok)
  \/ Collect \/ CollectRaises \/ Write \/ WriteRaises \/ SaveVerdict \/ EndValidation
  \/ KillValidation
  \/ \E d \in Dtos : Corrected(d)

ValSpec == ValInit /\ [][ValNext]_valVars

-----------------------------------------------------------------------------
(* A report says validated only of a score of its own finding's gates, for   *)
(* the patch it holds, whatever the agent wrote of this finding or of others *)
(* and however its session ended: no gate was missing or unknown, and the    *)
(* security gate passed (dto_writeback.py:127-146, _engine.py:140-175).      *)
ValidatedIsScored ==
  \A d \in Dtos :
    dto[d].status = "validated" =>
      dto[d].score = [of |-> IdOf[d], patch |-> dto[d].patch, sound |-> TRUE]

(* A run that is about to return 0, and has judged its findings itself, has  *)
(* left none of those it selected without a verdict: none was refused, lost  *)
(* with the queue or passed over after a failure (cli/_run.py:170-189).      *)
CleanExit ==
  at = "next" /\ queue = <<>> /\ ~failed /\ ~reuse =>
    \A d \in chosen : dto[d].status # "awaiting_validation"

(* The validation writes only its own artefacts: no file of the target is    *)
(* changed (docs/validation.md:134).                                         *)
TargetIntact == written = {}

=============================================================================
