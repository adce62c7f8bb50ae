--------------------------- MODULE ValidationScore ---------------------------
(***************************************************************************)
(* The host's score of one fix (validation/scoring/, validation/io/        *)
(* _host_score.py).  The agent writes a list of gates, each a name and a   *)
(* status; the host alone turns it into a verdict.  Weights and scores are *)
(* integers, in units of 1/Unit, rounded to the nearest.                   *)
(***************************************************************************)
EXTENDS Integers, Sequences, FiniteSets, FiniteSetsExt, Functions

CONSTANTS
  Gate,        \* GateName: the gates a complete list has
  Weight,      \* GATE_WEIGHTS
  Critical,    \* critical_criteria: the gates that cannot be waived
  Unit,        \* the scale of weights and scores
  FixedFrom, PartialFrom, Floor  \* THRESHOLD_FIXED, THRESHOLD_PARTIAL, COVERAGE_FLOOR

ASSUME ScoreAssumption ==
  /\ Critical \subseteq Gate /\ Weight \in [Gate -> Nat] /\ Unit \in Nat \ {0}
  /\ FixedFrom \in 0 .. Unit /\ PartialFrom \in 0 .. FixedFrom /\ Floor \in 1 .. Unit

GateStatus == {"pass", "partial", "fail", "skip", "invalid"}
Names(list) == {list[i].name : i \in DOMAIN list}
StatusIn(list, g) == list[CHOOSE i \in DOMAIN list : list[i].name = g].status

(* _shape_error: a gate is missing, is unknown or is there twice.            *)
Misshapen(list) == Names(list) # Gate \/ Len(list) # Cardinality(Names(list))

(* _critical_gate_error.                                                     *)
Unevaluated(list) == \E g \in Critical : StatusIn(list, g) \in {"skip", "invalid"}

(* A gate that was skipped does not count; an invalid one counts as failed.  *)
Active(list) == {g \in Gate : StatusIn(list, g) # "skip"}
Halves(status) == CASE status = "pass" -> 2 [] status = "partial" -> 1 [] OTHER -> 0
ActiveWeight(list) == MapThenSumSet(LAMBDA g : Weight[g], Active(list))
Earned(list) == MapThenSumSet(LAMBDA g : Weight[g] * Halves(StatusIn(list, g)), Active(list))
RawScore(list) ==
  LET rounded == (Earned(list) * Unit + ActiveWeight(list)) \div (2 * ActiveWeight(list))
  IN IF rounded > Unit THEN Unit ELSE rounded

NotClean(list) == \E g \in Critical : StatusIn(list, g) \in {"partial", "fail"}

(* _apply_verdicts and _cap_critical_fail.                                   *)
Capped(list) ==
  CASE RawScore(list) >= FixedFrom /\ ~NotClean(list) -> "FIXED"
    [] RawScore(list) >= PartialFrom -> "PARTIALLY_FIXED"
    [] OTHER -> "NOT_FIXED"

Verdict == {"FIXED", "PARTIALLY_FIXED", "NOT_FIXED", "UNVERIFIABLE"}

EngineScore(list) ==
  IF Misshapen(list) \/ Unevaluated(list) \/ ActiveWeight(list) < Floor
    THEN "UNVERIFIABLE" ELSE Capped(list)

(* score_fix: whatever the verdict, every name is then made a GateName,      *)
(* which raises for a name that is none.                                     *)
ScoreFix(list) == IF Names(list) \subseteq Gate THEN EngineScore(list) ELSE "raises"

(* host_score_for and effective_score: no gates of this finding, no score.   *)
HostScore(list) == IF list = <<>> THEN "UNVERIFIABLE" ELSE ScoreFix(list)

=============================================================================
