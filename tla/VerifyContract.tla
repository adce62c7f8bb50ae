--------------------------- MODULE VerifyContract ---------------------------
(***************************************************************************)
(* What stages 5 and 6 promise their caller, whichever way they are run:   *)
(* once the findings are known, one finding for each defect is selected,   *)
(* every selected finding is put on exactly one result list, nothing else  *)
(* is, and results are returned only when that has been done.              *)
(***************************************************************************)
EXTENDS FiniteSets, Naturals

CONSTANTS
  Findings,  \* every finding that may be published
  DefectOf   \* the defect each finding is about

VARIABLES
  found,     \* the findings published so far
  auth,      \* the findings selected for reporting
  fate,      \* the result list each finding is on
  outcome    \* "working", "returned" or "raised"

vars == <<found, auth, fate, outcome>>

Fates == {"static_dropped", "verified", "asan_dropped"}

Selections(S) ==
  {A \in SUBSET S : \A f \in S :
     Cardinality({g \in A : DefectOf[g] = DefectOf[f]}) = 1}

Init ==
  /\ found = {} /\ auth = {}
  /\ fate = [f \in Findings |-> "none"]
  /\ outcome = "working"

(* An audit publishes what it found, until the selection is made.            *)
Publish ==
  /\ outcome = "working" /\ auth = {}
  /\ found' \in SUBSET Findings /\ found \subseteq found'
  /\ UNCHANGED <<auth, fate, outcome>>

Reconcile ==
  /\ outcome = "working" /\ auth = {}
  /\ auth' \in Selections(found)
  /\ UNCHANGED <<found, fate, outcome>>

Decide(f) ==
  /\ outcome = "working" /\ f \in auth /\ fate[f] = "none"
  /\ \E d \in Fates : fate' = [fate EXCEPT ![f] = d]
  /\ UNCHANGED <<found, auth, outcome>>

Return ==
  /\ outcome = "working"
  /\ auth \in Selections(found)
  /\ \A f \in auth : fate[f] # "none"
  /\ outcome' = "returned"
  /\ UNCHANGED <<found, auth, fate>>

Raise ==
  /\ outcome = "working"
  /\ outcome' = "raised"
  /\ UNCHANGED <<found, auth, fate>>

Next == Publish \/ Reconcile \/ (\E f \in Findings : Decide(f)) \/ Return \/ Raise

Spec == Init /\ [][Next]_vars
=============================================================================
