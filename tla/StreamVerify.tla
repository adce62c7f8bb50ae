---------------------------- MODULE StreamVerify ----------------------------
(***************************************************************************)
(* The streaming coordinator of stages 4, 5 and 6                          *)
(* (orchestrator/streaming_verification.py).  Five kinds of threads run:   *)
(*                                                                         *)
(*   - the s4 audit workers, which publish the findings of a chunk as soon *)
(*     as the chunk is voted;                                              *)
(*   - one dispatcher, which drains the queue of published batches and     *)
(*     submits every finding that passes the stage-5 policy, one slot of a *)
(*     bounded semaphore each;                                             *)
(*   - the static verifiers, a thread pool of Parallel workers;            *)
(*   - the single ASAN worker, fed by the static verifiers;                *)
(*   - the main thread: s4, join of the dispatcher, s5 over the complete   *)
(*     population, collection of the verdicts, shutdown of both pools.     *)
(*                                                                         *)
(* A finding is abstracted to the chunk that reports it and to the defect  *)
(* it is a report of: s5 keeps one finding for each defect.  At most one   *)
(* Ctrl-C is delivered to the main thread in a behaviour.                  *)
(***************************************************************************)
EXTENDS Naturals, Sequences, FiniteSets

CONSTANTS
  Chunks,       \* the chunks of the manifest
  Findings,     \* every finding s4 may vote in
  ChunkRank,    \* risk_rank, the order of the audit's results
  ChunkOf,      \* the chunk that reports a finding
  DefectOf,     \* the defect a finding is about (what s5 dedup compares)
  Policy,       \* the findings that pass the finding-local gates of s5
  QueueEnd,     \* the sentinel that ends the candidate queue
  NoFinding,    \* Python's None where a finding could stand
  AuditWorkers, \* cfg.step4.parallel
  Parallel,     \* cfg.step6_verify.parallel
  AsanLimit,    \* cfg.step6_verify.asan.max_findings
  GateFloor     \* the least guardrail gate (3 in the code)

ASSUME StreamAssumption ==
  /\ IsFiniteSet(Chunks) /\ IsFiniteSet(Findings)
  /\ ChunkRank \in [Chunks -> Nat] /\ ChunkOf \in [Findings -> Chunks]
  /\ Policy \subseteq Findings
  /\ QueueEnd \notin Chunks /\ NoFinding \notin Findings
  /\ AuditWorkers \in Nat \ {0} /\ Parallel \in Nat \ {0}
  /\ AsanLimit \in Nat /\ GateFloor \in Nat

MaxInFlight == 2 * Parallel

GuardrailGate == IF Parallel > GateFloor THEN Parallel ELSE GateFloor

VARIABLES
  chunk,        \* state of each chunk in the s4 pool
  queue,        \* candidate_queue
  disp,         \* program counter of the dispatcher
  batch,        \* the eligible findings of the batch being dispatched
  dispAbort,    \* dispatcher_abort
  dispError,    \* dispatcher_errors is not empty
  open,         \* the static executor accepts work
  slots,        \* value of the bounded semaphore
  idx,          \* the index a finding was submitted under
  nextIndex,    \* next_index
  work,         \* state of the future of each finding
  verdict,      \* what _verify_one gave for each finding
  asanQueue,    \* the work queue of the ASAN executor
  active,       \* the finding the ASAN worker holds
  asan,         \* state of the ASAN future of each finding
  attempted,    \* ASAN attempts charged to the budget
  build,        \* the shared ASAN build, "disabled" without an ASAN executor
  cliAborted,   \* the process-wide abort flag of the CLI backend
  main,         \* program counter of the main thread
  how,          \* why the main thread is unwinding
  auth,         \* the authoritative findings s5 selected
  fate,         \* the list _collect put each finding on
  waiting,      \* the finding whose ASAN future _collect is waiting for
  hits,         \* guardrail_hits of _collect
  successes     \* successes of _collect

s4Vars == <<chunk, queue>>
dispVars == <<disp, batch, dispAbort, dispError>>
poolVars == <<open, slots, idx, nextIndex, work, verdict>>
asanVars == <<asanQueue, active, asan, attempted, build>>
collectVars == <<auth, fate, waiting, hits, successes>>
mainVars == <<main, how, collectVars>>
vars == <<s4Vars, dispVars, poolVars, asanVars, cliAborted, mainVars>>

AsanEnabled == build # "disabled"

Success == {"tp", "drop"}                     \* _verify_one returned
Verdicts == Success \cup {"guardrail", "error"}
Completed == {"done", "freed", "cancelled"}   \* as_completed yields the future
InFlight == {"queued", "running", "done"}     \* the future holds a slot
AsanOutcome == {"kept", "dropped", "error"}
Exited == {"returned", "raised"}

ChunkStates == {"todo", "running", "done", "failed", "cancelled"}
DispStates == {"check", "get", "next", "submit", "stopped"}
WorkStates == {"none"} \cup InFlight \cup Completed
VerdictStates == {"none"} \cup Verdicts
AsanStates == {"none", "queued", "running"} \cup AsanOutcome
BuildStates == {"disabled", "pending", "ok", "failed"}
MainStates == {"audit", "interrupted", "join", "select", "collect", "await",
               "unwind", "closeStatic", "closeAsan"} \cup Exited
HowStates == {"none", "interrupt", "gate", "dispatcher", "late"}
FateStates == {"none", "static_dropped", "verified", "asan_dropped"}

TypeOK ==
  /\ chunk \in [Chunks -> ChunkStates]
  /\ queue \in Seq(Chunks \cup {QueueEnd})
  /\ disp \in DispStates
  /\ batch \in SUBSET Findings
  /\ dispAbort \in BOOLEAN /\ dispError \in BOOLEAN
  /\ open \in BOOLEAN
  /\ slots \in Nat
  /\ idx \in [Findings -> Nat] /\ nextIndex \in Nat
  /\ work \in [Findings -> WorkStates]
  /\ verdict \in [Findings -> VerdictStates]
  /\ asanQueue \in Seq(Findings)
  /\ active \in Findings \cup {NoFinding}
  /\ asan \in [Findings -> AsanStates]
  /\ attempted \in Nat
  /\ build \in BuildStates
  /\ cliAborted \in BOOLEAN
  /\ main \in MainStates
  /\ how \in HowStates
  /\ auth \in SUBSET Findings
  /\ fate \in [Findings -> FateStates]
  /\ waiting \in Findings \cup {NoFinding}
  /\ hits \in Nat /\ successes \in Nat

Init ==
  /\ chunk = [c \in Chunks |-> "todo"]
  /\ queue = <<>>
  /\ disp = "check" /\ batch = {}
  /\ dispAbort = FALSE /\ dispError = FALSE
  /\ open = TRUE
  /\ slots = MaxInFlight
  /\ idx = [f \in Findings |-> 0] /\ nextIndex = 0
  /\ work = [f \in Findings |-> "none"]
  /\ verdict = [f \in Findings |-> "none"]
  /\ asanQueue = <<>> /\ active = NoFinding
  /\ asan = [f \in Findings |-> "none"]
  /\ attempted = 0 /\ build \in {"disabled", "pending"}
  /\ cliAborted = FALSE
  /\ main = "audit" /\ how = "none"
  /\ auth = {} /\ fate = [f \in Findings |-> "none"]
  /\ waiting = NoFinding /\ hits = 0 /\ successes = 0

-----------------------------------------------------------------------------
(* The s4 pool.  A chunk publishes its survivors through the callback, which *)
(* only appends to the queue, and never publishes when nothing survived.     *)

Reported(c) == {f \in Findings : ChunkOf[f] = c}

ChunkStart(c) ==
  /\ chunk[c] = "todo"
  /\ Cardinality({d \in Chunks : chunk[d] = "running"}) < AuditWorkers
  /\ chunk' = [chunk EXCEPT ![c] = "running"]
  /\ UNCHANGED <<queue, dispVars, poolVars, asanVars, cliAborted, mainVars>>

(* A bug: a bounded queue, full while the dispatcher waits for a verifier.   *)
ChunkDoneBlocks(c) ==
  /\ chunk[c] = "running" /\ queue = <<>> /\ batch = {}
  /\ chunk' = [chunk EXCEPT ![c] = "done"]
  /\ queue' = IF Reported(c) = {} THEN queue ELSE Append(queue, c)
  /\ UNCHANGED <<dispVars, poolVars, asanVars, cliAborted, mainVars>>

ChunkDone(c) ==
  /\ chunk[c] = "running"
  /\ chunk' = [chunk EXCEPT ![c] = "done"]
  /\ queue' = IF Reported(c) = {} THEN queue ELSE Append(queue, c)
  /\ UNCHANGED <<dispVars, poolVars, asanVars, cliAborted, mainVars>>

ChunkFail(c) ==
  /\ chunk[c] = "running"
  /\ chunk' = [chunk EXCEPT ![c] = "failed"]
  /\ UNCHANGED <<queue, dispVars, poolVars, asanVars, cliAborted, mainVars>>

(* s4 returns, or is interrupted: it then cancels the pending chunks, waits  *)
(* for the running ones, which may still publish, and raises.                *)

AuditReturn ==
  /\ main = "audit"
  /\ \A c \in Chunks : chunk[c] \in {"done", "failed"}
  /\ main' = "join"
  /\ queue' = Append(queue, QueueEnd)
  /\ UNCHANGED <<chunk, dispVars, poolVars, asanVars, cliAborted, how, collectVars>>

AuditInterrupt ==
  /\ main = "audit"
  /\ main' = "interrupted" /\ how' = "interrupt"
  /\ cliAborted' = TRUE
  /\ chunk' = [c \in Chunks |-> IF chunk[c] = "todo" THEN "cancelled" ELSE chunk[c]]
  /\ UNCHANGED <<queue, dispVars, poolVars, asanVars, collectVars>>

AuditRaise ==
  /\ main = "interrupted"
  /\ \A c \in Chunks : chunk[c] # "running"
  /\ main' = "join"
  /\ dispAbort' = TRUE
  /\ queue' = Append(queue, QueueEnd)
  /\ UNCHANGED <<chunk, disp, batch, dispError, poolVars, asanVars, cliAborted,
                 how, collectVars>>

-----------------------------------------------------------------------------
(* The dispatcher.                                                           *)

DispStop == disp' = "stopped" /\ UNCHANGED <<batch, dispAbort, dispError>>

DispFail ==
  /\ disp' = "stopped" /\ dispError' = TRUE /\ dispAbort' = TRUE
  /\ UNCHANGED batch

DispatchCheck ==
  /\ disp = "check"
  /\ IF dispAbort
       THEN DispStop
       ELSE disp' = "get" /\ UNCHANGED <<batch, dispAbort, dispError>>
  /\ UNCHANGED <<s4Vars, poolVars, asanVars, cliAborted, mainVars>>

DispatchEnd ==
  /\ disp = "get" /\ queue # <<>> /\ Head(queue) = QueueEnd
  /\ queue' = Tail(queue)
  /\ DispStop
  /\ UNCHANGED <<chunk, poolVars, asanVars, cliAborted, mainVars>>

(* A bug: the batch is looked at, not removed.                               *)
DispatchBatchTwice ==
  /\ disp = "get" /\ queue # <<>> /\ Head(queue) # QueueEnd
  /\ disp' = "next" /\ batch' = Reported(Head(queue)) \cap Policy
  /\ UNCHANGED <<s4Vars, dispAbort, dispError, poolVars, asanVars, cliAborted, mainVars>>

DispatchBatch ==
  /\ disp = "get" /\ queue # <<>> /\ Head(queue) # QueueEnd
  /\ queue' = Tail(queue)
  /\ disp' = "next" /\ batch' = Reported(Head(queue)) \cap Policy
  /\ UNCHANGED <<chunk, dispAbort, dispError, poolVars, asanVars, cliAborted, mainVars>>

(* policy_filter raises, as it does on an invalid allowed_classes entry.     *)
DispatchPolicyFails ==
  /\ disp = "get" /\ queue # <<>> /\ Head(queue) # QueueEnd
  /\ queue' = Tail(queue)
  /\ DispFail
  /\ UNCHANGED <<chunk, poolVars, asanVars, cliAborted, mainVars>>

DispatchNextBatch ==
  /\ disp = "next" /\ batch = {}
  /\ disp' = "check"
  /\ UNCHANGED <<s4Vars, batch, dispAbort, dispError, poolVars, asanVars,
                 cliAborted, mainVars>>

(* A bug: the slot is taken whether or not one is free.                      *)
AcquireWithoutWaiting ==
  /\ disp = "next" /\ batch # {}
  /\ slots' = slots - 1
  /\ disp' = "submit"
  /\ UNCHANGED <<s4Vars, batch, dispAbort, dispError, open, idx, nextIndex, work,
                 verdict, asanVars, cliAborted, mainVars>>

AcquireSlot ==
  /\ disp = "next" /\ batch # {} /\ slots > 0
  /\ slots' = slots - 1
  /\ disp' = "submit"
  /\ UNCHANGED <<s4Vars, batch, dispAbort, dispError, open, idx, nextIndex, work,
                 verdict, asanVars, cliAborted, mainVars>>

AcquireAborts ==
  /\ disp = "next" /\ batch # {} /\ slots = 0 /\ dispAbort
  /\ DispFail
  /\ UNCHANGED <<s4Vars, poolVars, asanVars, cliAborted, mainVars>>

Submit(f) ==
  /\ disp = "submit" /\ f \in batch /\ open
  /\ idx' = [idx EXCEPT ![f] = nextIndex]
  /\ nextIndex' = nextIndex + 1
  /\ work' = [work EXCEPT ![f] = "queued"]
  /\ batch' = batch \ {f}
  /\ disp' = "next"
  /\ UNCHANGED <<s4Vars, dispAbort, dispError, open, slots, verdict, asanVars,
                 cliAborted, mainVars>>

(* A bug: a refused submission keeps its slot.                               *)
SubmitRefusedLeaks ==
  /\ disp = "submit" /\ ~open
  /\ nextIndex' = nextIndex + 1
  /\ DispFail
  /\ UNCHANGED <<s4Vars, open, slots, idx, work, verdict, asanVars, cliAborted, mainVars>>

SubmitRefused ==
  /\ disp = "submit" /\ ~open
  /\ nextIndex' = nextIndex + 1
  /\ slots' = slots + 1
  /\ DispFail
  /\ UNCHANGED <<s4Vars, open, idx, work, verdict, asanVars, cliAborted, mainVars>>

-----------------------------------------------------------------------------
(* The static verifiers: a FIFO pool.  The future completes, and is visible  *)
(* to as_completed, before its done-callback gives the slot back.            *)

Busy == {f \in Findings : work[f] \in {"running", "done"}}

StaticStart(f) ==
  /\ work[f] = "queued"
  /\ \A g \in Findings : work[g] = "queued" => idx[f] <= idx[g]
  /\ Cardinality(Busy) < Parallel
  /\ IF cliAborted
       THEN /\ work' = [work EXCEPT ![f] = "done"]
            /\ verdict' = [verdict EXCEPT ![f] = "error"]
       ELSE /\ work' = [work EXCEPT ![f] = "running"]
            /\ UNCHANGED verdict
  /\ UNCHANGED <<s4Vars, dispVars, open, slots, idx, nextIndex, asanVars,
                 cliAborted, mainVars>>

(* The verdict and, for a true positive at or above the confidence gate, the *)
(* reservation and the submission to the ASAN executor.                      *)
StaticFinish(f, v) ==
  /\ work[f] = "running"
  /\ work' = [work EXCEPT ![f] = "done"]
  /\ verdict' = [verdict EXCEPT ![f] = v]
  /\ IF v = "tp" /\ AsanEnabled
       THEN /\ asanQueue' = Append(asanQueue, f)
            /\ asan' = [asan EXCEPT ![f] = "queued"]
       ELSE UNCHANGED <<asanQueue, asan>>
  /\ UNCHANGED <<s4Vars, dispVars, open, slots, idx, nextIndex, active, attempted,
                 build, cliAborted, mainVars>>

(* A bug: no done-callback.                                                  *)
ReleaseSlotForgotten(f) ==
  /\ work[f] = "done"
  /\ work' = [work EXCEPT ![f] = "freed"]
  /\ UNCHANGED <<s4Vars, dispVars, open, slots, idx, nextIndex, verdict, asanVars,
                 cliAborted, mainVars>>

ReleaseSlot(f) ==
  /\ work[f] = "done"
  /\ work' = [work EXCEPT ![f] = "freed"]
  /\ slots' = slots + 1
  /\ UNCHANGED <<s4Vars, dispVars, open, idx, nextIndex, verdict, asanVars,
                 cliAborted, mainVars>>

-----------------------------------------------------------------------------
(* The ASAN worker: one build shared by every attempt, an attempt budget.    *)

AsanOverBudget ==
  /\ active = NoFinding /\ asanQueue # <<>> /\ attempted >= AsanLimit
  /\ asan' = [asan EXCEPT ![Head(asanQueue)] = "dropped"]
  /\ asanQueue' = Tail(asanQueue)
  /\ UNCHANGED <<s4Vars, dispVars, poolVars, active, attempted, build, cliAborted,
                 mainVars>>

AsanStart ==
  /\ active = NoFinding /\ asanQueue # <<>> /\ attempted < AsanLimit
  /\ active' = Head(asanQueue)
  /\ asan' = [asan EXCEPT ![Head(asanQueue)] = "running"]
  /\ asanQueue' = Tail(asanQueue)
  /\ attempted' = attempted + 1
  /\ UNCHANGED <<s4Vars, dispVars, poolVars, build, cliAborted, mainVars>>

AsanBuild ==
  /\ active # NoFinding /\ build = "pending"
  /\ build' \in {"ok", "failed"}
  /\ UNCHANGED <<s4Vars, dispVars, poolVars, asanQueue, active, asan, attempted,
                 cliAborted, mainVars>>

AsanFinish(o) ==
  /\ active # NoFinding
  /\ \/ build = "ok"
     \/ build = "failed" /\ o = "dropped"
     \/ build = "pending" /\ o = "error"       \* build_repo raised
  /\ asan' = [asan EXCEPT ![active] = o]
  /\ active' = NoFinding
  /\ UNCHANGED <<s4Vars, dispVars, poolVars, asanQueue, attempted, build, cliAborted,
                 mainVars>>

-----------------------------------------------------------------------------
(* The main thread after s4.                                                 *)

(* A bug: the dispatcher is never joined without a timeout.                  *)
JoinTimesOut ==
  /\ main = "join"
  /\ IF how = "none" /\ ~dispError
       THEN main' = "select" /\ UNCHANGED how
       ELSE /\ main' = "unwind"
            /\ how' = IF how = "none" THEN "dispatcher" ELSE how
  /\ UNCHANGED <<s4Vars, dispVars, poolVars, asanVars, cliAborted, collectVars>>

JoinEnds ==
  /\ main = "join"
  /\ disp = "stopped" \/ dispAbort
  /\ IF how = "none" /\ ~dispError
       THEN main' = "select" /\ UNCHANGED how
       ELSE /\ main' = "unwind"
            /\ how' = IF how = "none" THEN "dispatcher" ELSE how
  /\ UNCHANGED <<s4Vars, dispVars, poolVars, asanVars, cliAborted, collectVars>>

(* s5 over the whole population: policy again, then one finding per defect.  *)
Population == {f \in Policy : chunk[ChunkOf[f]] = "done"}

(* A bug: the candidates are collected without cross-chunk dedup.            *)
SelectionsWithoutDedup == {Population}

Selections ==
  {A \in SUBSET Population :
     \A f \in Population : Cardinality({g \in A : DefectOf[g] = DefectOf[f]}) = 1}

Select ==
  /\ main = "select"
  /\ auth' \in Selections
  /\ main' = "collect"
  /\ UNCHANGED <<s4Vars, dispVars, poolVars, asanVars, cliAborted, how, fate, waiting,
                 hits, successes>>

Uncollected(f) == f \in auth /\ fate[f] = "none" /\ work[f] \in Completed

CollectSuccess(f) ==
  /\ main = "collect" /\ Uncollected(f) /\ verdict[f] \in Success
  /\ successes' = successes + 1
  /\ \/ /\ asan[f] = "none"
        /\ fate' = [fate EXCEPT ![f] = IF verdict[f] = "drop" THEN "static_dropped"
                                       ELSE IF AsanEnabled THEN "asan_dropped"
                                       ELSE "verified"]
        /\ UNCHANGED <<main, waiting>>
     \/ /\ asan[f] # "none"
        /\ main' = "await" /\ waiting' = f
        /\ UNCHANGED fate
  /\ UNCHANGED <<s4Vars, dispVars, poolVars, asanVars, cliAborted, how, auth, hits>>

CollectError(f) ==
  /\ main = "collect" /\ Uncollected(f) /\ verdict[f] = "error"
  /\ fate' = [fate EXCEPT ![f] = "static_dropped"]
  /\ UNCHANGED <<s4Vars, dispVars, poolVars, asanVars, cliAborted, main, how, auth,
                 waiting, hits, successes>>

CollectGuardrail(f) ==
  /\ main = "collect" /\ Uncollected(f) /\ verdict[f] = "guardrail"
  /\ fate' = [fate EXCEPT ![f] = "static_dropped"]
  /\ hits' = hits + 1
  /\ IF hits + 1 >= GuardrailGate /\ successes = 0
       THEN main' = "unwind" /\ how' = "gate" /\ cliAborted' = TRUE
       ELSE UNCHANGED <<main, how, cliAborted>>
  /\ UNCHANGED <<s4Vars, dispVars, poolVars, asanVars, auth, waiting, successes>>

(* A bug: an ASAN worker that raised leaves the static verdict standing.     *)
CollectAsanKeepsErrors ==
  /\ main = "await" /\ asan[waiting] \in AsanOutcome
  /\ fate' = [fate EXCEPT ![waiting] =
                IF asan[waiting] = "dropped" THEN "asan_dropped" ELSE "verified"]
  /\ main' = "collect" /\ waiting' = NoFinding
  /\ UNCHANGED <<s4Vars, dispVars, poolVars, asanVars, cliAborted, how, auth, hits,
                 successes>>

CollectAsan ==
  /\ main = "await" /\ asan[waiting] \in AsanOutcome
  /\ fate' = [fate EXCEPT ![waiting] =
                IF asan[waiting] = "kept" THEN "verified" ELSE "asan_dropped"]
  /\ main' = "collect" /\ waiting' = NoFinding
  /\ UNCHANGED <<s4Vars, dispVars, poolVars, asanVars, cliAborted, how, auth, hits,
                 successes>>

CollectEnds ==
  /\ main = "collect"
  /\ \A f \in auth : fate[f] # "none"
  /\ main' = "closeStatic" /\ open' = FALSE
  /\ UNCHANGED <<s4Vars, dispVars, slots, idx, nextIndex, work, verdict, asanVars,
                 cliAborted, how, collectVars>>

Interrupt ==
  /\ main \in {"join", "select", "collect", "await"} /\ how = "none"
  /\ main' = "unwind" /\ how' = "interrupt"
  /\ UNCHANGED <<s4Vars, dispVars, poolVars, asanVars, cliAborted, collectVars>>

(* The except clauses: queued futures are cancelled and release their slots. *)
Unwind ==
  /\ main = "unwind"
  /\ cliAborted' = (cliAborted \/ how = "interrupt")
  /\ open' = FALSE
  /\ work' = [f \in Findings |-> IF work[f] = "queued" THEN "cancelled" ELSE work[f]]
  /\ slots' = slots + Cardinality({f \in Findings : work[f] = "queued"})
  /\ main' = "closeStatic"
  /\ UNCHANGED <<s4Vars, dispVars, idx, nextIndex, verdict, asanVars, how, collectVars>>

(* The finally clause: both pools are shut down, the static one first.       *)
StaticClosed ==
  /\ main = "closeStatic"
  /\ \A f \in Findings : work[f] \notin InFlight
  /\ main' = "closeAsan"
  /\ UNCHANGED <<s4Vars, dispVars, poolVars, asanVars, cliAborted, how, collectVars>>

(* A bug: the ASAN executor is shut down without waiting for it.             *)
AsanClosedEarly ==
  /\ main = "closeAsan"
  /\ main' = IF how = "none" THEN "returned" ELSE "raised"
  /\ UNCHANGED <<s4Vars, dispVars, poolVars, asanVars, cliAborted, how, collectVars>>

AsanClosed ==
  /\ main = "closeAsan"
  /\ asanQueue = <<>> /\ active = NoFinding
  /\ main' = IF how = "none" THEN "returned" ELSE "raised"
  /\ UNCHANGED <<s4Vars, dispVars, poolVars, asanVars, cliAborted, how, collectVars>>

(* A Ctrl-C that arrives inside the finally clause escapes at once: nothing  *)
(* is aborted, and the workers go on.                                        *)
LateInterrupt ==
  /\ main \in {"closeStatic", "closeAsan"} /\ how = "none"
  /\ main' = "raised" /\ how' = "late"
  /\ UNCHANGED <<s4Vars, dispVars, poolVars, asanVars, cliAborted, collectVars>>

-----------------------------------------------------------------------------
Audit == \E c \in Chunks : ChunkStart(c) \/ ChunkDone(c) \/ ChunkFail(c)

Dispatch ==
  \/ DispatchCheck \/ DispatchEnd \/ DispatchBatch \/ DispatchPolicyFails
  \/ DispatchNextBatch \/ AcquireSlot \/ AcquireAborts
  \/ \E f \in Findings : Submit(f)
  \/ SubmitRefused

Static(f) == StaticStart(f) \/ (\E v \in Verdicts : StaticFinish(f, v)) \/ ReleaseSlot(f)

Asan ==
  \/ AsanOverBudget \/ AsanStart \/ AsanBuild
  \/ \E o \in AsanOutcome : AsanFinish(o)

Collect ==
  \/ \E f \in Findings : CollectSuccess(f) \/ CollectError(f) \/ CollectGuardrail(f)
  \/ CollectAsan \/ CollectEnds

Main ==
  \/ AuditReturn \/ AuditRaise \/ JoinEnds \/ Select \/ Collect
  \/ Unwind \/ StaticClosed \/ AsanClosed

CtrlC == AuditInterrupt \/ Interrupt \/ LateInterrupt

(* The coordinator is over and its daemon dispatcher has ended.              *)
Finished == main \in Exited /\ disp = "stopped" /\ UNCHANGED vars

Next ==
  \/ Audit \/ Dispatch \/ Asan \/ Main \/ CtrlC \/ Finished
  \/ \E f \in Findings : Static(f)

(* Every thread that can take a step is scheduled; Ctrl-C is never owed, and *)
(* a chunk may always be published if it does not fail first.                *)
AuditFairness ==
  /\ \A c \in Chunks : WF_vars(ChunkStart(c)) /\ WF_vars(ChunkDone(c))
  /\ WF_vars(AuditReturn) /\ WF_vars(AuditRaise)

WorkFairness ==
  /\ WF_vars(Dispatch) /\ WF_vars(Asan) /\ WF_vars(Main)
  /\ \A f \in Findings : WF_vars(Static(f))

Spec == Init /\ [][Next]_vars

(* Only the audit is sure to be scheduled: the verifiers may all be stuck.   *)
AuditSpec == Spec /\ AuditFairness

-----------------------------------------------------------------------------
(* Properties.                                                               *)

(* Every slot of the semaphore is free, held by a future that has not run    *)
(* its done-callback, or held by the dispatcher between acquire and submit:  *)
(* no path through submission, cancellation or completion leaks or doubles   *)
(* one.                                                                      *)
Held == {f \in Findings : work[f] \in InFlight}

SlotConservation ==
  slots + Cardinality(Held) + (IF disp = "submit" THEN 1 ELSE 0) = MaxInFlight

(* No finding is submitted twice: what the dispatcher is about to submit has *)
(* never been submitted, so the identity check of _submit never hits and no  *)
(* verifier is paid for twice.                                               *)
SubmittedOnce == \A f \in batch : work[f] = "none"

(* When results are collected the dispatcher has already submitted every     *)
(* finding s5 selected, so collection waits only for futures that exist.     *)
AuthoritativeSubmitted ==
  main \in {"collect", "await"} => \A f \in auth : work[f] # "none"

(* run() leaves no verification behind: no static future is pending and the  *)
(* ASAN worker is idle whenever it has returned or raised.  The one way out  *)
(* that does not wait is a Ctrl-C during the final shutdown.                 *)
Quiescent ==
  main \in Exited /\ how # "late" =>
    /\ Held = {}
    /\ asanQueue = <<>> /\ active = NoFinding

(* A finding is verified only on the evidence its mode demands: a static     *)
(* true positive and, with ASAN, a confirmed crash, also when the shared     *)
(* build failed, the budget ran out or the ASAN worker raised.               *)
VerifiedOnEvidence ==
  \A f \in Findings : fate[f] = "verified" =>
    verdict[f] = "tp" /\ asan[f] = (IF AsanEnabled THEN "kept" ELSE "none")

(* The promise of VerifyContract, kept while the verifiers run ahead of s5.  *)
Contract == INSTANCE VerifyContract WITH
  found <- Population,
  outcome <- IF main \in Exited THEN main ELSE "working"

ContractSpec == Contract!Spec

(* Verifier backpressure never occupies an audit worker: the audit ends even *)
(* if no dispatcher, verifier or ASAN step is ever taken.                    *)
AuditEnds == <>(main # "audit")

(* With every thread scheduled the coordinator exits, and its dispatcher     *)
(* thread ends too, whatever fails and whenever Ctrl-C arrives.              *)
Terminates == WorkFairness => <>[](main \in Exited /\ disp = "stopped")

(* Inductive strengthenings, for the proofs.                                 *)

(* What the pools look like once the main thread has begun to close them.    *)
ExitInv ==
  /\ main \in {"closeStatic", "closeAsan"} \cup Exited => ~open
  /\ main = "closeAsan" \/ (main \in Exited /\ how # "late") => Held = {}
  /\ main \in Exited /\ how # "late" => asanQueue = <<>> /\ active = NoFinding

(* A chunk is published at most once, and its findings are fresh until it is *)
(* dispatched.                                                               *)
FreshInv ==
  /\ \A i, j \in 1 .. Len(queue) : queue[i] = queue[j] => i = j
  /\ \A i \in 1 .. Len(queue) : queue[i] # QueueEnd =>
       /\ chunk[queue[i]] = "done"
       /\ \A f \in Findings : ChunkOf[f] = queue[i] => work[f] = "none" /\ f \notin batch
  /\ \A f \in Findings : f \in batch \/ work[f] # "none" => chunk[ChunkOf[f]] = "done"
  /\ SubmittedOnce

(* How the end of the audit reaches the dispatcher.                          *)
EndInv ==
  /\ main \in {"audit", "interrupted"} =>
       /\ \A i \in 1 .. Len(queue) : queue[i] # QueueEnd
       /\ disp = "stopped" => dispError
       /\ dispAbort => dispError
  /\ main \notin {"audit", "interrupted"} =>
       \A c \in Chunks : chunk[c] \notin {"todo", "running"}
  /\ main = "interrupted" => \A c \in Chunks : chunk[c] # "todo"
  /\ main = "interrupted" => how = "interrupt"
  /\ \A i \in 1 .. Len(queue) : queue[i] = QueueEnd => i = Len(queue)
  /\ disp = "stopped" /\ ~dispAbort => queue = <<>>
  /\ dispError => dispAbort /\ disp = "stopped"
  /\ dispAbort => dispError \/ how = "interrupt"
  /\ main \in {"select", "collect", "await"} =>
       how = "none" /\ disp = "stopped" /\ ~dispAbort

(* Every finding of a finished chunk is queued, being dispatched or          *)
(* submitted, unless the dispatcher was stopped.                             *)
DrainInv ==
  /\ disp \in {"check", "get"} => batch = {}
  /\ disp = "submit" => batch # {}
  /\ disp = "stopped" /\ ~dispAbort => batch = {}
  /\ dispAbort \/ \A f \in Policy :
       chunk[ChunkOf[f]] = "done" =>
         \/ \E i \in 1 .. Len(queue) : queue[i] = ChunkOf[f]
         \/ f \in batch
         \/ work[f] # "none"
  /\ main \in {"collect", "await"} => auth \subseteq Population

(* Evidence is gathered in order and never revised: a verdict before ASAN, an *)
(* ASAN outcome before collection, one visit to the ASAN worker.             *)
EvidenceInv ==
  /\ \A i, j \in 1 .. Len(asanQueue) : asanQueue[i] = asanQueue[j] => i = j
  /\ \A i \in 1 .. Len(asanQueue) : asan[asanQueue[i]] = "queued"
  /\ active # NoFinding => asan[active] = "running"
  /\ \A f \in Findings : asan[f] # "none" =>
       AsanEnabled /\ verdict[f] = "tp" /\ work[f] \in {"done", "freed"}
  /\ main = "await" => waiting \in Findings /\ asan[waiting] # "none"
  /\ \A f \in Findings : fate[f] # "none" => work[f] \in Completed
  /\ VerifiedOnEvidence

(* How far the promise is kept at each point of the main thread: nothing is  *)
(* selected before s5, and the main thread closes the pools of its own       *)
(* accord only with one finding per defect selected and every one decided.   *)
PromiseInv ==
  /\ main \in {"audit", "interrupted", "join", "select"} => auth = {}
  /\ main \in {"collect", "await"} => auth \in Selections
  /\ main = "await" => waiting \in auth /\ fate[waiting] = "none"
  /\ main = "unwind" => how # "none"
  /\ main \in {"closeStatic", "closeAsan"} /\ how = "none" =>
       auth \in Selections /\ \A f \in auth : fate[f] # "none"

(* The guardrail abort says "zero successes"; no verdict that has been       *)
(* reached for a selected finding contradicts it.                            *)
GateMeansZeroSuccesses ==
  [][how # "gate" /\ how' = "gate" =>
       ~\E f \in auth : work[f] \in Completed /\ verdict[f] \in Success]_vars

(* "Thread completion order must not leak into s7/report ordering": results  *)
(* are sorted by submission index, which should follow the audit order.      *)
IndexFollowsAuditOrder ==
  main = "returned" =>
    \A f, g \in auth :
      ChunkRank[ChunkOf[f]] < ChunkRank[ChunkOf[g]] => idx[f] < idx[g]
=============================================================================
