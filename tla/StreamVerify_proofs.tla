------------------------- MODULE StreamVerify_proofs -------------------------
(***************************************************************************)
(* Proofs about the streaming coordinator, for every manifest, every pool  *)
(* size and every ASAN budget.                                             *)
(***************************************************************************)
EXTENDS StreamVerify, FiniteSetTheorems, SequenceTheorems, TLAPS

(* The queued futures an unwinding cancels.                                  *)
Queued == {f \in Findings : work[f] = "queued"}

LEMMA InitTyped == Init => TypeOK
<1> SUFFICES ASSUME Init PROVE TypeOK
  OBVIOUS
<1>1. MaxInFlight \in Nat
  BY StreamAssumption DEF MaxInFlight
<1>2. /\ chunk \in [Chunks -> ChunkStates]
      /\ work \in [Findings -> WorkStates]
      /\ verdict \in [Findings -> VerdictStates]
      /\ asan \in [Findings -> AsanStates]
      /\ fate \in [Findings -> FateStates]
  BY DEF Init, ChunkStates, WorkStates, VerdictStates, AsanStates, FateStates
<1>3. disp \in DispStates /\ build \in BuildStates /\ main \in MainStates /\ how \in HowStates
  BY DEF Init, DispStates, BuildStates, MainStates, HowStates
<1>4. /\ queue \in Seq(Chunks \cup {QueueEnd}) /\ asanQueue \in Seq(Findings)
      /\ idx \in [Findings -> Nat]
  BY DEF Init
<1> QED
  BY <1>1, <1>2, <1>3, <1>4, Zenon DEF Init, TypeOK

(* Every step of the coordinator preserves the type invariant.               *)
LEMMA TypeInductive == TypeOK /\ [Next]_vars => TypeOK'
<1> SUFFICES ASSUME TypeOK, [Next]_vars PROVE TypeOK'
  OBVIOUS
<1> USE DEF TypeOK, s4Vars, dispVars, poolVars, asanVars, collectVars, mainVars
<1>1. ASSUME NEW c \in Chunks, ChunkStart(c) PROVE TypeOK'
  BY <1>1 DEF ChunkStart, ChunkStates
<1>2. ASSUME NEW c \in Chunks, ChunkDone(c) PROVE TypeOK'
  BY <1>2 DEF ChunkDone, ChunkStates
<1>3. ASSUME NEW c \in Chunks, ChunkFail(c) PROVE TypeOK'
  BY <1>3 DEF ChunkFail, ChunkStates
<1>4. CASE AuditReturn
  BY <1>4 DEF AuditReturn, MainStates
<1>5. CASE AuditInterrupt
  BY <1>5 DEF AuditInterrupt, MainStates, HowStates, ChunkStates
<1>6. CASE AuditRaise
  BY <1>6 DEF AuditRaise, MainStates
<1>7. CASE DispatchCheck
  BY <1>7 DEF DispatchCheck, DispStates, DispStop
<1>8. CASE DispatchEnd
  BY <1>8, HeadTailProperties DEF DispatchEnd, DispStates, DispStop
<1>9. CASE DispatchBatch
  BY <1>9, HeadTailProperties DEF DispatchBatch, DispStates, Reported
<1>10. CASE DispatchPolicyFails
  BY <1>10, HeadTailProperties DEF DispatchPolicyFails, DispStates, DispFail
<1>11. CASE DispatchNextBatch
  BY <1>11 DEF DispatchNextBatch, DispStates
<1>12. CASE AcquireSlot
  BY <1>12 DEF AcquireSlot, DispStates
<1>13. CASE AcquireAborts
  BY <1>13 DEF AcquireAborts, DispStates, DispFail
<1>14. ASSUME NEW f \in Findings, Submit(f) PROVE TypeOK'
  BY <1>14 DEF Submit, DispStates, WorkStates, InFlight
<1>15. CASE SubmitRefused
  BY <1>15 DEF SubmitRefused, DispStates, DispFail
<1>16. ASSUME NEW f \in Findings, StaticStart(f) PROVE TypeOK'
  BY <1>16 DEF StaticStart, WorkStates, InFlight, VerdictStates, Verdicts
<1>17. ASSUME NEW f \in Findings, NEW v \in Verdicts, StaticFinish(f, v) PROVE TypeOK'
  <2>1. "done" \in WorkStates /\ v \in VerdictStates /\ "queued" \in AsanStates
    BY DEF WorkStates, InFlight, VerdictStates, AsanStates
  <2>2. asanQueue' \in Seq(Findings) /\ asan' \in [Findings -> AsanStates]
    <3>1. CASE v = "tp" /\ AsanEnabled
      <4>1. asanQueue' = Append(asanQueue, f) /\ asan' = [asan EXCEPT ![f] = "queued"]
        BY <1>17, <3>1, Zenon DEF StaticFinish
      <4> QED
        BY <2>1, <4>1
    <3>2. CASE ~(v = "tp" /\ AsanEnabled)
      <4>1. UNCHANGED <<asanQueue, asan>>
        BY <1>17, <3>2, Zenon DEF StaticFinish
      <4> QED
        BY <4>1
    <3> QED
      BY <3>1, <3>2
  <2>3. work' \in [Findings -> WorkStates] /\ verdict' \in [Findings -> VerdictStates]
    BY <1>17, <2>1 DEF StaticFinish
  <2>4. UNCHANGED <<s4Vars, dispVars, open, slots, idx, nextIndex, active, attempted,
                    build, cliAborted, mainVars>>
    BY <1>17 DEF StaticFinish
  <2> QED
    BY <2>2, <2>3, <2>4
<1>18. ASSUME NEW f \in Findings, ReleaseSlot(f) PROVE TypeOK'
  BY <1>18 DEF ReleaseSlot, WorkStates, Completed
<1>19. CASE AsanOverBudget
  BY <1>19, HeadTailProperties DEF AsanOverBudget, AsanStates, AsanOutcome
<1>20. CASE AsanStart
  BY <1>20, HeadTailProperties DEF AsanStart, AsanStates
<1>21. CASE AsanBuild
  BY <1>21 DEF AsanBuild, BuildStates
<1>22. ASSUME NEW o \in AsanOutcome, AsanFinish(o) PROVE TypeOK'
  BY <1>22 DEF AsanFinish, AsanStates
<1>23. CASE JoinEnds
  BY <1>23 DEF JoinEnds, MainStates, HowStates
<1>24. CASE Select
  <2>1. auth' \in SUBSET Findings
    BY <1>24, StreamAssumption DEF Select, Selections, Population
  <2> QED
    BY <1>24, <2>1 DEF Select, MainStates
<1>25. ASSUME NEW f \in Findings, CollectSuccess(f) PROVE TypeOK'
  BY <1>25 DEF CollectSuccess, MainStates, FateStates
<1>26. ASSUME NEW f \in Findings, CollectError(f) PROVE TypeOK'
  BY <1>26 DEF CollectError, FateStates
<1>27. ASSUME NEW f \in Findings, CollectGuardrail(f) PROVE TypeOK'
  <2>1. "unwind" \in MainStates /\ "gate" \in HowStates /\ "static_dropped" \in FateStates
    BY DEF MainStates, HowStates, FateStates
  <2>2. main' \in MainStates /\ how' \in HowStates /\ cliAborted' \in BOOLEAN
    BY <1>27, <2>1, Zenon DEF CollectGuardrail
  <2> QED
    BY <1>27, <2>1, <2>2 DEF CollectGuardrail
<1>28. CASE CollectAsan
  BY <1>28 DEF CollectAsan, MainStates, FateStates
<1>29. CASE CollectEnds
  BY <1>29 DEF CollectEnds, MainStates
<1>30. CASE Interrupt
  BY <1>30 DEF Interrupt, MainStates, HowStates
<1>31. CASE Unwind
  <2>1. Cardinality(Queued) \in Nat
    BY StreamAssumption, FS_Subset, FS_CardinalityType DEF Queued
  <2>2. slots' \in Nat
    BY <1>31, <2>1 DEF Unwind, Queued
  <2>3. work' \in [Findings -> WorkStates]
    BY <1>31 DEF Unwind, WorkStates, Completed
  <2> QED
    BY <1>31, <2>2, <2>3 DEF Unwind, MainStates
<1>32. CASE StaticClosed
  BY <1>32 DEF StaticClosed, MainStates
<1>33. CASE AsanClosed
  BY <1>33 DEF AsanClosed, MainStates, Exited
<1>34. CASE LateInterrupt
  BY <1>34 DEF LateInterrupt, MainStates, HowStates, Exited
<1>35. CASE UNCHANGED vars
  BY <1>35 DEF vars
<1> QED
  BY <1>1, <1>2, <1>3, <1>4, <1>5, <1>6, <1>7, <1>8, <1>9, <1>10, <1>11, <1>12, <1>13,
     <1>14, <1>15, <1>16, <1>17, <1>18, <1>19, <1>20, <1>21, <1>22, <1>23, <1>24, <1>25,
     <1>26, <1>27, <1>28, <1>29, <1>30, <1>31, <1>32, <1>33, <1>34, <1>35
     DEF Next, Audit, Dispatch, Static, Asan, Collect, Main, CtrlC, Finished

(* Every reachable state of the coordinator is well typed: in particular the *)
(* semaphore of streaming_verification.run never goes below zero.            *)
THEOREM TypeCorrect == Spec => []TypeOK
  BY InitTyped, TypeInductive, PTL DEF Spec

(* Once the pools are being closed nothing enters them, and each shutdown    *)
(* waits for its own.                                                        *)
LEMMA ExitInductive == TypeOK /\ ExitInv /\ [Next]_vars => ExitInv'
<1> SUFFICES ASSUME TypeOK, ExitInv, [Next]_vars PROVE ExitInv'
  OBVIOUS
<1> USE DEF ExitInv, Held, s4Vars, dispVars, poolVars, asanVars, collectVars, mainVars
<1>1. CASE UNCHANGED <<main, how, open, work, asanQueue, active>>
  BY <1>1
<1>2. ASSUME NEW c \in Chunks, ChunkStart(c) \/ ChunkDone(c) \/ ChunkFail(c) PROVE ExitInv'
  BY <1>1, <1>2 DEF ChunkStart, ChunkDone, ChunkFail
<1>3. CASE AuditReturn \/ AuditInterrupt \/ AuditRaise
  BY <1>3 DEF AuditReturn, AuditInterrupt, AuditRaise, Exited
<1>4. CASE DispatchCheck \/ DispatchEnd \/ DispatchBatch \/ DispatchPolicyFails
  BY <1>1, <1>4 DEF DispatchCheck, DispatchEnd, DispatchBatch, DispatchPolicyFails
<1>5. CASE DispatchNextBatch \/ AcquireSlot \/ AcquireAborts \/ SubmitRefused
  BY <1>1, <1>5 DEF DispatchNextBatch, AcquireSlot, AcquireAborts, SubmitRefused
<1>6. ASSUME NEW f \in Findings, Submit(f) PROVE ExitInv'
  BY <1>6 DEF Submit
<1>7. ASSUME NEW f \in Findings, Static(f) PROVE ExitInv'
  <2>1. work[f] \in InFlight
    BY <1>7 DEF Static, StaticStart, StaticFinish, ReleaseSlot, InFlight
  <2>2. UNCHANGED <<main, how, open>>
    BY <1>7 DEF Static, StaticStart, StaticFinish, ReleaseSlot
  <2> QED
    BY <2>1, <2>2
<1>8. CASE Asan
  <2>1. UNCHANGED <<main, how, open, work>>
    BY <1>8 DEF Asan, AsanOverBudget, AsanStart, AsanBuild, AsanFinish
  <2>2. asanQueue # <<>> \/ active # NoFinding
    BY <1>8 DEF Asan, AsanOverBudget, AsanStart, AsanBuild, AsanFinish
  <2> QED
    BY <2>1, <2>2
<1>9. CASE JoinEnds \/ Select \/ Collect \/ Interrupt
  BY <1>9 DEF JoinEnds, Select, Collect, CollectSuccess, CollectError, CollectGuardrail,
     CollectAsan, CollectEnds, Interrupt, Exited
<1>10. CASE Unwind
  BY <1>10 DEF Unwind, Exited
<1>11. CASE StaticClosed
  BY <1>11 DEF StaticClosed, Exited
<1>12. CASE AsanClosed
  BY <1>12 DEF AsanClosed, Exited
<1>13. CASE LateInterrupt
  BY <1>13 DEF LateInterrupt, Exited
<1>14. CASE UNCHANGED vars
  BY <1>1, <1>14 DEF vars
<1> QED
  BY <1>2, <1>3, <1>4, <1>5, <1>6, <1>7, <1>8, <1>9, <1>10, <1>11, <1>12, <1>13, <1>14
     DEF Next, Audit, Dispatch, Main, CtrlC, Finished

(* Whenever run() has returned or raised, no static verification is pending  *)
(* and the ASAN worker is idle, unless Ctrl-C cut its final shutdown short.  *)
THEOREM ExitIsQuiescent == Spec => []Quiescent
<1>1. Init => ExitInv
  BY DEF Init, ExitInv, Exited
<1>2. TypeOK /\ ExitInv => Quiescent
  BY DEF ExitInv, Quiescent
<1> QED
  BY InitTyped, TypeInductive, ExitInductive, <1>1, <1>2, PTL DEF Spec

-----------------------------------------------------------------------------
(* The way of a finding from its chunk, through the queue and the batch, to  *)
(* its submission.                                                           *)

QueueFacts(q, x) ==
  /\ Len(Append(q, x)) = Len(q) + 1
  /\ Append(q, x)[Len(q) + 1] = x
  /\ \A i \in 1 .. Len(q) : Append(q, x)[i] = q[i]

LEMMA AppendFacts ==
  ASSUME NEW S, NEW q \in Seq(S), NEW x \in S
  PROVE  QueueFacts(q, x) /\ Append(q, x) \in Seq(S) /\ Len(q) \in Nat
  BY DEF QueueFacts

LEMMA TailFacts ==
  ASSUME NEW S, NEW q \in Seq(S), q # <<>>
  PROVE  /\ Len(q) \in Nat \ {0}
         /\ Head(q) = q[1]
         /\ Len(Tail(q)) = Len(q) - 1
         /\ \A i \in 1 .. Len(Tail(q)) : Tail(q)[i] = q[i + 1] /\ i + 1 \in 1 .. Len(q)
<1>1. Len(q) \in Nat \ {0} /\ Head(q) = q[1]
  BY EmptySeq
<1> QED
  BY <1>1, HeadTailProperties

(* Nothing but the audit, the dispatcher and the pool touches a finding on   *)
(* its way, and the pool only moves what has been submitted.                 *)
Onward ==
  /\ UNCHANGED <<chunk, queue, batch>>
  /\ \A f \in Findings : work'[f] = "none" <=> work[f] = "none"

LEMMA FreshOnward ==
  ASSUME TypeOK, FreshInv, Onward
  PROVE  FreshInv'
  BY ZenonT(40) DEF TypeOK, FreshInv, SubmittedOnce, Onward

LEMMA FreshInductive == TypeOK /\ FreshInv /\ EndInv /\ [Next]_vars => FreshInv'
<1> SUFFICES ASSUME TypeOK, FreshInv, EndInv, [Next]_vars PROVE FreshInv'
  OBVIOUS
<1> USE DEF s4Vars, dispVars, poolVars, asanVars, collectVars, mainVars
<1>1. queue \in Seq(Chunks \cup {QueueEnd}) /\ QueueEnd \notin Chunks
  BY StreamAssumption DEF TypeOK
<1>2. /\ chunk \in [Chunks -> ChunkStates] /\ work \in [Findings -> WorkStates]
      /\ ChunkOf \in [Findings -> Chunks] /\ batch \subseteq Findings
  BY StreamAssumption DEF TypeOK
<1>3. ASSUME NEW c \in Chunks, ChunkStart(c) \/ ChunkFail(c) PROVE FreshInv'
  BY <1>1, <1>2, <1>3 DEF ChunkStart, ChunkFail, FreshInv, SubmittedOnce
<1>4. ASSUME NEW c \in Chunks, ChunkDone(c) PROVE FreshInv'
  <2>1. CASE queue' = queue
    BY <1>1, <1>2, <1>4, <2>1 DEF ChunkDone, FreshInv, SubmittedOnce
  <2>2. CASE queue' = Append(queue, c)
    <3>1. QueueFacts(queue, c) /\ Len(queue) \in Nat
      BY <1>1, AppendFacts
    <3>2. \A i \in 1 .. Len(queue) : queue[i] # c
      BY <1>1, <1>4 DEF ChunkDone, FreshInv
    <3>3. \A f \in Findings : ChunkOf[f] = c => work[f] = "none" /\ f \notin batch
      BY <1>2, <1>4 DEF ChunkDone, FreshInv
    <3>4. \A i, j \in 1 .. Len(queue') : queue'[i] = queue'[j] => i = j
      BY <2>2, <3>1, <3>2 DEF QueueFacts, FreshInv
    <3>5. chunk'[c] = "done" /\ \A d \in Chunks : chunk[d] = "done" => chunk'[d] = "done"
      BY <1>2, <1>4 DEF ChunkDone
    <3>6. UNCHANGED <<work, batch>>
      BY <1>4 DEF ChunkDone
    <3>7. ASSUME NEW i \in 1 .. Len(queue'), queue'[i] # QueueEnd
          PROVE  /\ chunk'[queue'[i]] = "done"
                 /\ \A f \in Findings :
                      ChunkOf[f] = queue'[i] => work'[f] = "none" /\ f \notin batch'
      <4>1. CASE i = Len(queue) + 1
        BY <2>2, <3>1, <3>3, <3>5, <3>6, <4>1 DEF QueueFacts
      <4>2. CASE i \in 1 .. Len(queue)
        <5>1. queue'[i] = queue[i] /\ queue[i] \in Chunks
          BY <1>1, <2>2, <3>1, <3>7, <4>2 DEF QueueFacts
        <5> QED
          BY <3>5, <3>6, <3>7, <4>2, <5>1 DEF FreshInv
      <4> QED
        BY <2>2, <3>1, <4>1, <4>2 DEF QueueFacts
    <3> QED
      BY <1>2, <3>4, <3>5, <3>6, <3>7 DEF FreshInv, SubmittedOnce
  <2> QED
    BY <1>4, <2>1, <2>2 DEF ChunkDone
<1>5. CASE AuditReturn \/ AuditRaise
  <2>1. QueueFacts(queue, QueueEnd) /\ Len(queue) \in Nat
    BY <1>1, AppendFacts
  <2>2. /\ queue' = Append(queue, QueueEnd) /\ UNCHANGED <<chunk, batch, work>>
        /\ main \in {"audit", "interrupted"}
    BY <1>5 DEF AuditReturn, AuditRaise
  <2>3. \A i \in 1 .. Len(queue) : queue[i] # QueueEnd
    BY <2>2 DEF EndInv
  <2>4. \A i, j \in 1 .. Len(queue') : queue'[i] = queue'[j] => i = j
    BY <2>1, <2>2, <2>3 DEF QueueFacts, FreshInv
  <2>5. \A i \in 1 .. Len(queue') : queue'[i] # QueueEnd =>
          i \in 1 .. Len(queue) /\ queue'[i] = queue[i]
    BY <2>1, <2>2 DEF QueueFacts
  <2> QED
    BY <2>2, <2>4, <2>5 DEF FreshInv, SubmittedOnce
<1>6. CASE AuditInterrupt
  BY <1>1, <1>2, <1>6 DEF AuditInterrupt, FreshInv, SubmittedOnce
<1>7. CASE DispatchEnd \/ DispatchBatch \/ DispatchPolicyFails
  <2>1. queue # <<>> /\ queue' = Tail(queue) /\ UNCHANGED <<chunk, work>>
    BY <1>7 DEF DispatchEnd, DispatchBatch, DispatchPolicyFails
  <2>2. /\ Len(queue) \in Nat \ {0} /\ Head(queue) = queue[1]
        /\ Len(queue') = Len(queue) - 1
        /\ \A i \in 1 .. Len(queue') : queue'[i] = queue[i + 1] /\ i + 1 \in 1 .. Len(queue)
    BY <1>1, <2>1, TailFacts
  <2>3. /\ \A i, j \in 1 .. Len(queue') : queue'[i] = queue'[j] => i = j
        /\ \A i \in 1 .. Len(queue') : queue'[i] # Head(queue)
    BY <2>2 DEF FreshInv
  <2>4. CASE batch' = batch
    BY <2>1, <2>2, <2>3, <2>4 DEF FreshInv, SubmittedOnce
  <2>5. CASE DispatchBatch
    <3>1. batch' = {f \in Findings : ChunkOf[f] = Head(queue)} \cap Policy
      BY <2>5 DEF DispatchBatch, Reported
    <3>2. Head(queue) # QueueEnd
      BY <2>5 DEF DispatchBatch
    <3>3. \A f \in batch' : work[f] = "none" /\ chunk[ChunkOf[f]] = "done"
      BY <2>2, <3>1, <3>2 DEF FreshInv
    <3>4. \A i \in 1 .. Len(queue') : \A f \in Findings :
            ChunkOf[f] = queue'[i] => f \notin batch'
      BY <2>3, <3>1
    <3> QED
      BY <2>1, <2>2, <2>3, <3>3, <3>4 DEF FreshInv, SubmittedOnce
  <2> QED
    BY <1>7, <2>4, <2>5 DEF DispatchEnd, DispatchPolicyFails, DispStop, DispFail
<1>8. ASSUME NEW f \in Findings, Submit(f) PROVE FreshInv'
  BY <1>1, <1>2, <1>8 DEF Submit, FreshInv, SubmittedOnce
<1>9. CASE DispatchCheck \/ DispatchNextBatch \/ AcquireSlot \/ AcquireAborts \/ SubmitRefused
  <2>1. Onward
    BY <1>9 DEF DispatchCheck, DispatchNextBatch, AcquireSlot, AcquireAborts, SubmitRefused,
       DispStop, DispFail, Onward
  <2> QED
    BY <2>1, FreshOnward
<1>10. ASSUME NEW f \in Findings, Static(f) PROVE FreshInv'
  <2>1. Onward
    BY <1>2, <1>10 DEF Static, StaticStart, StaticFinish, ReleaseSlot, Onward
  <2> QED
    BY <2>1, FreshOnward
<1>11. CASE Asan \/ JoinEnds \/ Select \/ Collect \/ StaticClosed \/ AsanClosed
            \/ Interrupt \/ LateInterrupt
  <2>1. UNCHANGED <<chunk, queue, batch, work>>
    BY <1>11 DEF Asan, AsanOverBudget, AsanStart, AsanBuild, AsanFinish, JoinEnds, Select,
       Collect, CollectSuccess, CollectError, CollectGuardrail, CollectAsan, CollectEnds,
       StaticClosed, AsanClosed, Interrupt, LateInterrupt
  <2> QED
    BY <2>1, FreshOnward DEF Onward
<1>12. CASE Unwind
  <2>1. Onward
    BY <1>2, <1>12 DEF Unwind, Onward
  <2> QED
    BY <2>1, FreshOnward
<1>13. CASE UNCHANGED vars
  BY <1>13, FreshOnward DEF vars, Onward
<1> QED
  BY <1>3, <1>4, <1>5, <1>6, <1>7, <1>8, <1>9, <1>10, <1>11, <1>12, <1>13
     DEF Next, Audit, Dispatch, Main, CtrlC, Finished

LEMMA EndInductive == TypeOK /\ EndInv /\ [Next]_vars => EndInv'
<1> SUFFICES ASSUME TypeOK, EndInv, [Next]_vars PROVE EndInv'
  OBVIOUS
<1> USE DEF s4Vars, dispVars, poolVars, asanVars, collectVars, mainVars
<1>1. queue \in Seq(Chunks \cup {QueueEnd}) /\ QueueEnd \notin Chunks
  BY StreamAssumption DEF TypeOK
<1>2. /\ chunk \in [Chunks -> ChunkStates] /\ how \in HowStates /\ disp \in DispStates
      /\ dispAbort \in BOOLEAN /\ dispError \in BOOLEAN
  BY DEF TypeOK
<1>3. CASE UNCHANGED <<chunk, queue, disp, dispAbort, dispError, main, how>>
  BY <1>3 DEF EndInv
<1>4. ASSUME NEW c \in Chunks, ChunkStart(c) PROVE EndInv'
  <2>1. main = "audit"
    BY <1>4 DEF ChunkStart, EndInv
  <2> QED
    BY <1>2, <1>4, <2>1 DEF ChunkStart, EndInv
<1>5. ASSUME NEW c \in Chunks, ChunkDone(c) \/ ChunkFail(c) PROVE EndInv'
  <2>1. main \in {"audit", "interrupted"}
    BY <1>5 DEF ChunkDone, ChunkFail, EndInv
  <2>2. QueueFacts(queue, c) /\ Len(queue) \in Nat
    BY <1>1, AppendFacts
  <2>3. queue' = queue \/ queue' = Append(queue, c)
    BY <1>5 DEF ChunkDone, ChunkFail
  <2>4. \A i \in 1 .. Len(queue') : queue'[i] # QueueEnd
    BY <1>1, <2>1, <2>2, <2>3 DEF QueueFacts, EndInv
  <2>5. /\ UNCHANGED <<disp, dispAbort, dispError, main, how>>
        /\ \A d \in Chunks : chunk'[d] = "todo" => chunk[d] = "todo"
    BY <1>2, <1>5 DEF ChunkDone, ChunkFail
  <2>6. disp = "stopped" => dispAbort
    BY <2>1 DEF EndInv
  <2> QED
    BY <2>1, <2>4, <2>5, <2>6 DEF EndInv
<1>6. CASE AuditReturn \/ AuditRaise
  <2>1. QueueFacts(queue, QueueEnd) /\ Len(queue) \in Nat
    BY <1>1, AppendFacts
  <2>2. /\ queue' = Append(queue, QueueEnd) /\ UNCHANGED <<chunk, disp, dispError, how>>
        /\ main \in {"audit", "interrupted"} /\ main' = "join"
        /\ dispAbort' = dispAbort \/ (main = "interrupted" /\ dispAbort' = TRUE)
    BY <1>2, <1>6 DEF AuditReturn, AuditRaise
  <2>3. \A i \in 1 .. Len(queue') : queue'[i] = QueueEnd => i = Len(queue')
    BY <2>1, <2>2 DEF QueueFacts, EndInv
  <2>4. \A c \in Chunks : chunk[c] \notin {"todo", "running"}
    BY <1>6 DEF AuditReturn, AuditRaise, EndInv
  <2>5. disp = "stopped" => dispAbort'
    BY <2>2 DEF EndInv
  <2>6. dispAbort' => dispError' \/ how' = "interrupt"
    BY <2>2 DEF EndInv
  <2> QED
    BY <2>2, <2>3, <2>4, <2>5, <2>6 DEF EndInv
<1>7. CASE AuditInterrupt
  BY <1>2, <1>7 DEF AuditInterrupt, EndInv
<1>8. CASE DispatchCheck
  BY <1>8 DEF DispatchCheck, DispStop, EndInv
<1>9. CASE DispatchEnd \/ DispatchBatch \/ DispatchPolicyFails
  <2>1. queue # <<>> /\ queue' = Tail(queue) /\ UNCHANGED <<chunk, main, how>>
    BY <1>9 DEF DispatchEnd, DispatchBatch, DispatchPolicyFails
  <2>2. /\ Len(queue) \in Nat \ {0} /\ Head(queue) = queue[1]
        /\ Len(queue') = Len(queue) - 1
        /\ \A i \in 1 .. Len(queue') : queue'[i] = queue[i + 1] /\ i + 1 \in 1 .. Len(queue)
    BY <1>1, <2>1, TailFacts
  <2>3. /\ \A i \in 1 .. Len(queue') : queue'[i] = QueueEnd => i = Len(queue')
        /\ main \in {"audit", "interrupted"} =>
             \A i \in 1 .. Len(queue') : queue'[i] # QueueEnd
    <3>1. ASSUME NEW i \in 1 .. Len(queue'), queue'[i] = QueueEnd PROVE i = Len(queue')
      <4>1. i + 1 \in 1 .. Len(queue) /\ queue[i + 1] = QueueEnd
        BY <2>2, <3>1
      <4>2. i + 1 = Len(queue)
        BY <4>1 DEF EndInv
      <4> QED
        BY <2>2, <4>2
    <3>2. ASSUME main \in {"audit", "interrupted"}, NEW i \in 1 .. Len(queue')
          PROVE  queue'[i] # QueueEnd
      <4>1. i + 1 \in 1 .. Len(queue) /\ queue'[i] = queue[i + 1]
        BY <2>2
      <4>2. \A k \in 1 .. Len(queue) : queue[k] # QueueEnd
        BY <3>2 DEF EndInv
      <4> QED
        BY <4>1, <4>2
    <3> QED
      BY <3>1, <3>2
  <2>4. CASE DispatchEnd
    <3>1. queue[1] = QueueEnd
      BY <2>2, <2>4 DEF DispatchEnd
    <3>2. Len(queue) = 1 /\ main \notin {"audit", "interrupted"}
      BY <2>2, <3>1 DEF EndInv
    <3>3. queue' \in Seq(Chunks \cup {QueueEnd}) /\ Len(queue') = 0
      BY <1>1, <2>1, <2>2, <3>2, HeadTailProperties
    <3>4. queue' = <<>>
      BY <3>3, EmptySeq
    <3> QED
      BY <2>1, <2>3, <2>4, <3>2, <3>4 DEF DispatchEnd, DispStop, EndInv
  <2>5. CASE DispatchBatch
    BY <2>1, <2>3, <2>5 DEF DispatchBatch, EndInv
  <2>6. CASE DispatchPolicyFails
    BY <2>1, <2>3, <2>6 DEF DispatchPolicyFails, DispFail, EndInv
  <2> QED
    BY <1>9, <2>4, <2>5, <2>6
<1>10. CASE DispatchNextBatch \/ AcquireSlot \/ AcquireAborts \/ SubmitRefused
  BY <1>10 DEF DispatchNextBatch, AcquireSlot, AcquireAborts, SubmitRefused, DispFail, EndInv
<1>11. ASSUME NEW f \in Findings, Submit(f) PROVE EndInv'
  BY <1>11 DEF Submit, EndInv
<1>12. ASSUME NEW f \in Findings, Static(f) PROVE EndInv'
  BY <1>3, <1>12 DEF Static, StaticStart, StaticFinish, ReleaseSlot
<1>13. CASE Asan
  BY <1>3, <1>13 DEF Asan, AsanOverBudget, AsanStart, AsanBuild, AsanFinish
<1>14. CASE JoinEnds
  BY <1>14 DEF JoinEnds, EndInv
<1>15. CASE Select \/ Collect
  BY <1>15 DEF Select, Collect, CollectSuccess, CollectError, CollectGuardrail, CollectAsan,
     CollectEnds, EndInv
<1>16. CASE Unwind \/ StaticClosed \/ AsanClosed \/ Interrupt \/ LateInterrupt
  BY <1>16 DEF Unwind, StaticClosed, AsanClosed, Interrupt, LateInterrupt, EndInv
<1>17. CASE UNCHANGED vars
  BY <1>3, <1>17 DEF vars
<1> QED
  BY <1>4, <1>5, <1>6, <1>7, <1>8, <1>9, <1>10, <1>11, <1>12, <1>13, <1>14, <1>15, <1>16,
     <1>17
     DEF Next, Audit, Dispatch, Main, CtrlC, Finished

(* Where a finding of a finished chunk is.                                   *)
Placed(f) ==
  \/ \E i \in 1 .. Len(queue) : queue[i] = ChunkOf[f]
  \/ f \in batch
  \/ work[f] # "none"

LEMMA DrainOnward ==
  ASSUME DrainInv, Onward, UNCHANGED <<disp, main, auth>>, dispAbort' = dispAbort
  PROVE  DrainInv'
<1>1. Policy \subseteq Findings
  BY StreamAssumption
<1> QED
  BY <1>1 DEF DrainInv, Onward, Population

LEMMA DrainInductive == TypeOK /\ EndInv /\ DrainInv /\ [Next]_vars => DrainInv'
<1> SUFFICES ASSUME TypeOK, EndInv, DrainInv, [Next]_vars PROVE DrainInv'
  OBVIOUS
<1> USE DEF s4Vars, dispVars, poolVars, asanVars, collectVars, mainVars
<1>1. queue \in Seq(Chunks \cup {QueueEnd}) /\ QueueEnd \notin Chunks
  BY StreamAssumption DEF TypeOK
<1>2. /\ chunk \in [Chunks -> ChunkStates] /\ work \in [Findings -> WorkStates]
      /\ ChunkOf \in [Findings -> Chunks] /\ batch \subseteq Findings
      /\ Policy \subseteq Findings
  BY StreamAssumption DEF TypeOK
<1>3. ASSUME NEW c \in Chunks, ChunkStart(c) \/ ChunkFail(c) PROVE DrainInv'
  <2>1. main \in {"audit", "interrupted"}
    BY <1>3 DEF ChunkStart, ChunkFail, EndInv
  <2>2. \A d \in Chunks : chunk'[d] = "done" => chunk[d] = "done"
    BY <1>2, <1>3 DEF ChunkStart, ChunkFail
  <2> QED
    BY <1>2, <1>3, <2>1, <2>2 DEF ChunkStart, ChunkFail, DrainInv
<1>4. ASSUME NEW c \in Chunks, ChunkDone(c) PROVE DrainInv'
  <2>1. main \in {"audit", "interrupted"}
    BY <1>4 DEF ChunkDone, EndInv
  <2>2. QueueFacts(queue, c) /\ Len(queue) \in Nat
    BY <1>1, AppendFacts
  <2>3. /\ UNCHANGED <<disp, batch, dispAbort, work, main, auth>>
        /\ \A d \in Chunks : d # c /\ chunk'[d] = "done" => chunk[d] = "done"
        /\ queue' = IF Reported(c) = {} THEN queue ELSE Append(queue, c)
    BY <1>2, <1>4 DEF ChunkDone
  <2>4. ASSUME ~dispAbort, NEW f \in Policy, chunk'[ChunkOf[f]] = "done" PROVE Placed(f)'
    <3>1. CASE ChunkOf[f] = c
      <4>1. queue' = Append(queue, c)
        BY <1>2, <2>3, <3>1 DEF Reported
      <4>2. Len(queue') \in 1 .. Len(queue') /\ queue'[Len(queue')] = c
        BY <2>2, <4>1 DEF QueueFacts
      <4> QED
        BY <3>1, <4>2 DEF Placed
    <3>2. CASE ChunkOf[f] # c
      <4>1. Placed(f)
        BY <1>2, <2>3, <2>4, <3>2 DEF DrainInv, Placed
      <4>2. \A i \in 1 .. Len(queue) : i \in 1 .. Len(queue') /\ queue'[i] = queue[i]
        BY <2>2, <2>3 DEF QueueFacts
      <4> QED
        BY <2>3, <4>1, <4>2 DEF Placed
    <3> QED
      BY <3>1, <3>2
  <2> QED
    BY <2>1, <2>3, <2>4 DEF DrainInv, Placed
<1>5. CASE AuditReturn \/ AuditRaise
  <2>1. QueueFacts(queue, QueueEnd) /\ Len(queue) \in Nat
    BY <1>1, AppendFacts
  <2>2. /\ queue' = Append(queue, QueueEnd) /\ UNCHANGED <<chunk, disp, batch, work, auth>>
        /\ main' = "join" /\ (dispAbort' = dispAbort \/ dispAbort')
    BY <1>5 DEF AuditReturn, AuditRaise
  <2>3. \A i \in 1 .. Len(queue) : i \in 1 .. Len(queue') /\ queue'[i] = queue[i]
    BY <2>1, <2>2 DEF QueueFacts
  <2>4. ASSUME ~dispAbort, NEW f \in Policy, chunk[ChunkOf[f]] = "done" PROVE Placed(f)'
    <3>1. Placed(f)
      BY <2>4 DEF DrainInv, Placed
    <3> QED
      BY <2>2, <2>3, <3>1 DEF Placed
  <2>5. disp = "stopped" /\ ~dispAbort => batch = {}
    BY DEF DrainInv
  <2>6. dispAbort => dispAbort'
    BY <1>5 DEF AuditReturn, AuditRaise
  <2> QED
    BY <2>2, <2>4, <2>5, <2>6 DEF DrainInv, Placed
<1>6. CASE AuditInterrupt
  BY <1>2, <1>6 DEF AuditInterrupt, DrainInv
<1>7. CASE DispatchCheck \/ DispatchNextBatch \/ AcquireSlot \/ AcquireAborts \/ SubmitRefused
  BY <1>7 DEF DispatchCheck, DispatchNextBatch, AcquireSlot, AcquireAborts, SubmitRefused,
     DispStop, DispFail, DrainInv, Population
<1>8. CASE DispatchEnd \/ DispatchBatch \/ DispatchPolicyFails
  <2>1. /\ queue # <<>> /\ queue' = Tail(queue) /\ UNCHANGED <<chunk, work, main, auth>>
        /\ batch = {}
    BY <1>8 DEF DispatchEnd, DispatchBatch, DispatchPolicyFails, DrainInv
  <2>2. /\ Len(queue) \in Nat \ {0} /\ Head(queue) = queue[1]
        /\ Len(queue') = Len(queue) - 1
        /\ \A i \in 1 .. Len(queue') : queue'[i] = queue[i + 1] /\ i + 1 \in 1 .. Len(queue)
    BY <1>1, <2>1, TailFacts
  <2>3. ASSUME NEW i \in 1 .. Len(queue), i # 1
        PROVE  i - 1 \in 1 .. Len(queue') /\ queue'[i - 1] = queue[i]
    <3>1. i - 1 \in 1 .. Len(queue') /\ (i - 1) + 1 = i
      BY <2>2, <2>3
    <3>2. queue'[i - 1] = queue[(i - 1) + 1]
      BY <2>2, <3>1
    <3> QED
      BY <3>1, <3>2
  <2>4. ASSUME ~dispAbort, NEW f \in Policy, chunk[ChunkOf[f]] = "done",
               ChunkOf[f] # Head(queue)
        PROVE  Placed(f)'
    <3>1. Placed(f)
      BY <2>4 DEF DrainInv, Placed
    <3>2. CASE \E i \in 1 .. Len(queue) : queue[i] = ChunkOf[f]
      <4>1. PICK i \in 1 .. Len(queue) : queue[i] = ChunkOf[f]
        BY <3>2
      <4>2. i # 1
        BY <2>2, <2>4, <4>1
      <4>3. i - 1 \in 1 .. Len(queue') /\ queue'[i - 1] = ChunkOf[f]
        BY <2>3, <4>1, <4>2
      <4> QED
        BY <4>3 DEF Placed
    <3>3. CASE work[f] # "none"
      BY <2>1, <3>3 DEF Placed
    <3> QED
      BY <2>1, <3>1, <3>2, <3>3 DEF Placed
  <2>5. CASE DispatchEnd
    <3>1. \A f \in Policy : ChunkOf[f] # Head(queue)
      BY <1>1, <1>2, <2>5 DEF DispatchEnd
    <3> QED
      BY <2>1, <2>4, <2>5, <3>1 DEF DispatchEnd, DispStop, DrainInv, Placed, Population
  <2>6. CASE DispatchBatch
    <3>1. \A f \in Policy : ChunkOf[f] = Head(queue) => f \in batch'
      BY <1>2, <2>6 DEF DispatchBatch, Reported
    <3>2. ASSUME ~dispAbort, NEW f \in Policy, chunk[ChunkOf[f]] = "done" PROVE Placed(f)'
      BY <2>4, <3>1, <3>2 DEF Placed
    <3> QED
      BY <2>1, <2>6, <3>2 DEF DispatchBatch, DrainInv, Placed, Population
  <2>7. CASE DispatchPolicyFails
    BY <2>1, <2>7 DEF DispatchPolicyFails, DispFail, DrainInv, Population
  <2> QED
    BY <1>8, <2>5, <2>6, <2>7
<1>9. ASSUME NEW f \in Findings, Submit(f) PROVE DrainInv'
  <2>1. \A g \in Findings : work'[g] = IF g = f THEN "queued" ELSE work[g]
    BY <1>2, <1>9 DEF Submit
  <2> QED
    BY <1>2, <1>9, <2>1 DEF Submit, DrainInv, Population
<1>10. ASSUME NEW f \in Findings, Static(f) PROVE DrainInv'
  <2>1. Onward /\ UNCHANGED <<disp, main, auth, dispAbort>>
    BY <1>2, <1>10 DEF Static, StaticStart, StaticFinish, ReleaseSlot, Onward
  <2> QED
    BY <2>1, DrainOnward
<1>11. CASE Asan
  BY <1>11, DrainOnward DEF Asan, AsanOverBudget, AsanStart, AsanBuild, AsanFinish, Onward
<1>12. CASE JoinEnds \/ StaticClosed \/ AsanClosed \/ Interrupt \/ LateInterrupt
  BY <1>12 DEF JoinEnds, StaticClosed, AsanClosed, Interrupt, LateInterrupt, DrainInv
<1>13. CASE Select
  BY <1>13 DEF Select, Selections, DrainInv, Population
<1>14. CASE Collect
  <2>1. /\ UNCHANGED <<chunk, queue, disp, batch, dispAbort, work, auth>>
        /\ main \in {"collect", "await"}
    BY <1>14 DEF Collect, CollectSuccess, CollectError, CollectGuardrail, CollectAsan,
       CollectEnds
  <2> QED
    BY <2>1 DEF DrainInv, Population
<1>15. CASE Unwind
  <2>1. \A f \in Findings : work'[f] = "none" <=> work[f] = "none"
    BY <1>2, <1>15 DEF Unwind
  <2> QED
    BY <1>2, <1>15, <2>1 DEF Unwind, DrainInv
<1>16. CASE UNCHANGED vars
  BY <1>16 DEF vars, DrainInv, Population
<1> QED
  BY <1>3, <1>4, <1>5, <1>6, <1>7, <1>8, <1>9, <1>10, <1>11, <1>12, <1>13, <1>14, <1>15,
     <1>16
     DEF Next, Audit, Dispatch, Main, CtrlC, Finished

(* The invariant of the whole pipeline.                                      *)
PipelineInv == TypeOK /\ FreshInv /\ EndInv /\ DrainInv

LEMMA PipelineInvariant == Spec => []PipelineInv
<1>1. Init => FreshInv /\ EndInv /\ DrainInv
  <2> SUFFICES ASSUME Init PROVE FreshInv /\ EndInv /\ DrainInv
    OBVIOUS
  <2>1. /\ \A c \in Chunks : chunk[c] = "todo"
        /\ \A f \in Findings : work[f] = "none" /\ chunk[ChunkOf[f]] = "todo"
        /\ Policy \subseteq Findings
    BY StreamAssumption DEF Init
  <2>2. Len(queue) = 0
    BY EmptySeq DEF Init
  <2> QED
    BY <2>1, <2>2 DEF Init, FreshInv, EndInv, DrainInv, SubmittedOnce
<1>2. PipelineInv /\ [Next]_vars => PipelineInv'
  BY TypeInductive, FreshInductive, EndInductive, DrainInductive DEF PipelineInv
<1>3. Init => PipelineInv
  BY InitTyped, <1>1 DEF PipelineInv
<1> QED
  BY <1>2, <1>3, PTL DEF Spec

(* No finding reaches a verifier twice.                                      *)
THEOREM NeverResubmitted == Spec => []SubmittedOnce
<1>1. PipelineInv => SubmittedOnce
  BY DEF PipelineInv, FreshInv
<1> QED
  BY <1>1, PipelineInvariant, PTL

(* When _collect runs, every finding s5 selected from the whole population   *)
(* has been submitted by the dispatcher, which was joined before.            *)
THEOREM CollectedWasSubmitted == Spec => []AuthoritativeSubmitted
<1>1. PipelineInv => AuthoritativeSubmitted
  <2> SUFFICES ASSUME PipelineInv, main \in {"collect", "await"}, NEW f \in auth
               PROVE  work[f] # "none"
    BY DEF AuthoritativeSubmitted
  <2>1. ~dispAbort /\ disp = "stopped" /\ queue = <<>> /\ batch = {}
    BY DEF PipelineInv, EndInv, DrainInv
  <2>2. f \in Policy /\ chunk[ChunkOf[f]] = "done"
    BY DEF PipelineInv, DrainInv, Population
  <2>3. Len(queue) = 0
    BY <2>1, EmptySeq
  <2> QED
    BY <2>1, <2>2, <2>3 DEF PipelineInv, DrainInv
<1> QED
  BY <1>1, PipelineInvariant, PTL

-----------------------------------------------------------------------------
(* The slots of the semaphore.                                               *)

LEMMA HeldFinite == IsFiniteSet(Held) /\ Cardinality(Held) \in Nat
  BY StreamAssumption, FS_Subset, FS_CardinalityType DEF Held

LEMMA SlotInductive ==
  TypeOK /\ SubmittedOnce /\ SlotConservation /\ [Next]_vars => SlotConservation'
<1> SUFFICES ASSUME TypeOK, SubmittedOnce, SlotConservation, [Next]_vars
             PROVE  SlotConservation'
  OBVIOUS
<1> USE DEF s4Vars, dispVars, poolVars, asanVars, collectVars, mainVars
<1>1. /\ slots \in Nat /\ MaxInFlight \in Nat
      /\ work \in [Findings -> WorkStates] /\ batch \subseteq Findings
  BY StreamAssumption DEF TypeOK, MaxInFlight
<1>2. ASSUME Held' = Held, slots' = slots, (disp' = "submit") <=> (disp = "submit")
      PROVE  SlotConservation'
  BY <1>2 DEF SlotConservation
<1>3. ASSUME NEW c \in Chunks, ChunkStart(c) \/ ChunkDone(c) \/ ChunkFail(c)
      PROVE  SlotConservation'
  BY <1>2, <1>3 DEF ChunkStart, ChunkDone, ChunkFail, Held
<1>4. CASE AuditReturn \/ AuditInterrupt \/ AuditRaise
  BY <1>2, <1>4 DEF AuditReturn, AuditInterrupt, AuditRaise, Held
<1>5. CASE DispatchCheck \/ DispatchEnd \/ DispatchBatch \/ DispatchPolicyFails
            \/ DispatchNextBatch \/ AcquireAborts
  BY <1>2, <1>5 DEF DispatchCheck, DispatchEnd, DispatchBatch, DispatchPolicyFails,
     DispatchNextBatch, AcquireAborts, DispStop, DispFail, Held
<1>6. CASE AcquireSlot
  <2>1. Held' = Held /\ slots' = slots - 1 /\ disp = "next" /\ disp' = "submit"
    BY <1>6 DEF AcquireSlot, Held
  <2>2. slots > 0
    BY <1>6 DEF AcquireSlot
  <2> QED
    BY <1>1, <2>1, <2>2, HeldFinite DEF SlotConservation
<1>7. ASSUME NEW f \in Findings, Submit(f) PROVE SlotConservation'
  <2>1. f \notin Held /\ Held' = Held \cup {f}
    BY <1>1, <1>7 DEF Submit, SubmittedOnce, Held, InFlight
  <2>2. Cardinality(Held') = Cardinality(Held) + 1
    BY <2>1, HeldFinite, FS_AddElement
  <2>3. slots' = slots /\ disp = "submit" /\ disp' = "next"
    BY <1>7 DEF Submit
  <2> QED
    BY <1>1, <2>2, <2>3, HeldFinite DEF SlotConservation
<1>8. CASE SubmitRefused
  <2>1. Held' = Held /\ slots' = slots + 1 /\ disp = "submit" /\ disp' = "stopped"
    BY <1>8 DEF SubmitRefused, DispFail, Held
  <2> QED
    BY <1>1, <2>1, HeldFinite DEF SlotConservation
<1>9. ASSUME NEW f \in Findings, Static(f) PROVE SlotConservation'
  <2>1. CASE StaticStart(f) \/ \E v \in Verdicts : StaticFinish(f, v)
    <3>1. Held' = Held
      BY <1>1, <2>1 DEF StaticStart, StaticFinish, Held, InFlight
    <3> QED
      BY <1>2, <2>1, <3>1 DEF StaticStart, StaticFinish
  <2>2. CASE ReleaseSlot(f)
    <3>1. f \in Held /\ Held' = Held \ {f}
      BY <1>1, <2>2 DEF ReleaseSlot, Held, InFlight
    <3>2. Cardinality(Held') = Cardinality(Held) - 1
      BY <3>1, HeldFinite, FS_RemoveElement
    <3>3. slots' = slots + 1 /\ disp' = disp
      BY <2>2 DEF ReleaseSlot
    <3> QED
      BY <1>1, <3>2, <3>3, HeldFinite DEF SlotConservation
  <2> QED
    BY <1>9, <2>1, <2>2 DEF Static
<1>10. CASE Asan
  BY <1>2, <1>10 DEF Asan, AsanOverBudget, AsanStart, AsanBuild, AsanFinish, Held
<1>11. CASE JoinEnds \/ Select \/ Collect \/ StaticClosed \/ AsanClosed
            \/ Interrupt \/ LateInterrupt
  <2>1. UNCHANGED <<slots, work, disp>>
    BY <1>11 DEF JoinEnds, Select, Collect, CollectSuccess, CollectError, CollectGuardrail,
       CollectAsan, CollectEnds, StaticClosed, AsanClosed, Interrupt, LateInterrupt
  <2> QED
    BY <1>2, <2>1 DEF Held
<1>12. CASE Unwind
  <2>1. Held' = Held \ Queued /\ Queued = Held \cap Queued
    BY <1>1, <1>12 DEF Unwind, Held, Queued, InFlight
  <2>2. Cardinality(Held') = Cardinality(Held) - Cardinality(Queued)
    <3>1. Cardinality(Held \ Queued) = Cardinality(Held) - Cardinality(Held \cap Queued)
      BY HeldFinite, StreamAssumption, FS_Difference, FS_Subset DEF Queued
    <3> QED
      BY <2>1, <3>1
  <2>3. Cardinality(Queued) \in Nat
    BY StreamAssumption, FS_Subset, FS_CardinalityType DEF Queued
  <2>4. slots' = slots + Cardinality(Queued) /\ disp' = disp
    BY <1>12 DEF Unwind, Queued
  <2> QED
    BY <1>1, <2>2, <2>3, <2>4, HeldFinite DEF SlotConservation
<1>13. CASE UNCHANGED vars
  BY <1>2, <1>13 DEF vars, Held
<1> QED
  BY <1>3, <1>4, <1>5, <1>6, <1>7, <1>8, <1>9, <1>10, <1>11, <1>12, <1>13
     DEF Next, Audit, Dispatch, Main, CtrlC, Finished

(* No slot of the bounded semaphore is leaked or given back twice, on any    *)
(* path: verified, failed, cancelled or refused.                             *)
THEOREM SlotsConserved == Spec => []SlotConservation
<1>1. Init => SlotConservation
  <2> SUFFICES ASSUME Init PROVE SlotConservation
    OBVIOUS
  <2>1. Held = {}
    BY DEF Init, Held, InFlight
  <2> QED
    BY <2>1, FS_EmptySet, StreamAssumption DEF Init, SlotConservation, MaxInFlight
<1>2. PipelineInv => TypeOK /\ SubmittedOnce
  BY DEF PipelineInv, FreshInv
<1> QED
  BY <1>1, <1>2, PipelineInvariant, SlotInductive, PTL DEF Spec

-----------------------------------------------------------------------------
(* The evidence a finding is verified on.                                    *)

(* A step that neither judges, nor collects, nor touches the ASAN worker.    *)
NoNewEvidence ==
  /\ UNCHANGED <<asanQueue, active, asan, waiting, verdict, fate>>
  /\ (main' = "await") => (main = "await")
  /\ AsanEnabled' = AsanEnabled
  /\ \A f \in Findings :
       /\ work[f] \in Completed => work'[f] \in Completed
       /\ work[f] \in {"done", "freed"} => work'[f] \in {"done", "freed"}

LEMMA EvidenceOnward ==
  ASSUME TypeOK, EvidenceInv, NoNewEvidence
  PROVE  EvidenceInv'
<1>1. VerifiedOnEvidence'
  BY DEF EvidenceInv, VerifiedOnEvidence, NoNewEvidence
<1> QED
  BY <1>1 DEF EvidenceInv, NoNewEvidence

LEMMA EvidenceInductive ==
  TypeOK /\ SubmittedOnce /\ EvidenceInv /\ [Next]_vars => EvidenceInv'
<1> SUFFICES ASSUME TypeOK, SubmittedOnce, EvidenceInv, [Next]_vars PROVE EvidenceInv'
  OBVIOUS
<1> USE DEF s4Vars, dispVars, poolVars, asanVars, collectVars, mainVars
<1>1. /\ work \in [Findings -> WorkStates] /\ verdict \in [Findings -> VerdictStates]
      /\ asan \in [Findings -> AsanStates] /\ fate \in [Findings -> FateStates]
      /\ asanQueue \in Seq(Findings) /\ active \in Findings \cup {NoFinding}
      /\ batch \subseteq Findings /\ auth \subseteq Findings
      /\ NoFinding \notin Findings
  BY StreamAssumption DEF TypeOK
<1>2. ASSUME NoNewEvidence PROVE EvidenceInv'
  BY <1>2, EvidenceOnward
<1>3. ASSUME NEW c \in Chunks, ChunkStart(c) \/ ChunkDone(c) \/ ChunkFail(c)
      PROVE  EvidenceInv'
  BY <1>2, <1>3 DEF ChunkStart, ChunkDone, ChunkFail, NoNewEvidence, AsanEnabled
<1>4. CASE \/ AuditReturn \/ AuditRaise \/ AuditInterrupt \/ JoinEnds \/ Select
           \/ CollectEnds \/ StaticClosed \/ AsanClosed \/ Interrupt \/ LateInterrupt
  BY <1>2, <1>4
     DEF AuditReturn, AuditRaise, AuditInterrupt, JoinEnds, Select, CollectEnds,
         StaticClosed, AsanClosed, Interrupt, LateInterrupt, NoNewEvidence, AsanEnabled
<1>5. CASE \/ DispatchCheck \/ DispatchEnd \/ DispatchBatch \/ DispatchPolicyFails
           \/ DispatchNextBatch \/ AcquireSlot \/ AcquireAborts \/ SubmitRefused
  BY <1>2, <1>5
     DEF DispatchCheck, DispatchEnd, DispatchBatch, DispatchPolicyFails, DispatchNextBatch,
         AcquireSlot, AcquireAborts, SubmitRefused, NoNewEvidence, AsanEnabled
<1>6. ASSUME NEW f \in Findings, Submit(f) PROVE EvidenceInv'
  <2>1. work[f] = "none"
    BY <1>6 DEF Submit, SubmittedOnce
  <2>2. \A g \in Findings : g # f => work'[g] = work[g]
    BY <1>1, <1>6 DEF Submit
  <2> QED
    BY <1>2, <1>6, <2>1, <2>2 DEF Submit, NoNewEvidence, AsanEnabled, Completed
<1>7. ASSUME NEW f \in Findings, ReleaseSlot(f) PROVE EvidenceInv'
  <2>1. \A g \in Findings : g # f => work'[g] = work[g]
    BY <1>1, <1>7 DEF ReleaseSlot
  <2>2. work'[f] = "freed"
    BY <1>1, <1>7 DEF ReleaseSlot
  <2> QED
    BY <1>2, <1>7, <2>1, <2>2 DEF ReleaseSlot, NoNewEvidence, AsanEnabled, Completed
<1>8. CASE Unwind
  <2>1. \A f \in Findings : work[f] # "queued" => work'[f] = work[f]
    BY <1>8 DEF Unwind
  <2> QED
    BY <1>2, <1>8, <2>1 DEF Unwind, NoNewEvidence, AsanEnabled, Completed
<1>9. CASE UNCHANGED vars
  BY <1>2, <1>9 DEF vars, NoNewEvidence, AsanEnabled
<1>10. ASSUME NEW f \in Findings, StaticStart(f) PROVE EvidenceInv'
  <2>1. work[f] = "queued" /\ fate[f] = "none" /\ asan[f] = "none"
    BY <1>10 DEF StaticStart, EvidenceInv, Completed
  <2>2. /\ \A g \in Findings : g # f => work'[g] = work[g] /\ verdict'[g] = verdict[g]
        /\ UNCHANGED <<asanQueue, active, asan, build, main, waiting, fate>>
    BY <1>1, <1>10 DEF StaticStart
  <2>3. VerifiedOnEvidence'
    BY <2>1, <2>2 DEF EvidenceInv, VerifiedOnEvidence, AsanEnabled
  <2> QED
    BY <2>1, <2>2, <2>3 DEF EvidenceInv, AsanEnabled
<1>11. ASSUME NEW f \in Findings, NEW v \in Verdicts, StaticFinish(f, v)
       PROVE  EvidenceInv'
  <2>1. work[f] = "running" /\ fate[f] = "none" /\ asan[f] = "none"
    BY <1>11 DEF StaticFinish, EvidenceInv, Completed
  <2>2. /\ \A g \in Findings : g # f =>
             work'[g] = work[g] /\ verdict'[g] = verdict[g] /\ asan'[g] = asan[g]
        /\ work'[f] = "done" /\ verdict'[f] = v
        /\ UNCHANGED <<active, build, main, waiting, fate>>
    BY <1>1, <1>11 DEF StaticFinish
  <2>3. VerifiedOnEvidence'
    BY <2>1, <2>2 DEF EvidenceInv, VerifiedOnEvidence, AsanEnabled
  <2>4. CASE UNCHANGED <<asanQueue, asan>>
    BY <2>1, <2>2, <2>3, <2>4 DEF EvidenceInv, AsanEnabled, Completed
  <2>5. CASE v = "tp" /\ AsanEnabled /\ asanQueue' = Append(asanQueue, f)
             /\ asan' = [asan EXCEPT ![f] = "queued"]
    <3>1. QueueFacts(asanQueue, f) /\ Len(asanQueue) \in Nat
      BY <1>1, AppendFacts
    <3>2. \A i \in 1 .. Len(asanQueue) : asanQueue[i] \in Findings /\ asanQueue[i] # f
      BY <1>1, <2>1 DEF EvidenceInv
    <3>3. asan'[f] = "queued"
      BY <1>1, <2>5
    <3>4. /\ \A i, j \in 1 .. Len(asanQueue') : asanQueue'[i] = asanQueue'[j] => i = j
          /\ \A i \in 1 .. Len(asanQueue') : asan'[asanQueue'[i]] = "queued"
      BY <2>2, <2>5, <3>1, <3>2, <3>3 DEF QueueFacts, EvidenceInv
    <3>5. active' # NoFinding => asan'[active'] = "running"
      BY <1>1, <2>1, <2>2 DEF EvidenceInv
    <3>6. main' = "await" => waiting' \in Findings /\ asan'[waiting'] # "none"
      BY <2>1, <2>2 DEF EvidenceInv
    <3>7. \A g \in Findings : asan'[g] # "none" =>
            AsanEnabled' /\ verdict'[g] = "tp" /\ work'[g] \in {"done", "freed"}
      BY <2>2, <2>5 DEF EvidenceInv, AsanEnabled
    <3>8. \A g \in Findings : fate'[g] # "none" => work'[g] \in Completed
      BY <2>2 DEF EvidenceInv, Completed
    <3> QED
      BY <2>3, <3>4, <3>5, <3>6, <3>7, <3>8 DEF EvidenceInv
  <2> QED
    BY <1>11, <2>4, <2>5 DEF StaticFinish
<1>12. CASE AsanOverBudget \/ AsanStart
  <2> DEFINE f == Head(asanQueue)
  <2>1. /\ active = NoFinding /\ asanQueue' = Tail(asanQueue)
        /\ asan' = [asan EXCEPT ![f] = IF AsanOverBudget THEN "dropped" ELSE "running"]
        /\ UNCHANGED <<work, verdict, build, main, waiting, fate>>
        /\ asanQueue # <<>>
    BY <1>12 DEF AsanOverBudget, AsanStart
  <2>2. /\ Len(asanQueue) \in Nat \ {0} /\ f = asanQueue[1]
        /\ Len(asanQueue') = Len(asanQueue) - 1
        /\ \A i \in 1 .. Len(asanQueue') :
             asanQueue'[i] = asanQueue[i + 1] /\ i + 1 \in 1 .. Len(asanQueue)
    BY <1>1, <2>1, TailFacts
  <2>3. f \in Findings /\ asan[f] = "queued" /\ fate[f] # "verified"
    <3>1. f \in Findings /\ asan[f] = "queued"
      BY <1>1, <2>2 DEF EvidenceInv
    <3> QED
      BY <3>1 DEF EvidenceInv, VerifiedOnEvidence
  <2>4. /\ \A g \in Findings : g # f => asan'[g] = asan[g]
        /\ asan'[f] # "none"
        /\ AsanStart => asan'[f] = "running" /\ active' = f
        /\ ~AsanStart => active' = NoFinding
    BY <1>1, <1>12, <2>1, <2>3 DEF AsanOverBudget, AsanStart
  <2>5. \A i \in 1 .. Len(asanQueue') : asanQueue'[i] \in Findings /\ asanQueue'[i] # f
    BY <1>1, <2>2 DEF EvidenceInv
  <2>6. /\ \A i, j \in 1 .. Len(asanQueue') : asanQueue'[i] = asanQueue'[j] => i = j
        /\ \A i \in 1 .. Len(asanQueue') : asan'[asanQueue'[i]] = "queued"
    BY <2>2, <2>4, <2>5 DEF EvidenceInv
  <2>7. VerifiedOnEvidence'
    BY <2>1, <2>3, <2>4 DEF EvidenceInv, VerifiedOnEvidence, AsanEnabled
  <2> QED
    BY <2>1, <2>3, <2>4, <2>6, <2>7 DEF EvidenceInv, AsanEnabled
<1>13. CASE AsanBuild
  <2>1. NoNewEvidence
    BY <1>13 DEF AsanBuild, NoNewEvidence, AsanEnabled
  <2> QED
    BY <1>2, <2>1
<1>14. ASSUME NEW o \in AsanOutcome, AsanFinish(o) PROVE EvidenceInv'
  <2>1. /\ active \in Findings /\ asan[active] = "running" /\ active' = NoFinding
        /\ UNCHANGED <<asanQueue, work, verdict, build, main, waiting, fate>>
    BY <1>1, <1>14 DEF AsanFinish, EvidenceInv
  <2>2. /\ \A g \in Findings : g # active => asan'[g] = asan[g]
        /\ asan'[active] # "none"
    BY <1>1, <1>14, <2>1 DEF AsanFinish, AsanOutcome
  <2>3. fate[active] # "verified"
    BY <2>1 DEF EvidenceInv, VerifiedOnEvidence
  <2>4. VerifiedOnEvidence'
    BY <2>1, <2>2, <2>3 DEF EvidenceInv, VerifiedOnEvidence, AsanEnabled
  <2>5. \A i \in 1 .. Len(asanQueue) : asanQueue[i] \in Findings /\ asanQueue[i] # active
    BY <1>1, <2>1 DEF EvidenceInv
  <2> QED
    BY <2>1, <2>2, <2>4, <2>5 DEF EvidenceInv, AsanEnabled
<1>15. ASSUME NEW f \in Findings, CollectSuccess(f) PROVE EvidenceInv'
  <2>1. work[f] \in Completed /\ verdict[f] \in Success
    BY <1>15 DEF CollectSuccess, Uncollected
  <2>2. UNCHANGED <<asanQueue, active, asan, work, verdict, build>>
    BY <1>15 DEF CollectSuccess
  <2>3. CASE /\ asan[f] = "none" /\ UNCHANGED <<main, waiting>>
             /\ fate' = [fate EXCEPT ![f] = IF verdict[f] = "drop" THEN "static_dropped"
                                            ELSE IF AsanEnabled THEN "asan_dropped"
                                            ELSE "verified"]
    <3>1. \A g \in Findings : g # f => fate'[g] = fate[g]
      BY <1>1, <2>3
    <3>2. fate'[f] = "verified" => verdict[f] = "tp" /\ ~AsanEnabled
      BY <1>1, <2>1, <2>3 DEF Success
    <3>3. VerifiedOnEvidence'
      BY <2>2, <2>3, <3>1, <3>2 DEF EvidenceInv, VerifiedOnEvidence, AsanEnabled
    <3> QED
      BY <2>1, <2>2, <2>3, <3>1, <3>3 DEF EvidenceInv, AsanEnabled
  <2>4. CASE asan[f] # "none" /\ main' = "await" /\ waiting' = f /\ UNCHANGED fate
    <3>1. VerifiedOnEvidence'
      BY <2>2, <2>4 DEF EvidenceInv, VerifiedOnEvidence, AsanEnabled
    <3> QED
      BY <2>2, <2>4, <3>1 DEF EvidenceInv, AsanEnabled
  <2> QED
    BY <1>15, <2>3, <2>4 DEF CollectSuccess
<1>16. ASSUME NEW f \in Findings, CollectError(f) \/ CollectGuardrail(f)
       PROVE  EvidenceInv'
  <2>1. /\ work[f] \in Completed
        /\ fate' = [fate EXCEPT ![f] = "static_dropped"]
        /\ UNCHANGED <<asanQueue, active, asan, work, verdict, build, waiting>>
        /\ main' # "await"
    BY <1>16 DEF CollectError, CollectGuardrail, Uncollected
  <2>2. fate'[f] = "static_dropped" /\ \A g \in Findings : g # f => fate'[g] = fate[g]
    BY <1>1, <2>1
  <2>3. VerifiedOnEvidence'
    BY <2>1, <2>2 DEF EvidenceInv, VerifiedOnEvidence, AsanEnabled
  <2> QED
    BY <2>1, <2>2, <2>3 DEF EvidenceInv, AsanEnabled
<1>17. CASE CollectAsan
  <2>1. /\ waiting \in Findings /\ asan[waiting] # "none" /\ main' # "await"
        /\ UNCHANGED <<asanQueue, active, asan, work, verdict, build>>
        /\ fate' = [fate EXCEPT ![waiting] =
                      IF asan[waiting] = "kept" THEN "verified" ELSE "asan_dropped"]
    BY <1>17 DEF CollectAsan, EvidenceInv
  <2>2. /\ fate'[waiting] = "verified" => asan[waiting] = "kept"
        /\ \A g \in Findings : g # waiting => fate'[g] = fate[g]
    BY <1>1, <2>1
  <2>3. work[waiting] \in Completed /\ AsanEnabled /\ verdict[waiting] = "tp"
    BY <2>1 DEF EvidenceInv, Completed
  <2>4. VerifiedOnEvidence'
    BY <2>1, <2>2, <2>3 DEF EvidenceInv, VerifiedOnEvidence, AsanEnabled
  <2> QED
    BY <2>1, <2>2, <2>3, <2>4 DEF EvidenceInv, AsanEnabled
<1> QED
  BY <1>3, <1>4, <1>5, <1>6, <1>7, <1>8, <1>9, <1>10, <1>11, <1>12, <1>13, <1>14, <1>15,
     <1>16, <1>17
     DEF Next, Audit, Dispatch, Static, Asan, Collect, Main, CtrlC, Finished

(* A finding reported as verified has a static true positive verdict and,    *)
(* with ASAN, an attempt that confirmed it, whatever the build, the budget   *)
(* and the order of completion.                                              *)
THEOREM VerifiedHasEvidence == Spec => []VerifiedOnEvidence
<1>1. Init => EvidenceInv
  <2> SUFFICES ASSUME Init PROVE EvidenceInv
    OBVIOUS
  <2>1. Len(asanQueue) = 0
    BY EmptySeq DEF Init
  <2> QED
    BY <2>1 DEF Init, EvidenceInv, VerifiedOnEvidence
<1>2. PipelineInv => TypeOK /\ SubmittedOnce
  BY DEF PipelineInv, FreshInv
<1>3. EvidenceInv => VerifiedOnEvidence
  BY DEF EvidenceInv
<1> QED
  BY <1>1, <1>2, <1>3, PipelineInvariant, EvidenceInductive, PTL DEF Spec

-----------------------------------------------------------------------------
(* The coordinator keeps the promise of VerifyContract.                      *)

(* A finished chunk stays finished, so the population s5 reads only grows,   *)
(* and it has stopped growing once the audit is over.                        *)
LEMMA PopulationGrows ==
  ASSUME TypeOK, EndInv, [Next]_vars
  PROVE  /\ Population \subseteq Population'
         /\ main \notin {"audit", "interrupted"} => Population' = Population
<1> USE DEF s4Vars, dispVars, poolVars, asanVars, collectVars, mainVars
<1>1. chunk \in [Chunks -> ChunkStates] /\ Policy \subseteq Findings
      /\ ChunkOf \in [Findings -> Chunks]
  BY StreamAssumption DEF TypeOK
<1>2. CASE UNCHANGED chunk
  BY <1>2 DEF Population
<1>3. ASSUME NEW c \in Chunks, ChunkStart(c) \/ ChunkDone(c) \/ ChunkFail(c)
      PROVE  /\ main \in {"audit", "interrupted"}
             /\ \A d \in Chunks : chunk[d] = "done" => chunk'[d] = "done"
  <2>1. chunk[c] \in {"todo", "running"}
    BY <1>3 DEF ChunkStart, ChunkDone, ChunkFail
  <2>2. \A d \in Chunks : d # c => chunk'[d] = chunk[d]
    BY <1>1, <1>3 DEF ChunkStart, ChunkDone, ChunkFail
  <2> QED
    BY <2>1, <2>2 DEF EndInv
<1>4. CASE AuditInterrupt
  BY <1>1, <1>4 DEF AuditInterrupt, Population
<1>5. Audit \/ AuditInterrupt \/ UNCHANGED chunk
  BY DEF Next, Dispatch, Static, Asan, Main, CtrlC, Finished, vars, Collect,
     DispatchCheck, DispatchEnd, DispatchBatch, DispatchPolicyFails, DispatchNextBatch,
     AcquireSlot, AcquireAborts, Submit, SubmitRefused, StaticStart, StaticFinish,
     ReleaseSlot, AsanOverBudget, AsanStart, AsanBuild, AsanFinish, AuditReturn,
     AuditRaise, JoinEnds, Select, CollectSuccess, CollectError, CollectGuardrail,
     CollectAsan, CollectEnds, Unwind, StaticClosed, AsanClosed, Interrupt, LateInterrupt
<1> QED
  BY <1>1, <1>2, <1>3, <1>4, <1>5 DEF Audit, Population, AuditInterrupt

(* Only the main thread selects, decides and exits.                          *)
LEMMA OthersUncommitted ==
  ASSUME Audit \/ Dispatch \/ Asan \/ (\E f \in Findings : Static(f))
         \/ UNCHANGED vars
  PROVE  UNCHANGED mainVars
<1> USE DEF s4Vars, dispVars, poolVars, asanVars, collectVars, mainVars
<1>1. CASE Audit \/ Asan \/ UNCHANGED vars
  BY <1>1 DEF Audit, ChunkStart, ChunkDone, ChunkFail, Asan, AsanOverBudget, AsanStart,
     AsanBuild, AsanFinish, vars
<1>2. CASE Dispatch
  BY <1>2 DEF Dispatch, DispatchCheck, DispatchEnd, DispatchBatch, DispatchPolicyFails,
     DispatchNextBatch, AcquireSlot, AcquireAborts, Submit, SubmitRefused
<1>3. CASE \E f \in Findings : Static(f)
  BY <1>3 DEF Static, StaticStart, StaticFinish, ReleaseSlot
<1> QED
  BY <1>1, <1>2, <1>3

LEMMA PromiseInductive ==
  TypeOK /\ EndInv /\ PromiseInv /\ [Next]_vars => PromiseInv'
<1> SUFFICES ASSUME TypeOK, EndInv, PromiseInv, [Next]_vars PROVE PromiseInv'
  OBVIOUS
<1> USE DEF s4Vars, dispVars, poolVars, asanVars, collectVars, mainVars
<1>1. fate \in [Findings -> FateStates] /\ auth \subseteq Findings
  BY DEF TypeOK
<1>2. main \notin {"audit", "interrupted"} => Selections' = Selections
  BY PopulationGrows DEF Selections
<1>3. CASE UNCHANGED mainVars
  BY <1>2, <1>3 DEF PromiseInv
<1>4. CASE AuditReturn \/ AuditInterrupt \/ AuditRaise
  BY <1>4 DEF AuditReturn, AuditInterrupt, AuditRaise, PromiseInv
<1>5. CASE JoinEnds
  BY <1>5 DEF JoinEnds, PromiseInv
<1>6. CASE Select
  BY <1>2, <1>6 DEF Select, PromiseInv
<1>7. ASSUME NEW f \in Findings, CollectSuccess(f) PROVE PromiseInv'
  BY <1>1, <1>2, <1>7 DEF CollectSuccess, Uncollected, PromiseInv
<1>8. ASSUME NEW f \in Findings, CollectError(f) PROVE PromiseInv'
  BY <1>1, <1>2, <1>8 DEF CollectError, PromiseInv
<1>9. ASSUME NEW f \in Findings, CollectGuardrail(f) PROVE PromiseInv'
  <2>1. main = "collect" /\ UNCHANGED auth
    BY <1>9 DEF CollectGuardrail
  <2>2. main' = "collect" \/ (main' = "unwind" /\ how' = "gate")
    BY <1>9 DEF CollectGuardrail
  <2> QED
    BY <1>2, <2>1, <2>2 DEF PromiseInv
<1>10. CASE CollectAsan
  BY <1>2, <1>10 DEF CollectAsan, PromiseInv
<1>11. CASE CollectEnds
  BY <1>2, <1>11 DEF CollectEnds, PromiseInv
<1>12. CASE Interrupt \/ LateInterrupt
  BY <1>12 DEF Interrupt, LateInterrupt, PromiseInv
<1>13. CASE Unwind
  BY <1>13 DEF Unwind, PromiseInv
<1>14. CASE StaticClosed
  BY <1>2, <1>14 DEF StaticClosed, PromiseInv
<1>15. CASE AsanClosed
  BY <1>15 DEF AsanClosed, PromiseInv
<1> QED
  BY <1>3, <1>4, <1>5, <1>6, <1>7, <1>8, <1>9, <1>10, <1>11, <1>12, <1>13, <1>14, <1>15,
     OthersUncommitted DEF Next, Main, Collect, CtrlC, Finished

(* The main thread and the promise: what it shows of its progress.           *)
Outcome == IF main \in Exited THEN main ELSE "working"

(* A step of the coordinator is a step of the promise: a chunk that finishes *)
(* publishes, s5 reconciles, a collected verdict decides, the last shutdown  *)
(* returns or raises, and everything else the caller cannot see.             *)
LEMMA StepKeepsContract ==
  TypeOK /\ EndInv /\ PromiseInv /\ [Next]_vars => [Contract!Next]_(Contract!vars)
<1> SUFFICES ASSUME TypeOK, EndInv, PromiseInv, [Next]_vars
             PROVE  [Contract!Next]_(Contract!vars)
  OBVIOUS
<1> USE DEF s4Vars, dispVars, poolVars, asanVars, collectVars, mainVars
<1>1. /\ fate \in [Findings -> FateStates] /\ auth \subseteq Findings
      /\ Population \subseteq Findings /\ Population' \subseteq Findings
  BY StreamAssumption DEF TypeOK, Population
<1>2. Selections = Contract!Selections(Population)
  BY DEF Selections, Contract!Selections, Cardinality, Contract!Cardinality
<1>3. ASSUME UNCHANGED <<auth, fate>>, Outcome' = Outcome,
             main \in {"audit", "interrupted"} => auth = {}
      PROVE  [Contract!Next]_(Contract!vars)
  <2>1. CASE main \in {"audit", "interrupted"}
    <3>1. Contract!Publish
      BY <1>1, <1>3, <2>1, PopulationGrows DEF Contract!Publish, Outcome, Exited
    <3> QED
      BY <3>1 DEF Contract!Next
  <2>2. CASE main \notin {"audit", "interrupted"}
    BY <1>3, <2>2, PopulationGrows DEF Contract!vars, Outcome
  <2> QED
    BY <2>1, <2>2
<1>4. CASE UNCHANGED mainVars
  BY <1>3, <1>4 DEF Outcome, PromiseInv
<1>5. CASE \/ AuditReturn \/ AuditInterrupt \/ AuditRaise \/ JoinEnds \/ CollectEnds
           \/ Interrupt \/ Unwind \/ StaticClosed
  <2>1. UNCHANGED <<auth, fate>> /\ Outcome' = Outcome
    BY <1>5 DEF AuditReturn, AuditInterrupt, AuditRaise, JoinEnds, CollectEnds, Interrupt,
       Unwind, StaticClosed, Outcome, Exited
  <2> QED
    BY <1>3, <2>1 DEF PromiseInv
<1>6. CASE Select
  <2>1. /\ auth = {} /\ auth' \in Contract!Selections(Population) /\ UNCHANGED fate
        /\ Outcome = "working" /\ Outcome' = "working"
        /\ main \notin {"audit", "interrupted"}
    BY <1>2, <1>6 DEF Select, PromiseInv, Outcome, Exited
  <2>2. Contract!Reconcile
    BY <2>1, PopulationGrows DEF Contract!Reconcile, Outcome
  <2> QED
    BY <2>2 DEF Contract!Next
<1>7. ASSUME NEW f \in Findings, f \in auth, fate[f] = "none", NEW d \in Contract!Fates,
             fate' = [fate EXCEPT ![f] = d], UNCHANGED auth,
             main \in {"collect", "await"}, main' \in {"collect", "await", "unwind"}
      PROVE  [Contract!Next]_(Contract!vars)
  <2>1. Contract!Decide(f)
    BY <1>7, PopulationGrows DEF Contract!Decide, Outcome, Exited
  <2> QED
    BY <2>1 DEF Contract!Next
<1>8. ASSUME NEW f \in Findings, CollectSuccess(f)
      PROVE  [Contract!Next]_(Contract!vars)
  <2>1. CASE asan[f] = "none"
    BY <1>7, <1>8, <2>1 DEF CollectSuccess, Uncollected, Contract!Fates
  <2>2. CASE asan[f] # "none"
    BY <1>3, <1>8, <2>2 DEF CollectSuccess, Outcome, Exited
  <2> QED
    BY <2>1, <2>2
<1>9. ASSUME NEW f \in Findings, CollectError(f) \/ CollectGuardrail(f)
      PROVE  [Contract!Next]_(Contract!vars)
  <2>1. main = "collect" /\ f \in auth /\ fate[f] = "none" /\ UNCHANGED auth
        /\ fate' = [fate EXCEPT ![f] = "static_dropped"]
    BY <1>9 DEF CollectError, CollectGuardrail, Uncollected
  <2>2. main' \in {"collect", "unwind"}
    BY <1>9, Zenon DEF CollectError, CollectGuardrail
  <2> QED
    BY <1>7, <2>1, <2>2 DEF Contract!Fates
<1>10. CASE CollectAsan
  BY <1>1, <1>7, <1>10 DEF CollectAsan, PromiseInv, Contract!Fates
<1>11. CASE AsanClosed
  <2>1. /\ UNCHANGED <<auth, fate>> /\ Population' = Population
        /\ Outcome = "working"
        /\ Outcome' = IF how = "none" THEN "returned" ELSE "raised"
    BY <1>11, PopulationGrows DEF AsanClosed, Outcome, Exited
  <2>2. CASE how = "none"
    <3>1. Contract!Return
      BY <1>2, <1>11, <2>1, <2>2 DEF Contract!Return, AsanClosed, PromiseInv, Outcome
    <3> QED
      BY <3>1 DEF Contract!Next
  <2>3. CASE how # "none"
    <3>1. Contract!Raise
      BY <2>1, <2>3 DEF Contract!Raise, Outcome
    <3> QED
      BY <3>1 DEF Contract!Next
  <2> QED
    BY <2>2, <2>3
<1>12. CASE LateInterrupt
  <2>1. Contract!Raise
    BY <1>12, PopulationGrows DEF LateInterrupt, Contract!Raise, Exited
  <2> QED
    BY <2>1 DEF Contract!Next
<1> QED
  BY <1>4, <1>5, <1>6, <1>8, <1>9, <1>10, <1>11, <1>12, OthersUncommitted
     DEF Next, Main, Collect, CtrlC, Finished

(* Whatever the interleaving of audit, dispatcher, verifiers, ASAN worker    *)
(* and Ctrl-C, the streaming coordinator implements VerifyContract: it       *)
(* returns only with one finding of each defect of the complete population   *)
(* selected and each of them on exactly one list, and decides none twice.    *)
THEOREM StreamImplementsContract == Spec => ContractSpec
<1>1. Init => Contract!Init
  BY StreamAssumption DEF Init, Contract!Init, Population, Exited
<1>2. Init => PromiseInv
  BY DEF Init, PromiseInv
<1>3. PipelineInv => TypeOK /\ EndInv
  BY DEF PipelineInv
<1> QED
  BY <1>1, <1>2, <1>3, PipelineInvariant, PromiseInductive, StepKeepsContract, PTL
     DEF Spec, ContractSpec, Contract!Spec
=============================================================================
