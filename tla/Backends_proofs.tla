-------------------------- MODULE Backends_proofs ---------------------------
(***************************************************************************)
(* What holds of the launch of a command, of the calls of the backends and *)
(* of dynamic verification, each for itself and for every value of its     *)
(* constants.                                                              *)
(***************************************************************************)
EXTENDS MCBackends, TLAPS

(* The claude and codex calls of the workers of a stage.                     *)

Labels == {"idle", "enter", "spawn", "register", "loop", "wait", "reap", "classify", "backoff"}

(* An interrupt left a child of codex behind: nothing else is under way.     *)
Abandoned == \E j \in Plan[unit] : result[j] = "abandoned"

(* Where an abort, a pool's and not a streamed call's, has killed children.  *)
Killing == main \in {"killing", "drain"} /\ cause # "none" /\ ~Solo

(* A thread works on a job of the unit; its child is in the table while it   *)
(* is waited for, and there is none before it is started and after it is     *)
(* waited for; once an abort kills, a child that runs is yet to be killed.   *)
ThreadOk(w) ==
  /\ pc[w] # "idle" => job[w] \in Plan[unit] /\ (Solo => w \in Threads)
  /\ w \in live <=> pc[w] \in {"loop", "wait"}
  /\ pc[w] \in {"idle", "enter", "spawn", "classify", "backoff"} => child[w] = "none" \/ Abandoned
  /\ pc[w] = "reap" => job[w].via = "codex"
  /\ pc[w] = "backoff" => transients[w] < MaxTransients
  /\ Killing /\ child[w] = "running" /\ job[w].via = "cli" /\ pc[w] = "wait" =>
       main = "killing" /\ w \in victims

MainOk ==
  /\ flag => cause # "none"
  /\ main = "collect" => cause = "none"
  /\ main \in {"flagged", "killing"} => flag /\ ~Solo
  /\ main = "drain" /\ cause # "none" /\ ~Solo => flag
  /\ queued \subseteq Plan[unit]
  /\ main = "over" => \A w \in Workers : pc[w] = "idle"
  /\ Abandoned => /\ main \in {"drain", "over"} /\ cause = "interrupt" /\ Solo /\ queued = {}
                  /\ \A w \in Workers : pc[w] = "idle"

CliInv ==
  /\ CliTypeOK /\ MainOk /\ NoSpuriousAbort
  /\ \A w \in Workers : ThreadOk(w)

-----------------------------------------------------------------------------
(* Types of the steps.                                                       *)

LEMMA Units ==
  /\ \A u \in DOMAIN Plan : Plan[u] \in SUBSET Jobs
  /\ DOMAIN Plan = 1 .. Len(Plan) /\ Len(Plan) \in Nat /\ 1 \in DOMAIN Plan
  /\ \A j \in Jobs : j.via \in {"cli", "codex"} /\ j.stream \in BOOLEAN
  /\ MaxTransients \in Nat /\ MaxTimeouts \in Nat
  BY CallsAssumption

ThreadTyped ==
  /\ pc' \in [Workers -> Labels]
  /\ job' \in [Workers -> Jobs \cup {NoJob}]
  /\ reply' \in [Workers -> ReplyType \cup {NoReply}]
  /\ transients' \in [Workers -> 0 .. MaxTransients]
  /\ timeouts' \in [Workers -> 0 .. MaxTimeouts]
  /\ result' \in [Plan[unit] -> Outcomes]

LEMMA FinishTyped ==
  ASSUME CliTypeOK, NEW w \in Workers, NEW o \in Outcomes, Finish(w, o)
  PROVE  ThreadTyped
<1>1. 0 \in 0 .. MaxTransients /\ 0 \in 0 .. MaxTimeouts
  BY Units
<1>2. result' \in [Plan[unit] -> Outcomes]
  BY DEF Finish, CliTypeOK
<1> QED
  BY <1>1, <1>2 DEF Finish, CliTypeOK, ThreadTyped, Labels

LEMMA GotoTyped ==
  ASSUME CliTypeOK, NEW w \in Workers, NEW label \in Labels, Goto(w, label)
  PROVE  ThreadTyped
  BY DEF Goto, CliTypeOK, ThreadTyped, Labels

(* What a thread's step leaves alone of the others, and of the main thread.  *)
Local(w) ==
  /\ UNCHANGED <<unit, main, cause, victims, flag>>
  /\ live' \subseteq Workers
  /\ child' \in [Workers -> {"none", "running", "exited", "killed"}]
  /\ ThreadTyped
  /\ \A v \in Workers \ {w} :
       /\ pc'[v] = pc[v] /\ job'[v] = job[v] /\ child'[v] = child[v]
       /\ transients'[v] = transients[v] /\ (v \in live' <=> v \in live)
  /\ \A j \in Plan[unit] :
       result'[j] = result[j] \/ (result'[j] \notin {"abandoned", "cancelled"}
                                  /\ (result'[j] = "aborted" => flag))

LEMMA LocalKeeps ==
  ASSUME CliInv, NEW w \in Workers, Local(w), ~Abandoned, queued' \subseteq queued,
         main = "over" => pc'[w] = "idle", ThreadOk(w)'
  PROVE  CliInv'
<1>1. CliTypeOK'
  BY DEF CliInv, CliTypeOK, Local, ThreadTyped, Labels
<1>2. /\ UNCHANGED <<unit, main, cause, victims, flag>>
      /\ (Solo' <=> Solo) /\ Threads' = Threads /\ (Killing' <=> Killing)
  BY DEF Local, Solo, Threads, Killing
<1>3. ~Abandoned'
  BY <1>2 DEF Local, Abandoned
<1>4. NoSpuriousAbort'
  BY <1>2 DEF Local, CliInv, NoSpuriousAbort, MainOk
<1>5. ASSUME NEW v \in Workers \ {w} PROVE ThreadOk(v)'
  <2>1. /\ pc'[v] = pc[v] /\ job'[v] = job[v] /\ child'[v] = child[v]
        /\ transients'[v] = transients[v] /\ (v \in live' <=> v \in live)
    BY DEF Local
  <2>2. ThreadOk(v)
    BY DEF CliInv
  <2> HIDE DEF Abandoned, Killing, Solo, Threads
  <2> QED
    BY <1>2, <1>3, <2>1, <2>2 DEF ThreadOk
<1>6. MainOk'
  <2>1. main' = "over" => \A v \in Workers : pc'[v] = "idle"
    BY <1>2 DEF CliInv, MainOk, Local
  <2> HIDE DEF Abandoned, Solo
  <2> QED
    BY <1>2, <1>3, <2>1 DEF CliInv, MainOk
<1> QED
  BY <1>1, <1>4, <1>5, <1>6 DEF CliInv

LEMMA Busy ==
  ASSUME CliInv, NEW w \in Workers, pc[w] # "idle"
  PROVE  /\ ~Abandoned /\ main # "over" /\ ThreadOk(w)
         /\ job[w] \in Plan[unit] /\ job[w] \in Jobs /\ job[w].via \in {"cli", "codex"}
<1>1. ~Abandoned /\ main # "over" /\ ThreadOk(w)
  BY DEF CliInv, MainOk
<1>2. job[w] \in Plan[unit]
  BY <1>1 DEF ThreadOk
<1>3. job[w] \in Jobs
  BY <1>2, Units DEF CliInv, CliTypeOK
<1> QED
  BY <1>1, <1>2, <1>3, Units

(* What a step does to the child of a thread and to its place in the table.  *)
ChildOf(w) ==
  /\ UNCHANGED <<mainVars, flag>>
  /\ live' \in {live, live \cup {w}, live \ {w}}
  /\ child' \in [Workers -> {"none", "running", "exited", "killed"}]
  /\ \A v \in Workers \ {w} : child'[v] = child[v]

LEMMA FinishKeeps ==
  ASSUME CliInv, NEW w \in Workers, pc[w] # "idle", ChildOf(w), child'[w] = "none", w \notin live',
         NEW o \in {"ok", "empty", "guardrail", "error", "aborted", "timeout"}, Finish(w, o),
         o = "aborted" => flag
  PROVE  CliInv'
<1>1. ThreadTyped
  BY FinishTyped DEF CliInv, Outcomes
<1>2. /\ pc'[w] = "idle"
      /\ \A v \in Workers \ {w} : /\ pc'[v] = pc[v] /\ job'[v] = job[v]
                                  /\ transients'[v] = transients[v]
  BY DEF Finish, CliInv, CliTypeOK
<1>3. \A j \in Plan[unit] :
        result'[j] = result[j] \/ (result'[j] \notin {"abandoned", "cancelled"}
                                   /\ (result'[j] = "aborted" => flag))
  BY DEF Finish, CliInv, CliTypeOK
<1>4. Local(w) /\ queued' \subseteq queued
  BY <1>1, <1>2, <1>3 DEF Local, ChildOf, mainVars, CliInv, CliTypeOK
<1>5. ThreadOk(w)'
  BY <1>2 DEF ThreadOk
<1> QED
  BY <1>2, <1>4, <1>5, Busy, LocalKeeps

LEMMA GotoKeeps ==
  ASSUME CliInv, NEW w \in Workers, pc[w] # "idle", ChildOf(w),
         NEW label \in Labels \ {"idle", "enter"}, Goto(w, label),
         w \in live' <=> label \in {"loop", "wait"},
         label \in {"spawn", "classify", "backoff"} => child'[w] = "none",
         label = "reap" => job[w].via = "codex",
         label = "backoff" => transients[w] < MaxTransients,
         Killing /\ child'[w] = "running" /\ job[w].via = "cli" => label # "wait"
  PROVE  CliInv'
<1>1. ThreadTyped
  BY GotoTyped DEF CliInv
<1>2. /\ pc'[w] = label /\ UNCHANGED <<job, transients, result>>
      /\ \A v \in Workers \ {w} : pc'[v] = pc[v]
  BY DEF Goto, CliInv, CliTypeOK
<1>3. Local(w) /\ queued' \subseteq queued
  BY <1>1, <1>2 DEF Local, ChildOf, mainVars, CliInv, CliTypeOK
<1>4. (Killing' <=> Killing) /\ (Solo' <=> Solo) /\ Threads' = Threads /\ Plan[unit]' = Plan[unit]
  BY DEF ChildOf, mainVars, Killing, Solo, Threads
<1>5. ThreadOk(w)'
  <2>1. ThreadOk(w) /\ job'[w] = job[w] /\ transients'[w] = transients[w]
    BY <1>2, Busy
  <2> HIDE DEF Killing, Solo, Threads
  <2> QED
    BY <1>2, <1>4, <2>1, Busy DEF ThreadOk, Labels
<1> QED
  BY <1>2, <1>3, <1>5, Busy, LocalKeeps

-----------------------------------------------------------------------------
(* The steps of a thread.                                                    *)

LEMMA KillingFlag ==
  ASSUME CliInv, Killing
  PROVE  flag
  BY DEF CliInv, MainOk, Killing

LEMMA StreamSolo ==
  ASSUME CliInv, NEW w \in Workers, pc[w] # "idle", job[w].stream
  PROVE  Solo
  BY Busy DEF Solo

LEMMA CallKeeps ==
  ASSUME CliInv, NEW w \in Workers, Call(w)
  PROVE  CliInv'
<1>0. CliTypeOK /\ pc[w] # "idle" /\ ThreadOk(w) /\ ~Abandoned
  <2>1. pc[w] # "idle"
    BY DEF Call, Enter, Spawn, Register, Heartbeat, Reap, LeavePopen, Classify, Backoff
  <2> QED
    BY <2>1, Busy DEF CliInv
<1>1. child \in [Workers -> {"none", "running", "exited", "killed"}]
  BY <1>0 DEF CliTypeOK
<1>2. CASE Enter(w)
  <2>1. ChildOf(w) /\ child'[w] = "none" /\ w \notin live'
    BY <1>0, <1>1, <1>2 DEF Enter, ChildOf, ThreadOk
  <2>2. CASE Aborted(w)
    BY <1>0, <1>2, <2>1, <2>2, FinishKeeps DEF Enter, Aborted
  <2>3. CASE ~Aborted(w)
    BY <1>0, <1>2, <2>1, <2>3, GotoKeeps DEF Enter, Labels
  <2> QED
    BY <2>2, <2>3
<1>3. CASE Spawn(w)
  <2>1. w \notin live' /\ UNCHANGED <<mainVars, flag, live>> /\ child[w] = "none"
    BY <1>0, <1>3 DEF Spawn, ThreadOk
  <2>2. CASE Goto(w, "register") /\ child' = [child EXCEPT ![w] = "running"]
    <3>1. ChildOf(w)
      BY <1>1, <2>1, <2>2 DEF ChildOf
    <3> QED
      BY <1>0, <2>1, <2>2, <3>1, GotoKeeps DEF Labels
  <2>3. CASE Finish(w, "error") /\ UNCHANGED child
    <3>1. ChildOf(w)
      BY <1>1, <2>1, <2>3 DEF ChildOf
    <3> QED
      BY <1>0, <2>1, <2>3, <3>1, FinishKeeps
  <2> QED
    BY <1>3, <2>2, <2>3 DEF Spawn
<1>4. CASE Register(w)
  <2>1. ChildOf(w) /\ w \in live'
    BY <1>1, <1>4 DEF Register, ChildOf
  <2>2. ASSUME job[w].stream, Killing PROVE FALSE
    BY <1>0, <2>2, StreamSolo DEF Killing
  <2>3. CASE job[w].stream
    <3>1. Goto(w, "wait")
      BY <1>4, <2>3 DEF Register
    <3> QED
      BY <1>0, <2>1, <2>2, <2>3, <3>1, GotoKeeps DEF Labels
  <2>4. CASE ~job[w].stream
    <3>1. Goto(w, "loop")
      BY <1>4, <2>4 DEF Register
    <3> QED
      BY <1>0, <2>1, <3>1, GotoKeeps DEF Labels
  <2> QED
    BY <2>3, <2>4
<1>5. CASE Heartbeat(w)
  <2>1. CASE Aborted(w)
    <3>1. /\ Finish(w, "aborted") /\ flag
          /\ child' = [child EXCEPT ![w] = "none"] /\ live' = live \ {w}
          /\ UNCHANGED <<mainVars, flag>>
      BY <1>5, <2>1 DEF Heartbeat, Aborted
    <3>2. ChildOf(w) /\ child'[w] = "none" /\ w \notin live'
      BY <1>1, <3>1 DEF ChildOf
    <3> QED
      BY <1>0, <3>1, <3>2, FinishKeeps
  <2>2. CASE ~Aborted(w)
    <3>1. Goto(w, "wait") /\ UNCHANGED <<child, live, mainVars, flag>> /\ pc[w] = "loop"
      BY <1>5, <2>2 DEF Heartbeat
    <3>2. ChildOf(w) /\ w \in live'
      BY <1>0, <1>1, <3>1 DEF ChildOf, ThreadOk
    <3>3. Killing /\ job[w].via = "cli" => FALSE
      BY <2>2, KillingFlag DEF Aborted
    <3> QED
      BY <1>0, <3>1, <3>2, <3>3, GotoKeeps DEF Labels
  <2> QED
    BY <2>1, <2>2
<1>6. CASE Reap(w)
  <2>1. /\ pc[w] = "wait" /\ pc' = [pc EXCEPT ![w] = "classify"]
        /\ child' = [child EXCEPT ![w] = "none"] /\ live' = live \ {w}
        /\ UNCHANGED <<mainVars, flag, job, transients, timeouts, result>>
    BY <1>6 DEF Reap
  <2>2. reply' \in [Workers -> ReplyType \cup {NoReply}]
    <3>1. Partial \subseteq ReplyType
      BY CallsAssumption DEF Partial
    <3> QED
      BY <1>0, <1>6, <3>1 DEF Reap, CliTypeOK
  <2>3. ThreadTyped
    BY <1>0, <2>1, <2>2 DEF CliTypeOK, ThreadTyped, Labels
  <2>4. Local(w) /\ queued' \subseteq queued
    BY <1>0, <1>1, <2>1, <2>3 DEF Local, mainVars, CliTypeOK
  <2>5. ThreadOk(w)'
    <3>1. pc'[w] = "classify" /\ child'[w] = "none" /\ w \notin live' /\ job'[w] = job[w]
      BY <1>0, <2>1 DEF CliTypeOK
    <3>2. (Solo' <=> Solo) /\ Threads' = Threads /\ Plan[unit]' = Plan[unit]
      BY <2>1 DEF mainVars, Solo, Threads
    <3> HIDE DEF Solo, Threads
    <3> QED
      BY <1>0, <3>1, <3>2 DEF ThreadOk
  <2> QED
    BY <1>0, <2>4, <2>5, Busy, LocalKeeps
<1>7. CASE LeavePopen(w)
  <2>1. /\ pc[w] = "reap" /\ child' = [child EXCEPT ![w] = "none"]
        /\ Finish(w, "timeout") /\ UNCHANGED <<mainVars, flag, live>>
    BY <1>7 DEF LeavePopen
  <2>2. ChildOf(w) /\ child'[w] = "none" /\ w \notin live'
    BY <1>0, <1>1, <2>1 DEF ChildOf, ThreadOk
  <2> QED
    BY <1>0, <2>1, <2>2, FinishKeeps
<1>8. CASE Classify(w)
  <2>1. pc[w] = "classify" /\ UNCHANGED <<mainVars, flag, live, child>>
    BY <1>8 DEF Classify
  <2>2. ChildOf(w) /\ child'[w] = "none" /\ w \notin live'
    BY <1>0, <1>1, <2>1 DEF ChildOf, ThreadOk
  <2>3. CASE Goto(w, "backoff") /\ transients[w] < MaxTransients
    BY <1>0, <2>2, <2>3, GotoKeeps DEF Labels
  <2>4. CASE Finish(w, Verdict(job[w], reply[w]))
    <3>1. Verdict(job[w], reply[w]) \in {"error", "guardrail", "empty", "ok"}
      BY DEF Verdict
    <3> HIDE DEF Verdict
    <3> QED
      BY <1>0, <2>2, <2>4, <3>1, FinishKeeps
  <2> QED
    BY <1>8, <2>3, <2>4 DEF Classify
<1>9. CASE Backoff(w)
  <2>1. pc[w] = "backoff" /\ UNCHANGED <<mainVars, flag, live, child>>
    BY <1>9 DEF Backoff
  <2>2. child[w] = "none" /\ w \notin live
    BY <1>0, <2>1 DEF ThreadOk
  <2>3. CASE Aborted(w) /\ Finish(w, "aborted")
    <3>1. ChildOf(w)
      BY <1>1, <2>1 DEF ChildOf
    <3> QED
      BY <1>0, <2>1, <2>2, <2>3, <3>1, FinishKeeps DEF Aborted
  <2>4. CASE /\ pc' = [pc EXCEPT ![w] = "spawn"]
             /\ transients' = [transients EXCEPT ![w] = @ + 1]
             /\ reply' = [reply EXCEPT ![w] = NoReply]
             /\ UNCHANGED <<job, timeouts, result>>
    <3>1. transients[w] + 1 \in 0 .. MaxTransients
      BY <1>0, <2>1, Units DEF ThreadOk, CliTypeOK
    <3>2. ThreadTyped
      BY <1>0, <2>4, <3>1 DEF CliTypeOK, ThreadTyped, Labels
    <3>3. Local(w) /\ queued' \subseteq queued
      BY <1>0, <1>1, <2>1, <2>4, <3>2 DEF Local, mainVars, CliTypeOK
    <3>4. ThreadOk(w)'
      <4>1. pc'[w] = "spawn" /\ child'[w] = "none" /\ w \notin live' /\ job'[w] = job[w]
        BY <1>0, <2>1, <2>2, <2>4 DEF CliTypeOK
      <4>2. (Solo' <=> Solo) /\ Threads' = Threads /\ Plan[unit]' = Plan[unit]
        BY <2>1 DEF mainVars, Solo, Threads
      <4> HIDE DEF Solo, Threads
      <4> QED
        BY <1>0, <4>1, <4>2 DEF ThreadOk
    <3> QED
      BY <1>0, <3>3, <3>4, Busy, LocalKeeps
  <2> QED
    BY <1>9, <2>3, <2>4 DEF Backoff
<1> QED
  BY <1>2, <1>3, <1>4, <1>5, <1>6, <1>7, <1>8, <1>9 DEF Call

LEMMA WaitKeeps ==
  ASSUME CliInv, NEW w \in Workers, StillRunning(w) \/ TimesOut(w)
  PROVE  CliInv'
<1>0. /\ CliTypeOK /\ pc[w] = "wait" /\ ThreadOk(w) /\ ~Abandoned
      /\ UNCHANGED <<mainVars, flag>> /\ job[w].via \in {"cli", "codex"}
  <2>1. pc[w] = "wait" /\ UNCHANGED <<mainVars, flag>>
    BY DEF StillRunning, TimesOut
  <2> QED
    BY <2>1, Busy DEF CliInv
<1>1. child \in [Workers -> {"none", "running", "exited", "killed"}]
  BY <1>0 DEF CliTypeOK
<1>2. CASE StillRunning(w)
  <2>1. Goto(w, "loop") /\ UNCHANGED <<child, live>>
    BY <1>2 DEF StillRunning
  <2>2. ChildOf(w) /\ w \in live'
    BY <1>0, <1>1, <2>1 DEF ChildOf, ThreadOk
  <2> QED
    BY <1>0, <2>1, <2>2, GotoKeeps DEF Labels
<1>3. CASE TimesOut(w)
  <2>1. live' = live \ {w}
    BY <1>3 DEF TimesOut
  <2>2. ASSUME child' = [child EXCEPT ![w] = "none"], Finish(w, "timeout") PROVE CliInv'
    <3>1. ChildOf(w) /\ child'[w] = "none" /\ w \notin live'
      BY <1>0, <1>1, <2>1, <2>2 DEF ChildOf
    <3> QED
      BY <1>0, <2>2, <3>1, FinishKeeps
  <2>3. ASSUME child' = [child EXCEPT ![w] = "none"], pc' = [pc EXCEPT ![w] = "spawn"],
               timeouts' = [timeouts EXCEPT ![w] = @ + 1], ~(timeouts[w] >= MaxTimeouts),
               UNCHANGED <<job, reply, transients, result>>
        PROVE  CliInv'
    <3>1. timeouts[w] + 1 \in 0 .. MaxTimeouts
      BY <1>0, <2>3, Units DEF CliTypeOK
    <3>2. ThreadTyped
      BY <1>0, <2>3, <3>1 DEF CliTypeOK, ThreadTyped, Labels
    <3>3. Local(w) /\ queued' \subseteq queued
      BY <1>0, <1>1, <2>1, <2>3, <3>2 DEF Local, mainVars, CliTypeOK
    <3>4. ThreadOk(w)'
      <4>1. pc'[w] = "spawn" /\ child'[w] = "none" /\ w \notin live' /\ job'[w] = job[w]
        BY <1>0, <2>1, <2>3 DEF CliTypeOK
      <4>2. (Solo' <=> Solo) /\ Threads' = Threads /\ Plan[unit]' = Plan[unit]
        BY <1>0 DEF mainVars, Solo, Threads
      <4> HIDE DEF Solo, Threads
      <4> QED
        BY <1>0, <4>1, <4>2 DEF ThreadOk
    <3> QED
      BY <1>0, <3>3, <3>4, Busy, LocalKeeps
  <2>4. ASSUME job[w].via = "codex", Goto(w, "reap"), UNCHANGED child PROVE CliInv'
    <3>1. ChildOf(w) /\ w \notin live'
      BY <1>0, <1>1, <2>1, <2>4 DEF ChildOf
    <3> QED
      BY <1>0, <2>4, <3>1, GotoKeeps DEF Labels
  <2> QED
    BY <1>3, <2>2, <2>3, <2>4 DEF TimesOut
<1> QED
  BY <1>2, <1>3

LEMMA TakeKeeps ==
  ASSUME CliInv, NEW w \in Workers, NEW j \in Jobs, Take(w, j)
  PROVE  CliInv'
<1>1. /\ pc[w] = "idle" /\ j \in queued /\ queued' = queued \ {j} /\ w \in Threads /\ main # "over"
      /\ pc' = [pc EXCEPT ![w] = "enter"] /\ job' = [job EXCEPT ![w] = j]
      /\ UNCHANGED <<unit, main, cause, victims, flag, live, child, reply, transients,
                     timeouts, result>>
  BY DEF Take
<1>2. CliTypeOK /\ ThreadOk(w) /\ ~Abandoned /\ j \in Plan[unit]
  BY <1>1 DEF CliInv, MainOk
<1>3. ThreadTyped
  BY <1>1, <1>2 DEF CliTypeOK, ThreadTyped, Labels
<1>4. Local(w)
  BY <1>1, <1>2, <1>3 DEF Local, CliTypeOK
<1>5. ThreadOk(w)'
  <2>1. pc'[w] = "enter" /\ job'[w] = j /\ child'[w] = "none" /\ w \notin live'
    BY <1>1, <1>2 DEF CliTypeOK, ThreadOk
  <2>2. Threads' = Threads /\ Plan[unit]' = Plan[unit]
    BY <1>1 DEF Solo, Threads
  <2> QED
    BY <1>1, <1>2, <2>1, <2>2 DEF ThreadOk
<1> QED
  BY <1>1, <1>2, <1>4, <1>5, LocalKeeps

LEMMA ExitKeeps ==
  ASSUME CliInv, NEW w \in Workers, NEW r \in Replies, ChildExits(w, r)
  PROVE  CliInv'
<1>1. /\ child[w] = "running" /\ pc[w] # "idle"
      /\ child' = [child EXCEPT ![w] = "exited"] /\ reply' = [reply EXCEPT ![w] = r]
      /\ UNCHANGED <<mainVars, flag, live, pc, job, transients, timeouts, result>>
  BY DEF ChildExits
<1>2. CliTypeOK /\ ThreadOk(w) /\ ~Abandoned
  BY <1>1, Busy DEF CliInv
<1>3. reply' \in [Workers -> ReplyType \cup {NoReply}]
  BY <1>1, <1>2, CallsAssumption DEF CliTypeOK
<1>4. ThreadTyped
  BY <1>1, <1>2, <1>3 DEF CliTypeOK, ThreadTyped, Labels
<1>5. Local(w) /\ queued' \subseteq queued
  BY <1>1, <1>2, <1>4 DEF Local, mainVars, CliTypeOK
<1>6. ThreadOk(w)'
  <2>1. child'[w] = "exited"
    BY <1>1, <1>2 DEF CliTypeOK
  <2>2. (Solo' <=> Solo) /\ Threads' = Threads /\ Plan[unit]' = Plan[unit]
    BY <1>1 DEF mainVars, Solo, Threads
  <2> HIDE DEF Solo, Threads
  <2> QED
    BY <1>1, <1>2, <2>1, <2>2 DEF ThreadOk
<1> QED
  BY <1>1, <1>5, <1>6, Busy, LocalKeeps

(* A Ctrl-C in a streamed call: the thread was the only one.                 *)
LEMMA InterruptKeeps ==
  ASSUME CliInv, NEW w \in Workers, InterruptInCall(w)
  PROVE  CliInv'
<1>1. /\ main = "collect" /\ Solo /\ w \in Threads /\ pc[w] = "wait"
      /\ flag' = (job[w].via = "cli" \/ flag)
      /\ cause' = "interrupt" /\ main' = "drain" /\ queued' = {} /\ live' = live \ {w}
      /\ UNCHANGED <<unit, victims>>
  BY DEF InterruptInCall
<1>2. PICK o \in {"aborted", "abandoned"} :
        Finish(w, o) /\ (child' = [child EXCEPT ![w] = "none"] \/ (o = "abandoned" /\ UNCHANGED child))
  BY DEF InterruptInCall
<1>3. CliTypeOK /\ MainOk /\ job[w] \in Plan[unit] /\ ~Abandoned
  BY <1>1, Busy DEF CliInv
<1>4. ThreadTyped
  BY <1>2, <1>3, FinishTyped DEF Outcomes
<1>5. /\ pc' = [pc EXCEPT ![w] = "idle"] /\ result' = [result EXCEPT ![job[w]] = o]
      /\ result' = [j \in Plan[unit] |-> IF j = job[w] THEN o ELSE result[j]]
  BY <1>2, <1>3 DEF Finish, CliTypeOK
<1>6. \A v \in Workers : pc'[v] = "idle"
  <2>1. ASSUME NEW v \in Workers \ {w} PROVE pc[v] = "idle"
    <3>1. Threads = {w}
      BY <1>1 DEF Threads
    <3> QED
      BY <1>1, <3>1 DEF CliInv, ThreadOk
  <2> QED
    BY <1>3, <1>5, <2>1 DEF CliTypeOK
<1>7. flag' \in BOOLEAN
  BY <1>1, <1>3 DEF CliTypeOK
<1>8. CliTypeOK'
  <2>1. child' \in [Workers -> {"none", "running", "exited", "killed"}]
    BY <1>2, <1>3 DEF CliTypeOK
  <2> QED
    BY <1>1, <1>3, <1>4, <1>7, <2>1 DEF CliTypeOK, ThreadTyped, Labels
<1>9. (Solo' <=> Solo) /\ Plan[unit]' = Plan[unit]
  BY <1>1 DEF Solo
<1>10. ASSUME NEW v \in Workers PROVE ThreadOk(v)'
  <2>1. pc'[v] = "idle" /\ v \notin live'
    <3>1. CASE v = w
      BY <1>1, <1>6, <3>1
    <3>2. CASE v # w
      BY <1>1, <1>6, <1>5, <1>3, <3>2 DEF CliInv, ThreadOk, CliTypeOK
    <3> QED
      BY <3>1, <3>2
  <2>2. child'[v] = "none" \/ Abandoned'
    <3>1. CASE o = "abandoned"
      <4>1. result'[job[w]] = "abandoned" /\ job[w] \in Plan[unit]'
        BY <1>3, <1>5, <1>9, <3>1
      <4> QED
        BY <4>1 DEF Abandoned
    <3>2. CASE o # "abandoned"
      <4>1. child' = [child EXCEPT ![w] = "none"]
        BY <1>2, <3>2
      <4>2. v # w => pc[v] = "idle" /\ child[v] = "none"
        BY <1>3, <1>5, <1>6 DEF CliInv, ThreadOk, CliTypeOK
      <4> QED
        BY <1>3, <4>1, <4>2 DEF CliTypeOK
    <3> QED
      BY <3>1, <3>2
  <2> HIDE DEF Abandoned
  <2> QED
    BY <2>1, <2>2 DEF ThreadOk
<1>11. MainOk'
  <2> HIDE DEF Abandoned, Solo
  <2> QED
    BY <1>1, <1>6, <1>9 DEF MainOk
<1>12. NoSpuriousAbort'
  BY <1>1 DEF NoSpuriousAbort
<1> QED
  BY <1>8, <1>10, <1>11, <1>12 DEF CliInv

-----------------------------------------------------------------------------
(* The steps of the main thread.                                             *)

LEMMA MainTyped ==
  ASSUME CliTypeOK, UNCHANGED <<unit, live, pc, job, reply, transients, timeouts>>,
         main' \in {"collect", "flagged", "killing", "drain", "over"},
         cause' \in {"none", "gate", "interrupt"}, queued' \subseteq Jobs, victims' \subseteq Workers,
         flag' \in BOOLEAN, child' \in [Workers -> {"none", "running", "exited", "killed"}],
         result' \in [Plan[unit] -> Outcomes]
  PROVE  CliTypeOK' /\ (Solo' <=> Solo) /\ Threads' = Threads /\ Plan[unit]' = Plan[unit]
  BY DEF CliTypeOK, Solo, Threads

LEMMA AbortKeeps ==
  ASSUME CliInv, NEW c \in {"gate", "interrupt"}, Abort(c)
  PROVE  CliInv'
<1>1. /\ main = "collect" /\ ~Solo /\ cause' = c /\ flag' = TRUE /\ main' = "flagged"
      /\ UNCHANGED <<unit, queued, victims, live, pc, job, child, reply, transients, timeouts, result>>
  BY DEF Abort, threadVars
<1>2. CliTypeOK' /\ (Solo' <=> Solo) /\ Threads' = Threads /\ Plan[unit]' = Plan[unit]
  BY <1>1, MainTyped DEF CliInv, CliTypeOK
<1>3. ~Abandoned /\ (Abandoned' <=> Abandoned)
  BY <1>1, <1>2 DEF CliInv, MainOk, Abandoned
<1> HIDE DEF Abandoned, Solo, Threads
<1>4. MainOk'
  BY <1>1, <1>2, <1>3 DEF CliInv, MainOk
<1>5. \A w \in Workers : ThreadOk(w)'
  BY <1>1, <1>2, <1>3 DEF CliInv, ThreadOk, Killing
<1>6. NoSpuriousAbort'
  BY <1>1 DEF NoSpuriousAbort
<1> QED
  BY <1>2, <1>4, <1>5, <1>6 DEF CliInv

LEMMA SnapshotKeeps ==
  ASSUME CliInv, Snapshot
  PROVE  CliInv'
<1>1. /\ main = "flagged" /\ victims' = {w \in live : job[w].via = "cli"} /\ main' = "killing"
      /\ UNCHANGED <<unit, cause, queued, flag, live, pc, job, child, reply, transients, timeouts, result>>
  BY DEF Snapshot, threadVars
<1>2. CliTypeOK' /\ (Solo' <=> Solo) /\ Threads' = Threads /\ Plan[unit]' = Plan[unit]
  BY <1>1, MainTyped DEF CliInv, CliTypeOK
<1>3. ~Abandoned /\ (Abandoned' <=> Abandoned)
  BY <1>1, <1>2 DEF CliInv, MainOk, Abandoned
<1> HIDE DEF Abandoned, Solo, Threads
<1>4. MainOk'
  BY <1>1, <1>2, <1>3 DEF CliInv, MainOk
<1>5. \A w \in Workers : ThreadOk(w)'
  BY <1>1, <1>2, <1>3 DEF CliInv, ThreadOk
<1>6. NoSpuriousAbort'
  BY <1>1 DEF CliInv, NoSpuriousAbort
<1> QED
  BY <1>2, <1>4, <1>5, <1>6 DEF CliInv

LEMMA KillKeeps ==
  ASSUME CliInv, NEW k \in Workers, Kill(k)
  PROVE  CliInv'
<1>1. /\ main = "killing" /\ k \in victims /\ victims' = victims \ {k}
      /\ child' = [child EXCEPT ![k] = IF @ = "running" THEN "killed" ELSE @]
      /\ UNCHANGED <<unit, main, cause, queued, flag, live, pc, job, reply, transients, timeouts, result>>
  BY DEF Kill
<1>2. CliTypeOK' /\ (Solo' <=> Solo) /\ Threads' = Threads /\ Plan[unit]' = Plan[unit]
  <2>1. child' \in [Workers -> {"none", "running", "exited", "killed"}]
    BY <1>1 DEF CliInv, CliTypeOK
  <2> QED
    BY <1>1, <2>1, MainTyped DEF CliInv, CliTypeOK
<1>3. ~Abandoned /\ (Abandoned' <=> Abandoned) /\ (Killing' <=> Killing)
  BY <1>1, <1>2 DEF CliInv, MainOk, Abandoned, Killing
<1>4. ASSUME NEW w \in Workers PROVE ThreadOk(w)'
  <2>1. /\ child'[w] = "running" => child[w] = "running" /\ w # k
        /\ child[w] = "none" => child'[w] = "none"
    BY <1>1 DEF CliInv, CliTypeOK
  <2> HIDE DEF Abandoned, Solo, Threads, Killing
  <2> QED
    BY <1>1, <1>2, <1>3, <2>1 DEF CliInv, ThreadOk
<1> HIDE DEF Abandoned, Solo, Threads
<1>5. MainOk'
  BY <1>1, <1>2, <1>3 DEF CliInv, MainOk
<1>6. NoSpuriousAbort'
  BY <1>1 DEF CliInv, NoSpuriousAbort
<1> QED
  BY <1>2, <1>4, <1>5, <1>6 DEF CliInv

LEMMA CancelKeeps ==
  ASSUME CliInv, Cancel
  PROVE  CliInv'
<1>1. /\ main = "killing" /\ victims = {} /\ queued' = {} /\ main' = "drain"
      /\ result' = [j \in Plan[unit] |-> IF j \in queued THEN "cancelled" ELSE result[j]]
      /\ UNCHANGED <<unit, cause, victims, flag, live, pc, job, child, reply, transients, timeouts>>
  BY DEF Cancel, threadVars
<1>2. CliTypeOK' /\ (Solo' <=> Solo) /\ Threads' = Threads /\ Plan[unit]' = Plan[unit]
  <2>1. result' \in [Plan[unit] -> Outcomes]
    BY <1>1 DEF CliInv, CliTypeOK, Outcomes
  <2> QED
    BY <1>1, <2>1, MainTyped DEF CliInv, CliTypeOK
<1>3. ~Abandoned /\ ~Abandoned'
  BY <1>1, <1>2 DEF CliInv, MainOk, Abandoned
<1>4. cause # "none" /\ flag /\ ~Solo
  BY <1>1 DEF CliInv, MainOk
<1>5. ASSUME NEW w \in Workers PROVE ThreadOk(w)'
  <2>1. child[w] = "running" /\ job[w].via = "cli" => pc[w] # "wait"
    BY <1>1, <1>4 DEF CliInv, ThreadOk, Killing
  <2> HIDE DEF Abandoned, Solo, Threads
  <2> QED
    BY <1>1, <1>2, <1>3, <2>1 DEF CliInv, ThreadOk
<1> HIDE DEF Abandoned, Solo, Threads
<1>6. MainOk'
  BY <1>1, <1>2, <1>3, <1>4 DEF CliInv, MainOk
<1>7. NoSpuriousAbort'
  BY <1>1, <1>4 DEF NoSpuriousAbort
<1> QED
  BY <1>2, <1>5, <1>6, <1>7 DEF CliInv

LEMMA LeaveKeeps ==
  ASSUME CliInv, AllCollected \/ Drained
  PROVE  CliInv'
<1>1. /\ \/ main = "collect" /\ main' = "drain"
         \/ main = "drain" /\ main' = "over" /\ \A w \in Workers : pc[w] = "idle"
      /\ UNCHANGED <<unit, cause, queued, victims, flag, live, pc, job, child, reply, transients,
                     timeouts, result>>
  BY DEF AllCollected, Drained, threadVars
<1>2. CliTypeOK' /\ (Solo' <=> Solo) /\ Threads' = Threads /\ Plan[unit]' = Plan[unit]
  BY <1>1, MainTyped DEF CliInv, CliTypeOK
<1>3. (Abandoned' <=> Abandoned) /\ ~Killing'
  BY <1>1, <1>2 DEF CliInv, MainOk, Abandoned, Killing
<1> HIDE DEF Abandoned, Solo, Threads, Killing
<1>4. MainOk'
  BY <1>1, <1>2, <1>3 DEF CliInv, MainOk
<1>5. \A w \in Workers : ThreadOk(w)'
  BY <1>1, <1>2, <1>3 DEF CliInv, ThreadOk
<1>6. NoSpuriousAbort'
  BY <1>1 DEF CliInv, NoSpuriousAbort
<1> QED
  BY <1>2, <1>4, <1>5, <1>6 DEF CliInv

LEMMA NextUnitKeeps ==
  ASSUME CliInv, NextUnit
  PROVE  CliInv'
<1>1. /\ main = "over" /\ cause # "interrupt" /\ unit < Len(Plan)
      /\ unit' = unit + 1 /\ main' = "collect" /\ cause' = "none"
      /\ queued' = Plan[unit + 1] /\ result' = [j \in Plan[unit + 1] |-> "none"] /\ flag' = FALSE
      /\ UNCHANGED <<victims, live, pc, job, child, reply, transients, timeouts>>
  BY DEF NextUnit, threadVars
<1>2. \A w \in Workers : pc[w] = "idle" /\ child[w] = "none" /\ w \notin live
  BY <1>1 DEF CliInv, MainOk, ThreadOk
<1>3. unit' \in DOMAIN Plan /\ Plan[unit'] \subseteq Jobs
  BY <1>1, Units DEF CliInv, CliTypeOK
<1>4. result' \in [Plan[unit'] -> Outcomes]
  BY <1>1 DEF Outcomes
<1>5. CliTypeOK'
  BY <1>1, <1>3, <1>4 DEF CliInv, CliTypeOK
<1>6. ~Abandoned'
  BY <1>1 DEF Abandoned
<1>7. NoSpuriousAbort'
  BY <1>1 DEF NoSpuriousAbort
<1> HIDE DEF Abandoned
<1>8. MainOk'
  BY <1>1, <1>6 DEF MainOk
<1>9. \A w \in Workers : ThreadOk(w)'
  BY <1>1, <1>2 DEF ThreadOk, Killing
<1> QED
  BY <1>5, <1>7, <1>8, <1>9 DEF CliInv

LEMMA CliInductive == CliInv /\ [CliNext]_cliVars => CliInv'
<1> SUFFICES ASSUME CliInv, [CliNext]_cliVars PROVE CliInv'
  OBVIOUS
<1>1. ASSUME NEW w \in Workers, NEW j \in Jobs, Take(w, j) PROVE CliInv'
  BY <1>1, TakeKeeps
<1>2. ASSUME NEW w \in Workers, Call(w) PROVE CliInv'
  BY <1>2, CallKeeps
<1>3. ASSUME NEW w \in Workers, StillRunning(w) \/ TimesOut(w) PROVE CliInv'
  BY <1>3, WaitKeeps
<1>4. ASSUME NEW w \in Workers, InterruptInCall(w) PROVE CliInv'
  BY <1>4, InterruptKeeps
<1>5. ASSUME NEW w \in Workers, NEW r \in Replies, ChildExits(w, r) PROVE CliInv'
  BY <1>5, ExitKeeps
<1>6. ASSUME NEW c \in {"gate", "interrupt"}, Abort(c) PROVE CliInv'
  BY <1>6, AbortKeeps
<1>7. CASE Main
  BY <1>7, SnapshotKeeps, KillKeeps, CancelKeeps, LeaveKeeps DEF Main
<1>8. CASE NextUnit
  BY <1>8, NextUnitKeeps
<1>9. CASE UNCHANGED cliVars
  <2>1. UNCHANGED <<unit, main, cause, queued, victims, flag, live, pc, job, child, reply, transients,
                    timeouts, result>>
    BY <1>9 DEF cliVars, mainVars, threadVars
  <2>2. CliTypeOK' /\ (Solo' <=> Solo) /\ Threads' = Threads /\ Plan[unit]' = Plan[unit]
    BY <2>1, MainTyped DEF CliInv, CliTypeOK
  <2>3. (Abandoned' <=> Abandoned) /\ (Killing' <=> Killing)
    BY <2>1, <2>2 DEF Abandoned, Killing
  <2> HIDE DEF Abandoned, Solo, Threads, Killing
  <2>4. MainOk' /\ NoSpuriousAbort'
    BY <2>1, <2>2, <2>3 DEF CliInv, MainOk, NoSpuriousAbort
  <2>5. \A w \in Workers : ThreadOk(w)'
    BY <2>1, <2>2, <2>3 DEF CliInv, ThreadOk
  <2> QED
    BY <2>2, <2>4, <2>5 DEF CliInv
<1> QED
  BY <1>1, <1>2, <1>3, <1>4, <1>5, <1>6, <1>7, <1>8, <1>9 DEF CliNext

LEMMA CliInitially == CliInit => CliInv
<1> SUFFICES ASSUME CliInit PROVE CliInv
  OBVIOUS
<1>1. unit \in DOMAIN Plan /\ queued \subseteq Jobs /\ queued = Plan[unit]
  BY Units DEF CliInit
<1>2. 0 \in 0 .. MaxTransients /\ 0 \in 0 .. MaxTimeouts
  BY Units
<1>3. result \in [Plan[unit] -> Outcomes] /\ flag \in BOOLEAN
  BY DEF CliInit, Outcomes
<1>4. CliTypeOK
  BY <1>1, <1>2, <1>3 DEF CliInit, CliTypeOK
<1>5. ~Abandoned /\ NoSpuriousAbort
  BY DEF CliInit, Abandoned, NoSpuriousAbort
<1> HIDE DEF Abandoned
<1>6. MainOk
  BY <1>1, <1>5 DEF CliInit, MainOk
<1>7. \A w \in Workers : ThreadOk(w)
  BY DEF CliInit, ThreadOk, Killing
<1> QED
  BY <1>4, <1>5, <1>6, <1>7 DEF CliInv

LEMMA CliInvariant == CliSpec => []CliInv
  BY CliInitially, CliInductive, PTL DEF CliSpec

-----------------------------------------------------------------------------
(* Every variable of the calls keeps its type.                               *)
THEOREM CliTyped == CliSpec => []CliTypeOK
<1>1. CliInv => CliTypeOK
  BY DEF CliInv
<1> QED
  BY <1>1, CliInvariant, PTL

(* A job ends aborted or cancelled only in a unit that was aborted, for      *)
(* every number of units before it.                                          *)
THEOREM AbortStaysInUnit == CliSpec => []NoSpuriousAbort
<1>1. CliInv => NoSpuriousAbort
  BY DEF CliInv
<1> QED
  BY <1>1, CliInvariant, PTL

(* An abort that has killed what it found leaves no child of claude that is  *)
(* still waited for, wherever each thread was when the flag was set.         *)
THEOREM AbortReachesAll == CliSpec => []AbortReaches
<1>1. CliInv => AbortReaches
  <2> SUFFICES ASSUME CliInv, main = "drain", cause # "none", ~Solo, NEW w \in Workers,
                      child[w] = "running", job[w].via = "cli"
               PROVE  pc[w] \in {"register", "loop"}
    BY DEF AbortReaches
  <2>1. ThreadOk(w) /\ MainOk /\ pc[w] \in Labels
    BY DEF CliInv, CliTypeOK, Labels
  <2>2. ~Abandoned
    BY <2>1 DEF MainOk
  <2>3. pc[w] \in {"register", "loop", "wait", "reap"}
    BY <2>1, <2>2 DEF ThreadOk, Labels
  <2>4. pc[w] # "reap"
    BY <2>1 DEF ThreadOk
  <2>5. pc[w] # "wait"
    BY <2>1 DEF ThreadOk, Killing
  <2> QED
    BY <2>3, <2>4, <2>5
<1> QED
  BY <1>1, CliInvariant, PTL

(* Nothing of a unit is left when it is over, for every number of threads    *)
(* and however they, the abort and the children interleave.                  *)
THEOREM NothingLeftBehind == CliSpec => []UnitsApart
<1>1. CliInv => UnitsApart
  <2> SUFFICES ASSUME CliInv, main = "over" PROVE UnitsApart
    BY DEF UnitsApart
  <2>1. \A w \in Workers : pc[w] = "idle" /\ w \notin live /\ (child[w] = "running" => Abandoned)
    BY DEF CliInv, MainOk, ThreadOk
  <2>2. live = {}
    BY <2>1 DEF CliInv, CliTypeOK
  <2> QED
    BY <2>1, <2>2 DEF UnitsApart, Abandoned
<1> QED
  BY <1>1, CliInvariant, PTL

-----------------------------------------------------------------------------
(* The calls of the HTTP and SDK backends.                                   *)

(* A request through the SDK carries at most one parameter that a refusal    *)
(* drops, so that a prompt is granted at most one attempt more, and one that *)
(* is not sent still has an attempt to be sent in.                           *)
Droppable == {"temperature", "thinking"}

Granted ==
  \/ attempts = Attempts /\ ~(Droppable \subseteq kw)
  \/ attempts = Attempts + 1 /\ kw \cap Droppable = {}

HttpInv ==
  /\ HttpTypeOK
  /\ attempt <= attempts
  /\ via = "sdk" /\ at = "prompt" => Granted /\ (~sent => attempt < attempts)
  /\ CleanedRequestSent

LEMMA Bounds ==
  /\ Attempts \in Nat /\ Attempts >= 1 /\ MostAttempts \in Nat /\ Attempts < MostAttempts
  /\ MaxTurns \in Nat /\ MaxTurns >= 1 /\ MaxRetries \in Nat /\ MaxShrinks \in Nat
  /\ MaxCalls \in Nat
  BY HttpAssumption

LEMMA Evicted ==
  ASSUME NEW S, NEW seq \in Seq(S), NEW i, NEW e \in S
  PROVE  ReplaceAt(seq, i, e) \in Seq(S)
<1>1. CASE i \in 1 .. Len(seq)
  BY <1>1 DEF ReplaceAt
<1>2. CASE i \notin 1 .. Len(seq)
  <2>1. seq = [seq EXCEPT ![i] = e]
    BY <1>2
  <2> QED
    BY <2>1 DEF ReplaceAt
<1> QED
  BY <1>1, <1>2

LEMMA EvictTyped ==
  ASSUME HttpTypeOK
  PROVE  Evict \in Seq({"small", "large", "evicted"})
<1>1. history \in Seq({"small", "large", "evicted"})
  BY DEF HttpTypeOK
<1> QED
  BY <1>1, Evicted DEF Evict

LEMMA PromptKeeps ==
  ASSUME HttpInv, NEW r \in Refused, PromptAnswered(r)
  PROVE  HttpInv'
<1>1. /\ at = "prompt" /\ sent /\ sent' = FALSE
      /\ UNCHANGED <<via, attempt, turn, retries, shrinks, history, calls>>
  BY DEF PromptAnswered, loopVars
<1>2. /\ via \in {"sdk", "openai"} /\ kw \subseteq Params /\ learned \subseteq Refusals
      /\ attempt \in Nat /\ attempts \in Attempts .. MostAttempts /\ attempts \in Nat
      /\ attempt <= attempts
  BY Bounds, HttpAssumption DEF HttpInv, HttpTypeOK
<1>3. CASE /\ Dropped(r) # "none"
           /\ kw' = (kw \ {Dropped(r)}) \cup Renamed(Dropped(r))
           /\ learned' = learned \cup ({Dropped(r)} \cap Refusals)
           /\ attempts' = Grant
           /\ UNCHANGED <<at, outcome>>
  <2>1. kw' \subseteq Params /\ learned' \subseteq Refusals
    BY <1>2, <1>3 DEF Renamed, Params
  <2>2. attempts' \in Attempts .. MostAttempts /\ attempt <= attempts' /\ attempts' \in Nat
    BY <1>2, <1>3, Bounds DEF Grant
  <2>3. HttpTypeOK'
    BY <1>1, <1>3, <2>1, <2>2 DEF HttpInv, HttpTypeOK
  <2>4. ASSUME via = "sdk" PROVE Granted' /\ attempt' < attempts'
    <3>1. Dropped(r) \in Droppable /\ Dropped(r) \in kw /\ Renamed(Dropped(r)) = {}
      BY <1>3, <2>4 DEF Dropped, Droppable, Renamed
    <3>2. attempts = Attempts /\ ~(Droppable \subseteq kw)
      BY <1>1, <2>4, <3>1 DEF HttpInv, Granted
    <3>3. attempts' \in {Attempts, Attempts + 1} /\ attempt < attempts'
      BY <1>2, <1>3, <3>2, Bounds DEF Grant
    <3>4. kw' \cap Droppable = {}
      BY <1>3, <3>1, <3>2 DEF Droppable
    <3>5. ~(Droppable \subseteq kw')
      BY <3>4 DEF Droppable
    <3> QED
      BY <1>1, <3>3, <3>4, <3>5 DEF Granted
  <2> QED
    BY <1>1, <1>3, <2>2, <2>3, <2>4 DEF HttpInv, CleanedRequestSent
<1>4. CASE /\ r \in {"busy", "lost"} /\ attempt < attempts
           /\ UNCHANGED <<at, kw, learned, attempts, outcome>>
  <2>1. HttpTypeOK'
    BY <1>1, <1>4 DEF HttpInv, HttpTypeOK
  <2> QED
    BY <1>1, <1>4, <2>1 DEF HttpInv, Granted, CleanedRequestSent
<1>5. CASE /\ at' = "idle" /\ outcome' = "error"
           /\ UNCHANGED <<kw, learned, attempts>>
  <2>1. HttpTypeOK'
    BY <1>1, <1>5 DEF HttpInv, HttpTypeOK
  <2> QED
    BY <1>1, <1>5, <2>1 DEF HttpInv, CleanedRequestSent
<1> QED
  BY <1>3, <1>4, <1>5 DEF PromptAnswered

LEMMA LoopKeeps ==
  ASSUME HttpInv, NEW r \in Refused, Failed(r)
  PROVE  HttpInv'
<1>1. /\ at = "turn" /\ sent' = FALSE /\ at' \in {"turn", "idle"}
      /\ outcome' \in {outcome, "error"}
      /\ UNCHANGED <<via, attempt, attempts, turn, calls>>
  BY DEF Failed, promptVars
<1>2. kw' \subseteq Params /\ learned' \subseteq Refusals
  BY DEF Failed, HttpInv, HttpTypeOK, Params, Refusals
<1>3. retries' \in 0 .. MaxRetries /\ shrinks' \in 0 .. MaxShrinks
  BY Bounds DEF Failed, SitOut, HttpInv, HttpTypeOK
<1>4. history' \in Seq({"small", "large", "evicted"})
  BY EvictTyped DEF Failed, HttpInv, HttpTypeOK
<1>5. HttpTypeOK'
  BY <1>1, <1>2, <1>3, <1>4 DEF HttpInv, HttpTypeOK
<1> QED
  BY <1>1, <1>5 DEF HttpInv, CleanedRequestSent

LEMMA BeginKeeps ==
  ASSUME HttpInv, Begin, at' \in {"prompt", "turn"}, kw' \subseteq Params, learned' \subseteq Refusals,
         via = "sdk" => ~(Droppable \subseteq kw')
  PROVE  HttpInv'
<1>1. /\ calls' = calls + 1 /\ calls < MaxCalls /\ outcome' = "none"
      /\ attempt' = 0 /\ attempts' = Attempts
      /\ turn' = 1 /\ retries' = 0 /\ shrinks' = 0 /\ history' = <<>>
      /\ UNCHANGED <<via, sent>>
  BY DEF Begin
<1>2. /\ calls' \in 0 .. MaxCalls /\ attempt' \in 0 .. MostAttempts
      /\ attempts' \in Attempts .. MostAttempts /\ attempt' < attempts'
      /\ turn' \in 0 .. MaxTurns /\ retries' \in 0 .. MaxRetries /\ shrinks' \in 0 .. MaxShrinks
  BY <1>1, Bounds DEF HttpInv, HttpTypeOK
<1>3. history' \in Seq({"small", "large", "evicted"})
  BY <1>1
<1>4. sent' \in BOOLEAN
  BY <1>1 DEF HttpInv, HttpTypeOK
<1>5. HttpTypeOK'
  BY <1>1, <1>2, <1>3, <1>4 DEF HttpInv, HttpTypeOK
<1>6. attempt' <= attempts'
  BY <1>1, Bounds
<1> QED
  BY <1>1, <1>2, <1>5, <1>6 DEF HttpInv, Granted, CleanedRequestSent

LEMMA HttpInductive == HttpInv /\ [HttpNext]_httpVars => HttpInv'
<1> SUFFICES ASSUME HttpInv, [HttpNext]_httpVars PROVE HttpInv'
  OBVIOUS
<1>0. HttpTypeOK /\ via \in {"sdk", "openai"}
  BY HttpAssumption DEF HttpInv, HttpTypeOK
<1>1. ASSUME NEW wanted \in SUBSET {"temperature", "thinking"}, Prompt(wanted) PROVE HttpInv'
  <2>1. Begin /\ at' = "prompt" /\ kw' = PromptParams(wanted)
    BY <1>1 DEF Prompt
  <2>2. PromptParams(wanted) \subseteq Params
    BY DEF PromptParams, Length, Params
  <2>3. via = "sdk" => ~(Droppable \subseteq PromptParams(wanted))
    BY DEF PromptParams, Length, Droppable
  <2>4. learned' \subseteq Refusals
    BY <1>0, <1>1 DEF Prompt, HttpTypeOK, Refusals
  <2> QED
    BY <2>1, <2>2, <2>3, <2>4, BeginKeeps
<1>2. CASE Agentic
  <2>1. Begin /\ at' = "turn" /\ kw' = {Length} /\ UNCHANGED learned
    BY <1>2 DEF Agentic
  <2>2. {Length} \subseteq Params /\ ~(Droppable \subseteq {Length})
    BY DEF Length, Params, Droppable
  <2>3. learned' \subseteq Refusals
    BY <1>0, <2>1 DEF HttpTypeOK
  <2> QED
    BY <2>1, <2>2, <2>3, BeginKeeps
<1>3. CASE OtherTools
  <2>1. /\ at = "idle" /\ calls' \in 0 .. MaxCalls /\ outcome' \in {"delegated", "unsupported"}
        /\ UNCHANGED <<via, at, sent, kw, learned, attempt, attempts, turn, retries, shrinks, history>>
    BY <1>0, <1>3, Bounds DEF OtherTools, promptVars, loopVars, HttpTypeOK
  <2>2. HttpTypeOK'
    BY <1>0, <2>1 DEF HttpTypeOK
  <2> QED
    BY <2>1, <2>2 DEF HttpInv, CleanedRequestSent
<1>4. CASE Send
  <2>1. /\ at # "idle" /\ ~sent /\ sent' = TRUE
        /\ UNCHANGED <<via, at, kw, learned, attempts, turn, retries, shrinks, history, outcome, calls>>
    BY <1>4 DEF Send, loopVars
  <2>2. attempt' \in 0 .. MostAttempts /\ attempt' <= attempts
    BY <1>0, <1>4, Bounds DEF Send, HttpInv, HttpTypeOK
  <2>3. HttpTypeOK'
    BY <1>0, <2>1, <2>2 DEF HttpTypeOK
  <2> QED
    BY <2>1, <2>2, <2>3 DEF HttpInv, Granted, CleanedRequestSent
<1>5. ASSUME NEW how \in {"text", "error"}, End(how) PROVE HttpInv'
  <2>1. /\ outcome' = how /\ at' = "idle" /\ sent' = FALSE
        /\ UNCHANGED <<via, kw, learned, attempt, attempts, turn, retries, shrinks, history, calls>>
    BY <1>5 DEF End, promptVars, loopVars
  <2>2. HttpTypeOK'
    BY <1>0, <2>1 DEF HttpTypeOK
  <2> QED
    BY <2>1, <2>2 DEF HttpInv, CleanedRequestSent
<1>6. CASE Exhausted
  <2>1. /\ at = "prompt" /\ ~sent /\ attempt = attempts
        /\ outcome' = "exhausted" /\ at' = "idle" /\ sent' = FALSE
        /\ UNCHANGED <<via, kw, learned, attempt, attempts, turn, retries, shrinks, history, calls>>
    BY <1>6 DEF Exhausted, End, promptVars, loopVars
  <2>2. via # "sdk"
    <3>1. attempt \in Nat /\ attempts \in Nat
      BY <1>0, Bounds DEF HttpTypeOK
    <3> QED
      BY <2>1, <3>1 DEF HttpInv
  <2>3. HttpTypeOK'
    BY <1>0, <2>1 DEF HttpTypeOK
  <2> QED
    BY <2>1, <2>2, <2>3 DEF HttpInv, CleanedRequestSent
<1>7. ASSUME NEW r \in Refused, PromptAnswered(r) PROVE HttpInv'
  BY <1>7, PromptKeeps
<1>8. ASSUME NEW r \in Refused, Failed(r) PROVE HttpInv'
  BY <1>8, LoopKeeps
<1>9. ASSUME NEW size \in {"small", "large"}, ToolsRun(size) PROVE HttpInv'
  <2>1. /\ at' \in {"turn", "final"} /\ sent' = FALSE /\ shrinks' = 0 /\ retries' \in {0, retries}
        /\ turn' = (IF turn = MaxTurns THEN turn ELSE turn + 1)
        /\ UNCHANGED <<via, kw, learned, attempt, attempts, outcome, calls>>
    BY <1>9 DEF ToolsRun, promptVars
  <2>2. history' \in Seq({"small", "large", "evicted"})
    BY <1>0, <1>9 DEF ToolsRun, HttpTypeOK
  <2>3. turn' \in 0 .. MaxTurns /\ shrinks' \in 0 .. MaxShrinks /\ retries' \in 0 .. MaxRetries
    BY <1>0, <2>1, Bounds DEF HttpTypeOK
  <2>4. HttpTypeOK'
    BY <1>0, <2>1, <2>2, <2>3 DEF HttpTypeOK
  <2> QED
    BY <2>1, <2>4 DEF HttpInv, CleanedRequestSent
<1>10. CASE PromptReplied \/ Replied \/ \E fits \in BOOLEAN : Forced(fits)
  BY <1>5, <1>10 DEF PromptReplied, Replied, Forced
<1>11. CASE UNCHANGED httpVars
  <2>1. UNCHANGED <<via, at, sent, kw, learned, attempt, attempts, turn, retries, shrinks, history,
                    outcome, calls>>
    BY <1>11 DEF httpVars, promptVars, loopVars
  <2>2. HttpTypeOK'
    BY <1>0, <2>1 DEF HttpTypeOK
  <2> QED
    BY <2>1, <2>2 DEF HttpInv, Granted, CleanedRequestSent
<1> QED
  BY <1>1, <1>2, <1>3, <1>4, <1>6, <1>7, <1>8, <1>9, <1>10, <1>11 DEF HttpNext, HttpStep

LEMMA HttpInitially == HttpInit => HttpInv
<1> SUFFICES ASSUME HttpInit PROVE HttpInv
  OBVIOUS
<1>1. /\ 0 \in 0 .. MostAttempts /\ Attempts \in Attempts .. MostAttempts /\ 0 \in 0 .. MaxTurns
      /\ 0 \in 0 .. MaxRetries /\ 0 \in 0 .. MaxShrinks /\ 0 \in 0 .. MaxCalls /\ 0 <= Attempts
  BY Bounds
<1>2. <<>> \in Seq({"small", "large", "evicted"})
  OBVIOUS
<1>3. HttpTypeOK
  BY <1>1, <1>2 DEF HttpInit, HttpTypeOK
<1> QED
  BY <1>1, <1>3 DEF HttpInit, HttpInv, CleanedRequestSent

LEMMA HttpInvariant == HttpSpec => []HttpInv
  BY HttpInitially, HttpInductive, PTL DEF HttpSpec

-----------------------------------------------------------------------------
(* Every variable of a call keeps its type.                                  *)
THEOREM HttpTyped == HttpSpec => []HttpTypeOK
<1>1. HttpInv => HttpTypeOK
  BY DEF HttpInv
<1> QED
  BY <1>1, HttpInvariant, PTL

(* A call through the SDK never uses up its attempts on refusals, for every  *)
(* number of attempts below the cap and every order of the answers.          *)
THEOREM NeverExhausted == HttpSpec => []CleanedRequestSent
<1>1. HttpInv => CleanedRequestSent
  BY DEF HttpInv
<1> QED
  BY <1>1, HttpInvariant, PTL

-----------------------------------------------------------------------------
(* Dynamic verification.                                                     *)

LEMMA MaxOfTwo ==
  ASSUME NEW a \in Int, NEW b \in Int
  PROVE  Max({a, b}) \in {a, b} /\ Max({a, b}) >= a /\ Max({a, b}) >= b
<1>1. \E x \in {a, b} : \A y \in {a, b} : x >= y
  <2>1. CASE a >= b
    BY <2>1
  <2>2. CASE b >= a
    BY <2>2
  <2> QED
    BY <2>1, <2>2
<1>2. Max({a, b}) \in {a, b} /\ \A y \in {a, b} : Max({a, b}) >= y
  BY <1>1 DEF Max
<1> QED
  BY <1>2

LEMMA MinOfTwo ==
  ASSUME NEW a \in Int, NEW b \in Int
  PROVE  Min({a, b}) \in {a, b} /\ Min({a, b}) <= a /\ Min({a, b}) <= b
<1>1. \E x \in {a, b} : \A y \in {a, b} : x <= y
  <2>1. CASE a <= b
    BY <2>1
  <2>2. CASE b <= a
    BY <2>2
  <2> QED
    BY <2>1, <2>2
<1>2. Min({a, b}) \in {a, b} /\ \A y \in {a, b} : Min({a, b}) <= y
  BY <1>1 DEF Min
<1> QED
  BY <1>2

-----------------------------------------------------------------------------
(* The finding that is worked on is one of the list, a crash seen in its     *)
(* attempts is a report of its own, and the findings before it are decided,  *)
(* each once.                                                                *)

Working == phase \in {"buildPlan", "building", "built", "repro", "running"}

Decided ==
  /\ kept \cup dropped = {Verified[i] : i \in 1 .. next - 1}
  /\ kept \cap dropped = {}

AsanInv ==
  /\ AsanTypeOK
  /\ Working => next <= Len(Verified) /\ finding \in Eligible
  /\ attempted <= next - 1 \/ (Working /\ attempted <= next)
  /\ phase \in {"repro", "running"} /\ crash => finding \in reports
  /\ phase = "over" => next > Len(Verified)
  /\ kept \subseteq reports \cap Eligible
  /\ Decided

LEMMA List ==
  /\ Len(Verified) \in Nat /\ DOMAIN Verified = 1 .. Len(Verified)
  /\ \A i \in 1 .. Len(Verified) : Verified[i] \in Candidates
  /\ \A i, j \in 1 .. Len(Verified) : Verified[i] = Verified[j] => i = j
  BY AsanAssumption

(* The finding that is decided was not decided before.                       *)
LEMMA DecideNext ==
  ASSUME AsanInv, next <= Len(Verified)
  PROVE  /\ finding \in Candidates /\ finding \notin kept \cup dropped
         /\ (kept \cup dropped) \cup {finding} = {Verified[i] : i \in 1 .. (next + 1) - 1}
         /\ next + 1 \in 1 .. Len(Verified) + 1 /\ next \in Nat
<1>1. next \in 1 .. Len(Verified)
  BY List DEF AsanInv, AsanTypeOK
<1>2. \A i \in 1 .. next - 1 : i \in 1 .. Len(Verified) /\ i # next
  BY <1>1, List
<1>3. finding \notin kept \cup dropped
  BY <1>1, <1>2, List DEF AsanInv, Decided, finding
<1>4. next + 1 \in 1 .. Len(Verified) + 1 /\ (next + 1) - 1 = next /\ next \in Nat
  BY <1>1, List
<1>5. 1 .. next = (1 .. next - 1) \cup {next}
  BY <1>1
<1> QED
  BY <1>1, <1>3, <1>4, <1>5, List DEF AsanInv, Decided, finding

LEMMA DropKeeps ==
  ASSUME AsanInv, Drop, next <= Len(Verified), phase # "over",
         attempted' <= next, attempted' \in 0 .. Len(Verified), build' \in {"none", "ok", "failed"}
  PROVE  AsanInv'
<1>1. /\ dropped' = dropped \cup {finding} /\ next' = next + 1 /\ phase' = "next"
      /\ UNCHANGED <<kept, left, limit, commands, crash, reports>>
  BY DEF Drop
<1>2. /\ finding \in Candidates /\ finding \notin kept \cup dropped
      /\ (kept \cup dropped) \cup {finding} = {Verified[i] : i \in 1 .. (next + 1) - 1}
      /\ next + 1 \in 1 .. Len(Verified) + 1 /\ next \in Nat
  BY DecideNext
<1>3. Decided'
  BY <1>1, <1>2 DEF AsanInv, Decided
<1>4. crash' \in BOOLEAN
  BY <1>1 DEF AsanInv, AsanTypeOK
<1>5. AsanTypeOK'
  BY <1>1, <1>2, <1>4 DEF AsanInv, AsanTypeOK
<1>6. ~Working' /\ attempted' <= next' - 1
  BY <1>1, <1>2 DEF Working
<1> QED
  BY <1>1, <1>3, <1>5, <1>6 DEF AsanInv

(* A step of the work on a finding: it decides none, and a crash it sees is  *)
(* reported.                                                                 *)
LEMMA WorkKeeps ==
  ASSUME AsanInv, AsanTypeOK', UNCHANGED <<next, kept, dropped>>, Working',
         next <= Len(Verified), finding \in Eligible, attempted' <= next, reports \subseteq reports',
         phase' \in {"repro", "running"} /\ crash' => finding \in reports'
  PROVE  AsanInv'
<1>1. Decided'
  BY DEF AsanInv, Decided
<1>2. kept' \subseteq reports' \cap Eligible
  BY DEF AsanInv
<1>3. phase' # "over"
  BY DEF Working
<1>4. finding' = finding
  BY DEF finding
<1> HIDE DEF Working
<1> QED
  BY <1>1, <1>2, <1>3, <1>4 DEF AsanInv

LEMMA BudgetInt ==
  ASSUME next \in 1 .. Len(Verified), NEW b \in Budgets
  PROVE  b \in Int
<1>1. /\ Least \in Int /\ Most \in Int /\ Complexity[finding] \in 1 .. 5
  BY List, AsanAssumption DEF finding
<1>2. PICK asked \in 0 .. Most + 1, c \in Complexity[finding] .. 5 :
        b = Clamp(Least, Max({asked, Floor(c)}), Most)
  BY DEF Budgets
<1>3. c \in Int /\ asked \in Int
  BY <1>1
<1>4. Floor(c) \in Int
  BY <1>1, <1>3 DEF Floor
<1>5. Max({asked, Floor(c)}) \in Int
  BY <1>3, <1>4, MaxOfTwo
<1>6. Min({Max({asked, Floor(c)}), Most}) \in Int
  BY <1>1, <1>5, MinOfTwo
<1> QED
  BY <1>1, <1>2, <1>6, MaxOfTwo DEF Clamp

(* The time that is left is a number, whatever a call has taken.             *)
LEMMA TakesInt ==
  ASSUME left \in Int, NEW d \in Int, NEW t, Takes(d, t)
  PROVE  left' \in Int
  BY DEF Takes

(* The timeout of a command is at least 1.                                   *)
LEMMA LimitNat ==
  ASSUME NEW a \in Int, NEW b \in Int
  PROVE  Max({1, Min({a, b})}) \in Nat
<1> DEFINE least == Min({a, b})
<1>1. least \in Int
  BY MinOfTwo
<1> HIDE DEF least
<1>2. Max({1, least}) \in {1, least} /\ Max({1, least}) >= 1
  BY <1>1, MaxOfTwo
<1>3. Max({1, least}) \in Nat
  BY <1>1, <1>2
<1> QED
  BY <1>3 DEF least

LEMMA AsanInductive == AsanInv /\ [AsanNext]_asanVars => AsanInv'
<1> SUFFICES ASSUME AsanInv, [AsanNext]_asanVars PROVE AsanInv'
  OBVIOUS
<1> USE DEF Working
<1>0. /\ AsanTypeOK /\ next \in 1 .. Len(Verified) + 1 /\ next \in Nat
      /\ attempted \in Nat /\ left \in Int /\ Len(Verified) \in Nat /\ crash \in BOOLEAN
  BY List DEF AsanInv, AsanTypeOK
<1>1. CASE NotTried
  <2>1. attempted' <= next /\ attempted' \in 0 .. Len(Verified) /\ build' \in {"none", "ok", "failed"}
    BY <1>0, <1>1 DEF NotTried, AsanInv, AsanTypeOK
  <2>2. Drop /\ next <= Len(Verified) /\ phase # "over"
    BY <1>1 DEF NotTried
  <2> QED
    BY <2>1, <2>2, DropKeeps
<1>2. CASE FirstTried
  <2>1. attempted <= next - 1 /\ next <= Len(Verified) /\ finding \in Eligible
    BY <1>2 DEF FirstTried, AsanInv
  <2>2. attempted' \in 0 .. Len(Verified) /\ attempted' <= next
    BY <1>0, <1>2, <2>1 DEF FirstTried
  <2>3. BuildTime \in Int
    BY AsanAssumption
  <2>4. /\ UNCHANGED <<next, build, limit, commands, crash, kept, dropped, reports>>
        /\ phase' = "buildPlan" /\ left' = BuildTime
    BY <1>2 DEF FirstTried
  <2>5. AsanTypeOK'
    BY <1>0, <2>2, <2>3, <2>4 DEF AsanTypeOK
  <2> QED
    BY <2>1, <2>2, <2>4, <2>5, WorkKeeps
<1>3. CASE LaterTried
  <2>1. attempted <= next - 1 /\ Drop /\ next <= Len(Verified) /\ phase = "next"
    BY <1>3 DEF LaterTried, AsanInv
  <2>2. attempted' <= next /\ attempted' \in 0 .. Len(Verified)
    BY <1>0, <1>3, <2>1 DEF LaterTried
  <2>3. build' \in {"none", "ok", "failed"}
    BY <1>0, <1>3 DEF LaterTried, AsanTypeOK
  <2> QED
    BY <2>1, <2>2, <2>3, DropKeeps
<1>4. CASE StartRepro
  <2>1. /\ UNCHANGED <<next, build, limit, commands, kept, dropped, reports>>
        /\ phase' = "repro" /\ crash' = FALSE
    BY <1>4 DEF StartRepro
  <2>2. next <= Len(Verified) /\ finding \in Eligible
    BY <1>4 DEF StartRepro, AsanInv
  <2>3. attempted' \in 0 .. Len(Verified) /\ attempted' <= next
    <3>1. CASE phase = "next" /\ attempted' = attempted + 1
      <4>1. attempted <= next - 1
        BY <3>1 DEF AsanInv
      <4> QED
        BY <1>0, <2>2, <3>1, <4>1
    <3>2. CASE phase = "built" /\ UNCHANGED attempted
      <4>1. attempted <= next
        BY <1>0, <3>2 DEF AsanInv
      <4> QED
        BY <1>0, <2>2, <3>2, <4>1
    <3> QED
      BY <1>4, <3>1, <3>2 DEF StartRepro
  <2>4. left' \in Int
    BY <1>0, <1>4, <2>2, BudgetInt DEF StartRepro
  <2>5. AsanTypeOK'
    BY <1>0, <2>1, <2>3, <2>4 DEF AsanTypeOK
  <2> QED
    BY <2>1, <2>2, <2>3, <2>5, WorkKeeps
<1>5. CASE Done
  <2>1. /\ UNCHANGED <<next, attempted, build, left, limit, commands, crash, kept, dropped, reports>>
        /\ phase = "next" /\ phase' = "over" /\ next > Len(Verified)
    BY <1>5 DEF Done
  <2>2. AsanTypeOK'
    BY <1>0, <2>1 DEF AsanTypeOK
  <2>3. Decided' /\ attempted' <= next' - 1 /\ kept' \subseteq reports' \cap Eligible
    BY <2>1 DEF AsanInv, Decided
  <2> QED
    BY <2>1, <2>2, <2>3 DEF AsanInv
<1>6. ASSUME NEW d, BuildPlan(d) PROVE AsanInv'
  <2>1. /\ UNCHANGED <<next, attempted, build, crash, kept, dropped, reports>>
        /\ phase = "buildPlan" /\ phase' \in {"buildPlan", "building"}
    BY <1>6 DEF BuildPlan
  <2>2. left' \in Int
    <3>1. PlanTime \in Int /\ PlanSlack \in Int
      BY AsanAssumption
    <3>2. Max({1, Min({PlanTime, left})}) \in Nat
      BY <1>0, <3>1, LimitNat
    <3>3. d \in Int
      BY <1>6, <3>1, <3>2 DEF BuildPlan, Takes
    <3> QED
      BY <1>0, <1>6, <3>3, TakesInt DEF BuildPlan
  <2>3. limit' \in Nat /\ commands' \in 0 .. MaxCommands
    <3>1. BuildStep \in Int
      BY AsanAssumption
    <3>2. Max({1, Min({BuildStep, left'})}) \in Nat
      BY <2>2, <3>1, LimitNat
    <3> QED
      BY <1>0, <1>6, <3>2 DEF BuildPlan, AsanTypeOK
  <2>4. AsanTypeOK'
    BY <1>0, <2>1, <2>2, <2>3 DEF AsanTypeOK
  <2>9. next <= Len(Verified) /\ finding \in Eligible /\ attempted <= next
    BY <1>0, <2>1 DEF AsanInv
  <2> QED
    BY <2>1, <2>4, <2>9, WorkKeeps
<1>7. ASSUME NEW d, BuildCommand(d) PROVE AsanInv'
  <2>1. /\ UNCHANGED <<phase, next, attempted, build, limit, crash, kept, dropped, reports>>
        /\ phase = "building" /\ commands > 0 /\ commands' = commands - 1
        /\ left' \in Int
    BY <1>0, <1>7 DEF BuildCommand, AsanTypeOK
  <2>2. commands' \in 0 .. MaxCommands
    BY <1>0, <2>1, AsanAssumption, SMTT(20) DEF AsanTypeOK
  <2>3. AsanTypeOK'
    BY <1>0, <2>1, <2>2 DEF AsanTypeOK
  <2>9. next <= Len(Verified) /\ finding \in Eligible /\ attempted <= next
    BY <1>0, <2>1 DEF AsanInv
  <2> QED
    BY <2>1, <2>3, <2>9, WorkKeeps
<1>8. CASE BuildEvaluated
  <2>1. /\ UNCHANGED <<next, attempted, left, limit, commands, crash, kept, dropped, reports>>
        /\ phase = "building" /\ phase' \in {"built", "buildPlan"} /\ build' \in {build, "ok"}
    BY <1>8 DEF BuildEvaluated
  <2>2. AsanTypeOK'
    BY <1>0, <2>1 DEF AsanTypeOK
  <2>9. next <= Len(Verified) /\ finding \in Eligible /\ attempted <= next
    BY <1>0, <2>1 DEF AsanInv
  <2> QED
    BY <2>1, <2>2, <2>9, WorkKeeps
<1>9. CASE BuildFailed \/ ReproOver
  <2>1. Drop /\ UNCHANGED attempted /\ phase # "over" /\ build' \in {build, "failed"} /\ Working
    BY <1>9 DEF BuildFailed, ReproOver
  <2>2. next <= Len(Verified) /\ attempted <= next
    BY <1>0, <2>1 DEF AsanInv
  <2>3. attempted' \in 0 .. Len(Verified) /\ build' \in {"none", "ok", "failed"}
    BY <1>0, <2>1 DEF AsanTypeOK
  <2> QED
    BY <2>1, <2>2, <2>3, DropKeeps
<1>10. ASSUME NEW d, ReproPlan(d) PROVE AsanInv'
  <2>1. /\ UNCHANGED <<next, attempted, build, crash, kept, dropped, reports>>
        /\ phase = "repro" /\ phase' \in {"repro", "running"}
    BY <1>10 DEF ReproPlan
  <2>2. left' \in Int
    <3>1. PlanTime \in Int /\ PlanSlack \in Int /\ Reserve \in Int
      BY AsanAssumption
    <3>2. Max({1, Min({PlanTime, left - Reserve})}) \in Nat
      BY <1>0, <3>1, LimitNat
    <3>3. d \in Int
      BY <1>10, <3>1, <3>2 DEF ReproPlan, Takes
    <3> QED
      BY <1>0, <1>10, <3>3, TakesInt DEF ReproPlan
  <2>3. limit' \in Nat /\ commands' \in 0 .. MaxCommands
    <3>1. RunStep \in Int
      BY AsanAssumption
    <3>2. Max({1, Min({RunStep, left'})}) \in Nat
      BY <2>2, <3>1, LimitNat
    <3> QED
      BY <1>0, <1>10, <3>2 DEF ReproPlan, AsanTypeOK
  <2>4. AsanTypeOK'
    BY <1>0, <2>1, <2>2, <2>3 DEF AsanTypeOK
  <2>9. next <= Len(Verified) /\ finding \in Eligible /\ attempted <= next /\ (crash => finding \in reports)
    BY <1>0, <2>1 DEF AsanInv
  <2> QED
    BY <2>1, <2>4, <2>9, WorkKeeps
<1>11. ASSUME NEW d, RunCommand(d) PROVE AsanInv'
  <2>1. /\ UNCHANGED <<phase, next, attempted, build, limit, kept, dropped>>
        /\ phase = "running" /\ commands > 0 /\ commands' = commands - 1
    BY <1>11 DEF RunCommand
  <2>2. PICK capture \in Captures :
          /\ crash' = (crash \/ Trigger(capture))
          /\ reports' = IF Trigger(capture) THEN reports \cup {finding} ELSE reports
    BY <1>11 DEF RunCommand
  <2>3. next <= Len(Verified) /\ finding \in Eligible /\ finding \in Candidates
    BY <1>0, <2>1, DecideNext DEF AsanInv
  <2>4. (crash' => finding \in reports') /\ reports \subseteq reports' /\ reports' \subseteq Candidates
    BY <1>0, <2>1, <2>2, <2>3 DEF AsanInv, AsanTypeOK
  <2>5. crash' \in BOOLEAN
    BY <2>2
  <2>6. left' \in Int
    <3>1. limit \in Int
      BY <1>0 DEF AsanTypeOK
    <3>2. Min({limit, left}) \in Int
      BY <1>0, <3>1, MinOfTwo
    <3>3. d \in Int /\ left' = left - d
      BY <1>11, <3>2 DEF RunCommand, RunWithin
    <3> QED
      BY <1>0, <3>3
  <2>7. commands' \in 0 .. MaxCommands
    BY <1>0, <2>1, AsanAssumption, SMTT(20) DEF AsanTypeOK
  <2>8. AsanTypeOK'
    BY <1>0, <2>1, <2>4, <2>5, <2>6, <2>7 DEF AsanTypeOK
  <2>9. next <= Len(Verified) /\ finding \in Eligible /\ attempted <= next
    BY <1>0, <2>1 DEF AsanInv
  <2> QED
    BY <2>1, <2>4, <2>8, <2>9, WorkKeeps
<1>12. CASE AttemptFails
  <2>1. /\ UNCHANGED <<next, attempted, build, left, limit, commands, kept, dropped, reports>>
        /\ phase = "running" /\ phase' = "repro" /\ crash' = FALSE
    BY <1>12 DEF AttemptFails
  <2>2. AsanTypeOK'
    BY <1>0, <2>1 DEF AsanTypeOK
  <2>9. next <= Len(Verified) /\ finding \in Eligible /\ attempted <= next
    BY <1>0, <2>1 DEF AsanInv
  <2> QED
    BY <2>1, <2>2, <2>9, WorkKeeps
<1>13. CASE AttemptOver
  <2>1. /\ UNCHANGED <<attempted, build, left, limit, commands, crash, dropped, reports>>
        /\ phase = "running"
    BY <1>13 DEF AttemptOver
  <2>2. CASE ~crash
    <3>1. phase' = "repro" /\ UNCHANGED <<kept, next>>
      BY <1>13, <2>2 DEF AttemptOver
    <3>2. AsanTypeOK'
      BY <1>0, <2>1, <3>1 DEF AsanTypeOK
    <3>3. next <= Len(Verified) /\ finding \in Eligible /\ attempted <= next
      BY <1>0, <2>1 DEF AsanInv
    <3> QED
      BY <2>1, <2>2, <3>1, <3>2, <3>3, WorkKeeps
  <2>3. CASE crash
    <3>1. kept' = kept \cup {finding} /\ next' = next + 1 /\ phase' = "next"
      BY <1>13, <2>3 DEF AttemptOver
    <3>2. finding \in reports /\ finding \in Eligible /\ next <= Len(Verified) /\ attempted <= next
      BY <1>0, <2>1, <2>3 DEF AsanInv
    <3>3. /\ finding \in Candidates /\ finding \notin kept \cup dropped
          /\ (kept \cup dropped) \cup {finding} = {Verified[i] : i \in 1 .. (next + 1) - 1}
          /\ next + 1 \in 1 .. Len(Verified) + 1 /\ next \in Nat
      BY <3>2, DecideNext
    <3>4. Decided'
      BY <2>1, <3>1, <3>3 DEF AsanInv, Decided
    <3>5. AsanTypeOK'
      BY <1>0, <2>1, <3>1, <3>3 DEF AsanTypeOK
    <3>6. ~Working' /\ attempted' <= next' - 1
      BY <1>0, <2>1, <3>1, <3>2
    <3>7. kept' \subseteq reports' \cap Eligible
      BY <2>1, <3>1, <3>2 DEF AsanInv
    <3> QED
      BY <3>1, <3>4, <3>5, <3>6, <3>7 DEF AsanInv
  <2> QED
    BY <2>2, <2>3
<1>14. CASE UNCHANGED asanVars
  <2>1. UNCHANGED <<phase, next, attempted, crash, kept, dropped, reports>>
    BY <1>14 DEF asanVars
  <2>2. AsanTypeOK'
    BY <1>0, <1>14 DEF asanVars, AsanTypeOK
  <2>3. Decided'
    BY <2>1 DEF AsanInv, Decided
  <2>4. finding' = finding
    BY <2>1 DEF finding
  <2>5. (Working' <=> Working) /\ kept' \subseteq reports' \cap Eligible
    BY <2>1 DEF AsanInv
  <2> HIDE DEF Working
  <2> QED
    BY <2>1, <2>2, <2>3, <2>4, <2>5 DEF AsanInv
<1> QED
  BY <1>1, <1>2, <1>3, <1>4, <1>5, <1>6, <1>7, <1>8, <1>9, <1>10, <1>11, <1>12, <1>13, <1>14
     DEF AsanNext, Timed

LEMMA AsanInitially == AsanInit => AsanInv
<1> SUFFICES ASSUME AsanInit PROVE AsanInv
  OBVIOUS
<1>1. /\ 1 \in 1 .. Len(Verified) + 1 /\ 0 \in 0 .. Len(Verified) /\ 0 \in 0 .. MaxCommands
      /\ 1 .. (1 - 1) = {}
  BY List, AsanAssumption
<1>2. crash \in BOOLEAN
  BY DEF AsanInit
<1>3. AsanTypeOK
  BY <1>1, <1>2 DEF AsanInit, AsanTypeOK
<1>4. Decided
  BY <1>1 DEF AsanInit, Decided
<1> QED
  BY <1>3, <1>4 DEF AsanInit, AsanInv, Working

LEMMA AsanInvariant == AsanSpec => []AsanInv
  BY AsanInitially, AsanInductive, PTL DEF AsanSpec

-----------------------------------------------------------------------------
(* Every variable of the pass keeps its type.                                *)
THEOREM AsanTyped == AsanSpec => []AsanTypeOK
<1>1. AsanInv => AsanTypeOK
  BY DEF AsanInv
<1> QED
  BY <1>1, AsanInvariant, PTL

(* A finding leaves the pass only with a crash that was captured in its own  *)
(* attempts, and every other one is dropped, for every list of findings,     *)
(* every budget and whatever the planner and the commands do.                *)
THEOREM KeptHasCrash == AsanSpec => []CrashConfirmed
<1>1. AsanInv => CrashConfirmed
  <2> SUFFICES ASSUME AsanInv PROVE CrashConfirmed
    OBVIOUS
  <2>1. ASSUME phase = "over" PROVE dropped = Candidates \ kept
    <3>1. next = Len(Verified) + 1
      BY <2>1, List DEF AsanInv, AsanTypeOK
    <3>2. next - 1 = Len(Verified)
      BY <3>1, List
    <3>3. kept \cup dropped = Candidates /\ kept \cap dropped = {}
      BY <3>2, List DEF AsanInv, Decided, Candidates
    <3> QED
      BY <3>3
  <2> QED
    BY <2>1 DEF CrashConfirmed, AsanInv
<1> QED
  BY <1>1, AsanInvariant, PTL

(* No command of a reproduction runs past the deadline of its finding, for   *)
(* all timeouts, and however long the planning calls before it have taken.   *)
THEOREM CommandsInTime == AsanSpec => DeadlineKept
<1>1. AsanInv /\ [AsanNext]_asanVars =>
        [phase = "running" /\ commands' < commands => left' >= 0]_asanVars
  <2> SUFFICES ASSUME AsanInv, AsanNext, phase = "running", commands' < commands
               PROVE  left' >= 0
    OBVIOUS
  <2>1. commands \in Int /\ left \in Int /\ limit \in Int
    BY DEF AsanInv, AsanTypeOK
  <2>2. PICK d : RunCommand(d)
    BY <2>1 DEF AsanNext, Timed, NotTried, FirstTried, LaterTried, StartRepro, Done, BuildEvaluated,
                BuildFailed, AttemptFails, AttemptOver, ReproOver, BuildPlan, BuildCommand, ReproPlan,
                Drop
  <2>3. Min({limit, left}) <= left /\ Min({limit, left}) \in Int
    BY <2>1, MinOfTwo
  <2>4. d \in 0 .. Min({limit, left}) /\ left' = left - d
    BY <2>2 DEF RunCommand, RunWithin
  <2> QED
    BY <2>1, <2>3, <2>4
<1> QED
  BY <1>1, AsanInvariant, PTL DEF AsanSpec, DeadlineKept


-----------------------------------------------------------------------------
(* The launch of a command.                                                  *)

(* A client is given no credential but those of the configuration and the    *)
(* environment, so that what it needs can be said of the two alone.          *)
LEMMA CanPromptIs ==
  ASSUME given = GivenFor(cfg), NEW v \in Backends
  PROVE  CanPrompt(v) <=> PromptsWith(cfg, env, v)
<1>1. SdkKey # "none" <=> "sdk" \in cfg.keys \/ (Shared \cup {"SDK_API_KEY"}) \cap env # {}
  <2>1. given.keys = cfg.keys
    BY DEF GivenFor
  <2>2. (Shared \cup {"SDK_API_KEY"}) \cap env # {} <=>
          "SDK_API_KEY" \in env \/ Shared \cap env # {}
    OBVIOUS
  <2> QED
    BY <2>1, <2>2, Zenon DEF SdkKey
<1>2. OpenaiKey <=> "openai" \in cfg.keys \/ "OPENAI_API_KEY" \in env
  BY DEF OpenaiKey, GivenFor
<1> QED
  BY <1>1, <1>2 DEF Backends, CanPrompt, ClaudeFound, PromptsWith

LEMMA CanActIs ==
  ASSUME given = GivenFor(cfg), NEW v \in Backends, NEW tools
  PROVE  CanAct(v, tools) <=> ActsWith(cfg, env, v, tools)
<1>1. CanPrompt(v) <=> PromptsWith(cfg, env, v)
  BY CanPromptIs
<1>2. Shared \cup {"SDK_API_KEY"} = {"SDK_API_KEY"} \cup Shared
  OBVIOUS
<1>3. CASE v = "sdk"
  BY <1>1, <1>3 DEF CanAct, Implements, ActsWith, AgentKey
<1>4. CASE v = "codex"
  BY <1>1, <1>4 DEF CanAct, Implements, ActsWith
<1>5. CASE v = "cli" \/ v = "openai"
  BY <1>1, <1>5 DEF CanAct, Implements, ActsWith
<1> QED
  BY <1>3, <1>4, <1>5 DEF Backends

(* A machine keeps its programs and packages, so that what was vouched for   *)
(* holds on.                                                                 *)
LEMMA WithKeeps ==
  ASSUME NEW c, NEW e, NEW v, NEW tools,
         machine'.path = machine.path, machine'.installed = machine.installed
  PROVE  /\ PromptsWith(c, e, v)' <=> PromptsWith(c, e, v)
         /\ ActsWith(c, e, v, tools)' <=> ActsWith(c, e, v, tools)
  BY DEF PromptsWith, ActsWith

LEMMA Unvouched ==
  ASSUME LaunchInv, machine'.path = machine.path, machine'.installed = machine.installed,
         vouched' = vouched
  PROVE  \A v \in vouched' :
           /\ \A t \in ProbeTargets(v[1]) : PromptsWith(v[1], v[2], t.via)'
           /\ \A t \in AgenticTargets(v[1]) : ActsWith(v[1], v[2], t.via, t.tools)'
  BY WithKeeps DEF LaunchInv

Steps == {"start", "gate", "load", "overlay", "configure", "static", "check", "probe",
          "target", "run", "over"}

(* The configurations that are loaded, with what is beside them and over     *)
(* them, are configurations.                                                 *)
LEMMA LoadTyped ==
  ASSUME NEW p \in DOMAIN Configs
  PROVE  IsConfig(Load(p))
<1> DEFINE c == Configs[p]
<1>1. IsConfig(c)
  BY LaunchAssumption
<1>2. IsRoutes(Over(c.local, c.routes))
  BY <1>1 DEF IsConfig, IsRoutes, Over
<1> DEFINE r == IF "NO_LOCAL_CONFIG" \in env THEN c.routes ELSE Over(c.local, c.routes)
<1>3. IsRoutes(r)
  BY <1>1, <1>2 DEF IsConfig
<1>4. Load(p) = [routes |-> r, local |-> c.local, keys |-> c.keys, blocks |-> c.blocks,
                 explore |-> c.explore, inspect |-> c.inspect, auto |-> c.auto]
  <2>1. c = [routes |-> c.routes, local |-> c.local, keys |-> c.keys, blocks |-> c.blocks,
             explore |-> c.explore, inspect |-> c.inspect, auto |-> c.auto]
    BY <1>1 DEF IsConfig
  <2>2. Load(p) = [c EXCEPT !.routes = r]
    BY DEF Load
  <2> HIDE DEF c, r
  <2> QED
    BY <2>1, <2>2
<1> HIDE DEF r
<1> QED
  BY <1>1, <1>3, <1>4 DEF IsConfig

LEMMA OverlayTyped ==
  ASSUME NEW c, IsConfig(c)
  PROVE  IsConfig(WithOverlay(c))
<1>1. Overlay \subseteq Tools
  BY LaunchAssumption
<1>2. WithOverlay(c) =
        [routes |-> c.routes, local |-> c.local, keys |-> c.keys, blocks |-> c.blocks,
         explore |-> c.explore \cup Overlay, inspect |-> c.inspect, auto |-> c.auto]
  BY DEF IsConfig, WithOverlay
<1> QED
  BY <1>1, <1>2 DEF IsConfig

(* configure_backends gives the clients what the configuration has.          *)
LEMMA ConfiguredIs ==
  ASSUME ConfigureBackends, step = "configure" => given = NothingGiven
  PROVE  given' = GivenFor(cfg)
<1>1. given.keys \cup cfg.keys = cfg.keys
  BY DEF ConfigureBackends, NothingGiven
<1> QED
  BY <1>1, Zenon DEF ConfigureBackends, Configure, GivenFor

(* What the probe asks.                                                      *)
LEMMA TargetsTyped ==
  ASSUME NEW c, IsConfig(c)
  PROVE  /\ \A t \in ProbeTargets(c) : t.via \in Backends
         /\ \A t \in AgenticTargets(c) : t.via \in Backends /\ t.tools \subseteq Tools
<1>1. \A t \in ProbeTargets(c) : t.via \in Backends
  BY DEF ProbeTargets, IsConfig, IsRoutes
<1>2. \A r \in AgenticRoles : RoleTools(c, r) \subseteq Tools
  BY DEF AgenticRoles, RoleTools, IsConfig, Tools, LocalTools
<1>3. \A t \in AgenticTargets(c) : t.via \in Backends /\ t.tools \subseteq Tools
  BY <1>2 DEF AgenticTargets, IsConfig, IsRoutes
<1> QED
  BY <1>1, <1>3

(* The process is over, and nothing but its exit code and manifest is new.   *)
Leaves == step' = "over" /\ UNCHANGED <<process, probing, lasting, made>>
          /\ code' \in {0, 1, 2, 130} /\ manifest'.code \in {0, 1, 2, 130}

LEMMA ExitTyped ==
  ASSUME LaunchTypeOK, NEW c \in {0, 1, 2, 130}, Exit(c)
  PROVE  step' = "over" /\ code' \in {0, 1, 2, 130} /\ manifest'.code \in {0, 1, 2, 130}
  BY DEF Exit, LaunchTypeOK

LEMMA LeavesIs ==
  ASSUME LaunchTypeOK,
         ConfigMissing \/ OverlayMissing \/ PreflightFails \/ Blocked \/ TargetMissing
           \/ ScanEnds \/ Interrupt
  PROVE  Leaves
<1>1. CASE ConfigMissing
  <2>1. \/ step' = "over" /\ code' = 1 /\ UNCHANGED manifest
        \/ Exit(2)
    BY <1>1, Zenon DEF ConfigMissing
  <2>2. UNCHANGED <<process, probing, lasting, made>>
    BY <1>1 DEF ConfigMissing
  <2>3. CASE Exit(2)
    BY <2>2, <2>3, ExitTyped DEF Leaves
  <2>4. CASE step' = "over" /\ code' = 1 /\ UNCHANGED manifest
    BY <2>2, <2>4 DEF Leaves, LaunchTypeOK
  <2> QED
    BY <2>1, <2>3, <2>4
<1>2. CASE OverlayMissing \/ TargetMissing
  BY <1>2, ExitTyped DEF OverlayMissing, TargetMissing, Leaves
<1>3. CASE PreflightFails \/ Blocked
  BY <1>3, ExitTyped DEF PreflightFails, Blocked, Leaves
<1>4. CASE ScanEnds
  BY <1>4, ExitTyped DEF ScanEnds, Leaves
<1>5. CASE Interrupt
  BY <1>5, ExitTyped DEF Interrupt, Leaves
<1> QED
  BY <1>1, <1>2, <1>3, <1>4, <1>5

LEMMA LaunchTypeInductive ==
  LaunchInv /\ [LaunchNext]_launchVars => LaunchTypeOK'
<1> SUFFICES ASSUME LaunchInv, [LaunchNext]_launchVars PROVE LaunchTypeOK'
  OBVIOUS
<1>0. LaunchTypeOK
  BY DEF LaunchInv
<1> USE DEF process, probing, lasting
<1>1. ASSUME NEW c \in Commands, Launched(c) PROVE LaunchTypeOK'
  <2>1. IsMachine(machine) /\ machine.exported \subseteq Variables
    BY <1>0 DEF LaunchTypeOK, IsMachine
  <2>2. launches + 1 \in 0 .. MaxLaunches
    BY <1>0, <1>1, LaunchAssumption DEF LaunchTypeOK, Launched
  <2> QED
    BY <1>0, <1>1, <2>1, <2>2 DEF LaunchTypeOK, Launched, NothingGiven
<1>2. CASE LoadDotenv
  <2>1. machine.dotenv \subseteq Variables
    BY <1>0 DEF LaunchTypeOK, IsMachine
  <2>2. env' \subseteq Variables
    BY <1>0, <1>2, <2>1 DEF LoadDotenv, LaunchTypeOK
  <2> QED
    BY <1>0, <1>2, <2>2 DEF LaunchTypeOK, LoadDotenv
<1>3. CASE TrustGate
  BY <1>0, <1>3 DEF LaunchTypeOK, TrustGate
<1>4. CASE LoadConfig
  <2>1. IsConfig(cfg')
    BY <1>4, LoadTyped DEF LoadConfig
  <2>2. survey' \in BOOLEAN
    BY <1>4 DEF LoadConfig
  <2> QED
    BY <1>0, <1>4, <2>1, <2>2 DEF LaunchTypeOK, LoadConfig
<1>5. CASE Leaves
  BY <1>0, <1>5 DEF LaunchTypeOK, Leaves
<1>6. CASE ApplyOverlay
  <2>1. IsConfig(cfg')
    BY <1>0, <1>6, OverlayTyped DEF ApplyOverlay, LaunchTypeOK
  <2> QED
    BY <1>0, <1>6, <2>1 DEF LaunchTypeOK, ApplyOverlay
<1>7. CASE ConfigureBackends
  <2>1. command.what \in {"scan", "doctor", "test", "remediate"}
    BY <1>0, <1>7, LaunchAssumption DEF LaunchInv, LaunchTypeOK, ConfigureBackends, IsCommand, Idle
  <2>2. given' = GivenFor(cfg)
    BY <1>7, ConfiguredIs DEF LaunchInv, ConfigureBackends
  <2>3. cfg.keys \subseteq {"sdk", "openai"}
    BY <1>0 DEF LaunchTypeOK, IsConfig
  <2>4. given' \in [keys : SUBSET {"sdk", "openai"}, fallback : BOOLEAN]
    BY <2>2, <2>3 DEF GivenFor
  <2>5. step' \in Steps
    BY <1>7, <2>1 DEF ConfigureBackends, Steps
  <2> QED
    BY <1>0, <1>7, <2>4, <2>5 DEF LaunchTypeOK, ConfigureBackends, Steps
<1>8. CASE Preflight \/ Doctor
  <2>1. /\ \A t \in prompts' : t.via \in Backends
        /\ \A t \in tries' : t.via \in Backends /\ t.tools \subseteq Tools
    BY <1>0, <1>8, TargetsTyped DEF Preflight, Doctor, StartProbe, LaunchTypeOK
  <2> QED
    BY <1>0, <1>8, <2>1 DEF LaunchTypeOK, Preflight, Doctor, StartProbe
<1>9. ASSUME NEW write \in BOOLEAN, Setup(write) PROVE LaunchTypeOK'
  <2>1. IsMachine(machine')
    <3>1. CASE machine' = machine
      BY <1>0, <3>1 DEF LaunchTypeOK
    <3>2. CASE machine' = [machine EXCEPT !.dotenvAt = machine.cwd,
                             !.dotenv = IF machine.gateway THEN {"BASE_URL"} ELSE {}]
      <4>1. IsMachine(machine)
        BY <1>0 DEF LaunchTypeOK
      <4>2. machine' =
              [exported |-> machine.exported,
               dotenv |-> IF machine.gateway THEN {"BASE_URL"} ELSE {},
               dotenvAt |-> machine.cwd, cwd |-> machine.cwd, path |-> machine.path,
               installed |-> machine.installed, jwt |-> machine.jwt, gateway |-> machine.gateway]
        BY <3>2, <4>1 DEF IsMachine
      <4> QED
        BY <4>1, <4>2 DEF IsMachine, Variables
    <3> QED
      BY <1>9, <3>1, <3>2, Zenon DEF Setup
  <2>2. step' = "over" /\ code' \in {0, 1, 2, 130} /\ manifest'.code \in {0, 1, 2, 130}
    BY <1>0, <1>9, ExitTyped DEF Setup
  <2>3. UNCHANGED <<process, probing, vouched, launches, made>>
    BY <1>9 DEF Setup
  <2> QED
    BY <1>0, <2>1, <2>2, <2>3 DEF LaunchTypeOK
<1>10. ASSUME NEW refused \in BOOLEAN, AskModel(refused) \/ TryAgent(refused)
       PROVE  LaunchTypeOK'
  <2>1. ok' \in BOOLEAN
    BY <1>10, Zenon DEF AskModel, TryAgent
  <2> QED
    BY <1>0, <1>10, <2>1 DEF LaunchTypeOK, AskModel, TryAgent
<1>11. ASSUME NEW role \in ModelRoles, NEW refused \in BOOLEAN, StageCall(role, refused)
       PROVE  LaunchTypeOK'
  BY <1>0, <1>11 DEF LaunchTypeOK, StageCall
<1>12. CASE Probed
  <2>1. /\ step' \in {"over", "target"} /\ code' \in {0, 1, 2, 130}
        /\ manifest'.code \in {0, 1, 2, 130}
    <3>1. CASE Exit(1) \/ Exit(0)
      BY <1>0, <3>1, ExitTyped
    <3>2. CASE step' = "target" /\ UNCHANGED <<code, manifest>>
      BY <1>0, <3>2 DEF LaunchTypeOK
    <3> QED
      BY <1>12, <3>1, <3>2, Zenon DEF Probed
  <2> QED
    BY <1>0, <1>12, <2>1 DEF LaunchTypeOK, Probed
<1>13. CASE OpenTarget
  BY <1>0, <1>13 DEF LaunchTypeOK, OpenTarget
<1>14. CASE UNCHANGED launchVars
  BY <1>0, <1>14 DEF LaunchTypeOK, launchVars
<1> QED
  BY <1>0, <1>1, <1>2, <1>3, <1>4, <1>5, <1>6, <1>7, <1>8, <1>9, <1>10, <1>11, <1>12, <1>13,
     <1>14, LeavesIs DEF LaunchNext

(* What is said of the probe and of the stages, in a step that changes none  *)
(* of what it depends on.                                                    *)
LEMMA SameProcess ==
  ASSUME UNCHANGED <<machine, command, env, cfg, given, survey>>
  PROVE  /\ \A v : CanPrompt(v)' <=> CanPrompt(v)
         /\ \A v, tools : CanAct(v, tools)' <=> CanAct(v, tools)
         /\ \A r : Ready(r)' <=> Ready(r)
         /\ Called' = Called
  BY DEF CanPrompt, CanAct, Implements, ClaudeFound, SdkKey, OpenaiKey, AgentKey, Ready, RouteOf,
     Called

(* A step of the process that calls nobody and goes no further than to the   *)
(* probe keeps the invariant if it keeps the types and what is given.        *)
LEMMA BeforeProbe ==
  ASSUME LaunchInv, LaunchTypeOK', made' = {}, vouched' = vouched,
         machine'.path = machine.path, machine'.installed = machine.installed,
         step' \in {"start", "gate", "load", "overlay", "configure"} => given' = NothingGiven,
         step' \in {"gate", "load", "overlay", "configure"} => command'.what # "setup",
         \/ step' \in {"check", "probe", "target", "run"}
         \/ step' = "static" /\ command'.what = "doctor"
         => given' = GivenFor(cfg)',
         step' = "probe" => prompts' = ProbeTargets(cfg)' /\ tries' = AgenticTargets(cfg)'
  PROVE  LaunchInv'
<1>1. step' = "probe" =>
        ProbeTargets(cfg)' \ prompts' = {} /\ AgenticTargets(cfg)' \ tries' = {}
  OBVIOUS
<1> QED
  BY <1>1, Unvouched DEF LaunchInv

(* A process that leaves or only moves on from the probe keeps what its      *)
(* stages have found.                                                        *)
LEMMA AfterProbe ==
  ASSUME LaunchInv, LaunchTypeOK', UNCHANGED <<process, machine, vouched, made>>,
         step' \in {"over", "target", "run"},
         made # {} => step' # "target",
         step' \in {"target", "run"} => step \in {"probe", "target", "run"}
  PROVE  LaunchInv'
<1> USE DEF process
<1>1. /\ \A r : Ready(r)' <=> Ready(r)
      /\ Called' = Called
  BY SameProcess
<1>2. GivenFor(cfg)' = GivenFor(cfg)
  BY DEF GivenFor, Sole, Vias
<1> QED
  BY <1>1, <1>2, Unvouched DEF LaunchInv

LEMMA ProbeKeeps ==
  ASSUME LaunchInv, LaunchTypeOK', NEW refused \in BOOLEAN,
         AskModel(refused) \/ TryAgent(refused)
  PROVE  LaunchInv'
<1> USE DEF process, probing, lasting
<1>1. /\ UNCHANGED <<machine, command, env, cfg, given, survey, step, made, vouched>>
      /\ step = "probe"
  BY DEF AskModel, TryAgent
<1>2. /\ \A v : CanPrompt(v)' <=> CanPrompt(v)
      /\ \A v, tools : CanAct(v, tools)' <=> CanAct(v, tools)
  BY <1>1, SameProcess
<1>3. GivenFor(cfg)' = GivenFor(cfg) /\ UNCHANGED <<ProbeTargets(cfg), AgenticTargets(cfg)>>
  BY <1>1 DEF GivenFor, Sole, Vias, ProbeTargets, AgenticTargets, RoleTools
<1>4. ok' => /\ \A t \in ProbeTargets(cfg) \ prompts' : CanPrompt(t.via)
             /\ \A t \in AgenticTargets(cfg) \ tries' : CanAct(t.via, t.tools)
  <2>1. CASE AskModel(refused)
    <3>1. /\ prompts' = prompts \ {First(prompts)} /\ tries' = tries
          /\ ok' => ok /\ CanPrompt(First(prompts).via)
      BY <2>1, Zenon DEF AskModel
    <3> QED
      BY <1>1, <3>1 DEF LaunchInv
  <2>2. CASE TryAgent(refused)
    <3>1. /\ tries' = tries \ {First(tries)} /\ prompts' = prompts
          /\ ok' => ok /\ CanAct(First(tries).via, First(tries).tools)
      BY <2>2, Zenon DEF TryAgent
    <3> QED
      BY <1>1, <3>1 DEF LaunchInv
  <2> QED
    BY <2>1, <2>2
<1>5. ok' => /\ \A t \in ProbeTargets(cfg)' \ prompts' : CanPrompt(t.via)'
             /\ \A t \in AgenticTargets(cfg)' \ tries' : CanAct(t.via, t.tools)'
  BY <1>2, <1>3, <1>4
<1>6. made = {}
  BY <1>1 DEF LaunchInv
<1> QED
  BY <1>1, <1>3, <1>5, <1>6, Unvouched DEF LaunchInv

LEMMA ProbedKeeps ==
  ASSUME LaunchInv, LaunchTypeOK', Probed
  PROVE  LaunchInv'
<1> USE DEF process, probing, lasting
<1>1. /\ UNCHANGED <<machine, command, env, cfg, given, survey, made>>
      /\ step = "probe" /\ prompts = {} /\ tries = {} /\ made = {} /\ given = GivenFor(cfg)
      /\ vouched' = IF ok THEN vouched \cup {<<cfg, env>>} ELSE vouched
  BY DEF Probed, LaunchInv
<1>2. step' \in {"over", "target"}
  BY Zenon DEF Probed, Exit
<1>3. /\ IsConfig(cfg)
      /\ \A t \in ProbeTargets(cfg) : t.via \in Backends
      /\ \A t \in AgenticTargets(cfg) : t.via \in Backends
  BY TargetsTyped DEF LaunchInv, LaunchTypeOK
<1>4. ok => /\ \A t \in ProbeTargets(cfg) : PromptsWith(cfg, env, t.via)
            /\ \A t \in AgenticTargets(cfg) : ActsWith(cfg, env, t.via, t.tools)
  BY <1>1, <1>3, CanPromptIs, CanActIs DEF LaunchInv
<1>5. \A v \in vouched' :
        /\ \A t \in ProbeTargets(v[1]) : PromptsWith(v[1], v[2], t.via)
        /\ \A t \in AgenticTargets(v[1]) : ActsWith(v[1], v[2], t.via, t.tools)
  <2> SUFFICES ASSUME NEW v \in vouched'
               PROVE  /\ \A t \in ProbeTargets(v[1]) : PromptsWith(v[1], v[2], t.via)
                      /\ \A t \in AgenticTargets(v[1]) : ActsWith(v[1], v[2], t.via, t.tools)
    OBVIOUS
  <2>1. CASE v \in vouched
    BY <2>1 DEF LaunchInv
  <2>2. CASE v \notin vouched
    <3>1. ok /\ v = <<cfg, env>>
      BY <1>1, <2>2
    <3> QED
      BY <1>4, <3>1
  <2> QED
    BY <2>1, <2>2
<1>6. \A v \in vouched' :
        /\ \A t \in ProbeTargets(v[1]) : PromptsWith(v[1], v[2], t.via)'
        /\ \A t \in AgenticTargets(v[1]) : ActsWith(v[1], v[2], t.via, t.tools)'
  BY <1>1, <1>5, WithKeeps
<1>7. GivenFor(cfg)' = GivenFor(cfg)
  BY <1>1 DEF GivenFor, Sole, Vias
<1> QED
  BY <1>1, <1>2, <1>6, <1>7 DEF LaunchInv

LEMMA StageKeeps ==
  ASSUME LaunchInv, LaunchTypeOK', NEW role \in ModelRoles, NEW refused \in BOOLEAN,
         StageCall(role, refused)
  PROVE  LaunchInv'
<1> USE DEF process, probing, lasting
<1>1. /\ UNCHANGED <<machine, command, env, cfg, given, survey, step, vouched>>
      /\ step = "run"
  BY DEF StageCall
<1>2. /\ \A r : Ready(r)' <=> Ready(r)
      /\ Called' = Called
  BY <1>1, SameProcess
<1>3. GivenFor(cfg)' = GivenFor(cfg)
  BY <1>1 DEF GivenFor, Sole, Vias
<1>4. role \in Called
  BY DEF StageCall, IsNext, NextRoles
<1>5. \A c \in made' : c.went = "unready" => c.role \in Called /\ ~Ready(c.role)
  BY <1>4 DEF StageCall, LaunchInv
<1> QED
  BY <1>1, <1>2, <1>3, <1>5, Unvouched DEF LaunchInv

LEMMA LaunchInductive == LaunchInv /\ [LaunchNext]_launchVars => LaunchInv'
<1> SUFFICES ASSUME LaunchInv, [LaunchNext]_launchVars PROVE LaunchInv'
  OBVIOUS
<1>0. LaunchTypeOK /\ LaunchTypeOK'
  BY LaunchTypeInductive DEF LaunchInv
<1> USE DEF process, probing, lasting
<1>1. ASSUME NEW c \in Commands, Launched(c) PROVE LaunchInv'
  BY <1>0, <1>1, BeforeProbe DEF Launched
<1>2. CASE LoadDotenv
  <2>1. made = {} /\ given = NothingGiven
    BY <1>2 DEF LoadDotenv, LaunchInv
  <2>2. \/ command.what = "setup" /\ step' = "static"
        \/ command.what # "setup" /\ step' \in {"gate", "load"}
    BY <1>2, Zenon DEF LoadDotenv
  <2> QED
    BY <1>0, <1>2, <2>1, <2>2, BeforeProbe DEF LoadDotenv
<1>3. CASE TrustGate
  BY <1>0, <1>3, BeforeProbe DEF TrustGate, LaunchInv
<1>4. CASE LoadConfig
  BY <1>0, <1>4, BeforeProbe DEF LoadConfig, LaunchInv
<1>5. CASE ApplyOverlay
  BY <1>0, <1>5, BeforeProbe DEF ApplyOverlay, LaunchInv
<1>6. CASE ConfigureBackends
  <2>1. given' = GivenFor(cfg)
    BY <1>6, ConfiguredIs DEF LaunchInv
  <2>2. GivenFor(cfg)' = GivenFor(cfg)
    BY <1>6 DEF ConfigureBackends, GivenFor, Sole, Vias
  <2>3. command.what \in {"scan", "doctor", "test", "remediate"}
    BY <1>0, <1>6, LaunchAssumption DEF LaunchInv, LaunchTypeOK, ConfigureBackends, IsCommand, Idle
  <2>4. made = {} /\ step' \in {"target", "check", "static", "run"}
    BY <1>6, <2>3 DEF ConfigureBackends, LaunchInv
  <2> QED
    BY <1>0, <1>6, <2>1, <2>2, <2>4, BeforeProbe DEF ConfigureBackends
<1>7. CASE Preflight \/ Doctor
  <2>1. /\ made = {} /\ given = GivenFor(cfg)
        /\ UNCHANGED <<machine, command, cfg, given, vouched, made>>
        /\ step' = "probe" /\ prompts' = ProbeTargets(cfg) /\ tries' = AgenticTargets(cfg)
    BY <1>7 DEF Preflight, Doctor, StartProbe, LaunchInv
  <2>2. GivenFor(cfg)' = GivenFor(cfg) /\ UNCHANGED <<ProbeTargets(cfg), AgenticTargets(cfg)>>
    BY <2>1 DEF GivenFor, Sole, Vias, ProbeTargets, AgenticTargets, RoleTools
  <2> QED
    BY <1>0, <2>1, <2>2, BeforeProbe
<1>8. ASSUME NEW write \in BOOLEAN, Setup(write) PROVE LaunchInv'
  <2>1. machine'.path = machine.path /\ machine'.installed = machine.installed
    <3>1. machine = [exported |-> machine.exported, dotenv |-> machine.dotenv,
                     dotenvAt |-> machine.dotenvAt, cwd |-> machine.cwd, path |-> machine.path,
                     installed |-> machine.installed, jwt |-> machine.jwt,
                     gateway |-> machine.gateway]
      BY <1>0 DEF LaunchTypeOK, IsMachine
    <3> QED
      BY <1>8, <3>1 DEF Setup
  <2>2. made = {} /\ step' = "over"
    BY <1>8 DEF Setup, Exit, LaunchInv
  <2> QED
    BY <1>0, <1>8, <2>1, <2>2, BeforeProbe DEF Setup
<1>9. CASE Leaves
  BY <1>0, <1>9, AfterProbe DEF Leaves
<1>10. CASE OpenTarget
  BY <1>0, <1>10, AfterProbe DEF OpenTarget
<1>11. CASE UNCHANGED launchVars
  <2>1. /\ \A v : CanPrompt(v)' <=> CanPrompt(v)
        /\ \A v, tools : CanAct(v, tools)' <=> CanAct(v, tools)
        /\ \A r : Ready(r)' <=> Ready(r)
        /\ Called' = Called
    BY <1>11, SameProcess DEF launchVars
  <2>2. GivenFor(cfg)' = GivenFor(cfg) /\ UNCHANGED <<ProbeTargets(cfg), AgenticTargets(cfg)>>
    BY <1>11 DEF launchVars, GivenFor, Sole, Vias, ProbeTargets, AgenticTargets, RoleTools
  <2> QED
    BY <1>0, <1>11, <2>1, <2>2, Unvouched DEF LaunchInv, launchVars
<1> QED
  BY <1>0, <1>1, <1>2, <1>3, <1>4, <1>5, <1>6, <1>7, <1>8, <1>9, <1>10, <1>11, LeavesIs,
     ProbeKeeps, ProbedKeeps, StageKeeps DEF LaunchNext

LEMMA LaunchInitially == LaunchInit => LaunchInv
<1> SUFFICES ASSUME LaunchInit PROVE LaunchInv
  OBVIOUS
<1>1. IsMachine(machine) /\ IsConfig(cfg) /\ 0 \in 0 .. MaxLaunches
  BY LaunchAssumption DEF LaunchInit
<1>2. LaunchTypeOK
  BY <1>1 DEF LaunchInit, LaunchTypeOK, NothingGiven, NoManifest
<1> QED
  BY <1>2 DEF LaunchInit, LaunchInv

LEMMA LaunchInvariant == LaunchSpec => []LaunchInv
  BY LaunchInitially, LaunchInductive, PTL DEF LaunchSpec

(* Whatever the machine, its configurations and the commands, a process is   *)
(* in a known step with a known environment and configuration, and exits     *)
(* with one of its four codes.                                               *)
THEOREM LaunchTyped == LaunchSpec => []LaunchTypeOK
<1>1. LaunchInv => LaunchTypeOK
  BY DEF LaunchInv
<1> QED
  BY <1>1, LaunchInvariant, PTL

(* A configuration that doctor, test or a preflight has passed in an         *)
(* environment is one in which no later call of a stage lacks a credential,  *)
(* a package or a program, except that dynamic verification and remediation  *)
(* may ask for tools which nobody has probed: the readiness checks and the   *)
(* clients, written apart from each other, agree for every configuration.    *)
THEOREM ProbeIsRight == LaunchSpec => []ProbeForetells
<1>1. LaunchInv => ProbeForetells
  <2> SUFFICES ASSUME LaunchInv, NEW c \in made, c.went = "unready", <<cfg, env>> \in vouched
               PROVE  /\ c.role \in Agents \ AgenticRoles
                      /\ ~Implements(RouteOf(c.role).via, RoleTools(cfg, c.role))
    BY DEF ProbeForetells
  <2> DEFINE r == c.role
             t == RouteOf(r)
  <2>1. /\ r \in Called /\ ~Ready(r) /\ given = GivenFor(cfg)
        /\ \A p \in ProbeTargets(cfg) : PromptsWith(cfg, env, p.via)
        /\ \A a \in AgenticTargets(cfg) : ActsWith(cfg, env, a.via, a.tools)
        /\ IsConfig(cfg)
    BY DEF LaunchInv, LaunchTypeOK
  <2>2. r \in DOMAIN cfg.routes \/ (r = "asan_verify" /\ "verify" \in DOMAIN cfg.routes)
    BY <2>1 DEF Called
  <2>3. t \in ProbeTargets(cfg) /\ t.via \in Backends
    <3>1. t \in ProbeTargets(cfg)
      BY <2>2 DEF RouteOf, ProbeTargets
    <3> QED
      BY <2>1, <3>1, TargetsTyped
  <2>4. CanPrompt(t.via)
    BY <2>1, <2>3, CanPromptIs
  <2>5. r \in Agents
    BY <2>1, <2>4 DEF Ready
  <2>6. r \notin AgenticRoles
    <3>1. SUFFICES ASSUME r \in AgenticRoles PROVE FALSE
      OBVIOUS
    <3>2. r \in DOMAIN cfg.routes /\ t = cfg.routes[r]
      BY <2>2, <3>1 DEF AgenticRoles, RouteOf
    <3>3. [id |-> t.id, via |-> t.via, tools |-> RoleTools(cfg, r)] \in AgenticTargets(cfg)
      BY <3>1, <3>2 DEF AgenticTargets
    <3>4. ActsWith(cfg, env, t.via, RoleTools(cfg, r))
      BY <2>1, <3>3
    <3> QED
      BY <2>1, <2>3, <2>5, <3>4, CanActIs DEF Ready
  <2>7. ~Implements(t.via, RoleTools(cfg, r))
    BY <2>1, <2>4, <2>5 DEF Ready, CanAct
  <2> QED
    BY <2>5, <2>6, <2>7
<1> QED
  BY <1>1, LaunchInvariant, PTL

-----------------------------------------------------------------------------
(* The launch, the calls and dynamic verification, side by side.             *)

(* What is over satisfies the invariant of its component.                    *)
LEMMA OverKept ==
  /\ CliOver => CliInv
  /\ HttpOver => HttpInv
  /\ AsanOver => AsanInv
  /\ LaunchOver => LaunchInv
<1>1. ASSUME CliOver PROVE CliInv
  <2> USE CallsAssumption, <1>1
  <2>1. unit \in DOMAIN Plan /\ unit = Len(Plan)
    BY Units DEF CliOver
  <2>2. 0 \in 0 .. MaxTransients /\ 0 \in 0 .. MaxTimeouts
    BY Units
  <2>3. result \in [Plan[unit] -> Outcomes]
    BY <2>1 DEF CliOver, Outcomes
  <2>4. CliTypeOK
    BY <2>1, <2>2, <2>3 DEF CliOver, CliTypeOK
  <2>5. ~Abandoned /\ NoSpuriousAbort
    BY <2>1 DEF CliOver, Abandoned, NoSpuriousAbort
  <2>6. MainOk
    BY <2>5, Zenon DEF CliOver, MainOk
  <2>7. \A w \in Workers : ThreadOk(w)
    BY DEF CliOver, ThreadOk, Killing
  <2> QED
    BY <2>4, <2>5, <2>6, <2>7 DEF CliInv
<1>2. ASSUME HttpOver PROVE HttpInv
  <2>1. /\ 0 \in 0 .. MostAttempts /\ Attempts \in Attempts .. MostAttempts /\ 0 \in 0 .. MaxTurns
        /\ 0 \in 0 .. MaxRetries /\ 0 \in 0 .. MaxShrinks /\ MaxCalls \in 0 .. MaxCalls
        /\ 0 <= Attempts
    BY Bounds
  <2>2. via \in Via
    BY <1>2, HttpAssumption DEF HttpOver
  <2>3. <<>> \in Seq({"small", "large", "evicted"})
    OBVIOUS
  <2>4. HttpTypeOK
    BY <1>2, <2>1, <2>2, <2>3 DEF HttpOver, HttpTypeOK
  <2> QED
    BY <1>2, <2>1, <2>4 DEF HttpOver, HttpInv, CleanedRequestSent
<1>3. ASSUME AsanOver PROVE AsanInv
  <2>1. Len(Verified) \in Nat /\ Candidates = {Verified[i] : i \in 1 .. Len(Verified)}
    BY List DEF Candidates
  <2>2. /\ Len(Verified) + 1 \in 1 .. Len(Verified) + 1 /\ 0 \in 0 .. Len(Verified)
        /\ 0 \in 0 .. MaxCommands
    BY <2>1, AsanAssumption
  <2>3. crash \in BOOLEAN
    BY <1>3 DEF AsanOver
  <2>4. AsanTypeOK
    BY <1>3, <2>2, <2>3 DEF AsanOver, AsanTypeOK
  <2>5. next - 1 = Len(Verified)
    BY <1>3, <2>1 DEF AsanOver
  <2> QED
    BY <1>3, <2>1, <2>4, <2>5 DEF AsanOver, AsanInv, Working, Decided
<1>4. ASSUME LaunchOver PROVE LaunchInv
  <2>1. IsMachine(machine) /\ IsConfig(cfg) /\ MaxLaunches \in 0 .. MaxLaunches
    BY <1>4, LaunchAssumption DEF LaunchOver
  <2>2. LaunchTypeOK
    BY <1>4, <2>1 DEF LaunchOver, LaunchTypeOK, NothingGiven, NoManifest
  <2> QED
    BY <1>4, <2>2 DEF LaunchOver, LaunchInv
<1> QED
  BY <1>1, <1>2, <1>3, <1>4

BackendsInv == CliInv /\ HttpInv /\ AsanInv /\ LaunchInv

(* The components share nothing, so that each keeps its own invariant        *)
(* whatever the others do.                                                   *)
LEMMA BackendsInvariant == FairSpec => []BackendsInv
<1>1. Init => BackendsInv
  <2>1. HttpInit => HttpInv
    BY HttpInitially
  <2>2. LaunchInit => LaunchInv
    BY LaunchInitially
  <2> QED
    BY <2>1, <2>2, CliInitially, AsanInitially, OverKept DEF Init, BackendsInv
<1>2. BackendsInv /\ [Next]_vars => BackendsInv'
  <2> SUFFICES ASSUME BackendsInv, [Next]_vars PROVE BackendsInv'
    OBVIOUS
  <2>1. /\ [CliNext]_cliVars /\ [HttpNext]_httpVars
        /\ [AsanNext]_asanVars /\ [LaunchNext]_launchVars
    BY DEF Next, vars
  <2> QED
    BY <2>1, CliInductive, HttpInductive, AsanInductive, LaunchInductive DEF BackendsInv
<1> QED
  BY <1>1, <1>2, PTL DEF FairSpec

(* Every variable of the launch, the calls and dynamic verification keeps    *)
(* its type, for every plan, retry limit, machine and configuration.         *)
THEOREM BackendsTyped == FairSpec => []TypeOK
<1>1. BackendsInv => TypeOK
  BY DEF BackendsInv, TypeOK, CliInv, HttpInv, AsanInv, LaunchInv
<1> QED
  BY <1>1, BackendsInvariant, PTL

=============================================================================
