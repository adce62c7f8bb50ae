------------------------------ MODULE CliCalls ------------------------------
(***************************************************************************)
(* Model calls that run a command-line agent as a child process            *)
(* (backends/claude_cli.py, backends/codex.py), made by the thread pools   *)
(* of S4 and S6 or, when their trace is streamed, by the main thread       *)
(* itself.  A unit is one pool's work for one repository of a batch; an    *)
(* interrupt or the guardrail gate aborts it while children are being      *)
(* started, waited for, timed out and retried.                             *)
(*                                                                         *)
(* The text a child prints is abstracted to the fields the code branches   *)
(* on.  A second Ctrl-C, while the first is being handled, is left out.    *)
(***************************************************************************)
EXTENDS Naturals, Sequences, FiniteSets

CONSTANTS
  Workers,        \* the threads of a pool
  Plan,           \* the units, each a set of jobs
  Replies,        \* what a child may have printed when it exits
  Gate,           \* how many blocked calls abort a pool
  MaxTransients,  \* _RL_MAX_RETRIES
  MaxTimeouts     \* _TIMEOUT_MAX_RETRIES

Jobs == UNION {Plan[u] : u \in DOMAIN Plan}
ReplyType == [rc : {0, 1}, shape : {"result", "cut", "raw"},
              status : {"none", "busy", "denied"},
              says : {"answer", "nothing", "busy", "cap", "refusal"}]

ASSUME CallsAssumption ==
  /\ Workers # {} /\ Plan \in Seq(SUBSET Jobs) /\ Len(Plan) > 0
  /\ Jobs \subseteq [id : Nat, via : {"cli", "codex"}, stream : BOOLEAN]
  /\ Replies \subseteq ReplyType
  /\ Gate \in Nat \ {0} /\ MaxTransients \in Nat /\ MaxTimeouts \in Nat

VARIABLES
  unit, main, cause, queued, victims,  \* the main thread and its futures
  flag, live,                          \* claude_cli._ABORT and _LIVE
  pc, job, child, reply,               \* of each thread: where it is, and its child
  transients, timeouts,                \* the retries of the call it makes
  result                               \* what became of each job of the unit

mainVars == <<unit, main, cause, queued, victims>>
threadVars == <<pc, job, child, reply, transients, timeouts>>
cliVars == <<mainVars, flag, live, threadVars, result>>

NoJob == [id |-> 0, via |-> "none", stream |-> FALSE]
NoReply == [rc |-> 0, shape |-> "raw", status |-> "none", says |-> "none"]
Outcomes == {"none", "ok", "empty", "guardrail", "error", "aborted", "timeout", "cancelled",
             "abandoned"}

(* The threads on which the unit's jobs run: a pool, or the main thread.     *)
Solo == \E j \in Plan[unit] : j.stream
Threads == IF Solo THEN {CHOOSE w \in Workers : TRUE} ELSE Workers

CliTypeOK ==
  /\ unit \in DOMAIN Plan
  /\ main \in {"collect", "flagged", "killing", "drain", "over"}
  /\ cause \in {"none", "gate", "interrupt"}
  /\ queued \subseteq Jobs /\ victims \subseteq Workers
  /\ flag \in BOOLEAN /\ live \subseteq Workers
  /\ pc \in [Workers -> {"idle", "enter", "spawn", "register", "loop", "wait",
                         "reap", "classify", "backoff"}]
  /\ job \in [Workers -> Jobs \cup {NoJob}]
  /\ child \in [Workers -> {"none", "running", "exited", "killed"}]
  /\ reply \in [Workers -> ReplyType \cup {NoReply}]
  /\ transients \in [Workers -> 0 .. MaxTransients]
  /\ timeouts \in [Workers -> 0 .. MaxTimeouts]
  /\ result \in [Plan[unit] -> Outcomes]

CliInit ==
  /\ unit = 1 /\ main = "collect" /\ cause = "none" /\ queued = Plan[1] /\ victims = {}
  /\ flag = FALSE /\ live = {}
  /\ pc = [w \in Workers |-> "idle"]
  /\ job = [w \in Workers |-> NoJob]
  /\ child = [w \in Workers |-> "none"]
  /\ reply = [w \in Workers |-> NoReply]
  /\ transients = [w \in Workers |-> 0]
  /\ timeouts = [w \in Workers |-> 0]
  /\ result = [j \in Plan[1] |-> "none"]

-----------------------------------------------------------------------------
(* Reading what a child printed.                                             *)

(* The flag and the table a call looks at: each backend has its own, and     *)
(* nothing ever sets codex's.                                                *)
Aborted(w) == flag /\ job[w].via = "cli"

(* claude: by the terminal result event when there is one, by the text       *)
(* otherwise.  codex: by the text.                                           *)
Transient(j, r) ==
  IF j.via = "cli" /\ r.shape = "result"
    THEN r.status = "busy" \/ (r.status = "none" /\ r.says = "busy")
    ELSE r.says = "busy"

(* A usage cap is not waited for.  codex knows none.                         *)
HardCap(j, r) == j.via = "cli" /\ r.says = "cap"

(* What prompt and agentic make of the call's last reply.                    *)
Verdict(j, r) ==
  CASE r.rc # 0 -> "error"
    [] r.rc = 0 /\ j.via = "cli" /\ r.says = "refusal" /\ r.shape = "result" -> "guardrail"
    [] r.rc = 0 /\ r.says = "nothing" -> "empty"
    [] OTHER -> "ok"

(* A killed child has printed part of its output.                            *)
Partial == {r \in Replies : r.rc # 0 /\ r.shape # "result"}

-----------------------------------------------------------------------------
(* One call.                                                                 *)

Finish(w, outcome) ==
  /\ result' = [result EXCEPT ![job[w]] = outcome]
  /\ pc' = [pc EXCEPT ![w] = "idle"]
  /\ job' = [job EXCEPT ![w] = NoJob]
  /\ reply' = [reply EXCEPT ![w] = NoReply]
  /\ transients' = [transients EXCEPT ![w] = 0]
  /\ timeouts' = [timeouts EXCEPT ![w] = 0]

Goto(w, label) ==
  /\ pc' = [pc EXCEPT ![w] = label]
  /\ UNCHANGED <<job, reply, transients, timeouts, result>>

(* A thread of the pool takes the job that was submitted first.              *)
Take(w, j) ==
  /\ main # "over" /\ w \in Threads /\ pc[w] = "idle"
  /\ j \in queued /\ \A k \in queued : j.id <= k.id
  /\ queued' = queued \ {j}
  /\ job' = [job EXCEPT ![w] = j]
  /\ pc' = [pc EXCEPT ![w] = "enter"]
  /\ UNCHANGED <<unit, main, cause, victims, flag, live, child, reply, transients,
                 timeouts, result>>

(* prompt and agentic look at the flag once, before they build the command.  *)
Enter(w) ==
  /\ pc[w] = "enter"
  /\ IF Aborted(w) THEN Finish(w, "aborted") ELSE Goto(w, "spawn")
  /\ UNCHANGED <<mainVars, flag, live, child>>

Spawn(w) ==
  /\ pc[w] = "spawn"
  /\ \/ Goto(w, "register") /\ child' = [child EXCEPT ![w] = "running"]
     \/ Finish(w, "error") /\ UNCHANGED child        \* the command cannot be run
  /\ UNCHANGED <<mainVars, flag, live>>

(* A bug: the child is waited for without being registered.                  *)
WaitUnregistered(w) ==
  /\ pc[w] = "register"
  /\ Goto(w, IF job[w].stream THEN "wait" ELSE "loop")
  /\ UNCHANGED <<mainVars, flag, live, child>>

Register(w) ==
  /\ pc[w] = "register"
  /\ live' = live \cup {w}
  /\ Goto(w, IF job[w].stream THEN "wait" ELSE "loop")
  /\ UNCHANGED <<mainVars, flag, child>>

(* A bug: the loop looks at the flag only after a first wait.                *)
HeartbeatUnchecked(w) ==
  /\ pc[w] = "loop"
  /\ Goto(w, "wait")
  /\ UNCHANGED <<mainVars, flag, live, child>>

(* The head of the heartbeat loop.                                           *)
Heartbeat(w) ==
  /\ pc[w] = "loop"
  /\ IF Aborted(w)
       THEN /\ Finish(w, "aborted")
            /\ child' = [child EXCEPT ![w] = "none"] /\ live' = live \ {w}
       ELSE Goto(w, "wait") /\ UNCHANGED <<child, live>>
  /\ UNCHANGED <<mainVars, flag>>

(* communicate gives up after heartbeat_interval, and the loop turns.        *)
StillRunning(w) ==
  /\ pc[w] = "wait" /\ ~job[w].stream /\ child[w] = "running"
  /\ Goto(w, "loop")
  /\ UNCHANGED <<mainVars, flag, live, child>>

ChildExits(w, r) ==
  /\ child[w] = "running" /\ pc[w] # "idle"
  /\ child' = [child EXCEPT ![w] = "exited"]
  /\ reply' = [reply EXCEPT ![w] = r]
  /\ UNCHANGED <<mainVars, flag, live, pc, job, transients, timeouts, result>>

(* The wait ends with the child, whoever ended it.                           *)
Reap(w) ==
  /\ pc[w] = "wait" /\ child[w] \in {"exited", "killed"}
  /\ child' = [child EXCEPT ![w] = "none"] /\ live' = live \ {w}
  /\ pc' = [pc EXCEPT ![w] = "classify"]
  /\ IF child[w] = "killed"
       THEN \E r \in Partial : reply' = [reply EXCEPT ![w] = r]
       ELSE UNCHANGED reply
  /\ UNCHANGED <<mainVars, flag, job, transients, timeouts, result>>

(* The deadline of a call.  claude kills the child and tries once more,      *)
(* unless aborted.  codex kills it and gives up; while it streams it only    *)
(* forgets it, and leaving Popen's context waits for its end.                *)
TimesOut(w) ==
  /\ pc[w] = "wait" /\ child[w] = "running"
  /\ live' = live \ {w}
  /\ \/ /\ job[w].via = "cli" /\ child' = [child EXCEPT ![w] = "none"]
        /\ IF flag \/ timeouts[w] >= MaxTimeouts
             THEN Finish(w, "timeout")
             ELSE /\ pc' = [pc EXCEPT ![w] = "spawn"]
                  /\ timeouts' = [timeouts EXCEPT ![w] = @ + 1]
                  /\ UNCHANGED <<job, reply, transients, result>>
     \/ /\ job[w].via = "codex" /\ ~job[w].stream
        /\ child' = [child EXCEPT ![w] = "none"] /\ Finish(w, "timeout")
     \/ /\ job[w].via = "codex" /\ job[w].stream
        /\ Goto(w, "reap") /\ UNCHANGED child
  /\ UNCHANGED <<mainVars, flag>>

LeavePopen(w) ==
  /\ pc[w] = "reap" /\ child[w] = "exited"
  /\ child' = [child EXCEPT ![w] = "none"]
  /\ Finish(w, "timeout")
  /\ UNCHANGED <<mainVars, flag, live>>

(* _run_with_retry.                                                          *)
Classify(w) ==
  /\ pc[w] = "classify"
  /\ LET j == job[w]
         r == reply[w]
     IN IF r.rc # 0 /\ ~HardCap(j, r) /\ transients[w] < MaxTransients /\ Transient(j, r)
          THEN Goto(w, "backoff")
          ELSE Finish(w, Verdict(j, r))
  /\ UNCHANGED <<mainVars, flag, live, child>>

(* The flag is looked at before each five seconds of sleep, never after the  *)
(* last ones.                                                                *)
Backoff(w) ==
  /\ pc[w] = "backoff"
  /\ \/ Aborted(w) /\ Finish(w, "aborted")
     \/ /\ pc' = [pc EXCEPT ![w] = "spawn"]
        /\ transients' = [transients EXCEPT ![w] = @ + 1]
        /\ reply' = [reply EXCEPT ![w] = NoReply]
        /\ UNCHANGED <<job, timeouts, result>>
  /\ UNCHANGED <<mainVars, flag, live, child>>

-----------------------------------------------------------------------------
(* The main thread: as_completed, the two ways out of it, and the batch.     *)

(* Ctrl-C, or enough blocked calls for the pool's gate (whose other condition *)
(* is the pool's own); cli.abort sets the flag first.                        *)
Abort(c) ==
  /\ main = "collect" /\ ~Solo
  /\ \/ c = "interrupt"
     \/ c = "gate" /\ Cardinality({j \in Plan[unit] : result[j] = "guardrail"}) >= Gate
  /\ cause' = c /\ flag' = TRUE /\ main' = "flagged"
  /\ UNCHANGED <<unit, queued, victims, live, threadVars, result>>

(* The table of claude's children is copied under its lock.                  *)
Snapshot ==
  /\ main = "flagged"
  /\ victims' = {w \in live : job[w].via = "cli"} /\ main' = "killing"
  /\ UNCHANGED <<unit, cause, queued, flag, live, threadVars, result>>

Kill(w) ==
  /\ main = "killing" /\ w \in victims
  /\ victims' = victims \ {w}
  /\ child' = [child EXCEPT ![w] = IF @ = "running" THEN "killed" ELSE @]
  /\ UNCHANGED <<unit, main, cause, queued, flag, live, pc, job, reply, transients,
                 timeouts, result>>

(* shutdown(wait=False, cancel_futures=True), then shutdown(wait=True).      *)
Cancel ==
  /\ main = "killing" /\ victims = {}
  /\ result' = [j \in Plan[unit] |-> IF j \in queued THEN "cancelled" ELSE result[j]]
  /\ queued' = {} /\ main' = "drain"
  /\ UNCHANGED <<unit, cause, victims, flag, live, threadVars>>

AllCollected ==
  /\ main = "collect" /\ \A j \in Plan[unit] : result[j] # "none"
  /\ main' = "drain"
  /\ UNCHANGED <<unit, cause, queued, victims, flag, live, threadVars, result>>

(* A bug: the exception leaves the pool running.                             *)
DrainedAtOnce ==
  /\ main = "drain"
  /\ main' = "over"
  /\ UNCHANGED <<unit, cause, queued, victims, flag, live, threadVars, result>>

Drained ==
  /\ main = "drain" /\ \A w \in Workers : pc[w] = "idle"
  /\ main' = "over"
  /\ UNCHANGED <<unit, cause, queued, victims, flag, live, threadVars, result>>

(* A Ctrl-C that meets the main thread in a streamed call.  claude's child   *)
(* is killed; codex's is left to the SIGINT it may have had itself.          *)
InterruptInCall(w) ==
  /\ main = "collect" /\ Solo /\ w \in Threads /\ pc[w] = "wait"
  /\ flag' = (job[w].via = "cli" \/ flag)
  /\ cause' = "interrupt" /\ main' = "drain" /\ queued' = {}
  /\ live' = live \ {w}
  /\ \/ child' = [child EXCEPT ![w] = "none"] /\ Finish(w, "aborted")
     \/ job[w].via = "codex" /\ Finish(w, "abandoned") /\ UNCHANGED child
  /\ UNCHANGED <<unit, victims>>

(* A bug: the flag is left as the last unit left it.                         *)
NextUnitPoisoned ==
  /\ main = "over" /\ cause # "interrupt" /\ unit < Len(Plan)
  /\ unit' = unit + 1 /\ main' = "collect" /\ cause' = "none"
  /\ queued' = Plan[unit + 1] /\ result' = [j \in Plan[unit + 1] |-> "none"]
  /\ UNCHANGED <<victims, flag, live, threadVars>>

(* The batch goes on, except after a Ctrl-C, and resets the flag.            *)
NextUnit ==
  /\ main = "over" /\ cause # "interrupt" /\ unit < Len(Plan)
  /\ unit' = unit + 1 /\ main' = "collect" /\ cause' = "none"
  /\ queued' = Plan[unit + 1] /\ result' = [j \in Plan[unit + 1] |-> "none"]
  /\ flag' = FALSE
  /\ UNCHANGED <<victims, live, threadVars>>

Call(w) ==
  \/ Enter(w) \/ Spawn(w) \/ Register(w) \/ Heartbeat(w) \/ Reap(w) \/ LeavePopen(w)
  \/ Classify(w) \/ Backoff(w)

Main == Snapshot \/ (\E w \in Workers : Kill(w)) \/ Cancel \/ AllCollected \/ Drained

CliNext ==
  \/ \E w \in Workers :
       \/ \E j \in Jobs : Take(w, j)
       \/ Call(w) \/ StillRunning(w) \/ TimesOut(w) \/ InterruptInCall(w)
       \/ \E r \in Replies : ChildExits(w, r)
  \/ \E c \in {"gate", "interrupt"} : Abort(c)
  \/ Main \/ NextUnit

CliSpec == CliInit /\ [][CliNext]_cliVars

(* The code's own steps: no child is owed to exit, no deadline to expire.    *)
CliFairness ==
  /\ \A w \in Workers : WF_cliVars(Call(w))
  /\ WF_cliVars(Main)

CliFairSpec == CliSpec /\ CliFairness

-----------------------------------------------------------------------------
(* abort() and the start of a child race.  Once the abort has killed what it *)
(* found, a pool's child of claude that still runs is one whose thread has   *)
(* yet to look at the flag: none is being waited for (claude_cli.py:45-49).  *)
AbortReaches ==
  main = "drain" /\ cause # "none" /\ ~Solo =>
    \A w \in Workers :
      child[w] = "running" /\ job[w].via = "cli" => pc[w] \in {"register", "loop"}

(* When a unit is over nothing of it is left in the process: no busy thread, *)
(* no entry in the table and no child, but for the codex child that a Ctrl-C *)
(* abandoned.  The next repository's source may then be fetched and purged.  *)
UnitsApart ==
  main = "over" =>
    /\ live = {}
    /\ \A w \in Workers :
         /\ pc[w] = "idle"
         /\ child[w] = "running" => \E j \in Plan[unit] : result[j] = "abandoned"

(* An abort stops the unit it was meant for and no other: a job ends aborted *)
(* or cancelled only in a unit that was aborted (claude_cli.py:92-98).       *)
NoSpuriousAbort ==
  \A j \in Plan[unit] : result[j] \in {"aborted", "cancelled"} => cause # "none"

(* An aborted pool of claude calls ends although no child ever exits by      *)
(* itself and no deadline expires.                                           *)
AbortEnds ==
  (main = "flagged" /\ \A j \in Plan[unit] : j.via = "cli") ~> main = "over"

=============================================================================
