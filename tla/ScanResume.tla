----------------------------- MODULE ScanResume -----------------------------
(***************************************************************************)
(* Scans of one repository and their checkpoints (orchestrator/scan.py,    *)
(* checkpoints.py, store.py).  A session is one invocation of scan_repo:   *)
(* fresh or --resume, with or without streaming verification, and with a   *)
(* --stop-after step.  It can die at any point; the next session finds the *)
(* rows whose transactions were committed.  `vvaharness gc` may evict the  *)
(* run at any time, a payload may be too large to be persisted, and a row  *)
(* may be unreadable when it is loaded.                                    *)
(*                                                                         *)
(* A stage's result is abstracted to its lineage: which session computed   *)
(* each of the stages it was computed from.  The optional threat model is  *)
(* left out of lineages: a scan attaches whichever one it has.  Sessions   *)
(* do not overlap.                                                         *)
(***************************************************************************)
EXTENDS Naturals, Sequences

CONSTANTS
  MaxSessions,  \* the number of invocations
  MaxFaults,    \* how many times rows are lost
  Stops         \* the --stop-after values to try; "none" for a whole scan

Steps == {"s1", "s2", "s3", "s4", "static", "asan", "s7", "s8", "s9"}

StopChoices == {"s1", "s2", "s3", "s4", "s5", "s6", "s7", "s8", "s9", "none"}

ASSUME ScanAssumption == MaxSessions \in Nat /\ MaxFaults \in Nat /\ Stops \subseteq StopChoices

VARIABLES
  row,        \* the checkpoints table: the lineage stored for each step
  overlay,    \* the session that wrote step1.yaml, 0 when there is none
  session,    \* the current or latest session
  arg,        \* its options: resume, stream, stop
  at,         \* the stage it is in, "idle" between sessions
  phase,      \* what it does there
  val,        \* the results it holds
  used,       \* the session whose step1.yaml it applied
  streamed,   \* stream_result is not None
  since,      \* the latest fresh scan
  faults,     \* the number of times rows were lost
  torn,       \* a row was lost while others were kept, since the reset
  asanBegun   \* ASAN verification has begun, since the reset

session_ == <<session, arg, since>>
vars == <<row, overlay, session, arg, at, phase, val, used, streamed, since, faults,
          torn, asanBegun>>

Sessions == 1 .. MaxSessions
Lineages == SUBSET (Steps \X Sessions)
Nothing == [s \in Steps |-> {}]
Args == [resume : BOOLEAN, stream : BOOLEAN, stop : Stops]

TypeOK ==
  /\ row \in [Steps -> Lineages] /\ val \in [Steps -> Lineages]
  /\ overlay \in 0 .. MaxSessions /\ used \in 0 .. MaxSessions
  /\ session \in 0 .. MaxSessions /\ since \in 0 .. session
  /\ arg \in Args
  /\ at \in Steps \cup {"idle", "overlay", "s5", "found"}
  /\ phase \in {"load", "run", "save", "stream", "streamAsan", "saveStatic", "saveAsan"}
  /\ faults \in 0 .. MaxFaults
  /\ streamed \in BOOLEAN /\ torn \in BOOLEAN /\ asanBegun \in BOOLEAN

Init ==
  /\ row = Nothing /\ val = Nothing
  /\ overlay = 0 /\ used = 0
  /\ session = 0 /\ since = 0
  /\ arg \in Args
  /\ at = "idle" /\ phase = "load"
  /\ faults = 0
  /\ streamed = FALSE /\ torn = FALSE /\ asanBegun = FALSE

-----------------------------------------------------------------------------
(* The start of a session: register_run and, without --resume, reset_run.    *)

(* A bug: a fresh scan only overwrites the rows it reaches.                  *)
StartWithoutReset(a) ==
  /\ at = "idle" /\ session < MaxSessions
  /\ session' = session + 1 /\ arg' = a
  /\ at' = "overlay" /\ phase' = "load"
  /\ val' = Nothing /\ used' = 0 /\ streamed' = FALSE
  /\ since' = IF a.resume THEN since ELSE session + 1
  /\ UNCHANGED <<row, overlay, faults, torn, asanBegun>>

(* A bug: a rescan goes by the number of the run it replaces.                *)
StartUnregistered(a) ==
  /\ at = "idle" /\ session < MaxSessions
  /\ arg' = a
  /\ at' = "overlay" /\ phase' = "load"
  /\ val' = Nothing /\ used' = 0 /\ streamed' = FALSE
  /\ since' = session + 1 /\ row' = Nothing /\ torn' = FALSE /\ asanBegun' = FALSE
  /\ UNCHANGED <<session, overlay, faults>>

Start(a) ==
  /\ at = "idle" /\ session < MaxSessions
  /\ session' = session + 1 /\ arg' = a
  /\ at' = "overlay" /\ phase' = "load"
  /\ val' = Nothing /\ used' = 0 /\ streamed' = FALSE
  /\ IF a.resume
       THEN UNCHANGED <<row, since, torn, asanBegun>>
       ELSE row' = Nothing /\ since' = session + 1 /\ torn' = FALSE /\ asanBegun' = FALSE
  /\ UNCHANGED <<overlay, faults>>

(* --auto-step1: the overlay is a file of its own, outside the table.        *)
Overlay ==
  /\ at = "overlay"
  /\ \/ arg.resume /\ overlay # 0 /\ used' = overlay /\ UNCHANGED overlay
     \/ /\ ~(arg.resume /\ overlay # 0)
        /\ \/ used' = session /\ overlay' = session
           \/ UNCHANGED <<used, overlay>>         \* the survey failed
  /\ at' = "s1" /\ phase' = "load"
  /\ UNCHANGED <<row, session_, val, streamed, faults, torn, asanBegun>>

-----------------------------------------------------------------------------
(* load_ckpt and save_ckpt.                                                  *)

Found(s) == arg.resume /\ row[s] # {}

(* A row is lost, and those of other steps stay.                             *)
LoseOne == faults < MaxFaults /\ faults' = faults + 1 /\ torn' = TRUE

Kept == UNCHANGED <<faults, torn>>

Load(s) == Found(s) /\ val' = [val EXCEPT ![s] = row[s]] /\ Kept

(* No row, or one that does not validate.                                    *)
Miss(s) ==
  /\ UNCHANGED val
  /\ \/ ~Found(s) /\ Kept
     \/ Found(s) /\ LoseOne

(* One transaction, or nothing when the payload is too large.                *)
Persist(s) ==
  \/ row' = [row EXCEPT ![s] = val[s]] /\ Kept
  \/ UNCHANGED row /\ LoseOne

Inputs ==
  [s \in Steps |->
     CASE s = "s1" -> {}
       [] s = "s2" -> {"s1"}
       [] s = "s3" -> {"s1"}
       [] s = "s4" -> {"s1", "s3"}
       [] s = "static" -> {"s1", "s4"}
       [] s = "asan" -> {"static"}
       [] s = "s7" -> {"static", "asan"}
       [] s = "s8" -> {"s1", "s3", "s4", "s7"}
       [] s = "s9" -> {"s8"}]

Made(s) == {<<s, session>>} \cup UNION {val[t] : t \in Inputs[s]}

(* Where scan_repo goes after a stage, and where --stop-after ends it.       *)
Goto(stage, how) == at' = stage /\ phase' = how

Leave(stop, stage) ==
  IF arg.stop = stop THEN Goto("idle", "load") ELSE Goto(stage, "load")

Following ==
  [s \in {"s1", "s2", "s3", "s4", "s7", "s8"} |->
     CASE s = "s1" -> "s2" [] s = "s2" -> "s3" [] s = "s3" -> "s4"
       [] s = "s4" -> "found" [] s = "s7" -> "s8" [] s = "s8" -> "s9"]

Same == UNCHANGED <<overlay, session_, used>>

-----------------------------------------------------------------------------
(* Stages with a checkpoint of their own: s1, s2, s3, s4 (batch) and s8.     *)

Plain == {"s1", "s2", "s3", "s4", "s8"}

(* Streaming replaces s4 to s6 unless --stop-after forbids the spending.     *)
(* A bug: the flag alone decides.                                            *)
StreamingFlag == arg.stream

Streaming == arg.stream /\ arg.stop \notin {"s4", "s5"}

LoadStage(s) ==
  /\ at = s /\ phase = "load" /\ s \in Plain
  /\ \/ Load(s) /\ Leave(s, Following[s])
     \/ Miss(s) /\ at' = at /\ phase' = IF s = "s4" /\ Streaming THEN "stream" ELSE "run"
  /\ UNCHANGED <<row, streamed, asanBegun>> /\ Same

RunStage(s) ==
  /\ at = s /\ phase = "run" /\ s \in Steps
  /\ val' = [val EXCEPT ![s] = Made(s)]
  /\ Goto(s, "save")
  /\ asanBegun' = (asanBegun \/ s = "asan")
  /\ UNCHANGED <<row, streamed>> /\ Kept /\ Same

SaveStage(s) ==
  /\ at = s /\ phase = "save" /\ s \in Plain \cup {"s7"}
  /\ streamed = FALSE \/ s # "s4"
  /\ Persist(s)
  /\ Leave(s, Following[s])
  /\ UNCHANGED <<val, streamed, asanBegun>> /\ Same

(* A failed threat model is a warning: the scan goes on without it.          *)
ThreatModelFails ==
  /\ at = "s2" /\ phase = "run"
  /\ Leave("s2", "s3")
  /\ UNCHANGED <<row, val, streamed, faults, torn, asanBegun>> /\ Same

-----------------------------------------------------------------------------
(* Streaming: static and ASAN verification complete before anything is saved,*)
(* then three transactions, in the order of the stages.                      *)

StreamRun ==
  /\ at = "s4" /\ phase = "stream"
  /\ Goto("s4", "streamAsan")
  /\ asanBegun' = TRUE
  /\ UNCHANGED <<row, val, streamed>> /\ Kept /\ Same

StreamDone ==
  /\ at = "s4" /\ phase = "streamAsan"
  /\ LET s4 == Made("s4")
         static == {<<"static", session>>} \cup s4 \cup val["s1"]
     IN val' = [val EXCEPT !["s4"] = s4, !["static"] = static,
                           !["asan"] = {<<"asan", session>>} \cup static]
  /\ streamed' = TRUE
  /\ Goto("s4", "save")
  /\ UNCHANGED <<row, asanBegun>> /\ Kept /\ Same

(* A bug: the verdicts are saved before the findings they are about.         *)
StreamSaveSwapped ==
  /\ at = "s4" /\ streamed /\ phase \in {"save", "saveStatic", "saveAsan"}
  /\ \/ phase = "save" /\ Persist("static") /\ Goto("s4", "saveStatic")
     \/ phase = "saveStatic" /\ Persist("s4") /\ Goto("s4", "saveAsan")
     \/ phase = "saveAsan" /\ Persist("asan") /\ Goto("found", "load")
  /\ UNCHANGED <<val, streamed, asanBegun>> /\ Same

(* A bug: the raw findings of the audit are not saved at all.                *)
StreamSaveWithoutFindings ==
  /\ at = "s4" /\ streamed /\ phase \in {"save", "saveAsan"}
  /\ \/ phase = "save" /\ Persist("static") /\ Goto("s4", "saveAsan")
     \/ phase = "saveAsan" /\ Persist("asan") /\ Goto("found", "load")
  /\ UNCHANGED <<val, streamed, asanBegun>> /\ Same

StreamSave ==
  /\ at = "s4" /\ streamed /\ phase \in {"save", "saveStatic", "saveAsan"}
  /\ \/ phase = "save" /\ Persist("s4") /\ Goto("s4", "saveStatic")
     \/ phase = "saveStatic" /\ Persist("static") /\ Goto("s4", "saveAsan")
     \/ phase = "saveAsan" /\ Persist("asan") /\ Goto("found", "load")
  /\ UNCHANGED <<val, streamed, asanBegun>> /\ Same

-----------------------------------------------------------------------------
(* Stages 5 to 7, skipped as a whole when s7 is checkpointed.                *)

LoadDedup ==
  /\ at = "found"
  /\ \/ /\ Load("s7")
        /\ IF arg.stop \in {"s5", "s6", "s7"} THEN Goto("idle", "load")
                                              ELSE Goto("s8", "load")
     \/ /\ Miss("s7")
        /\ IF ~streamed THEN Goto("static", "load")
           ELSE IF arg.stop = "s6" THEN Goto("idle", "load")
           ELSE Goto("s7", "run")
  /\ UNCHANGED <<row, streamed, asanBegun>> /\ Same

LoadStatic ==
  /\ at = "static" /\ phase = "load"
  /\ \/ Load("static") /\ Leave("s5", "asan")
     \/ Miss("static") /\ Goto("s5", "run")
  /\ UNCHANGED <<row, streamed, asanBegun>> /\ Same

Prefilter ==
  /\ at = "s5"
  /\ IF arg.stop = "s5" THEN Goto("idle", "load") ELSE Goto("static", "run")
  /\ UNCHANGED <<row, val, streamed, faults, torn, asanBegun>> /\ Same

SaveStatic ==
  /\ at = "static" /\ phase = "save"
  /\ Persist("static")
  /\ Goto("asan", "load")
  /\ UNCHANGED <<val, streamed, asanBegun>> /\ Same

AfterAsan == IF arg.stop = "s6" THEN Goto("idle", "load") ELSE Goto("s7", "run")

LoadAsan ==
  /\ at = "asan" /\ phase = "load"
  /\ \/ Load("asan") /\ AfterAsan
     \/ Miss("asan") /\ Goto("asan", "run")
  /\ UNCHANGED <<row, streamed, asanBegun>> /\ Same

SaveAsan ==
  /\ at = "asan" /\ phase = "save"
  /\ Persist("asan")
  /\ AfterAsan
  /\ UNCHANGED <<val, streamed, asanBegun>> /\ Same

(* The name of the SARIF file has the time of this session, so a stored s9   *)
(* never matches a file on disk and the stage always runs.                   *)
EnterSarif ==
  /\ at = "s9" /\ phase = "load"
  /\ Goto("s9", "run")
  /\ UNCHANGED <<row, val, streamed, faults, torn, asanBegun>> /\ Same

SaveSarif ==
  /\ at = "s9" /\ phase = "save"
  /\ Persist("s9")
  /\ Goto("idle", "load")
  /\ UNCHANGED <<val, streamed, asanBegun>> /\ Same

-----------------------------------------------------------------------------
(* The environment.                                                          *)

(* An exception, a Ctrl-C or a crash ends the session where it is.           *)
Die ==
  /\ at # "idle"
  /\ Goto("idle", "load")
  /\ UNCHANGED <<row, val, streamed, faults, torn, asanBegun>> /\ Same

(* vvaharness gc, by path, by age or by rank, from another process.          *)
Evict ==
  /\ row # Nothing /\ faults < MaxFaults
  /\ row' = Nothing /\ faults' = faults + 1 /\ torn' = (at # "idle")
  /\ UNCHANGED <<at, phase, val, streamed, asanBegun>> /\ Same

Stage ==
  \/ Overlay \/ ThreatModelFails \/ LoadDedup \/ LoadStatic \/ Prefilter \/ SaveStatic
  \/ LoadAsan \/ SaveAsan \/ EnterSarif \/ SaveSarif
  \/ StreamRun \/ StreamDone \/ StreamSave
  \/ \E s \in Steps : LoadStage(s) \/ RunStage(s) \/ SaveStage(s)

Next == (\E a \in Args : Start(a)) \/ Stage \/ Die \/ Evict

Spec == Init /\ [][Next]_vars

-----------------------------------------------------------------------------
(* Properties.                                                               *)

Coherent(lineage) ==
  \A p, q \in lineage : p[1] = q[1] => p[2] = q[2]

(* Everything a session holds, its report included, was computed from one    *)
(* execution of each stage: verdicts of the findings that were audited, of   *)
(* the chunks that were planned.  It holds as long as no row was lost on its *)
(* own.                                                                      *)
CoherentReport ==
  at # "idle" /\ ~torn => Coherent(UNION {val[s] : s \in Steps})

(* "The only state a future --resume can see is this scan's": nothing older  *)
(* than the latest fresh scan is ever loaded.                                *)
OnlyThisScan ==
  at # "idle" => \A s \in Steps : \A p \in val[s] : p[2] >= since

(* Nothing beyond --stop-after is executed, on any path: batch, streaming,   *)
(* fresh, or resumed from checkpoints that go further.                       *)
Order == <<"s1", "s2", "s3", "s4", "s5", "static", "asan", "s7", "s8", "s9">>

Rank(s) == CHOOSE i \in DOMAIN Order : Order[i] = s

LastStage ==
  CASE arg.stop = "none" -> "s9" [] arg.stop = "s6" -> "asan" [] OTHER -> arg.stop

StopHonoured ==
  /\ phase = "run" => Rank(at) <= Rank(LastStage)
  /\ phase \in {"stream", "streamAsan"} => Rank("asan") <= Rank(LastStage)

(* A stage is executed only when neither it nor a later one is checkpointed: *)
(* no completed work is paid for again, none is left behind to be mixed in.  *)
(* The threat model and SARIF are repeated by design.                        *)
NothingRedone ==
  phase \in {"run", "stream"} /\ at \notin {"s2", "s9"} /\ ~torn =>
    \A t \in Steps : Rank(t) >= Rank(at) => row[t] = {}

(* "--resume can continue ASAN without repeating completed static            *)
(* verification": once ASAN verification has begun, static verification of   *)
(* the same scan is not started again.                                       *)
StaticNotRepeated ==
  phase = "stream" \/ (at = "static" /\ phase = "run") => ~asanBegun \/ torn

(* The overlay a session applies was derived by this scan, not by one a      *)
(* fresh scan has replaced.                                                  *)
OverlayOfThisScan == at # "idle" /\ used # 0 => used >= since
=============================================================================
