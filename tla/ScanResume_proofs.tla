------------------------- MODULE ScanResume_proofs --------------------------
(***************************************************************************)
(* Theorems about ScanResume, for any number of sessions, any number of    *)
(* lost rows and any set of --stop-after values.                           *)
(***************************************************************************)
EXTENDS ScanResume, TLAPS

(* A lineage that only names sessions since the latest fresh scan.           *)
Recent(lineage) == \A p \in lineage : p[2] >= since

(* A stage runs only in a session, and whatever is stored or held is recent, *)
(* between sessions too.                                                     *)
RecentInv ==
  /\ at # "idle" => session > 0
  /\ \A s \in Steps : Recent(row[s]) /\ Recent(val[s])

ScanInv == TypeOK /\ RecentInv

-----------------------------------------------------------------------------
(* What the moves of a session have in common.                               *)

(* The current session is one of them, and no older than the latest fresh    *)
(* scan.                                                                     *)
LEMMA CurrentSession ==
  ASSUME ScanInv, at # "idle"
  PROVE  /\ session \in Sessions /\ since \in Nat /\ session >= since
         /\ \A s \in Steps : {<<s, session>>} \in Lineages /\ Recent({<<s, session>>})
<1>1. session \in Sessions /\ since \in Nat /\ session >= since
  BY ScanAssumption DEF ScanInv, TypeOK, RecentInv, Sessions
<1> QED
  BY <1>1 DEF Lineages, Recent

(* Unions of lineages are lineages, and stay recent.                         *)
LEMMA Unions ==
  ASSUME NEW a \in Lineages, NEW b \in Lineages, Recent(a), Recent(b)
  PROVE  a \cup b \in Lineages /\ Recent(a \cup b)
  BY DEF Lineages, Recent

LEMMA MadeRecent ==
  ASSUME ScanInv, at # "idle", NEW s \in Steps
  PROVE  Made(s) \in Lineages /\ Recent(Made(s))
<1>1. {<<s, session>>} \in Lineages /\ Recent({<<s, session>>})
  BY CurrentSession
<1>2. Inputs[s] \subseteq Steps
  BY DEF Inputs, Steps
<1>3. \A t \in Inputs[s] : val[t] \in Lineages /\ Recent(val[t])
  BY <1>2 DEF ScanInv, TypeOK, RecentInv
<1>4. UNION {val[t] : t \in Inputs[s]} \in Lineages
  BY <1>3 DEF Lineages
<1>5. Recent(UNION {val[t] : t \in Inputs[s]})
  BY <1>3 DEF Recent
<1> QED
  BY <1>1, <1>4, <1>5, Unions DEF Made

(* Where a session is: every place it goes to is one of its stages.          *)
Stages == Steps \cup {"idle", "overlay", "s5", "found"}
Phases == {"load", "run", "save", "stream", "streamAsan", "saveStatic", "saveAsan"}

(* A step of a session that keeps to its stages, and changes what is stored  *)
(* or held only to a recent lineage.                                         *)
Sound ==
  /\ at # "idle" /\ at' \in Stages /\ phase' \in Phases
  /\ UNCHANGED <<session, arg, since>>
  /\ overlay' \in 0 .. MaxSessions /\ used' \in 0 .. MaxSessions
  /\ row' \in [Steps -> Lineages] /\ val' \in [Steps -> Lineages]
  /\ \A s \in Steps : Recent(row'[s]) /\ Recent(val'[s])
  /\ faults' \in 0 .. MaxFaults
  /\ streamed' \in BOOLEAN /\ torn' \in BOOLEAN /\ asanBegun' \in BOOLEAN

LEMMA SoundStep == ScanInv /\ Sound => ScanInv'
  BY DEF ScanInv, TypeOK, RecentInv, Sound, Recent, Stages, Phases

(* One value changes.                                                        *)
LEMMA HoldRecent ==
  ASSUME ScanInv, NEW s \in Steps, NEW l \in Lineages, Recent(l),
         val' = [val EXCEPT ![s] = l]
  PROVE  val' \in [Steps -> Lineages] /\ \A t \in Steps : Recent(val'[t])
  BY DEF ScanInv, TypeOK, RecentInv

LEMMA StoreRecent ==
  ASSUME ScanInv, NEW s \in Steps, NEW l \in Lineages, Recent(l),
         row' = [row EXCEPT ![s] = l]
  PROVE  row' \in [Steps -> Lineages] /\ \A t \in Steps : Recent(row'[t])
  BY DEF ScanInv, TypeOK, RecentInv

LEMMA LoseOneTyped == ScanInv /\ LoseOne => faults' \in 0 .. MaxFaults /\ torn' \in BOOLEAN
  BY ScanAssumption DEF ScanInv, TypeOK, LoseOne

LEMMA KeptTyped == ScanInv /\ Kept => faults' \in 0 .. MaxFaults /\ torn' \in BOOLEAN
  BY DEF ScanInv, TypeOK, Kept

(* Loading a row, missing it, or saving what is held keeps everything recent.*)
ValSound ==
  /\ val' \in [Steps -> Lineages] /\ \A t \in Steps : Recent(val'[t])
  /\ faults' \in 0 .. MaxFaults /\ torn' \in BOOLEAN

RowSound ==
  /\ row' \in [Steps -> Lineages] /\ \A t \in Steps : Recent(row'[t])
  /\ faults' \in 0 .. MaxFaults /\ torn' \in BOOLEAN

LEMMA LoadSound ==
  ASSUME ScanInv, NEW s \in Steps, Load(s) \/ Miss(s)
  PROVE  ValSound
<1>1. row[s] \in Lineages /\ Recent(row[s])
  BY DEF ScanInv, TypeOK, RecentInv
<1>2. val' \in [Steps -> Lineages] /\ \A t \in Steps : Recent(val'[t])
  <2>1. CASE Load(s)
    BY <1>1, <2>1, HoldRecent DEF Load
  <2>2. CASE Miss(s)
    BY <2>2 DEF Miss, ScanInv, TypeOK, RecentInv, Recent
  <2> QED
    BY <2>1, <2>2
<1> QED
  BY <1>2, LoseOneTyped, KeptTyped DEF Load, Miss, ValSound

LEMMA PersistSound ==
  ASSUME ScanInv, NEW s \in Steps, Persist(s)
  PROVE  RowSound
<1>1. val[s] \in Lineages /\ Recent(val[s])
  BY DEF ScanInv, TypeOK, RecentInv
<1>2. row' \in [Steps -> Lineages] /\ \A t \in Steps : Recent(row'[t])
  <2>1. CASE row' = [row EXCEPT ![s] = val[s]]
    BY <1>1, <2>1, StoreRecent
  <2>2. CASE UNCHANGED row
    BY <2>2 DEF ScanInv, TypeOK, RecentInv
  <2> QED
    BY <2>1, <2>2 DEF Persist
<1> QED
  BY <1>2, LoseOneTyped, KeptTyped DEF Persist, RowSound

-----------------------------------------------------------------------------
(* The stages.                                                               *)

(* What is not changed stays as typed and as recent as it was.               *)
LEMMA Unchanged ==
  ASSUME ScanInv
  PROVE  /\ UNCHANGED row => row' \in [Steps -> Lineages] /\ \A s \in Steps : Recent(row'[s])
         /\ UNCHANGED val => val' \in [Steps -> Lineages] /\ \A s \in Steps : Recent(val'[s])
         /\ UNCHANGED streamed => streamed' \in BOOLEAN
         /\ UNCHANGED asanBegun => asanBegun' \in BOOLEAN
         /\ Same => /\ UNCHANGED <<session, arg, since>>
                    /\ overlay' \in 0 .. MaxSessions /\ used' \in 0 .. MaxSessions
  BY DEF ScanInv, TypeOK, RecentInv, Same, session_

LEMMA FollowingStage == \A s \in Plain \cup {"s7"} : Following[s] \in Stages /\ s \in Steps
  BY DEF Plain, Following, Stages, Steps

LEMMA StageSound == ScanInv /\ Stage => Sound
<1> SUFFICES ASSUME ScanInv, Stage PROVE Sound
  OBVIOUS
<1> USE DEF Goto, Leave, Phases
<1>1. CASE Overlay
  <2>1. /\ at # "idle" /\ at' \in Stages /\ phase' \in Phases
        /\ UNCHANGED <<row, session, arg, since, val, streamed, faults, torn, asanBegun>>
    BY <1>1 DEF Overlay, Stages, Steps, session_
  <2>2. overlay' \in 0 .. MaxSessions /\ used' \in 0 .. MaxSessions
    BY <1>1 DEF Overlay, ScanInv, TypeOK
  <2> QED
    BY <2>1, <2>2, Unchanged DEF Sound, ScanInv, TypeOK
<1>2. ASSUME NEW s \in Steps, LoadStage(s) PROVE Sound
  <2>1. at # "idle" /\ at' \in Stages /\ phase' \in Phases
    BY <1>2, FollowingStage DEF LoadStage, Stages, Steps, Plain
  <2>2. ValSound
    BY <1>2, LoadSound DEF LoadStage
  <2> QED
    BY <1>2, <2>1, <2>2, Unchanged DEF LoadStage, ValSound, Sound
<1>3. ASSUME NEW s \in Steps, RunStage(s) PROVE Sound
  <2>1. at # "idle" /\ at' \in Stages /\ phase' \in Phases /\ asanBegun' \in BOOLEAN
    BY <1>3 DEF RunStage, Stages, Steps, ScanInv, TypeOK
  <2>2. val' \in [Steps -> Lineages] /\ \A t \in Steps : Recent(val'[t])
    BY <1>3, <2>1, MadeRecent, HoldRecent DEF RunStage
  <2> QED
    BY <1>3, <2>1, <2>2, Unchanged, KeptTyped DEF RunStage, Sound
<1>4. ASSUME NEW s \in Steps, SaveStage(s) PROVE Sound
  <2>1. at # "idle" /\ at' \in Stages /\ phase' \in Phases
    BY <1>4, FollowingStage DEF SaveStage, Stages, Steps, Plain
  <2>2. RowSound
    BY <1>4, PersistSound DEF SaveStage
  <2> QED
    BY <1>4, <2>1, <2>2, Unchanged DEF SaveStage, RowSound, Sound
<1>5. CASE ThreatModelFails \/ Prefilter \/ EnterSarif \/ StreamRun
  <2>1. at # "idle" /\ at' \in Stages /\ phase' \in Phases /\ asanBegun' \in BOOLEAN
    BY <1>5 DEF ThreatModelFails, Prefilter, EnterSarif, StreamRun, Stages, Steps, ScanInv,
                TypeOK
  <2>2. UNCHANGED <<row, val, streamed, faults, torn>> /\ Same
    BY <1>5 DEF ThreatModelFails, Prefilter, EnterSarif, StreamRun, Kept
  <2> QED
    BY <2>1, <2>2, Unchanged, KeptTyped DEF Sound, Kept
<1>6. CASE StreamDone
  <2> DEFINE s4 == Made("s4")
             static == {<<"static", session>>} \cup s4 \cup val["s1"]
             asan == {<<"asan", session>>} \cup static
  <2>1. at # "idle" /\ at' \in Stages /\ phase' \in Phases /\ streamed' \in BOOLEAN
    BY <1>6 DEF StreamDone, Stages, Steps
  <2>2. s4 \in Lineages /\ Recent(s4) /\ val["s1"] \in Lineages /\ Recent(val["s1"])
    BY <2>1, MadeRecent DEF Steps, ScanInv, TypeOK, RecentInv
  <2>3. /\ {<<"static", session>>} \in Lineages /\ Recent({<<"static", session>>})
        /\ {<<"asan", session>>} \in Lineages /\ Recent({<<"asan", session>>})
    BY <2>1, CurrentSession DEF Steps
  <2>4. static \in Lineages /\ Recent(static)
    BY <2>2, <2>3, Unions
  <2>5. asan \in Lineages /\ Recent(asan)
    BY <2>3, <2>4, Unions
  <2>6. val' = [val EXCEPT !["s4"] = s4, !["static"] = static, !["asan"] = asan]
    BY <1>6 DEF StreamDone
  <2>7. /\ val' \in [Steps -> Lineages]
        /\ \A t \in Steps : val'[t] \in {s4, static, asan, val[t]}
    <3> HIDE DEF s4, static, asan
    <3> QED
      BY <2>2, <2>4, <2>5, <2>6 DEF ScanInv, TypeOK, Steps
  <2>8. \A t \in Steps : Recent(val'[t])
    <3> HIDE DEF s4, static, asan
    <3> QED
      BY <2>2, <2>4, <2>5, <2>7 DEF ScanInv, RecentInv
  <2> QED
    BY <1>6, <2>1, <2>7, <2>8, Unchanged, KeptTyped DEF StreamDone, Sound
<1>7. CASE StreamSave
  <2>1. at # "idle" /\ at' \in Stages /\ phase' \in Phases
    BY <1>7 DEF StreamSave, Stages, Steps
  <2>2. RowSound
    BY <1>7, PersistSound DEF StreamSave, Steps
  <2> QED
    BY <1>7, <2>1, <2>2, Unchanged DEF StreamSave, RowSound, Sound
<1>8. CASE LoadDedup \/ LoadStatic \/ LoadAsan
  <2>1. at # "idle" /\ at' \in Stages /\ phase' \in Phases
    BY <1>8 DEF LoadDedup, LoadStatic, LoadAsan, AfterAsan, Stages, Steps
  <2>2. ValSound
    BY <1>8, LoadSound DEF LoadDedup, LoadStatic, LoadAsan, Steps
  <2>3. UNCHANGED <<row, streamed, asanBegun>> /\ Same
    BY <1>8 DEF LoadDedup, LoadStatic, LoadAsan
  <2> QED
    BY <2>1, <2>2, <2>3, Unchanged DEF ValSound, Sound
<1>9. CASE SaveStatic \/ SaveAsan \/ SaveSarif
  <2>1. at # "idle" /\ at' \in Stages /\ phase' \in Phases
    BY <1>9 DEF SaveStatic, SaveAsan, SaveSarif, AfterAsan, Stages, Steps
  <2>2. RowSound
    BY <1>9, PersistSound DEF SaveStatic, SaveAsan, SaveSarif, Steps
  <2>3. UNCHANGED <<val, streamed, asanBegun>> /\ Same
    BY <1>9 DEF SaveStatic, SaveAsan, SaveSarif
  <2> QED
    BY <2>1, <2>2, <2>3, Unchanged DEF RowSound, Sound
<1> QED
  BY <1>1, <1>2, <1>3, <1>4, <1>5, <1>6, <1>7, <1>8, <1>9 DEF Stage

-----------------------------------------------------------------------------
(* A fresh scan empties the table, a resume leaves the latest fresh scan     *)
(* what it was, and eviction only removes.                                   *)

LEMMA NothingRecent ==
  Nothing \in [Steps -> Lineages] /\ \A s \in Steps : Nothing[s] = {}
  BY DEF Nothing, Lineages

LEMMA ScanInductive == ScanInv /\ [Next]_vars => ScanInv'
<1> SUFFICES ASSUME ScanInv, [Next]_vars PROVE ScanInv'
  OBVIOUS
<1>1. ASSUME NEW a \in Args, Start(a) PROVE ScanInv'
  <2>1. /\ session' = session + 1 /\ session' \in 1 .. MaxSessions
        /\ since \in Nat /\ session \in Nat /\ since' \in 0 .. session'
        /\ arg' \in Args
    BY <1>1, ScanAssumption DEF Start, ScanInv, TypeOK
  <2>2. val' = Nothing /\ used' = 0 /\ streamed' = FALSE /\ UNCHANGED <<overlay, faults>>
    BY <1>1 DEF Start
  <2>3. /\ row' \in [Steps -> Lineages] /\ torn' \in BOOLEAN /\ asanBegun' \in BOOLEAN
        /\ \A s \in Steps : \A p \in row'[s] : p[2] >= since'
    <3>1. CASE a.resume
      BY <1>1, <3>1 DEF Start, ScanInv, TypeOK, RecentInv, Recent
    <3>2. CASE ~a.resume
      BY <1>1, <3>2, NothingRecent DEF Start
    <3> QED
      BY <3>1, <3>2
  <2>4. TypeOK'
    <3>1. /\ val' \in [Steps -> Lineages] /\ used' \in 0 .. MaxSessions
          /\ overlay' \in 0 .. MaxSessions /\ faults' \in 0 .. MaxFaults
      BY <2>2, NothingRecent, ScanAssumption DEF ScanInv, TypeOK
    <3>2. at' = "overlay" /\ phase' = "load"
      BY <1>1 DEF Start
    <3>3. session' \in 0 .. MaxSessions
      BY <2>1, ScanAssumption
    <3>4. streamed' \in BOOLEAN
      BY <2>2
    <3> QED
      BY <2>1, <2>3, <3>1, <3>2, <3>3, <3>4 DEF TypeOK
  <2>5. RecentInv'
    BY <2>1, <2>2, <2>3, NothingRecent DEF RecentInv, Recent
  <2> QED
    BY <2>4, <2>5 DEF ScanInv
<1>2. CASE Stage
  BY <1>2, StageSound, SoundStep
<1>3. CASE Die
  BY <1>3 DEF Die, Goto, Same, session_, ScanInv, TypeOK, RecentInv, Recent
<1>4. CASE Evict
  <2>1. /\ row' = Nothing /\ faults' \in 0 .. MaxFaults /\ torn' \in BOOLEAN
        /\ UNCHANGED <<overlay, session, arg, at, phase, val, used, streamed, since, asanBegun>>
    BY <1>4, ScanAssumption DEF Evict, Same, session_, ScanInv, TypeOK
  <2>2. TypeOK'
    BY <2>1, NothingRecent DEF ScanInv, TypeOK
  <2>3. RecentInv'
    BY <2>1, NothingRecent DEF ScanInv, RecentInv, Recent
  <2> QED
    BY <2>2, <2>3 DEF ScanInv
<1>5. CASE UNCHANGED vars
  BY <1>5 DEF vars, ScanInv, TypeOK, RecentInv, Recent
<1> QED
  BY <1>1, <1>2, <1>3, <1>4, <1>5 DEF Next

LEMMA ScanInitially == Init => ScanInv
<1> SUFFICES ASSUME Init PROVE ScanInv
  OBVIOUS
<1>1. streamed \in BOOLEAN /\ torn \in BOOLEAN /\ asanBegun \in BOOLEAN
  BY DEF Init
<1>2. TypeOK
  BY <1>1, NothingRecent, ScanAssumption DEF Init, TypeOK
<1>3. RecentInv
  BY NothingRecent DEF Init, RecentInv, Recent
<1> QED
  BY <1>2, <1>3 DEF ScanInv

LEMMA ScanInvariant == Spec => []ScanInv
  BY ScanInitially, ScanInductive, PTL DEF Spec

(* Every variable of a session and of the table keeps its type.              *)
THEOREM ScanTyped == Spec => []TypeOK
<1>1. ScanInv => TypeOK
  BY DEF ScanInv
<1> QED
  BY <1>1, ScanInvariant, PTL

(* No session ever holds a result that is older than the latest fresh scan,  *)
(* however many scans, resumes, crashes, evictions and lost rows there were. *)
THEOREM ResumeSeesThisScan == Spec => []OnlyThisScan
<1>1. ScanInv => OnlyThisScan
  BY DEF ScanInv, RecentInv, Recent, OnlyThisScan
<1> QED
  BY <1>1, ScanInvariant, PTL

-----------------------------------------------------------------------------
(* Where a session can be.                                                   *)

LEMMA Ranks ==
  /\ Rank("s1") = 1 /\ Rank("s2") = 2 /\ Rank("s3") = 3 /\ Rank("s4") = 4 /\ Rank("s5") = 5
  /\ Rank("static") = 6 /\ Rank("asan") = 7 /\ Rank("s7") = 8 /\ Rank("s8") = 9
  /\ Rank("s9") = 10
<1>1. DOMAIN Order = 1 .. 10
  BY DEF Order
<1>2. ASSUME NEW k \in 1 .. 10, NEW s, Order[k] = s, \A i \in 1 .. 10 : Order[i] = s => i = k
      PROVE  Rank(s) = k
  BY <1>1, <1>2 DEF Rank
<1>3. /\ Order[1] = "s1" /\ Order[2] = "s2" /\ Order[3] = "s3" /\ Order[4] = "s4"
      /\ Order[5] = "s5" /\ Order[6] = "static" /\ Order[7] = "asan" /\ Order[8] = "s7"
      /\ Order[9] = "s8" /\ Order[10] = "s9"
  BY DEF Order
<1>4. \A i \in 1 .. 10 : i \in {1, 2, 3, 4, 5, 6, 7, 8, 9, 10}
  OBVIOUS
<1> QED
  BY <1>2, <1>3, <1>4

(* The stops that end a scan before it comes to a place.                     *)
Before ==
  [s \in Stages |->
     CASE s \in {"idle", "overlay", "s1"} -> {}
       [] s = "s2" -> {"s1"}
       [] s = "s3" -> {"s1", "s2"}
       [] s = "s4" -> {"s1", "s2", "s3"}
       [] s \in {"found", "s5", "static"} -> {"s1", "s2", "s3", "s4"}
       [] s = "asan" -> {"s1", "s2", "s3", "s4", "s5"}
       [] s = "s7" -> {"s1", "s2", "s3", "s4", "s5", "s6"}
       [] s = "s8" -> {"s1", "s2", "s3", "s4", "s5", "s6", "s7"}
       [] s = "s9" -> {"s1", "s2", "s3", "s4", "s5", "s6", "s7", "s8"}]

FlowInv ==
  /\ at \in {"idle", "overlay", "found"} => phase = "load"
  /\ at = "s5" => phase = "run"
  /\ at = "s7" => phase \in {"run", "save"}
  /\ phase \in {"stream", "streamAsan", "saveStatic", "saveAsan"} => at = "s4"
  /\ phase \in {"saveStatic", "saveAsan"} => streamed
  /\ at = "s4" /\ streamed => phase \in {"save", "saveStatic", "saveAsan"}
  /\ at \in {"overlay", "s1", "s2", "s3", "static", "s5", "asan"} => ~streamed
  /\ at # "idle" => arg.stop \notin Before[at]
  /\ at = "static" /\ phase # "load" => arg.stop # "s5"
  /\ (at # "idle" /\ streamed) \/ phase \in {"stream", "streamAsan"} =>
       arg.stop \notin {"s1", "s2", "s3", "s4", "s5"}

LEMMA FlowKept == ScanInv /\ FlowInv /\ [Next]_vars => FlowInv'
<1> SUFFICES ASSUME ScanInv, FlowInv, [Next]_vars PROVE FlowInv'
  OBVIOUS
<1> USE DEF FlowInv, Goto, Leave, Before, Stages, Steps
<1>1. streamed \in BOOLEAN
  BY DEF ScanInv, TypeOK
<1>2. ASSUME NEW a \in Args, Start(a) PROVE FlowInv'
  BY <1>2 DEF Start
<1>3. CASE Overlay \/ ThreatModelFails
  BY <1>3 DEF Overlay, ThreatModelFails, session_, Same
<1>4. ASSUME NEW s \in Steps, LoadStage(s) PROVE FlowInv'
  BY <1>1, <1>4 DEF LoadStage, Same, session_, Plain, Following, Streaming
<1>5. ASSUME NEW s \in Steps, RunStage(s) PROVE FlowInv'
  BY <1>1, <1>5 DEF RunStage, Same, session_
<1>6. ASSUME NEW s \in Steps, SaveStage(s) PROVE FlowInv'
  BY <1>1, <1>6 DEF SaveStage, Same, session_, Plain, Following
<1>7. CASE StreamRun \/ StreamDone
  BY <1>1, <1>7 DEF StreamRun, StreamDone, Same, session_
<1>8. CASE StreamSave
  BY <1>1, <1>8 DEF StreamSave, Same, session_
<1>9. CASE LoadDedup
  BY <1>1, <1>9 DEF LoadDedup, Same, session_
<1>10. CASE LoadStatic \/ Prefilter \/ SaveStatic
  BY <1>1, <1>10 DEF LoadStatic, Prefilter, SaveStatic, Same, session_
<1>11. CASE LoadAsan \/ SaveAsan
  BY <1>1, <1>11 DEF LoadAsan, SaveAsan, AfterAsan, Same, session_
<1>12. CASE EnterSarif \/ SaveSarif
  BY <1>1, <1>12 DEF EnterSarif, SaveSarif, Same, session_
<1>13. CASE Die
  BY <1>13 DEF Die, Same, session_
<1>14. CASE Evict \/ UNCHANGED vars
  <2>1. UNCHANGED <<at, phase, streamed, arg>>
    BY <1>14 DEF Evict, Same, session_, vars
  <2> QED
    BY <2>1
<1> QED
  BY <1>2, <1>3, <1>4, <1>5, <1>6, <1>7, <1>8, <1>9, <1>10, <1>11, <1>12, <1>13, <1>14
     DEF Next, Stage

LEMMA FlowHolds == Spec => []FlowInv
<1>1. Init => FlowInv
  BY DEF Init, FlowInv
<1> QED
  BY <1>1, FlowKept, ScanInvariant, PTL DEF Spec

(* No session, fresh, resumed or streaming, executes a stage beyond the one  *)
(* that --stop-after names.                                                  *)
THEOREM StopRespected == Spec => []StopHonoured
<1>1. ScanInv /\ FlowInv => StopHonoured
  <2> SUFFICES ASSUME ScanInv, FlowInv PROVE StopHonoured
    OBVIOUS
  <2>1. at \in Stages /\ arg.stop \in StopChoices
    BY ScanAssumption DEF ScanInv, TypeOK, Stages, Args
  <2>2. ASSUME phase = "run" PROVE Rank(at) <= Rank(LastStage)
    BY <2>1, <2>2, Ranks DEF FlowInv, Before, Stages, Steps, StopChoices, LastStage
  <2>3. ASSUME phase \in {"stream", "streamAsan"} PROVE Rank("asan") <= Rank(LastStage)
    BY <2>1, <2>3, Ranks DEF FlowInv, StopChoices, LastStage
  <2> QED
    BY <2>2, <2>3 DEF StopHonoured
<1> QED
  BY <1>1, FlowHolds, ScanInvariant, PTL

-----------------------------------------------------------------------------
(* What the table has, as long as no row was lost on its own: the stages     *)
(* before the place of a session, and, once a stage is missed, none after.   *)

Place ==
  IF at = "overlay" THEN 1
  ELSE IF at = "found" THEN IF streamed THEN 8 ELSE 5
  ELSE IF phase = "saveStatic" THEN 6
  ELSE IF phase = "saveAsan" THEN 7
  ELSE Rank(at)

SavedUpTo(n) == \A t \in Steps \ {"s2"} : Rank(t) < n => row[t] # {}

NothingFrom(n) == \A t \in Steps : Rank(t) >= n => row[t] = {}

RowsInOrder == \A t \in Steps : row[t] # {} => SavedUpTo(Rank(t))

RowsAtPlace ==
  /\ SavedUpTo(Place)
  /\ ~arg.resume \/ (phase # "load" /\ at \notin {"s2", "s9"}) => NothingFrom(Place)
  /\ at \in {"static", "s5", "asan", "s7"} => NothingFrom(8)
  /\ at = "s2" /\ phase # "load" => row["s2"] = {}

RowsInv == ~torn => RowsInOrder /\ (at # "idle" => RowsAtPlace)

(* A value is made before it is saved, and none is held of a stage to come.  *)
Held ==
  IF at = "overlay" THEN 1
  ELSE IF at \in {"s4", "found"} /\ streamed THEN 8
  ELSE IF at = "found" THEN 5
  ELSE IF phase = "save" THEN Rank(at) + 1
  ELSE Rank(at)

ValsInv ==
  at # "idle" =>
    /\ phase = "save" => val[at] # {}
    /\ at = "s4" /\ streamed => val["s4"] # {} /\ val["static"] # {} /\ val["asan"] # {}
    /\ \A t \in Steps : Rank(t) >= Held => val[t] = {}

TableInv == ScanInv /\ FlowInv /\ RowsInv /\ ValsInv

LEMMA StepRank ==
  ASSUME NEW s \in Steps
  PROVE  Rank(s) \in 1 .. 10
  BY Ranks DEF Steps

LEMMA PlaceTyped ==
  ASSUME TableInv, at # "idle"
  PROVE  Place \in 1 .. 10 /\ (phase = "run" => Place = Rank(at))
<1>1. at \in Steps \cup {"overlay", "s5", "found"}
  BY DEF TableInv, ScanInv, TypeOK
<1> QED
  BY <1>1, StepRank, Ranks DEF Place, TableInv, FlowInv, Steps

(* A stage that is missing has none after it.                                *)
LEMMA MissingEnds ==
  ASSUME RowsInOrder, NEW s \in Steps \ {"s2"}, row[s] = {}
  PROVE  NothingFrom(Rank(s))
<1> SUFFICES ASSUME NEW t \in Steps, Rank(t) >= Rank(s), row[t] # {} PROVE FALSE
  BY DEF NothingFrom
<1>1. CASE t = s
  BY <1>1
<1>2. CASE t # s
  <2>1. Rank(s) < Rank(t)
    BY <1>2, Ranks DEF Steps
  <2> QED
    BY <2>1 DEF RowsInOrder, SavedUpTo
<1> QED
  BY <1>1, <1>2

(* What is missed is not in the table, unless a row was lost.                *)
LEMMA MissedRow ==
  ASSUME TableInv, at # "idle", NEW s \in Steps \ {"s2"}, Miss(s), ~torn', Place <= Rank(s)
  PROVE  ~torn /\ NothingFrom(Rank(s)) /\ UNCHANGED val
<1>1. ~Found(s) /\ ~torn /\ UNCHANGED val
  BY DEF Miss, Kept, LoseOne
<1>2. CASE ~arg.resume
  <2>1. NothingFrom(Place) /\ Place \in Nat
    BY <1>1, <1>2, PlaceTyped DEF TableInv, RowsInv, RowsAtPlace
  <2> QED
    BY <1>1, <1>2, <2>1, StepRank DEF NothingFrom
<1>3. CASE row[s] = {}
  BY <1>1, <1>3, MissingEnds DEF TableInv, RowsInv
<1> QED
  BY <1>1, <1>2, <1>3 DEF Found

(* A row that is written is the first that was missing.                      *)
LEMMA SavedInOrder ==
  ASSUME TableInv, at # "idle", NEW s \in Steps, Persist(s), val[s] # {}, ~torn',
         SavedUpTo(Rank(s))
  PROVE  /\ ~torn /\ RowsInOrder' /\ row' = [row EXCEPT ![s] = val[s]]
         /\ row'[s] # {} /\ \A t \in Steps \ {s} : row'[t] = row[t]
<1>1. ~torn /\ row' = [row EXCEPT ![s] = val[s]] /\ row \in [Steps -> Lineages]
  BY DEF Persist, Kept, LoseOne, TableInv, ScanInv, TypeOK
<1>2. row'[s] = val[s] /\ \A t \in Steps \ {s} : row'[t] = row[t]
  BY <1>1
<1>3. RowsInOrder
  BY <1>1 DEF TableInv, RowsInv
<1>4. ASSUME NEW t \in Steps, row'[t] # {}, NEW u \in Steps \ {"s2"}, Rank(u) < Rank(t)
      PROVE  row'[u] # {}
  BY <1>2, <1>3, <1>4 DEF RowsInOrder, SavedUpTo
<1> QED
  BY <1>1, <1>2, <1>4 DEF RowsInOrder, SavedUpTo

(* What a step keeps of the table when it does not write to it.              *)
LEMMA SameRows ==
  ASSUME UNCHANGED row
  PROVE  /\ RowsInOrder' <=> RowsInOrder
         /\ \A n : (SavedUpTo(n)' <=> SavedUpTo(n)) /\ (NothingFrom(n)' <=> NothingFrom(n))
  BY DEF RowsInOrder, SavedUpTo, NothingFrom

(* A step that loads, or misses, a row and goes on.                          *)
LEMMA LoadedRow ==
  ASSUME TableInv, NEW s \in Steps, Load(s)
  PROVE  /\ arg.resume /\ torn' = torn /\ (~torn => SavedUpTo(Rank(s)) /\ row[s] # {})
         /\ val' = [val EXCEPT ![s] = row[s]] /\ \A t \in Steps \ {s} : val'[t] = val[t]
  BY DEF Load, Found, Kept, TableInv, RowsInv, RowsInOrder, ScanInv, TypeOK

LEMMA LoadStageTable ==
  ASSUME TableInv, NEW s \in Steps, LoadStage(s)
  PROVE  RowsInv' /\ ValsInv'
<1>1. /\ at = s /\ phase = "load" /\ s \in Plain /\ UNCHANGED <<row, streamed, arg>>
  BY DEF LoadStage, Same, session_
<1>2. CASE Load(s) /\ Leave(s, Following[s])
  <2>1. /\ arg.resume /\ torn' = torn /\ (~torn => SavedUpTo(Rank(s)) /\ row[s] # {})
        /\ \A t \in Steps \ {s} : val'[t] = val[t]
    BY <1>2, LoadedRow
  <2>2. phase' = "load" /\ at' \in {"idle", Following[s]}
    BY <1>2 DEF Leave, Goto
  <2>3. CASE at' = "idle"
    BY <1>1, <2>1, <2>3, SameRows DEF RowsInv, ValsInv, TableInv
  <2>4. CASE at' = Following[s] /\ at' # "idle"
    <3>1. s # "s8" => ~streamed
      BY <1>1 DEF TableInv, FlowInv, Plain
    <3>2. Place' \in {Rank(s) + 1} /\ Held' = Place' /\ at' \in {"s2", "s3", "s4", "found", "s9"}
      BY <1>1, <2>2, <2>4, <3>1, Ranks DEF Plain, Following, Place, Held
    <3>3. ASSUME ~torn PROVE SavedUpTo(Place')
      BY <2>1, <3>2, <3>3, Ranks DEF SavedUpTo, Steps
    <3>4. RowsInv'
      BY <1>1, <2>1, <2>2, <3>2, <3>3, SameRows DEF RowsInv, RowsAtPlace, TableInv
    <3>5. \A t \in Steps : Rank(t) >= Rank(s) => val[t] = {}
      BY <1>1, <3>1 DEF TableInv, ValsInv, Held, Plain
    <3>6. \A t \in Steps : Rank(t) >= Held' => val'[t] = {}
      BY <2>1, <3>2, <3>5, Ranks DEF Steps
    <3>7. ValsInv'
      BY <1>1, <2>2, <2>4, <3>1, <3>2, <3>6 DEF ValsInv, Following, Plain
    <3> QED
      BY <3>4, <3>7
  <2> QED
    BY <2>2, <2>3, <2>4
<1>3. CASE Miss(s) /\ at' = at /\ phase' = IF s = "s4" /\ Streaming THEN "stream" ELSE "run"
  <2>1. phase' \in {"run", "stream"} /\ (phase' = "stream" => s = "s4") /\ UNCHANGED val
    BY <1>3 DEF Miss
  <2>2. s = "s4" => ~streamed
    BY <1>1 DEF TableInv, FlowInv
  <2>3. Place = Rank(s) /\ Place' = Rank(s) /\ Held = Rank(s) /\ Held' = Rank(s) /\ at # "idle"
    BY <1>1, <1>3, <2>1, <2>2 DEF Place, Held, Plain
  <2>4. ValsInv'
    BY <1>1, <1>3, <2>1, <2>2, <2>3 DEF ValsInv, TableInv
  <2>5. ASSUME ~torn' PROVE RowsInOrder' /\ RowsAtPlace'
    <3>1. ~torn /\ (~arg.resume \/ row[s] = {})
      BY <1>3, <2>5 DEF Miss, Found, Kept, LoseOne
    <3>2. RowsInOrder /\ SavedUpTo(Place) /\ (~arg.resume => NothingFrom(Place))
      BY <2>3, <3>1 DEF TableInv, RowsInv, RowsAtPlace
    <3>3. s # "s2" => NothingFrom(Rank(s))
      BY <1>3, <2>3, <2>5, MissedRow, StepRank
    <3>4. s = "s2" => row["s2"] = {}
      BY <2>3, <3>1, <3>2, StepRank DEF NothingFrom
    <3> QED
      BY <1>1, <1>3, <2>3, <3>2, <3>3, <3>4, SameRows DEF RowsAtPlace, Plain
  <2> QED
    BY <2>4, <2>5 DEF RowsInv
<1> QED
  BY <1>2, <1>3 DEF LoadStage

LEMMA RunStageTable ==
  ASSUME TableInv, NEW s \in Steps, RunStage(s)
  PROVE  RowsInv' /\ ValsInv'
<1>1. /\ at = s /\ phase = "run" /\ at' = s /\ phase' = "save" /\ val' = [val EXCEPT ![s] = Made(s)]
      /\ UNCHANGED <<row, streamed, arg, torn>>
  BY DEF RunStage, Same, session_, Goto, Kept
<1>2. at # "idle" /\ at \notin {"overlay", "found"} /\ (s = "s4" => ~streamed)
  BY <1>1 DEF Steps, TableInv, FlowInv
<1>3. Place = Rank(s) /\ Place' = Rank(s) /\ Held = Rank(s) /\ Held' = Rank(s) + 1
  BY <1>1, <1>2 DEF Place, Held
<1>4. val'[s] # {} /\ \A t \in Steps \ {s} : val'[t] = val[t]
  <2>1. val \in [Steps -> Lineages]
    BY DEF TableInv, ScanInv, TypeOK
  <2>2. <<s, session>> \in Made(s)
    BY DEF Made
  <2> QED
    BY <1>1, <2>1, <2>2
<1>5. ValsInv'
  <2>1. \A t \in Steps : Rank(t) >= Held' => val'[t] = {}
    BY <1>2, <1>3, <1>4, StepRank DEF TableInv, ValsInv
  <2> QED
    BY <1>1, <1>2, <1>4, <2>1 DEF ValsInv
<1>6. RowsInv'
  BY <1>1, <1>2, <1>3, SameRows DEF RowsInv, RowsAtPlace, TableInv
<1> QED
  BY <1>5, <1>6

LEMMA SaveStageTable ==
  ASSUME TableInv, NEW s \in Steps, SaveStage(s)
  PROVE  RowsInv' /\ ValsInv'
<1>1. /\ at = s /\ phase = "save" /\ s \in Plain \cup {"s7"} /\ (s = "s4" => ~streamed)
      /\ at' \in {"idle", Following[s]} /\ phase' = "load" /\ Persist(s)
      /\ UNCHANGED <<val, streamed, arg>>
  BY DEF SaveStage, Leave, Goto, Same, session_
<1>2. at # "idle" /\ Place = Rank(s) /\ Held = Rank(s) + 1 /\ (s \in {"s1", "s2", "s3", "s4"} => ~streamed)
  BY <1>1 DEF Place, Held, Plain, TableInv, FlowInv
<1>3. val[s] # {} /\ \A t \in Steps : Rank(t) > Rank(s) => val[t] = {}
  BY <1>1, <1>2, StepRank DEF TableInv, ValsInv
<1>4. ASSUME at' # "idle"
      PROVE  /\ Place' = Rank(s) + 1 /\ Held' = Place'
             /\ at' \in {"s2", "s3", "s4", "found", "s8", "s9"} /\ (at' = "s4" => ~streamed)
  BY <1>1, <1>2, <1>4, Ranks DEF Place, Held, Plain, Following
<1>5. ValsInv'
  <2>1. CASE at' = "idle"
    BY <2>1 DEF ValsInv
  <2>2. CASE at' # "idle"
    <3>1. \A t \in Steps : Rank(t) >= Held' => val'[t] = {}
      BY <1>1, <1>3, <1>4, <2>2, StepRank
    <3> QED
      BY <1>1, <1>4, <2>2, <3>1 DEF ValsInv
  <2> QED
    BY <2>1, <2>2
<1>6. ASSUME ~torn' PROVE RowsInOrder' /\ (at' # "idle" => RowsAtPlace')
  <2>1. ~torn
    BY <1>1, <1>6 DEF Persist, Kept, LoseOne
  <2>2. SavedUpTo(Rank(s)) /\ (~arg.resume => NothingFrom(Rank(s)))
    BY <1>2, <2>1 DEF TableInv, RowsInv, RowsAtPlace
  <2>3. RowsInOrder' /\ row'[s] # {} /\ \A t \in Steps \ {s} : row'[t] = row[t]
    BY <1>1, <1>2, <1>3, <1>6, <2>2, SavedInOrder
  <2>4. ASSUME at' # "idle" PROVE RowsAtPlace'
    <3>1. SavedUpTo(Place)'
      <4>1. \A t \in Steps : Rank(t) < Rank(s) + 1 => t = s \/ Rank(t) < Rank(s)
        BY Ranks DEF Steps
      <4> QED
        BY <1>4, <2>2, <2>3, <2>4, <4>1 DEF SavedUpTo
    <3>2. ~arg.resume => NothingFrom(Place)'
      BY <1>4, <2>2, <2>3, <2>4, StepRank DEF NothingFrom
    <3> QED
      BY <1>1, <1>4, <2>4, <3>1, <3>2 DEF RowsAtPlace
  <2> QED
    BY <2>3, <2>4
<1> QED
  BY <1>5, <1>6 DEF RowsInv

LEMMA StreamTable ==
  ASSUME TableInv, StreamRun \/ StreamDone
  PROVE  RowsInv' /\ ValsInv'
<1>1. /\ at = "s4" /\ at' = "s4" /\ phase \in {"stream", "streamAsan"}
      /\ phase' \in {"streamAsan", "save"} /\ UNCHANGED <<row, arg, torn>>
      /\ phase' = "save" => StreamDone
  BY DEF StreamRun, StreamDone, Same, session_, Goto, Kept
<1>2. Place = 4 /\ Place' = 4
  BY <1>1, Ranks DEF Place
<1>3. RowsInv'
  BY <1>1, <1>2, SameRows DEF RowsInv, RowsAtPlace, TableInv
<1>4. ~streamed
  BY <1>1 DEF TableInv, FlowInv
<1>5. CASE StreamRun
  <2>1. UNCHANGED <<val, streamed>> /\ phase' = "streamAsan" /\ Held' = Held
    BY <1>1, <1>4, <1>5, Ranks DEF StreamRun, Goto, Held
  <2> QED
    BY <1>1, <1>3, <1>4, <2>1 DEF ValsInv, TableInv
<1>6. CASE StreamDone
  <2> DEFINE s4 == Made("s4")
             static == {<<"static", session>>} \cup s4 \cup val["s1"]
             asan == {<<"asan", session>>} \cup static
  <2>1. val' = [val EXCEPT !["s4"] = s4, !["static"] = static, !["asan"] = asan] /\ streamed'
    BY <1>6 DEF StreamDone
  <2>2. s4 # {} /\ static # {} /\ asan # {}
    <3>1. <<"s4", session>> \in s4 /\ <<"static", session>> \in static /\ <<"asan", session>> \in asan
      BY DEF Made
    <3> QED
      BY <3>1
  <2> HIDE DEF s4, static, asan
  <2>3. val \in [Steps -> Lineages]
    BY DEF TableInv, ScanInv, TypeOK
  <2>4. /\ val'["s4"] # {} /\ val'["static"] # {} /\ val'["asan"] # {}
        /\ \A t \in Steps \ {"s4", "static", "asan"} : val'[t] = val[t]
    BY <2>1, <2>2, <2>3 DEF Steps
  <2>5. Held = 4 /\ Held' = 8
    BY <1>1, <1>4, <2>1, Ranks DEF Held
  <2>6. \A t \in Steps : Rank(t) >= 8 => val'[t] = {}
    <3>1. \A t \in Steps : Rank(t) >= 8 => t \notin {"s4", "static", "asan"} /\ Rank(t) >= 4
      BY Ranks DEF Steps
    <3> QED
      BY <1>1, <2>4, <2>5, <3>1 DEF TableInv, ValsInv
  <2> QED
    BY <1>1, <1>3, <2>4, <2>5, <2>6 DEF ValsInv
<1> QED
  BY <1>5, <1>6

LEMMA StreamSaveTable ==
  ASSUME TableInv, StreamSave
  PROVE  RowsInv' /\ ValsInv'
<1>1. /\ at = "s4" /\ streamed /\ UNCHANGED <<val, streamed, arg>>
      /\ at' \in {"s4", "found"} /\ phase' \in {"saveStatic", "saveAsan", "load"}
      /\ (at' = "s4" => phase' # "load") /\ (at' = "found" => phase' = "load")
  BY DEF StreamSave, Goto, Same, session_
<1>2. ValsInv'
  <2>1. Held = 8 /\ Held' = 8
    BY <1>1 DEF Held
  <2> QED
    BY <1>1, <2>1 DEF ValsInv, TableInv
<1>3. val["s4"] # {} /\ val["static"] # {} /\ val["asan"] # {}
  BY <1>1 DEF TableInv, ValsInv
<1>4. PICK s \in {"s4", "static", "asan"} : /\ Persist(s) /\ Place <= Rank(s) /\ Place' = Rank(s) + 1 + (IF s = "s4" THEN 1 ELSE 0)
                                            /\ \A t \in Steps : Rank(t) < Rank(s) => Rank(t) < Place
  <2>1. CASE phase = "save" /\ Persist("s4") /\ Goto("s4", "saveStatic")
    BY <1>1, <2>1, Ranks DEF Place, Goto
  <2>2. CASE phase = "saveStatic" /\ Persist("static") /\ Goto("s4", "saveAsan")
    BY <1>1, <2>2, Ranks DEF Place, Goto
  <2>3. CASE phase = "saveAsan" /\ Persist("asan") /\ Goto("found", "load")
    BY <1>1, <2>3, Ranks DEF Place, Goto
  <2> QED
    BY <2>1, <2>2, <2>3 DEF StreamSave
<1>5. ASSUME ~torn' PROVE RowsInOrder' /\ RowsAtPlace'
  <2>1. ~torn /\ val[s] # {} /\ s \in Steps
    BY <1>3, <1>4, <1>5 DEF Persist, Kept, LoseOne, Steps
  <2>2. SavedUpTo(Place) /\ NothingFrom(Place)
    BY <1>1, <2>1 DEF TableInv, RowsInv, RowsAtPlace, FlowInv
  <2>3. SavedUpTo(Rank(s))
    BY <1>4, <2>2 DEF SavedUpTo
  <2>4. RowsInOrder' /\ row'[s] # {} /\ \A t \in Steps \ {s} : row'[t] = row[t]
    BY <1>1, <1>4, <1>5, <2>1, <2>3, SavedInOrder
  <2>5. SavedUpTo(Place)'
    <3>1. \A t \in Steps : Rank(t) < Place' => t = s \/ Rank(t) < Rank(s)
      BY <1>4, Ranks DEF Steps
    <3> QED
      BY <2>3, <2>4, <3>1 DEF SavedUpTo
  <2>6. NothingFrom(Place)'
    <3>1. \A t \in Steps : Rank(t) >= Place' => t # s /\ Rank(t) >= Place
      BY <1>4, <2>1, StepRank, PlaceTyped, <1>1
    <3> QED
      BY <2>2, <2>4, <3>1 DEF NothingFrom
  <2> QED
    BY <1>1, <2>4, <2>5, <2>6 DEF RowsAtPlace
<1> QED
  BY <1>2, <1>5 DEF RowsInv

(* The stages 5 to 7.                                                        *)
LEMMA DedupTable ==
  ASSUME TableInv, LoadDedup
  PROVE  RowsInv' /\ ValsInv'
<1>1. at = "found" /\ phase = "load" /\ UNCHANGED <<row, streamed, arg>>
  BY DEF LoadDedup, Same, session_, TableInv, FlowInv
<1>2. Place = IF streamed THEN 8 ELSE 5
  BY <1>1 DEF Place
<1>3. Held = Place
  BY <1>1, <1>2 DEF Held
<1>4. CASE Load("s7") /\ phase' = "load" /\ at' \in {"idle", "s8"}
  <2>1. /\ arg.resume /\ torn' = torn /\ (~torn => SavedUpTo(8) /\ row["s7"] # {})
        /\ \A t \in Steps \ {"s7"} : val'[t] = val[t]
    BY <1>4, LoadedRow, Ranks DEF Steps
  <2>2. at' = "s8" => Place' = 9 /\ Held' = 9
    BY <1>4, Ranks DEF Place, Held
  <2>3. ASSUME ~torn' PROVE RowsInOrder' /\ (at' # "idle" => RowsAtPlace')
    <3>1. RowsInOrder /\ SavedUpTo(9)
      <4>1. \A t \in Steps : Rank(t) < 9 => t = "s7" \/ Rank(t) < 8
        BY Ranks DEF Steps
      <4> QED
        BY <2>1, <2>3, <4>1 DEF TableInv, RowsInv, SavedUpTo
    <3> QED
      BY <1>1, <1>4, <2>1, <2>2, <3>1, SameRows DEF RowsAtPlace
  <2>4. at' # "idle" => \A t \in Steps : Rank(t) >= Held' => val'[t] = {}
    <3>1. \A t \in Steps : Rank(t) >= 9 => t # "s7" /\ Rank(t) >= 8
      BY Ranks DEF Steps
    <3> QED
      BY <1>1, <1>2, <1>3, <1>4, <2>1, <2>2, <3>1, StepRank DEF TableInv, ValsInv
  <2> QED
    BY <1>4, <2>3, <2>4 DEF RowsInv, ValsInv
<1>5. CASE /\ Miss("s7")
           /\ \/ ~streamed /\ at' = "static" /\ phase' = "load"
              \/ streamed /\ at' = "idle" /\ phase' = "load"
              \/ streamed /\ at' = "s7" /\ phase' = "run"
  <2>1. UNCHANGED val
    BY <1>5 DEF Miss
  <2>2. at' # "idle" => Place' = (IF streamed THEN 8 ELSE 6) /\ Held' = Place'
    BY <1>1, <1>5, Ranks DEF Place, Held
  <2>3. at' # "idle" => \A t \in Steps : Rank(t) >= Held' => val'[t] = {}
    BY <1>1, <1>2, <1>3, <2>1, <2>2, StepRank DEF TableInv, ValsInv
  <2>4. ASSUME ~torn' PROVE RowsInOrder' /\ (at' # "idle" => RowsAtPlace')
    <3>1. ~torn /\ NothingFrom(8)
      <4>1. Place <= Rank("s7") /\ "s7" \in Steps \ {"s2"} /\ at # "idle"
        BY <1>1, <1>2, Ranks DEF Steps
      <4> QED
        BY <1>5, <2>4, <4>1, MissedRow, Ranks
    <3>2. RowsInOrder /\ SavedUpTo(Place) /\ (~arg.resume => NothingFrom(Place))
      BY <1>1, <3>1 DEF TableInv, RowsInv, RowsAtPlace
    <3>3. ASSUME at' # "idle" PROVE SavedUpTo(Place')
      <4>1. \A t \in Steps : Rank(t) < 6 => Rank(t) < 5
        BY Ranks DEF Steps
      <4> QED
        BY <1>2, <2>2, <3>2, <3>3, <4>1 DEF SavedUpTo
    <3>4. ASSUME at' # "idle", ~arg.resume PROVE NothingFrom(Place')
      BY <1>2, <2>2, <3>2, <3>4, StepRank DEF NothingFrom
    <3>5. at' = "s7" => NothingFrom(Place')
      BY <1>5, <2>2, <3>1
    <3> QED
      BY <1>1, <1>5, <3>1, <3>2, <3>3, <3>4, <3>5, SameRows DEF RowsAtPlace
  <2> QED
    BY <1>5, <2>3, <2>4 DEF RowsInv, ValsInv
<1> QED
  BY <1>1, <1>4, <1>5 DEF LoadDedup, Goto

(* A stage between s4 and s7: no row from s7 on, unless one was lost.        *)
LEMMA VerifyLoads ==
  ASSUME TableInv, LoadStatic \/ Prefilter \/ LoadAsan
  PROVE  RowsInv' /\ ValsInv'
<1>1. /\ at \in {"static", "s5", "asan"} /\ at' \in {"static", "s5", "asan", "s7", "idle"}
      /\ UNCHANGED <<row, streamed, arg>> /\ ~streamed
  BY DEF LoadStatic, Prefilter, LoadAsan, AfterAsan, Leave, Goto, Same, session_, TableInv, FlowInv
<1>2. phase' # "save" /\ phase # "save" /\ phase' \notin {"saveStatic", "saveAsan"}
      /\ phase \notin {"saveStatic", "saveAsan"}
  BY DEF LoadStatic, Prefilter, LoadAsan, AfterAsan, Leave, Goto, TableInv, FlowInv
<1>3. Place = Rank(at) /\ Held = Place /\ (at' # "idle" => Place' = Rank(at') /\ Held' = Place')
  BY <1>1, <1>2 DEF Place, Held
<1>4. CASE \E s \in {"static", "asan"} : Load(s) /\ at = s /\ phase = "load" /\
             ((at' = "asan" /\ s = "static" /\ phase' = "load") \/ (at' = "s7" /\ s = "asan" /\ phase' = "run") \/ at' = "idle")
  <2>1. PICK s \in {"static", "asan"} : Load(s) /\ at = s /\ phase = "load" /\
             ((at' = "asan" /\ s = "static" /\ phase' = "load") \/ (at' = "s7" /\ s = "asan" /\ phase' = "run") \/ at' = "idle")
    BY <1>4
  <2>2. s \in Steps /\ (at' # "idle" => Rank(at') = Rank(s) + 1) /\ Rank(s) \in 1 .. 10
    BY <2>1, Ranks DEF Steps
  <2>3. /\ arg.resume /\ torn' = torn /\ (~torn => SavedUpTo(Rank(s)) /\ row[s] # {})
        /\ \A t \in Steps \ {s} : val'[t] = val[t]
    BY <2>1, <2>2, LoadedRow
  <2>4. ASSUME at' # "idle" PROVE \A t \in Steps : Rank(t) >= Held' => val'[t] = {}
    BY <1>1, <1>3, <2>1, <2>2, <2>3, <2>4, StepRank DEF TableInv, ValsInv
  <2>5. ASSUME ~torn' PROVE RowsInOrder' /\ (at' # "idle" => RowsAtPlace')
    <3>1. RowsInOrder /\ NothingFrom(8)
      BY <1>1, <2>3, <2>5 DEF TableInv, RowsInv, RowsAtPlace
    <3>2. ASSUME at' # "idle" PROVE SavedUpTo(Place')
      <4>1. \A t \in Steps : Rank(t) < Rank(s) + 1 => t = s \/ Rank(t) < Rank(s)
        BY <2>1, Ranks DEF Steps
      <4> QED
        BY <1>3, <2>2, <2>3, <2>5, <3>2, <4>1 DEF SavedUpTo
    <3>3. at' = "s7" => Place' = 8
      BY <1>3, Ranks
    <3> QED
      BY <1>1, <2>1, <2>3, <3>1, <3>2, <3>3, SameRows DEF RowsAtPlace
  <2> QED
    BY <1>1, <1>2, <2>4, <2>5 DEF RowsInv, ValsInv
<1>5. CASE \/ at = "static" /\ Miss("static") /\ at' = "s5" /\ phase' = "run" /\ phase = "load"
           \/ at = "asan" /\ Miss("asan") /\ at' = "asan" /\ phase' = "run" /\ phase = "load"
  <2>1. UNCHANGED val /\ (~torn' => ~torn)
    BY <1>5 DEF Miss, Kept, LoseOne
  <2>2. \A t \in Steps : Rank(t) >= Held' => Rank(t) >= Held
    BY <1>3, <1>5, Ranks DEF Steps
  <2>3. ASSUME ~torn' PROVE RowsInOrder' /\ RowsAtPlace'
    <3>1. RowsInOrder /\ NothingFrom(8) /\ SavedUpTo(Place)
      BY <1>1, <2>1, <2>3 DEF TableInv, RowsInv, RowsAtPlace
    <3>2. NothingFrom(Place)
      <4>1. \A s \in {"static", "asan"} : s \in Steps \ {"s2"} /\ Rank(s) <= Rank(s)
        BY Ranks DEF Steps
      <4> QED
        BY <1>1, <1>3, <1>5, <2>3, <4>1, MissedRow
    <3>3. SavedUpTo(Place')
      BY <1>3, <1>5, <3>1, Ranks DEF SavedUpTo, Steps
    <3>4. NothingFrom(Place')
      BY <1>3, <1>5, <3>2, Ranks DEF NothingFrom, Steps
    <3> QED
      BY <1>1, <1>5, <3>1, <3>3, <3>4, SameRows DEF RowsAtPlace
  <2> QED
    BY <1>1, <1>2, <1>5, <2>1, <2>2, <2>3 DEF RowsInv, ValsInv, TableInv
<1>6. CASE Prefilter
  <2>1. /\ at = "s5" /\ phase = "run" /\ UNCHANGED <<val, torn>>
        /\ (at' = "idle" /\ phase' = "load") \/ (at' = "static" /\ phase' = "run")
    BY <1>6 DEF Prefilter, Goto, TableInv, FlowInv
  <2>2. at' # "idle" => Place = 5 /\ Place' = 6
    BY <1>3, <2>1, Ranks
  <2>3. \A t \in Steps : (Rank(t) < 6 => Rank(t) < 5) /\ (Rank(t) >= 6 => Rank(t) >= 5)
    BY Ranks DEF Steps
  <2>4. at' # "idle" => \A t \in Steps : Rank(t) >= Held' => val'[t] = {}
    BY <1>1, <1>3, <2>1, <2>2, <2>3 DEF TableInv, ValsInv
  <2>5. ASSUME ~torn, at' # "idle" PROVE RowsAtPlace'
    <3>1. SavedUpTo(5) /\ NothingFrom(5) /\ NothingFrom(8)
      BY <2>1, <2>2, <2>5 DEF TableInv, RowsInv, RowsAtPlace
    <3>2. SavedUpTo(6) /\ NothingFrom(6)
      BY <2>3, <3>1 DEF SavedUpTo, NothingFrom
    <3> QED
      BY <1>1, <2>1, <2>2, <2>5, <3>1, <3>2, SameRows DEF RowsAtPlace
  <2>6. ~torn => RowsInOrder'
    BY <1>1, SameRows DEF TableInv, RowsInv
  <2> QED
    BY <1>1, <1>2, <2>1, <2>4, <2>5, <2>6 DEF RowsInv, ValsInv
<1> QED
  BY <1>4, <1>5, <1>6 DEF LoadStatic, LoadAsan, AfterAsan, Leave, Goto

LEMMA VerifySaves ==
  ASSUME TableInv, SaveStatic \/ SaveAsan \/ SaveSarif
  PROVE  RowsInv' /\ ValsInv'
<1>1. PICK s \in {"static", "asan", "s9"} :
        /\ at = s /\ phase = "save" /\ Persist(s) /\ UNCHANGED <<val, streamed, arg>>
        /\ \/ s = "static" /\ at' = "asan" /\ phase' = "load"
           \/ s = "asan" /\ at' = "s7" /\ phase' = "run"
           \/ at' = "idle" /\ phase' = "load"
  BY DEF SaveStatic, SaveAsan, SaveSarif, AfterAsan, Goto, Same, session_
<1>2. s \in Steps /\ Rank(s) \in 1 .. 10 /\ Place = Rank(s) /\ Held = Rank(s) + 1 /\ at # "idle"
  BY <1>1, Ranks DEF Steps, Place, Held
<1>3. val[s] # {} /\ \A t \in Steps : Rank(t) > Rank(s) => val[t] = {}
  BY <1>1, <1>2, StepRank DEF TableInv, ValsInv
<1>4. at' # "idle" => Place' = Rank(s) + 1 /\ Held' = Place' /\ s # "s9"
  BY <1>1, Ranks DEF Place, Held
<1>5. ValsInv'
  <2>1. at' # "idle" => \A t \in Steps : Rank(t) >= Held' => val'[t] = {}
    BY <1>1, <1>2, <1>3, <1>4, StepRank
  <2> QED
    BY <1>1, <2>1 DEF ValsInv
<1>6. ASSUME ~torn' PROVE RowsInOrder' /\ (at' # "idle" => RowsAtPlace')
  <2>1. ~torn
    BY <1>1, <1>6 DEF Persist, Kept, LoseOne
  <2>2. SavedUpTo(Rank(s)) /\ (s # "s9" => NothingFrom(Rank(s)) /\ NothingFrom(8))
    BY <1>1, <1>2, <2>1 DEF TableInv, RowsInv, RowsAtPlace
  <2>3. RowsInOrder' /\ row'[s] # {} /\ \A t \in Steps \ {s} : row'[t] = row[t]
    BY <1>1, <1>2, <1>3, <1>6, <2>2, SavedInOrder
  <2>4. ASSUME at' # "idle" PROVE RowsAtPlace'
    <3>1. SavedUpTo(Place)'
      <4>1. \A t \in Steps : Rank(t) < Rank(s) + 1 => t = s \/ Rank(t) < Rank(s)
        BY <1>1, Ranks DEF Steps
      <4> QED
        BY <1>4, <2>2, <2>3, <2>4, <4>1 DEF SavedUpTo
    <3>2. NothingFrom(Place)'
      <4>1. \A t \in Steps : Rank(t) >= Rank(s) + 1 => t # s /\ Rank(t) >= Rank(s)
        BY <1>1, Ranks DEF Steps
      <4> QED
        BY <1>4, <2>2, <2>3, <2>4, <4>1 DEF NothingFrom
    <3>3. NothingFrom(8)'
      <4>1. \A t \in Steps : Rank(t) >= 8 => t \notin {"static", "asan"}
        BY Ranks DEF Steps
      <4> QED
        BY <1>1, <1>4, <2>2, <2>3, <2>4, <4>1 DEF NothingFrom
    <3> QED
      BY <1>1, <1>4, <2>4, <3>1, <3>2, <3>3 DEF RowsAtPlace
  <2> QED
    BY <2>3, <2>4
<1> QED
  BY <1>5, <1>6 DEF RowsInv

LEMMA TableKept == TableInv /\ [Next]_vars => RowsInv' /\ ValsInv'
<1> SUFFICES ASSUME TableInv, [Next]_vars PROVE RowsInv' /\ ValsInv'
  OBVIOUS
<1>1. ASSUME NEW a \in Args, Start(a) PROVE RowsInv' /\ ValsInv'
  <2>1. /\ at = "idle" /\ at' = "overlay" /\ phase' = "load" /\ arg' = a /\ val' = Nothing
        /\ IF a.resume THEN UNCHANGED <<row, torn>> ELSE row' = Nothing /\ torn' = FALSE
    BY <1>1 DEF Start
  <2>2. Place' = 1
    BY <2>1 DEF Place
  <2>3. ValsInv'
    BY <2>1 DEF ValsInv, Nothing
  <2>4. \A t \in Steps : ~(Rank(t) < 1)
    BY StepRank
  <2>5. CASE a.resume
    BY <2>1, <2>2, <2>3, <2>4, <2>5, SameRows DEF RowsInv, RowsAtPlace, SavedUpTo, TableInv
  <2>6. CASE ~a.resume
    <3>1. \A t \in Steps : row'[t] = {}
      BY <2>1, <2>6 DEF Nothing
    <3> QED
      BY <2>1, <2>2, <2>3, <2>4, <3>1 DEF RowsInv, RowsInOrder, RowsAtPlace, SavedUpTo, NothingFrom
  <2> QED
    BY <2>5, <2>6
<1>2. CASE Overlay \/ ThreatModelFails
  <2>1. /\ UNCHANGED <<row, val, streamed, arg, torn>> /\ phase' = "load"
        /\ \/ at = "overlay" /\ at' = "s1"
           \/ at = "s2" /\ phase = "run" /\ at' \in {"idle", "s3"}
    BY <1>2 DEF Overlay, ThreatModelFails, Leave, Goto, session_, Same
  <2>2. /\ at # "idle" /\ Held = Place /\ (at' # "idle" => Held' = Place')
        /\ (at = "overlay" => Place = 1 /\ Place' = 1) /\ (at = "s2" => Place = 2)
        /\ (at' = "s3" => Place' = 3)
    BY <2>1, Ranks DEF Place, Held
  <2>3. \A t \in Steps : (Rank(t) < 3 => t = "s2" \/ Rank(t) < 2) /\ (Rank(t) >= 3 => Rank(t) >= 2)
    BY Ranks DEF Steps
  <2>4. ValsInv'
    BY <2>1, <2>2, <2>3 DEF TableInv, ValsInv
  <2>5. ASSUME ~torn, at' # "idle" PROVE RowsAtPlace'
    <3>1. SavedUpTo(Place) /\ (~arg.resume => NothingFrom(Place))
      BY <2>2, <2>5 DEF TableInv, RowsInv, RowsAtPlace
    <3>2. SavedUpTo(Place') /\ (~arg.resume => NothingFrom(Place'))
      BY <2>1, <2>2, <2>3, <2>5, <3>1 DEF SavedUpTo, NothingFrom
    <3> QED
      BY <2>1, <2>5, <3>2, SameRows DEF RowsAtPlace
  <2> QED
    BY <2>1, <2>4, <2>5, SameRows DEF RowsInv, TableInv
<1>3. CASE EnterSarif
  <2>1. /\ UNCHANGED <<row, val, streamed, arg, torn>> /\ at = "s9" /\ at' = "s9" /\ phase = "load"
        /\ phase' = "run"
    BY <1>3 DEF EnterSarif, Goto, Same, session_
  <2>2. Place' = Place /\ Held' = Held
    BY <2>1 DEF Place, Held
  <2> QED
    BY <2>1, <2>2, SameRows DEF TableInv, RowsInv, RowsAtPlace, ValsInv
<1>4. CASE Die
  BY <1>4, SameRows DEF Die, Goto, TableInv, RowsInv, ValsInv
<1>5. CASE Evict
  <2>1. row' = Nothing /\ torn' = (at # "idle") /\ UNCHANGED <<at, phase, val, streamed>>
    BY <1>5 DEF Evict
  <2>2. \A t \in Steps : row'[t] = {}
    BY <2>1 DEF Nothing
  <2>3. RowsInv'
    BY <2>1, <2>2 DEF RowsInv, RowsInOrder
  <2>4. Held' = Held
    BY <2>1 DEF Held
  <2> QED
    BY <2>1, <2>3, <2>4 DEF TableInv, ValsInv
<1>6. CASE UNCHANGED vars
  <2>1. UNCHANGED <<row, val, streamed, arg, torn, at, phase>>
    BY <1>6 DEF vars
  <2>2. Place' = Place /\ Held' = Held
    BY <2>1 DEF Place, Held
  <2> QED
    BY <2>1, <2>2, SameRows DEF TableInv, RowsInv, RowsAtPlace, ValsInv
<1> QED
  BY <1>1, <1>2, <1>3, <1>4, <1>5, <1>6, LoadStageTable, RunStageTable, SaveStageTable, StreamTable,
     StreamSaveTable, DedupTable, VerifyLoads, VerifySaves DEF Next, Stage

LEMMA TableHolds == Spec => []TableInv
<1>1. Init => RowsInv /\ ValsInv
  BY DEF Init, RowsInv, ValsInv, RowsInOrder, Nothing
<1>2. ScanInv /\ FlowInv /\ RowsInv /\ ValsInv <=> TableInv
  BY DEF TableInv
<1> QED
  BY <1>1, <1>2, TableKept, FlowHolds, ScanInvariant, PTL DEF Spec

(* A stage is executed only when neither it nor a later one is in the table, *)
(* in every sequence of fresh and resumed sessions, deaths and evictions.    *)
THEOREM CompletedWorkKept == Spec => []NothingRedone
<1>1. TableInv => NothingRedone
  <2> SUFFICES ASSUME TableInv, phase \in {"run", "stream"}, at \notin {"s2", "s9"}, ~torn
               PROVE  NothingFrom(Rank(at))
    BY DEF NothingRedone, NothingFrom
  <2>1. at # "idle"
    BY DEF TableInv, FlowInv
  <2>2. NothingFrom(Place)
    BY <2>1 DEF TableInv, RowsInv, RowsAtPlace
  <2>3. phase = "stream" => at = "s4"
    BY DEF TableInv, FlowInv
  <2>4. at \notin {"overlay", "found"}
    BY DEF TableInv, FlowInv
  <2>5. Place = Rank(at)
    BY <2>4 DEF Place
  <2> QED
    BY <2>2, <2>5
<1> QED
  BY <1>1, TableHolds, PTL

-----------------------------------------------------------------------------
(* One execution of each stage: what is stored and what is held agree on it, *)
(* and a stage is executed only where nothing made from an earlier execution *)
(* of it is left.  SARIF is stored and never loaded, so its row is left out. *)

Loaded == Steps \ {"s9"}

(* The results of a step were made by steps before it; the threat model is   *)
(* an input of none.                                                         *)
Own(t, lineage) ==
  \A p \in lineage : /\ p[1] \in Steps /\ Rank(p[1]) <= Rank(t)
                     /\ p[1] = "s2" => t = "s2"

Pool ==
  (UNION {row[t] : t \in Loaded}) \cup (IF at = "idle" THEN {} ELSE UNION {val[t] : t \in Steps})

OwnInv == \A t \in Steps : Own(t, row[t]) /\ Own(t, val[t])

PoolInv == ~torn => Coherent(Pool)

CohInv == OwnInv /\ PoolInv

LEMMA CoherentAdd ==
  ASSUME NEW X, NEW Y, NEW A, NEW n, Coherent(X), \A p \in X : p[1] \notin A,
         \A p \in Y : p \in X \/ \E s \in A : p = <<s, n>>
  PROVE  Coherent(Y)
<1> SUFFICES ASSUME NEW p \in Y, NEW q \in Y, p[1] = q[1] PROVE p[2] = q[2]
  BY DEF Coherent
<1>1. CASE p \in X /\ q \in X
  BY <1>1 DEF Coherent
<1>2. ASSUME NEW s \in A, NEW u \in A, p = <<s, n>>, q = <<u, n>> PROVE p[2] = q[2]
  BY <1>2
<1>3. ASSUME NEW s \in A, p = <<s, n>>, q \in X PROVE FALSE
  BY <1>3
<1>4. ASSUME NEW s \in A, q = <<s, n>>, p \in X PROVE FALSE
  BY <1>4
<1> QED
  BY <1>1, <1>2, <1>3, <1>4

LEMMA CoherentPart ==
  ASSUME NEW X, NEW Y, Coherent(X), Y \subseteq X
  PROVE  Coherent(Y)
  BY DEF Coherent

(* A step that moves results between the table and the session, and makes    *)
(* none.                                                                     *)
Moves ==
  /\ at # "idle"
  /\ ~torn' => ~torn
  /\ \A t \in Steps : /\ val'[t] = val[t] \/ (t # "s9" /\ val'[t] = row[t])
                      /\ row'[t] = row[t] \/ row'[t] = val[t]

LEMMA MovesCoherent == CohInv /\ Moves => CohInv'
<1> SUFFICES ASSUME CohInv, Moves PROVE CohInv'
  OBVIOUS
<1>1. OwnInv'
  BY DEF CohInv, OwnInv, Moves, Own
<1>2. Pool' \subseteq Pool
  BY DEF Moves, Pool, Loaded
<1>3. PoolInv'
  BY <1>2, CoherentPart DEF CohInv, PoolInv, Moves
<1> QED
  BY <1>1, <1>3 DEF CohInv

LEMMA LoadMoves ==
  ASSUME ScanInv, at # "idle", NEW s \in Loaded, Load(s) \/ Miss(s), UNCHANGED row
  PROVE  Moves
<1>1. val \in [Steps -> Lineages] /\ s \in Steps
  BY DEF ScanInv, TypeOK, Loaded
<1> QED
  BY <1>1 DEF Load, Miss, LoseOne, Kept, Moves, Loaded

LEMMA PersistMoves ==
  ASSUME ScanInv, at # "idle", NEW s \in Steps, Persist(s), UNCHANGED val
  PROVE  Moves
<1>1. row \in [Steps -> Lineages]
  BY DEF ScanInv, TypeOK
<1> QED
  BY <1>1 DEF Persist, LoseOne, Kept, Moves

(* Where a stage is executed nothing is left of an earlier execution of it.  *)
LEMMA NoneLeft ==
  ASSUME TableInv, CohInv, ~torn, phase \in {"run", "streamAsan"}, at \in Steps,
         NEW t \in Steps, Rank(t) >= Rank(at), t = at \/ at \notin {"s2", "s9"}
  PROVE  \A p \in Pool : p[1] # t
<1> SUFFICES ASSUME NEW p \in Pool, p[1] = t PROVE FALSE
  OBVIOUS
<1>1. at # "idle" /\ at \notin {"overlay", "found"} /\ (at = "s4" => ~streamed)
  BY DEF TableInv, FlowInv, Steps
<1>2. Held = Rank(at) /\ Place = Rank(at)
  BY <1>1 DEF Held, Place
<1>3. RowsAtPlace
  BY <1>1 DEF TableInv, RowsInv
<1>4. PICK u \in Steps : (u # "s9" /\ p \in row[u]) \/ p \in val[u]
  BY <1>1 DEF Pool, Loaded
<1>5. Rank(t) <= Rank(u) /\ (t = "s2" => u = "s2")
  BY <1>4 DEF CohInv, OwnInv, Own
<1>6. Rank(u) >= Rank(at)
  BY <1>5, StepRank
<1>7. val[u] = {}
  BY <1>1, <1>2, <1>6 DEF TableInv, ValsInv
<1>8. u # "s9" /\ p \in row[u]
  BY <1>4, <1>7
<1>9. CASE at \notin {"s2", "s9"}
  BY <1>2, <1>3, <1>6, <1>8, <1>9 DEF RowsAtPlace, NothingFrom
<1>10. CASE at = "s2"
  BY <1>3, <1>5, <1>8, <1>10 DEF RowsAtPlace
<1>11. CASE at = "s9"
  BY <1>5, <1>8, <1>11, Ranks DEF Steps
<1> QED
  BY <1>9, <1>10, <1>11

(* What a stage makes was made by it and by the stages before it.            *)
LEMMA MadeOwn ==
  ASSUME OwnInv, NEW s \in Steps
  PROVE  /\ Own(s, Made(s))
         /\ \A p \in Made(s) : p = <<s, session>> \/ \E t \in Steps : p \in val[t]
<1>1. \A t \in Inputs[s] : t \in Steps \ {"s2"} /\ Rank(t) < Rank(s)
  BY Ranks DEF Inputs, Steps
<1>2. ASSUME NEW p \in Made(s) PROVE p = <<s, session>> \/ \E t \in Inputs[s] : p \in val[t]
  BY DEF Made
<1>3. ASSUME NEW p, p = <<s, session>>
      PROVE  p[1] \in Steps /\ Rank(p[1]) <= Rank(s) /\ (p[1] = "s2" => s = "s2")
  BY <1>3, StepRank
<1>4. ASSUME NEW p, NEW t \in Inputs[s], p \in val[t]
      PROVE  p[1] \in Steps /\ Rank(p[1]) <= Rank(s) /\ (p[1] = "s2" => s = "s2")
  <2>1. t \in Steps \ {"s2"} /\ Rank(t) < Rank(s) /\ Own(t, val[t])
    BY <1>1 DEF OwnInv
  <2>2. p[1] \in Steps /\ Rank(p[1]) <= Rank(t) /\ p[1] # "s2"
    BY <2>1, <1>4 DEF Own
  <2> QED
    BY <2>1, <2>2, StepRank
<1>5. Own(s, Made(s))
  BY <1>2, <1>3, <1>4 DEF Own
<1> QED
  BY <1>1, <1>2, <1>5

LEMMA RunCoherent ==
  ASSUME TableInv, CohInv, NEW s \in Steps, RunStage(s)
  PROVE  CohInv'
<1>1. /\ at = s /\ phase = "run" /\ at' = s /\ val' = [val EXCEPT ![s] = Made(s)]
      /\ UNCHANGED <<row, torn>>
  BY DEF RunStage, Goto, Kept
<1>2. val'[s] = Made(s) /\ \A t \in Steps \ {s} : val'[t] = val[t]
  <2>1. val \in [Steps -> Lineages]
    BY DEF TableInv, ScanInv, TypeOK
  <2> QED
    BY <1>1, <2>1
<1>3. Own(s, Made(s)) /\ \A p \in Made(s) : p = <<s, session>> \/ \E t \in Steps : p \in val[t]
  BY MadeOwn DEF CohInv
<1>4. OwnInv'
  BY <1>1, <1>2, <1>3 DEF CohInv, OwnInv, Own
<1>5. \A p \in Pool' : p \in Pool \/ p = <<s, session>>
  <2>1. at # "idle" /\ at' # "idle"
    BY <1>1 DEF Steps
  <2> QED
    BY <1>1, <1>2, <1>3, <2>1 DEF Pool, Loaded
<1>6. ASSUME ~torn' PROVE Coherent(Pool')
  <2>1. ~torn /\ Coherent(Pool)
    BY <1>1, <1>6 DEF CohInv, PoolInv
  <2>2. \A p \in Pool : p[1] \notin {s}
    BY <1>1, <2>1, NoneLeft, StepRank
  <2>3. \A p \in Pool' : p \in Pool \/ \E t \in {s} : p = <<t, session>>
    BY <1>5
  <2> HIDE DEF Pool
  <2> QED
    BY <2>1, <2>2, <2>3, CoherentAdd
<1> QED
  BY <1>4, <1>6 DEF CohInv, PoolInv

LEMMA StreamCoherent ==
  ASSUME TableInv, CohInv, StreamDone
  PROVE  CohInv'
<1> DEFINE New == {"s4", "static", "asan"}
           made == Made("s4") \cup val["s1"]
<1>1. /\ at = "s4" /\ phase = "streamAsan" /\ at' = "s4"
      /\ UNCHANGED <<row, torn>>
  BY DEF StreamDone, Goto, Kept
<1>2. /\ val'["s4"] = Made("s4")
      /\ val'["static"] = {<<"static", session>>} \cup made
      /\ val'["asan"] = {<<"asan", session>>} \cup {<<"static", session>>} \cup made
      /\ \A t \in Steps \ New : val'[t] = val[t]
  <2>1. val \in [Steps -> Lineages]
    BY DEF TableInv, ScanInv, TypeOK
  <2> QED
    BY <2>1 DEF StreamDone, Steps
<1>3. Own("s4", Made("s4")) /\ \A p \in Made("s4") : p = <<"s4", session>> \/ \E t \in Steps : p \in val[t]
  BY MadeOwn DEF CohInv, Steps
<1>4. Own("s4", made)
  <2>1. Own("s1", val["s1"])
    BY DEF CohInv, OwnInv, Steps
  <2>2. Own("s4", val["s1"])
    BY <2>1, Ranks DEF Own, Steps
  <2> QED
    BY <1>3, <2>2 DEF Own
<1>5. \A p \in made : p = <<"s4", session>> \/ \E t \in Steps : p \in val[t]
  BY <1>3 DEF Steps
<1>6. OwnInv'
  <2>1. /\ Own("static", {<<"static", session>>} \cup made)
        /\ Own("asan", {<<"asan", session>>} \cup {<<"static", session>>} \cup made)
    BY <1>4, Ranks DEF Own, Steps
  <2>2. \A t \in Steps : Own(t, val'[t])
    BY <1>2, <1>3, <2>1 DEF CohInv, OwnInv
  <2>3. \A t \in Steps : Own(t, row'[t])
    BY <1>1 DEF CohInv, OwnInv
  <2> QED
    BY <2>2, <2>3 DEF OwnInv, Own
<1>7. \A p \in Pool' : p \in Pool \/ \E s \in New : p = <<s, session>>
  <2>1. at # "idle" /\ at' # "idle"
    BY <1>1
  <2>2. ASSUME NEW t \in Steps, NEW p \in val'[t]
        PROVE  (\E u \in Steps : p \in val[u]) \/ \E s \in New : p = <<s, session>>
    <3> HIDE DEF made
    <3> QED
      BY <1>2, <1>3, <1>5, <2>2
  <2> HIDE DEF New
  <2> QED
    BY <1>1, <2>1, <2>2 DEF Pool, Loaded
<1>8. ASSUME ~torn' PROVE Coherent(Pool')
  <2>1. ~torn /\ Coherent(Pool)
    BY <1>1, <1>8 DEF CohInv, PoolInv
  <2>2. \A p \in Pool : p[1] \notin New
    <3>1. \A t \in New : t \in Steps /\ Rank(t) >= Rank("s4")
      BY Ranks DEF Steps
    <3>2. \A t \in New : \A p \in Pool : p[1] # t
      BY <1>1, <2>1, <3>1, NoneLeft DEF Steps
    <3> QED
      BY <3>2
  <2> HIDE DEF Pool, New
  <2> QED
    BY <1>7, <2>1, <2>2, CoherentAdd
<1> QED
  BY <1>6, <1>8 DEF CohInv, PoolInv

LEMMA StageCoherent == TableInv /\ CohInv /\ Stage => CohInv'
<1> SUFFICES ASSUME TableInv, CohInv, Stage PROVE CohInv'
  OBVIOUS
<1> USE DEF Loaded
<1>1. CASE Overlay \/ ThreatModelFails \/ Prefilter \/ EnterSarif \/ StreamRun
  <2>1. at # "idle" /\ UNCHANGED <<row, val>> /\ (~torn' => ~torn)
    BY <1>1 DEF Overlay, ThreatModelFails, Prefilter, EnterSarif, StreamRun, Kept
  <2>2. Moves
    BY <2>1 DEF Moves
  <2> QED
    BY <2>2, MovesCoherent
<1>2. ASSUME NEW s \in Steps, LoadStage(s) PROVE CohInv'
  <2>1. at # "idle" /\ s \in Loaded /\ UNCHANGED row /\ (Load(s) \/ Miss(s))
    BY <1>2 DEF LoadStage, Plain, Steps
  <2> QED
    BY <2>1, LoadMoves, MovesCoherent DEF TableInv
<1>3. ASSUME NEW s \in Steps, RunStage(s) PROVE CohInv'
  BY <1>3, RunCoherent
<1>4. ASSUME NEW s \in Steps, SaveStage(s) PROVE CohInv'
  <2>1. at # "idle" /\ UNCHANGED val /\ Persist(s)
    BY <1>4 DEF SaveStage, Steps
  <2> QED
    BY <2>1, PersistMoves, MovesCoherent DEF TableInv
<1>5. CASE StreamDone
  BY <1>5, StreamCoherent
<1>6. CASE StreamSave
  <2>1. at # "idle" /\ UNCHANGED val /\ (Persist("s4") \/ Persist("static") \/ Persist("asan"))
    BY <1>6 DEF StreamSave
  <2> QED
    BY <2>1, PersistMoves, MovesCoherent DEF TableInv, Steps
<1>7. CASE LoadDedup
  <2>1. at # "idle" /\ UNCHANGED row /\ (Load("s7") \/ Miss("s7"))
    BY <1>7 DEF LoadDedup
  <2> QED
    BY <2>1, LoadMoves, MovesCoherent DEF TableInv, Steps
<1>8. CASE LoadStatic \/ LoadAsan
  <2>1. /\ at # "idle" /\ UNCHANGED row
        /\ Load("static") \/ Miss("static") \/ Load("asan") \/ Miss("asan")
    BY <1>8 DEF LoadStatic, LoadAsan
  <2> QED
    BY <2>1, LoadMoves, MovesCoherent DEF TableInv, Steps
<1>9. CASE SaveStatic \/ SaveAsan \/ SaveSarif
  <2>1. /\ at # "idle" /\ UNCHANGED val
        /\ Persist("static") \/ Persist("asan") \/ Persist("s9")
    BY <1>9 DEF SaveStatic, SaveAsan, SaveSarif
  <2> QED
    BY <2>1, PersistMoves, MovesCoherent DEF TableInv, Steps
<1> QED
  BY <1>1, <1>2, <1>3, <1>4, <1>5, <1>6, <1>7, <1>8, <1>9 DEF Stage

LEMMA CoherentKept == TableInv /\ CohInv /\ [Next]_vars => CohInv'
<1> SUFFICES ASSUME TableInv, CohInv, [Next]_vars PROVE CohInv'
  OBVIOUS
<1>1. \A t \in Steps : Nothing[t] = {}
  BY NothingRecent
<1>2. ASSUME NEW a \in Args, Start(a) PROVE CohInv'
  <2>1. at = "idle" /\ \A t \in Steps : val'[t] = {}
    BY <1>1, <1>2 DEF Start
  <2>2. /\ \A t \in Steps : row'[t] = row[t] \/ row'[t] = {}
        /\ (torn' = torn \/ \A t \in Steps : row'[t] = {})
    BY <1>1, <1>2 DEF Start
  <2>3. OwnInv'
    BY <2>1, <2>2 DEF CohInv, OwnInv, Own
  <2>4. Pool' \subseteq Pool /\ ((\A t \in Steps : row'[t] = {}) => Pool' = {})
    BY <2>1, <2>2 DEF Pool, Loaded
  <2>5. Coherent({})
    BY DEF Coherent
  <2>6. PoolInv'
    BY <2>2, <2>4, <2>5, CoherentPart DEF CohInv, PoolInv
  <2> QED
    BY <2>3, <2>6 DEF CohInv
<1>3. CASE Stage
  BY <1>3, StageCoherent
<1>4. CASE Die
  <2>1. at # "idle" /\ UNCHANGED <<row, val, torn>>
    BY <1>4 DEF Die
  <2>2. Moves
    BY <2>1 DEF Moves
  <2> QED
    BY <2>2, MovesCoherent
<1>5. CASE Evict
  <2>1. /\ \A t \in Steps : row'[t] = {}
        /\ UNCHANGED <<at, val>> /\ (~torn' => at = "idle")
    BY <1>1, <1>5 DEF Evict
  <2>2. OwnInv'
    BY <2>1 DEF CohInv, OwnInv, Own
  <2>3. at = "idle" => Pool' = {}
    BY <2>1 DEF Pool, Loaded
  <2>4. Coherent({})
    BY DEF Coherent
  <2> QED
    BY <2>1, <2>2, <2>3, <2>4 DEF CohInv, PoolInv
<1>6. CASE UNCHANGED vars
  <2>1. UNCHANGED <<row, val, at, torn>>
    BY <1>6 DEF vars
  <2> QED
    BY <2>1 DEF CohInv, OwnInv, Own, PoolInv, Pool, Coherent
<1> QED
  BY <1>2, <1>3, <1>4, <1>5, <1>6 DEF Next

(* Whatever the sequence of fresh and resumed scans, deaths and evictions, a *)
(* session never mixes the results of two executions of one stage, as long   *)
(* as no row was lost on its own.                                            *)
THEOREM OneExecutionOfEach == Spec => []CoherentReport
<1>1. Init => CohInv
  BY NothingRecent DEF Init, CohInv, OwnInv, Own, PoolInv, Pool, Loaded, Coherent
<1>2. CohInv => CoherentReport
  <2> SUFFICES ASSUME CohInv, at # "idle", ~torn
               PROVE  Coherent(UNION {val[t] : t \in Steps})
    BY DEF CoherentReport
  <2>1. (UNION {val[t] : t \in Steps}) \subseteq Pool
    BY DEF Pool
  <2> QED
    BY <2>1, CoherentPart DEF CohInv, PoolInv
<1> QED
  BY <1>1, <1>2, CoherentKept, TableHolds, PTL DEF Spec
=============================================================================
