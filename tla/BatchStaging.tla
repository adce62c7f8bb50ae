---------------------------- MODULE BatchStaging ----------------------------
(***************************************************************************)
(* Batch scans (orchestrator/batch.py, cleanup.py).  A batch list names    *)
(* repositories, remote or local, each once (a second row with the same    *)
(* path is an error).  Ungrouped, each row is a unit: a remote repository  *)
(* is cloned to workspace/<name>, scanned and purged, a local one is       *)
(* scanned where it is.  Grouped, the rows of an application are staged    *)
(* side by side under workspace/<app>, scanned together and purged.  A     *)
(* directory is reused when a marker, kept outside the workspace, says     *)
(* that it was staged from the requested repository.                       *)
(*                                                                         *)
(* The workspace and the markers outlive a batch, and a batch may be       *)
(* killed at any point.  A directory is abstracted to the repository its   *)
(* source is of, how much of that source is there, and whether it holds    *)
(* the report folder that purging preserves.                               *)
(***************************************************************************)
EXTENDS Naturals, FiniteSets, Sequences, SequencesExt

CONSTANTS
  Repos,       \* the refs a batch list may name
  Remote,      \* those that have to be cloned
  NameOf,      \* the repo_name of a row, made safe for a path
  TailOf,      \* the last part of its repo_name
  AppOf,       \* its application
  Lists,       \* the lists a batch may be given
  Apart,       \* the scope of ungrouped directories
  Clean,       \* a slug that is the clean tail
  NoRepo,      \* no repository
  MaxBatches,  \* the number of batches
  MaxFaults    \* how many deletions or marker writes fail

ASSUME BatchAssumption ==
  /\ Remote \subseteq Repos /\ NoRepo \notin Repos /\ Clean \notin Repos
  /\ \A r \in Repos : AppOf[r] # Apart
  /\ \A l \in Lists : l \in Seq(Repos) /\ IsInjective(l) /\ l # <<>>
  /\ MaxBatches \in Nat /\ MaxFaults \in Nat

Dirs == {<<AppOf[r], TailOf[r], s>> : r \in Repos, s \in Repos \cup {Clean}}
          \cup {<<Apart, NameOf[r], Clean>> : r \in Repos}

VARIABLES
  tree,     \* the workspace: what each directory holds
  marker,   \* the repository each directory is bound to
  origin,   \* the local repositories that are intact
  opts,     \* --group-by-app, --keep-clones, --stop-after clone
  todo,     \* the units that have not begun
  unit,     \* the rows of the current unit
  at,       \* how many of them have been tried
  staged,   \* those whose staging succeeded
  pc,       \* where the batch is
  status,   \* the result recorded for the current unit
  results,  \* the units that ended, with what was recorded for them
  stuck,    \* directories something could not be deleted from
  unbound,  \* directories whose last fetch did not get to write the marker
  reused,   \* directories of this unit that were taken as verified
  batches,  \* the number of batches begun
  faults    \* the number of faults so far

disk == <<tree, marker, origin, stuck, unbound>>
vars == <<disk, opts, todo, unit, at, staged, pc, status, results, reused, batches, faults>>

Trees == [of : Repos \cup {NoRepo}, src : {"absent", "none", "part", "whole"}, out : BOOLEAN]
(* --stop-after clone implies --keep-clones.                                 *)
Options ==
  {o \in [grouped : BOOLEAN, keep : BOOLEAN, cloneOnly : BOOLEAN] : o.cloneOnly => o.keep}

TypeOK ==
  /\ tree \in [Dirs -> Trees] /\ marker \in [Dirs -> Repos \cup {NoRepo}]
  /\ origin \subseteq Repos \ Remote /\ opts \in Options
  /\ unit \in Seq(Repos) /\ at \in 0 .. Len(unit) /\ staged \subseteq 1 .. at
  /\ pc \in {"idle", "next", "stage", "scan", "purge", "summary"}
  /\ status \in {"", "OK", "FAILED", "ABORTED"}
  /\ \A k \in DOMAIN results : results[k].status \in {"OK", "FAILED", "ABORTED"}
  /\ stuck \subseteq Dirs /\ unbound \subseteq Dirs /\ reused \subseteq Dirs
  /\ batches \in 0 .. MaxBatches /\ faults \in 0 .. MaxFaults

Nowhere == [of |-> NoRepo, src |-> "absent", out |-> FALSE]

Init ==
  /\ tree = [d \in Dirs |-> Nowhere] /\ marker = [d \in Dirs |-> NoRepo]
  /\ origin = Repos \ Remote
  /\ opts = [grouped |-> FALSE, keep |-> FALSE, cloneOnly |-> FALSE]
  /\ todo = <<>> /\ unit = <<>> /\ at = 0 /\ staged = {} /\ reused = {}
  /\ pc = "idle" /\ status = "" /\ results = <<>>
  /\ stuck = {} /\ unbound = {} /\ batches = 0 /\ faults = 0

-----------------------------------------------------------------------------
(* Where the i-th row of a unit is staged.                                   *)

(* A bug: the slug is always the clean tail.                                 *)
SlugCollides(u, i) == Clean

(* The first repository of an application keeps the clean tail, a later one  *)
(* with the same tail gets a slug of its own.                                *)
Slug(u, i) == IF \E j \in 1 .. i - 1 : TailOf[u[j]] = TailOf[u[i]] THEN u[i] ELSE Clean

DirOf(u, i) ==
  IF opts.grouped THEN <<AppOf[u[i]], TailOf[u[i]], Slug(u, i)>>
                  ELSE <<Apart, NameOf[u[i]], Clean>>

(* An ungrouped local repository is scanned where it is.                     *)
InPlace(r) == ~opts.grouped /\ r \notin Remote

HasContent(d) == tree[d].src \in {"part", "whole"} \/ tree[d].out

(* A bug: whatever is there is used.                                         *)
ReusableBySize(d, r) == HasContent(d)

Reusable(d, r) == marker[d] = r /\ (r \in Remote => HasContent(d))

-----------------------------------------------------------------------------
(* The batch and its units.                                                  *)

(* The rows of a list at some of its places, in the order of the list.       *)
InOrder(list, places) ==
  [k \in 1 .. Cardinality(places) |->
     list[CHOOSE i \in places : Cardinality(places \cap 1 .. i) = k]]

Apps(list) == {AppOf[r] : r \in Range(list)}

(* The rows of each application, the applications in some fixed order.       *)
Units(list, grouped) ==
  IF grouped
  THEN [k \in 1 .. Cardinality(Apps(list)) |->
          InOrder(list, {i \in DOMAIN list : AppOf[list[i]] = SetToSeq(Apps(list))[k]})]
  ELSE [i \in DOMAIN list |-> <<list[i]>>]

StartBatch(list, o) ==
  /\ pc = "idle" /\ batches < MaxBatches
  /\ batches' = batches + 1 /\ opts' = o
  /\ todo' = Units(list, o.grouped)
  /\ results' = <<>> /\ pc' = "next" /\ unit' = <<>> /\ at' = 0 /\ staged' = {}
  /\ reused' = {} /\ status' = ""
  /\ UNCHANGED <<disk, faults>>

NextUnit ==
  /\ pc = "next" /\ todo # <<>>
  /\ unit' = Head(todo) /\ todo' = Tail(todo)
  /\ at' = 0 /\ staged' = {} /\ reused' = {} /\ status' = "" /\ pc' = "stage"
  /\ UNCHANGED <<disk, opts, results, batches, faults>>

(* A bug: a row that fails ends its unit without a status.                   *)
TriedSilently(ok) ==
  /\ at' = at + 1
  /\ staged' = IF ok THEN staged \cup {at + 1} ELSE staged
  /\ IF ok \/ opts.grouped THEN UNCHANGED pc ELSE pc' = "purge"
  /\ UNCHANGED <<origin, opts, todo, unit, results, batches, status>>

(* Row at + 1 has been tried; an ungrouped row that fails fails its unit.    *)
Tried(ok) ==
  /\ at' = at + 1
  /\ staged' = IF ok THEN staged \cup {at + 1} ELSE staged
  /\ IF ok \/ opts.grouped THEN UNCHANGED <<pc, status>>
                           ELSE pc' = "purge" /\ status' = "FAILED"
  /\ UNCHANGED <<origin, opts, todo, unit, results, batches>>

Row == unit[at + 1]
Here == DirOf(unit, at + 1)
Staging == pc = "stage" /\ at < Len(unit)

UseInPlace ==
  /\ Staging /\ InPlace(Row) /\ Tried(TRUE)
  /\ UNCHANGED <<tree, marker, stuck, unbound, reused, faults>>

Reuse ==
  /\ Staging /\ ~InPlace(Row)
  /\ tree[Here] # Nowhere /\ Reusable(Here, Row)
  /\ reused' = reused \cup {Here} /\ Tried(TRUE)
  /\ UNCHANGED <<tree, marker, stuck, unbound, faults>>

(* The directory cannot be removed: what is left of it is used as it is.     *)
CannotRemove ==
  /\ Staging /\ ~InPlace(Row) /\ faults < MaxFaults /\ faults' = faults + 1
  /\ tree[Here] # Nowhere /\ ~Reusable(Here, Row)
  /\ \E t \in {tree[Here], [tree[Here] EXCEPT !.src = "part", !.out = FALSE]} :
       tree' = [tree EXCEPT ![Here] = t]
  /\ stuck' = stuck \cup {Here} /\ Tried(TRUE)
  /\ UNCHANGED <<marker, unbound, reused>>

Fetchable == Staging /\ ~InPlace(Row) /\ (tree[Here] = Nowhere \/ ~Reusable(Here, Row))

(* The directory is replaced by a clone or a copy, then bound to its ref.    *)
(* The write of the marker may fail, which leaves the one of before.         *)
Fetch ==
  /\ Fetchable
  /\ tree' = [tree EXCEPT ![Here] = [of |-> Row, src |-> "whole", out |-> FALSE]]
  /\ stuck' = stuck \ {Here}
  /\ \/ /\ marker' = [marker EXCEPT ![Here] = Row]
        /\ unbound' = unbound \ {Here} /\ UNCHANGED faults
     \/ /\ faults < MaxFaults /\ faults' = faults + 1
        /\ unbound' = unbound \cup {Here} /\ UNCHANGED marker
  /\ Tried(TRUE) /\ UNCHANGED reused

(* Fetching the current row ends with part of its source on disk, or with    *)
(* only the .git directory.                                                  *)
CutShort ==
  /\ Fetchable
  /\ \E s \in {"none", "part"} :
       tree' = [tree EXCEPT ![Here] = [of |-> Row, src |-> s, out |-> FALSE]]
  /\ unbound' = unbound \cup {Here}

(* git fails and takes its directory away; or it is killed after a timeout,  *)
(* or a copy fails, and part of the source stays, with the marker of before. *)
FetchFails ==
  /\ Fetchable
  /\ \/ CutShort
     \/ tree' = [tree EXCEPT ![Here] = Nowhere] /\ UNCHANGED unbound
  /\ stuck' = stuck \ {Here}
  /\ Tried(FALSE) /\ UNCHANGED <<marker, reused, faults>>

(* Every row has been tried: the unit is scanned, if any of it was staged.   *)
StagingEnds ==
  /\ pc = "stage" /\ at = Len(unit)
  /\ IF staged = {} THEN pc' = "purge" /\ status' = "FAILED"
     ELSE IF opts.cloneOnly THEN pc' = "purge" /\ status' = "OK"
     ELSE pc' = "scan" /\ UNCHANGED status
  /\ UNCHANGED <<disk, opts, todo, unit, at, staged, results, reused, batches, faults>>

(* The directories that the unit may leave source in, and purges.            *)
Purged ==
  IF opts.grouped THEN {d \in Dirs : d[1] = AppOf[unit[1]]}
  ELSE {DirOf(unit, i) : i \in {j \in staged : unit[j] \in Remote}}

(* scan_repo creates its report folder first, in the unit's directory.       *)
Scan(s) ==
  /\ pc = "scan" /\ status' = s /\ pc' = "purge"
  /\ tree' = [d \in Dirs |->
       [tree[d] EXCEPT !.out = @ \/ (~opts.grouped /\ d \in Purged)]]
  /\ UNCHANGED <<marker, origin, stuck, unbound, opts, todo, unit, at, staged, results,
                 reused, batches, faults>>

(* Ctrl-C while the unit is staged; the row being fetched is left in part.   *)
InterruptStaging ==
  /\ Staging
  /\ CutShort \/ UNCHANGED <<tree, unbound>>
  /\ pc' = "purge" /\ status' = "ABORTED"
  /\ UNCHANGED <<marker, origin, stuck, opts, todo, unit, at, staged, results, reused,
                 batches, faults>>

Empty(d) ==
  IF opts.grouped \/ tree[d] = Nowhere THEN Nowhere
  ELSE [of |-> NoRepo, src |-> "none", out |-> tree[d].out]

(* A bug: the report folder goes with the source.                            *)
PurgeAll(S) ==
  /\ tree' = [d \in Dirs |-> IF d \in S THEN Nowhere ELSE tree[d]]
  /\ UNCHANGED origin

(* A bug: a local repository is purged like a clone.                         *)
PurgeLocal(S) ==
  /\ tree' = [d \in Dirs |-> IF d \in S THEN Empty(d) ELSE tree[d]]
  /\ origin' = origin \ {unit[i] : i \in staged}

(* A bug: a clone of a unit that failed is left.                             *)
PurgeIfOK(S) ==
  /\ tree' = [d \in Dirs |-> IF d \in S /\ status = "OK" THEN Empty(d) ELSE tree[d]]
  /\ UNCHANGED origin

(* _purge_clone deletes everything but the report folder.                    *)
PurgeDirs(S) ==
  /\ tree' = [d \in Dirs |-> IF d \in S THEN Empty(d) ELSE tree[d]]
  /\ UNCHANGED origin

(* A bug: only a unit that was scanned gets a result.                        *)
RecordScanned ==
  IF status = "OK"
  THEN Append(results, [unit |-> unit, dirs |-> Purged, staged |-> staged, status |-> status])
  ELSE results

Record == Append(results, [unit |-> unit, dirs |-> Purged, staged |-> staged, status |-> status])

(* The finally clause: purge, then the next unit, or the end if aborted.  A  *)
(* deletion that fails leaves part of a directory and a warning.             *)
Purge ==
  /\ pc = "purge"
  /\ \/ /\ opts.keep
        /\ UNCHANGED <<tree, origin, stuck, faults>>
     \/ /\ ~opts.keep
        /\ \/ /\ PurgeDirs(Purged)
              /\ stuck' = stuck \ Purged /\ UNCHANGED faults
           \/ \E d \in Purged :
                /\ faults < MaxFaults /\ tree[d].src # "absent"
                /\ faults' = faults + 1
                /\ PurgeDirs(Purged \ {d}) /\ stuck' = (stuck \ Purged) \cup {d}
  /\ results' = Record
  /\ pc' = IF status = "ABORTED" THEN "idle" ELSE "next"
  /\ UNCHANGED <<marker, unbound, opts, todo, unit, at, staged, status, reused, batches>>

Summarise ==
  /\ pc = "next" /\ todo = <<>> /\ pc' = "summary"
  /\ UNCHANGED <<disk, opts, todo, unit, at, staged, status, results, reused, batches, faults>>

(* The process is gone: what it held in memory is.                           *)
Gone ==
  /\ pc' = "idle" /\ todo' = <<>> /\ unit' = <<>> /\ at' = 0 /\ staged' = {}
  /\ reused' = {} /\ status' = "" /\ results' = <<>>
  /\ UNCHANGED <<marker, origin, stuck, opts, batches, faults>>

Exit == pc = "summary" /\ Gone /\ UNCHANGED <<tree, unbound>>

(* The process is killed: a row being fetched is left in part.               *)
Kill ==
  /\ pc \notin {"idle", "summary"} /\ Gone
  /\ CutShort \/ UNCHANGED <<tree, unbound>>

Next ==
  \/ \E list \in Lists, o \in Options : StartBatch(list, o)
  \/ NextUnit \/ UseInPlace \/ Reuse \/ CannotRemove \/ Fetch \/ FetchFails
  \/ StagingEnds \/ InterruptStaging \/ Purge \/ Summarise \/ Exit \/ Kill
  \/ \E s \in {"OK", "FAILED", "ABORTED"} : Scan(s)

Spec == Init /\ [][Next]_vars

-----------------------------------------------------------------------------
(* Whatever earlier batches, killed or interrupted, left in the workspace,   *)
(* the directory of each staged row holds source of that row's repository    *)
(* and two rows of a unit never share one, unless the directory could not    *)
(* be removed or its last fetch did not get to write the marker (then the    *)
(* marker of before still binds it, to a repository it no longer holds).     *)
RightRepository ==
  pc = "scan" =>
    \A i \in staged :
      LET d == DirOf(unit, i) IN
        InPlace(unit[i]) \/ d \in stuck \cup unbound \/ tree[d].of \in {unit[i], NoRepo}

(* Once the next unit is due, no source is left in the directories of a      *)
(* unit that ended, its scan succeeding or failing, but for what could not   *)
(* be deleted (an ungrouped clone that itself failed is not purged at all).  *)
SourceGone ==
  pc \in {"next", "summary"} /\ ~opts.keep =>
    \A k \in DOMAIN results : \A d \in results[k].dirs \ stuck :
      tree[d].src \in {"absent", "none"}

(* The report folder of a clone that was scanned is still there when the     *)
(* summary names its report.                                                 *)
ReportsSurvive ==
  pc = "summary" /\ ~opts.grouped /\ ~opts.cloneOnly =>
    \A k \in DOMAIN results : results[k].status = "OK" =>
      \A d \in results[k].dirs : tree[d].out

(* A purge never deletes a repository that was not cloned.                   *)
LocalIntact == origin = Repos \ Remote

(* The summary has one result for each row of the list, in a unit that is    *)
(* not called OK when none of its rows was staged.                           *)
ResultForEveryRow ==
  pc = "summary" =>
    /\ UNION {Range(results[k].unit) : k \in DOMAIN results} \in {Range(l) : l \in Lists}
    /\ \A j, k \in DOMAIN results :
         j # k => Range(results[j].unit) \cap Range(results[k].unit) = {}
    /\ \A k \in DOMAIN results : results[k].status = "OK" => results[k].staged # {}

(* A directory reused as a verified checkout holds the whole source of the   *)
(* repository that is asked for.                                             *)
VerifiedIsWhole ==
  \A i \in staged : pc = "scan" /\ DirOf(unit, i) \in reused =>
    tree[DirOf(unit, i)] = [of |-> unit[i], src |-> "whole", out |-> tree[DirOf(unit, i)].out]
=============================================================================
