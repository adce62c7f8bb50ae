------------------------------ MODULE ScopePlan ------------------------------
(***************************************************************************)
(* From the repository to the chunks that the deep dive audits: the        *)
(* exclusions that a model proposes (s1_autoexclude), the walk and the     *)
(* collapse of configuration files, the map that an agent draws and its    *)
(* call graph (s1_preprocess), the threats (s2_threatmodel), and the plan  *)
(* (s3_decompose), whose deterministic passes make up for what the model   *)
(* leaves out.  The agents answer anything among the answers of the        *)
(* instance, also nothing that can be read.                                *)
(*                                                                         *)
(* A file is known by what the code asks about it.  A path that a model    *)
(* wrote is known by the file it names, if any, and by the files it may    *)
(* mean.  Of two files equally near the code takes any, here a fixed one.  *)
(***************************************************************************)
EXTENDS Integers, Sequences, FiniteSets, SequencesExt, Lists, TLC

CONSTANTS
  Disk,          \* the files, in the order of their paths
  Outside,       \* the links that lead out of the repository
  Marks,         \* the directories, extensions and globs that each file matches
  Kb, Lines,     \* the size of each, and its weight in the budget of a chunk
  Shape, Signals, \* of a configuration file: its keys, and its suspicious values
  Top, Dir,      \* the first part of its path, and the first two
  Production,    \* its place in the choice of a representative
  Settings0,     \* the configuration: [marks, kb, configs, least]
  Overlays,      \* what the model may propose
  MapAnswers, PlanAnswers, ThreatAnswers,   \* what the agents may answer
  Source,        \* the files in a known language
  Native,        \* the C and C++ files
  Eligible,      \* those that the catch-all takes
  Defs,          \* the files that define each function
  CallSites,     \* the calls in the text: [file, in, name]
  Nearness, Suffix,  \* how near two files are; the paths that end alike
  MaxTargets, Rounds, MaxHops, MaxTaint, MaxThreats,
  Cap, MostFiles,           \* of a chunk of the plan
  CatchCap, CatchFiles,     \* of a chunk of the catch-all
  SpecialCap, Specialists,
  NoFile, NoThreat

OnDisk == Range(Disk)
FnNames == DOMAIN Defs
Paths == [is : OnDisk \cup {NoFile}, maybe : SUBSET OnDisk]
Points == [path : Paths, fn : FnNames, order : Int]

ASSUME ScopeAssumption ==
  /\ Disk \in Seq(OnDisk) /\ IsFiniteSet(FnNames) /\ IsFiniteSet(Specialists)
  /\ \A n \in FnNames : Defs[n] \subseteq OnDisk
  /\ CallSites \subseteq [file : OnDisk, in : FnNames, name : FnNames]
  /\ Nearness \in [OnDisk -> [OnDisk -> Nat]]
  /\ \A a \in MapAnswers : a.modules \in Seq(Seq(Paths)) /\ {a.entries, a.sinks} \subseteq Seq(Points)
  /\ PlanAnswers \subseteq Seq([paths : SUBSET Paths, rank : Int, threat : STRING]) /\ NoThreat \in STRING
  /\ Outside \subseteq OnDisk /\ Native \subseteq Source /\ Source \subseteq OnDisk
  /\ \A f \in OnDisk : Kb[f] \in Nat /\ Lines[f] \in Nat /\ Production[f] \in Nat
  /\ {MaxTargets, Rounds, MaxHops, MaxTaint, MaxThreats, Cap, CatchCap, SpecialCap} \subseteq Nat
  /\ {MostFiles, CatchFiles} \subseteq Nat \ {0}
  /\ NoFile \notin OnDisk

VARIABLES
  stage, settings,
  walked, scope,     \* what the walk keeps, and what is left of it: all_files
  modules, entries, sinks,
  graph,             \* the edges between qualified functions
  threats, chunks

scopeVars == <<stage, settings, walked, scope, modules, entries, sinks, graph, threats, chunks>>

Stages == {"exclude", "walk", "collapse", "map", "threats", "plan", "taint", "split", "catchall",
           "special", "planned", "failed"}
Qualified(f, n) == [file |-> f, name |-> n]
Functions == [file : OnDisk \cup {NoFile}, name : FnNames]
Chunks0 == [kind : {"risk", "taint", "catchall", "special"}, files : Seq(OnDisk), rank : Int,
            threat : STRING]

ScopeTypeOK ==
  /\ stage \in Stages /\ settings.marks \subseteq Settings0.marks \cup UNION {o.marks : o \in Overlays}
  /\ walked \subseteq OnDisk /\ scope \subseteq walked
  /\ modules \in Seq(Seq(scope)) /\ {entries, sinks} \subseteq Seq([fn : FnNames, order : Int, file : scope])
  /\ graph \subseteq Functions \X Functions
  /\ chunks \in Seq(Chunks0)

ScopeInit ==
  /\ stage = "exclude" /\ settings = Settings0 /\ walked = {} /\ scope = {}
  /\ modules = <<>> /\ entries = <<>> /\ sinks = <<>> /\ graph = {} /\ threats = {} /\ chunks = <<>>

Listed(S) == Keep(Disk, S)

-----------------------------------------------------------------------------
(* Stage 1: the inventory.                                                   *)

(* auto-step1: the marks are added to what is configured, a limit replaces   *)
(* it, and so does the list of extensions that count as configuration.       *)
AutoExclude(o) ==
  /\ stage = "exclude"
  /\ settings' = [marks |-> settings.marks \cup o.marks,
                  kb |-> IF o.kb > 0 THEN o.kb ELSE settings.kb,
                  configs |-> IF o.configs # {} THEN o.configs ELSE settings.configs,
                  least |-> IF o.least > 0 THEN o.least ELSE settings.least]
  /\ stage' = "walk"
  /\ UNCHANGED <<walked, scope, modules, entries, sinks, graph, threats, chunks>>

Walk ==
  /\ stage = "walk"
  /\ walked' = {f \in OnDisk \ Outside : Marks[f] \cap settings.marks = {} /\ Kb[f] <= settings.kb}
  /\ scope' = walked' /\ stage' = "collapse"
  /\ UNCHANGED <<settings, modules, entries, sinks, graph, threats, chunks>>

Cluster(f) == {g \in settings.configs \cap scope : Shape[g] = Shape[f]}
Representatives(S) == {f \in S : \A g \in S : Top[g] = Top[f] => Production[f] <= Production[g]}

(* What a large cluster has shown when f is reached: the representatives     *)
(* come first, then the others in the order of Production.                   *)
ShownBefore(f, S, lost) ==
  UNION {Signals[g] : g \in {g \in S \ lost : g \in Representatives(S) \/ Production[g] < Production[f]}}

(* Those that are kept of it: a representative for each top directory, what  *)
(* cannot be read again, and what shows a signal that none of those before   *)
(* it has shown.                                                             *)
KeptOf(S, lost) ==
  {f \in S : f \in Representatives(S) \cup lost \/ ~ Signals[f] \subseteq ShownBefore(f, S, lost)}

(* _dedup_configs; lost are the files that change before they are read again.*)
Collapse0(lost) ==
  LET configs == settings.configs \cap scope
      clustered(f) == Shape[f] # NoFile /\ Cardinality(Cluster(f)) >= settings.least
  IN IF Cardinality(configs) < settings.least THEN scope
     ELSE {f \in scope : f \in configs /\ clustered(f) => f \in KeptOf(Cluster(f), lost \cap Cluster(f))}

CollapseConfigs(lost) ==
  /\ stage = "collapse"
  /\ scope' = Collapse0(lost) /\ stage' = "map"
  /\ UNCHANGED <<settings, walked, modules, entries, sinks, graph, threats, chunks>>

-----------------------------------------------------------------------------
(* Stage 1: the map.                                                         *)

(* A bug: a path is taken as the agent wrote it.                             *)
ResolveTrusted(p, S) == {p.is} \ {NoFile}

(* _resolve_scope_path, and by the base name _normalize_chunk_files: the     *)
(* file itself, or the only one it may mean; what may mean two is dropped.   *)
Resolve(p, S) ==
  CASE p.is \in S -> {p.is}
    [] p.is \notin S /\ Cardinality(p.maybe \cap S) = 1 -> p.maybe \cap S
    [] OTHER -> {}

ResolvedSeq(paths, S) == FlattenSeq([i \in DOMAIN paths |-> SetToSeq(Resolve(paths[i], S))])
Located(items, S) ==
  FlattenSeq([i \in DOMAIN items |->
    IF Resolve(items[i].path, S) = {} THEN <<>>
    ELSE <<[fn |-> items[i].fn, order |-> items[i].order,
            file |-> CHOOSE f \in Resolve(items[i].path, S) : TRUE]>>])

DefsIn(n, S) == Defs[n] \cap S \cap Source
SitesIn(S) == {s \in CallSites : s.file \in S \cap Source}
FirstOf(S) == Range(SubSeq(Listed(S), 1, IF Cardinality(S) < MaxTargets THEN Cardinality(S) ELSE MaxTargets))

(* _resolve_callee_files: the caller's own file, else the nearest.           *)
Targets(n, f, S) ==
  LET d == DefsIn(n, S)
  IN CASE f \in d -> {f}
       [] f \notin d /\ Cardinality(d) <= 1 -> d
       [] OTHER -> CHOOSE T \in SUBSET d :
            /\ Cardinality(T) = IF Cardinality(d) < MaxTargets THEN Cardinality(d) ELSE MaxTargets
            /\ \A x \in T, y \in d \ T : Nearness[f][y] <= Nearness[f][x]

(* The calls that the agent reports, if the text knows both names.           *)
FromAgent(calls, S) ==
  LET seen == {s.name : s \in SitesIn(S)} \cup {n \in FnNames : DefsIn(n, S) # {}}
      callers(n) == IF DefsIn(n, S) = {} THEN {NoFile} ELSE FirstOf(DefsIn(n, S))
      callees(n, f) == IF f = NoFile THEN FirstOf(DefsIn(n, S)) ELSE Targets(n, f, S)
  IN UNION {UNION {{<<Qualified(f, c.caller), Qualified(g, c.callee)>> : g \in callees(c.callee, f)} :
                     f \in callers(c.caller)} :
              c \in {c \in calls : {c.caller, c.callee} \subseteq seen}}

(* The calls that the text shows, from the names that matter back to their   *)
(* callers, so many rounds.                                                  *)
FromText(seeds, S) ==
  LET found(names) == {s \in SitesIn(S) : s.name \in names /\ s.in # s.name}
      edges(names) == UNION {{<<Qualified(s.file, s.in), Qualified(g, s.name)>> : g \in Targets(s.name, s.file, S)} :
                               s \in found(names)}
      rounds == IF Rounds = 0 THEN 1 ELSE Rounds
      round[k \in 0 .. rounds] ==
        IF k = 0 THEN [names |-> seeds, known |-> seeds, edges |-> {}]
        ELSE LET r == round[k - 1]
                 new == ({s.in : s \in found(r.names)} \cap {n \in FnNames : DefsIn(n, S) # {}}) \ r.known
             IN [names |-> new, known |-> r.known \cup new, edges |-> r.edges \cup edges(r.names)]
  IN round[rounds].edges

(* The map as it is read: empty if it cannot be.                             *)
MapRepository(answer) ==
  /\ stage = "map"
  /\ modules' = [i \in DOMAIN answer.modules |-> ResolvedSeq(answer.modules[i], scope)]
  /\ entries' = Located(answer.entries, scope) /\ sinks' = Located(answer.sinks, scope)
  /\ LET seeds == {e.fn : e \in Range(entries')} \cup {s.fn : s \in Range(sinks')}
                    \cup UNION {{c.caller, c.callee} : c \in answer.calls}
     IN graph' = FromAgent(answer.calls, scope) \cup FromText(seeds, scope)
  /\ stage' = "threats"
  /\ UNCHANGED <<settings, walked, scope, threats, chunks>>

(* Stage 2: the first threats of the answer.  One that cannot be read ends   *)
(* the scan.                                                                 *)
ModelThreats(answer) ==
  /\ stage = "threats"
  /\ threats' = Range(SubSeq(answer, 1, IF Len(answer) < MaxThreats THEN Len(answer) ELSE MaxThreats))
  /\ stage' = "plan"
  /\ UNCHANGED <<settings, walked, scope, modules, entries, sinks, graph, chunks>>

NoThreatModel ==
  /\ stage = "threats" /\ stage' = "failed"
  /\ UNCHANGED <<settings, walked, scope, modules, entries, sinks, graph, threats, chunks>>

-----------------------------------------------------------------------------
(* Stage 3: the plan of the model, over the C and C++ files only.            *)

InPlan == scope \cap Native
OfNative(items) == Picked(items, {i \in DOMAIN items : items[i].file \in Native})
NativeGraph == {e \in graph : {e[1].file, e[2].file} \subseteq Native \cup {NoFile}}

Plan0(answer) ==
  /\ stage = "plan"
  /\ chunks' = [i \in DOMAIN answer |->
                 [kind |-> "risk", files |-> Listed(UNION {Resolve(p, InPlan) : p \in answer[i].paths}),
                  rank |-> answer[i].rank, threat |-> answer[i].threat]]
  /\ stage' = "taint"
  /\ UNCHANGED <<settings, walked, scope, modules, entries, sinks, graph, threats>>

(* _match_qnodes.                                                            *)
Nodes == {e[1] : e \in NativeGraph} \cup {e[2] : e \in NativeGraph}
Match(f, n) ==
  LET named == {q \in Nodes : q.name = n}
      here == {q \in named : q.file = f}
      alike == {q \in named : q.file \in Suffix[f]}
  IN CASE here # {} -> here
       [] here = {} /\ alike # {} -> alike
       [] OTHER -> {Qualified(f, n)}

SinkNodes == UNION {Match(s.file, s.fn) : s \in Range(OfNative(sinks))}

(* _bfs_to_sinks: the functions within so many hops, each with a shortest    *)
(* path.                                                                     *)
PathsFrom(start) ==
  LET level[k \in Nat] ==
        IF k = 0 THEN start :> <<start>>
        ELSE LET old == level[k - 1]
                 edge == {n \in DOMAIN old : Len(old[n]) = k}
                 new == {e[2] : e \in {e \in NativeGraph : e[1] \in edge}} \ DOMAIN old
             IN old @@ [m \in new |-> Append(old[CHOOSE n \in edge : <<n, m>> \in NativeGraph], m)]
  IN level[MaxHops]

(* The sinks that an entry point reaches, or else those in its own file.     *)
Reached(e) ==
  LET from(start) == {[sink |-> q, path |-> Range(PathsFrom(start)[q])] :
                        q \in (DOMAIN PathsFrom(start) \cap SinkNodes) \ {start}}
      hits == UNION {from(start) : start \in Match(e.file, e.fn)}
  IN IF hits # {} THEN hits
     ELSE {[sink |-> Qualified(s.file, s.fn), path |-> {Qualified(e.file, e.fn), Qualified(s.file, s.fn)}] :
             s \in {s \in Range(OfNative(sinks)) : s.file = e.file}}

SinkFiles(q) ==
  LET here == {s.file : s \in {s \in Range(OfNative(sinks)) : q \in Match(s.file, s.fn)}}
  IN IF here # {} THEN here ELSE {q.file}

TaintsOf(e) ==
  {[fn |-> e.fn, sink |-> h.sink, files |-> ({q.file : q \in h.path} \cup {e.file} \cup SinkFiles(h.sink)) \cap InPlan] :
     h \in Reached(e)}

(* _add_taint_chunks: a chunk for each path, the first so many, ahead of     *)
(* the model's.  The cap on the files of a hop never binds: a path has at    *)
(* most one for each.  The threat it is tagged with is a known one, left out.*)
Taints ==
  LET native == OfNative(entries)
      before(i, j) == \/ native[i].order < native[j].order
                      \/ native[i].order = native[j].order /\ i <= j
      order == Ordered([i \in DOMAIN native |-> {j \in DOMAIN native : before(j, i)}])
      all == FlattenSeq([k \in DOMAIN order |-> SetToSeq(TaintsOf(native[order[k]]))])
      new == Ascending({i \in DOMAIN all : all[i].files # {} /\ \A j \in 1 .. (i - 1) : all[j] # all[i]})
  IN [k \in 1 .. (IF Len(new) < MaxTaint THEN Len(new) ELSE MaxTaint) |-> all[new[k]].files]

AddTaints ==
  /\ stage = "taint"
  /\ chunks' = [i \in DOMAIN chunks |->
                  IF Taints = <<>> THEN chunks[i] ELSE [chunks[i] EXCEPT !.rank = @ + MaxTaint]]
               \o [k \in DOMAIN Taints |-> [kind |-> "taint", files |-> Listed(Taints[k]), rank |-> k,
                                            threat |-> NoThreat]]
  /\ stage' = "split"
  /\ UNCHANGED <<settings, walked, scope, modules, entries, sinks, graph, threats>>

-----------------------------------------------------------------------------
(* Stage 3: the other passes.                                                *)

FileEdges == {<<e[1].file, e[2].file>> : e \in NativeGraph} \cup {<<e[2].file, e[1].file>> : e \in NativeGraph}
Component(f, S) ==
  {g \in S : \A C \in SUBSET S :
     f \in C /\ (\A e \in FileEdges : e[1] \in C /\ e[2] \in S => e[2] \in C) => g \in C}

(* _cohesive_groups: the modules of the map, then what calls each other,     *)
(* then what lies together.                                                  *)
Groups(S) ==
  LET ofModule(i) == Keep(modules[i], (S \cap InPlan) \ UNION {Range(modules[j]) : j \in 1 .. (i - 1)})
      rest == S \ UNION {Range(modules[i]) : i \in DOMAIN modules}
      linked == {f \in rest : \E e \in FileEdges : e[1] = f /\ e[1] # e[2] /\ e[2] # NoFile}
      components == {Component(f, rest) : f \in linked}
      alone == rest \ UNION components
      dirs == {{g \in alone : Dir[g] = Dir[f]} : f \in alone}
  IN Picked([i \in DOMAIN modules |-> ofModule(i)], {i \in DOMAIN modules : ofModule(i) # <<>>})
     \o [i \in 1 .. Cardinality(components) |-> Listed(SetToSeq(components)[i])]
     \o [i \in 1 .. Cardinality(dirs) |-> Listed(SetToSeq(dirs)[i])]

Weight0(files) == FoldLeft(LAMBDA n, f : n + Lines[f], 0, files)

Within(files, cap, most) == Weight0(files) <= cap /\ Len(files) <= most

(* Where the shards of a group begin: a file joins the open shard if that    *)
(* stays within the caps.                                                    *)
Starts(files, cap, most) ==
  CHOOSE C \in SUBSET DOMAIN files : \A i \in DOMAIN files :
    i \in C <=> \A s \in C : s < i =>
                  ~ Within(SubSeq(files, s, i), cap, most) \/ \E t \in C : s < t /\ t < i

Shards(files, C) ==
  LET first == Ascending(C)
  IN [k \in DOMAIN first |->
        SubSeq(files, first[k], IF k < Len(first) THEN first[k + 1] - 1 ELSE Len(files))]

(* A bug: the last shard of a group is not flushed.                          *)
PackedTailless(files, cap, most) ==
  LET shards == Shards(files, Starts(files, cap, most))
  IN SubSeq(shards, 1, Len(shards) - 1)

(* _pack, for one group.                                                     *)
Packed(files, cap, most) == Shards(files, Starts(files, cap, most))

Pack(groups, cap, most) == FlattenSeq([i \in DOMAIN groups |-> Packed(groups[i], cap, most)])

(* _split_oversize_risk_chunks: whoever made it.                             *)
Fits(c) == Within(c.files, Cap, MostFiles)
Split ==
  /\ stage = "split"
  /\ chunks' = FlattenSeq([i \in DOMAIN chunks |->
       IF Fits(chunks[i]) THEN <<chunks[i]>>
       ELSE LET shards == Pack(Groups(Range(chunks[i].files)), Cap, MostFiles)
            IN [k \in DOMAIN shards |-> [chunks[i] EXCEPT !.files = shards[k]]]])
  /\ stage' = "catchall"
  /\ UNCHANGED <<settings, walked, scope, modules, entries, sinks, graph, threats>>

LastRank == IF chunks = <<>> THEN 0 ELSE CHOOSE r \in {c.rank : c \in Range(chunks)} :
                                           \A c \in Range(chunks) : c.rank <= r
Swept == UNION {Range(c.files) : c \in Range(chunks)}
Added(kind, shards, from) ==
  [k \in DOMAIN shards |-> [kind |-> kind, files |-> shards[k], rank |-> from + k, threat |-> NoThreat]]

CatchAll ==
  /\ stage = "catchall"
  /\ chunks' = chunks \o Added("catchall", Pack(Groups((InPlan \ Swept) \cap Eligible), CatchCap, CatchFiles), LastRank)
  /\ stage' = "special"
  /\ UNCHANGED <<settings, walked, scope, modules, entries, sinks, graph, threats>>

(* The specialists whose surface there is sweep all the source; then a       *)
(* threat that is not known is struck from its chunk.                        *)
Specialise(gated) ==
  /\ stage = "special"
  /\ LET shards == Pack(Groups(InPlan), SpecialCap, MostFiles)
         all == FlattenSeq([i \in 1 .. Cardinality(Specialists \ gated) |-> shards])
         known(c) == IF c.threat \in threats THEN c ELSE [c EXCEPT !.threat = NoThreat]
         planned == chunks \o Added("special", all, LastRank)
     IN chunks' = [i \in DOMAIN planned |-> known(planned[i])]
  /\ stage' = "planned"
  /\ UNCHANGED <<settings, walked, scope, modules, entries, sinks, graph, threats>>

ScopeNext ==
  \/ \E o \in Overlays : AutoExclude(o)
  \/ Walk
  \/ \E lost \in SUBSET settings.configs : CollapseConfigs(lost)
  \/ \E answer \in MapAnswers : MapRepository(answer)
  \/ \E answer \in ThreatAnswers : ModelThreats(answer)
  \/ NoThreatModel
  \/ \E answer \in PlanAnswers : Plan0(answer)
  \/ AddTaints \/ Split \/ CatchAll
  \/ \E gated \in SUBSET Specialists : Specialise(gated)

ScopeSpec == ScopeInit /\ [][ScopeNext]_scopeVars

-----------------------------------------------------------------------------
(* Nothing falls through the plan, whatever the models answer: a native file *)
(* that the walk kept and the catch-all takes is in a chunk, one that is not *)
(* alone in its shard is in a chunk within the caps, and a file that was     *)
(* collapsed shows no signal that no file in scope shows                     *)
(* (s3_decompose.py:91-94, s1_preprocess.py:240-246).                        *)
NothingUnscanned ==
  stage = "planned" =>
    /\ InPlan \cap Eligible \subseteq Swept
    /\ \A c \in Range(chunks) : c.kind \in {"risk", "taint"} => Fits(c) \/ Len(c.files) = 1
    /\ \A f \in walked \ scope :
         Signals[f] \subseteq UNION {Signals[g] : g \in {g \in scope : Shape[g] = Shape[f]}}

=============================================================================
