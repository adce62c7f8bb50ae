----------------------------- MODULE FindingFlow -----------------------------
(***************************************************************************)
(* The way of the findings from the deep dive to the SARIF file: the votes *)
(* of stage 4, the prefilter of stage 5, the verdicts of stage 6, the two  *)
(* passes of deduplication (stages 5 and 7), the ranking of stage 8 and    *)
(* the report, which stage 9 reads back.  What a model says is any answer; *)
(* the host's own work is as it is.                                        *)
(*                                                                         *)
(* A detection is what a run of the deep dive may report; two reports of   *)
(* the same detection are the same finding.  Who streams, crashes and      *)
(* resumes is the matter of StreamVerify and ScanResume.                   *)
(***************************************************************************)
EXTENDS Integers, Sequences, FiniteSets, SequencesExt, Lists

CONSTANTS
  Detections,   \* 1 .. n
  SiteOf,       \* the file and the lines of each
  ClassOf, Confidence,
  Allowed,      \* those that policy_filter lets pass
  SeverityOf,   \* the place of each by its CVSS band and its offensive priority, 0 the worst
  TextOf,       \* the lines of free text the report shows of each, by what they look like
  Chunks,       \* the chunks in the order of the manifest: what is to be seen in each,
                \* and whether it is a specialist's
  VoteRuns, VoteThreshold, LineBucket, LineTolerance,
  PreVerify,    \* pre_verify_threshold: so many findings are deduplicated before they are verified
  MaxRanked     \* so many indices the model ranks at most

(* What a reader of the report takes a line for.                             *)
Looks == {"heading", "boundary", "plain"}

ASSUME FlowAssumption ==
  /\ IsFiniteSet(Detections) /\ Detections = 1 .. Cardinality(Detections) /\ Allowed \subseteq Detections
  /\ \A d \in Detections : SiteOf[d].first \in Nat /\ SiteOf[d].last \in Nat
  /\ Confidence \in [Detections -> Nat] /\ SeverityOf \in [Detections -> Nat]
  /\ TextOf \in [Detections -> Seq(Looks)]
  /\ Chunks \in Seq([sees : SUBSET Detections, special : BOOLEAN]) /\ MaxRanked \in Nat
  /\ VoteRuns \in Nat \ {0} /\ VoteThreshold \in 1 .. VoteRuns
  /\ LineBucket \in Nat \ {0} /\ LineTolerance \in Nat /\ PreVerify \in Nat

VARIABLES
  step,     \* the stage that comes next
  audited,  \* the chunks that are done
  raw,      \* the findings of stage 4
  live,     \* the findings as they stand: a sequence of detections
  gone,     \* the dropped findings: of which, why, and the number that a duplicate refers to
  also,     \* the further sites that each finding shows
  sarif     \* the results of the SARIF file

flowVars == <<step, audited, raw, live, gone, also, sarif>>

Sites == {SiteOf[d] : d \in Detections}
Steps == {"s4", "s5", "s5-dedup", "s5-semantic", "s6", "s7", "s8", "s9", "done"}
Reasons == {"EXCLUDED", "FALSE_POSITIVE", "DUPLICATE"}

FlowTypeOK ==
  /\ step \in Steps /\ audited \in 0 .. Len(Chunks)
  /\ raw \in Seq(Detections) /\ live \in Seq(Detections)
  /\ gone \subseteq [of : Detections, reason : Reasons, canonical : 0 .. Len(raw)]
  /\ also \in [Detections -> SUBSET Sites] /\ sarif \in Seq(Detections)

FlowInit ==
  /\ step = "s4" /\ audited = 0 /\ raw = <<>> /\ live = <<>> /\ gone = {}
  /\ also = [d \in Detections |-> {}] /\ sarif = <<>>

(* The reasons of each stage are taken as one.                              *)
Drop(S, reason) == {[of |-> d, reason |-> reason, canonical |-> 0] : d \in S}

-----------------------------------------------------------------------------
(* Stage 4.                                                                  *)

(* canonical_key: the file, the class and the bucket of the first line.      *)
Key(d) == <<SiteOf[d].file, SiteOf[d].first \div LineBucket, ClassOf[d]>>
Surest(S) == CHOOSE d \in S : \A e \in S : Confidence[e] <= Confidence[d]
OnePerKey(S) == {Surest({e \in S : Key(e) = Key(d)}) : d \in S}

(* _deepdive_chunk: each run that does not fail votes once for each key.     *)
Votes(d, runs) == Cardinality({r \in DOMAIN runs : \E e \in runs[r] : Key(e) = Key(d)})
Survivors(runs, threshold) ==
  OnePerKey({d \in UNION Range(runs) : Votes(d, runs) >= threshold})

(* _collapse_across_chunks: the surest of each key, where the key was first. *)
Collapse(list) ==
  LET first == Picked(list, {i \in DOMAIN list : \A j \in 1 .. (i - 1) : Key(list[j]) # Key(list[i])})
  IN [n \in DOMAIN first |-> Surest({d \in Range(list) : Key(d) = Key(first[n])})]

(* A specialist's chunk is run once.                                         *)
RunsOf(chunk) == IF chunk.special THEN 1 ELSE VoteRuns

(* One chunk: runs gives what each run reports, {} if it fails.  The keys    *)
(* are kept in a set: the order of the survivors is anyone's.                *)
DeepDive(runs) ==
  /\ step = "s4" /\ audited < Len(Chunks)
  /\ LET threshold == IF Chunks[audited + 1].special THEN 1 ELSE VoteThreshold
     IN \E order \in SetToSeqs(Survivors(runs, threshold)) : raw' = raw \o order
  /\ audited' = audited + 1
  /\ UNCHANGED <<step, live, gone, also, sarif>>

EndAudit ==
  /\ step = "s4" /\ audited = Len(Chunks)
  /\ raw' = Collapse(raw) /\ live' = Collapse(raw) /\ step' = "s5"
  /\ UNCHANGED <<audited, gone, also, sarif>>

(* Stage 5: policy_filter.                                                   *)
Policies ==
  /\ step = "s5"
  /\ live' = Keep(live, Allowed)
  /\ gone' = gone \cup Drop(Range(live) \ Allowed, "EXCLUDED")
  /\ step' = "s5-dedup"
  /\ UNCHANGED <<audited, raw, also, sarif>>

-----------------------------------------------------------------------------
(* Deduplication.                                                            *)

Overlap(d, e) ==
  /\ SiteOf[d].file = SiteOf[e].file
  /\ SiteOf[d].first <= SiteOf[e].last /\ SiteOf[e].first <= SiteOf[d].last

Near(d, e) == SiteOf[d].first - SiteOf[e].first \in (-LineTolerance) .. LineTolerance

Trivial(d, e) ==
  /\ SiteOf[d].file = SiteOf[e].file /\ ClassOf[d] = ClassOf[e]
  /\ Near(d, e) \/ Overlap(d, e)

(* _collapse_trivial: each goes to the first before it that stands for       *)
(* itself and is much the same.                                              *)
Standing(list) ==
  CHOOSE S \in SUBSET DOMAIN list :
    \A j \in DOMAIN list : j \in S <=> \A i \in S : i < j => ~Trivial(list[i], list[j])

Parents(list) ==
  [j \in DOMAIN list |->
     IF j \in Standing(list) THEN j
     ELSE LET same == {i \in Standing(list) : i < j /\ Trivial(list[i], list[j])}
          IN CHOOSE i \in same : \A k \in same : i <= k]

(* The model's answer: for those that stand for themselves, an earlier one.  *)
Answers(parent) ==
  LET own == {i \in DOMAIN parent : parent[i] = i}
  IN {p \in [DOMAIN parent -> DOMAIN parent] :
        \A i \in DOMAIN parent : IF i \in own THEN p[i] \in own /\ p[i] <= i ELSE p[i] = parent[i]}

(* root: the one that stands for itself among i, its parent, and so on.      *)
RootOf(parent) ==
  [i \in DOMAIN parent |->
     CHOOSE r \in DOMAIN parent :
       parent[r] = r /\ \A S \in SUBSET DOMAIN parent : i \in S /\ (\A k \in S : parent[k] \in S) => r \in S]

(* _attach_duplicates: the root shows the sites of all that it stands for,   *)
(* and all that they showed; not one that overlaps its own.                  *)
Attached(list, parent) ==
  LET behind(d) == {j \in DOMAIN list : parent[j] # j /\ list[RootOf(parent)[j]] = d}
      collapsed == {list[j] : j \in {j \in DOMAIN list : parent[j] # j}}
  IN [d \in Detections |->
        IF d \in collapsed THEN {}
        ELSE also[d] \cup {SiteOf[list[j]] : j \in {j \in behind(d) : ~Overlap(list[j], d)}}
                     \cup UNION {also[list[j]] : j \in behind(d)}]

Roots(list, parent) == Picked(list, {j \in DOMAIN list : parent[j] = j})

Dedup(parent, then, numbered) ==
  LET roots == Roots(live, parent)
      number(j) == IF numbered THEN CHOOSE i \in DOMAIN roots : roots[i] = live[RootOf(parent)[j]]
                   ELSE 0
  IN /\ live' = roots /\ also' = Attached(live, parent)
     /\ gone' = gone \cup {[of |-> live[j], reason |-> "DUPLICATE", canonical |-> number(j)] :
                             j \in {j \in DOMAIN live : parent[j] # j}}
     /\ step' = then
     /\ UNCHANGED <<audited, raw, sarif>>

(* prefilter, and the semantic pass ahead of stage 6 if there are many.      *)
Prefilter ==
  /\ step = "s5-dedup"
  /\ LET many == PreVerify > 0 /\ Len(Roots(live, Parents(live))) >= PreVerify
     IN Dedup(Parents(live), IF many THEN "s5-semantic" ELSE "s6", FALSE)

PreSemantic ==
  /\ step = "s5-semantic"
  /\ \E parent \in Answers(Parents(live)) : Dedup(parent, "s6", FALSE)

(* Stages 6 and 7.                                                           *)
Verify(kept) ==
  /\ step = "s6" /\ kept \subseteq Range(live)
  /\ live' = Keep(live, kept)
  /\ gone' = gone \cup Drop(Range(live) \ kept, "FALSE_POSITIVE")
  /\ step' = "s7"
  /\ UNCHANGED <<audited, raw, also, sarif>>

Semantic ==
  /\ step = "s7"
  /\ \E parent \in Answers(Parents(live)) : Dedup(parent, "s8", TRUE)

-----------------------------------------------------------------------------
(* Stages 8 and 9.                                                           *)

(* The indices the model ranks: what is none, or is there twice, is skipped. *)
Valid(answer) ==
  Picked(answer, {i \in DOMAIN answer :
                    answer[i] \in DOMAIN live /\ \A j \in 1 .. (i - 1) : answer[j] # answer[i]})

(* A bug: what the model does not rank is not reported.                      *)
RankedOnly(answer) == Valid(answer)

(* _hydrate_report: the rest follows.                                        *)
Ranked(answer) ==
  Valid(answer) \o Ascending(DOMAIN live \ Range(Valid(answer)))

(* A bug: the duplicates keep the numbers of stage 7.                        *)
NotRemapped(order, i) == i

(* orig_to_sorted.                                                           *)
Remapped(order, i) == IF i \in Range(order) THEN CHOOSE k \in DOMAIN order : order[k] = i ELSE i

(* The severity comes first, and the order of the ranking within a band.     *)
Sorted(ranked) ==
  LET before(i, j) == \/ SeverityOf[live[ranked[i]]] < SeverityOf[live[ranked[j]]]
                      \/ SeverityOf[live[ranked[i]]] = SeverityOf[live[ranked[j]]] /\ i <= j
      order == Ordered([i \in DOMAIN ranked |-> {j \in DOMAIN ranked : before(j, i)}])
  IN [n \in DOMAIN order |-> ranked[order[n]]]

(* If the call fails or cannot be read the answer is empty: the report is    *)
(* then sorted the same way and marked degraded.                             *)
Chain(answer) ==
  /\ step = "s8"
  /\ LET order == Sorted(Ranked(answer))
     IN /\ live' = [i \in DOMAIN order |-> live[order[i]]]
        /\ gone' = {[of |-> d.of, reason |-> d.reason,
                     canonical |-> IF d.canonical = 0 THEN 0 ELSE Remapped(order, d.canonical)] : d \in gone}
  /\ step' = "s9"
  /\ UNCHANGED <<audited, raw, also, sarif>>

(* to_markdown: a heading for each finding, then its text as it is.          *)
Line(looks, d) == [looks |-> looks, of |-> d]
Markdown ==
  FlattenSeq([i \in DOMAIN live |->
    <<Line("heading", live[i])>> \o [k \in DOMAIN TextOf[live[i]] |-> Line(TextOf[live[i]][k], live[i])]])
    \o <<Line("boundary", 1)>>

(* parse_findings goes by what a line looks like, wherever it stands: a line *)
(* that looks like a heading begins a result, and one that looks like the    *)
(* end of the findings ends them.                                            *)
ReadBack(lines) ==
  LET ends == {i \in DOMAIN lines : lines[i].looks = "boundary"}
      headings == Picked(lines, {i \in DOMAIN lines : lines[i].looks = "heading" /\ \A j \in ends : i < j})
  IN [n \in DOMAIN headings |-> headings[n].of]

EmitSarif ==
  /\ step = "s9"
  /\ sarif' = ReadBack(Markdown) /\ step' = "done"
  /\ UNCHANGED <<audited, raw, live, gone, also>>

FlowNext ==
  \/ \E c \in DOMAIN Chunks : \E runs \in [1 .. RunsOf(Chunks[c]) -> SUBSET Chunks[c].sees] :
       audited = c - 1 /\ DeepDive(runs)
  \/ EndAudit \/ Policies \/ Prefilter \/ PreSemantic
  \/ \E kept \in SUBSET Detections : Verify(kept)
  \/ Semantic
  \/ \E answer \in BoundedSeq(0 .. Len(live), MaxRanked) : Chain(answer)
  \/ EmitSarif

FlowSpec == FlowInit /\ [][FlowNext]_flowVars

-----------------------------------------------------------------------------
(* From stage 5 on every finding of stage 4 is in the list or among the      *)
(* dropped, and only once, whatever the models answer (s7_dedup.py:232-256,  *)
(* s8_chain.py:312-320).                                                     *)
Accounted ==
  step # "s4" =>
    /\ \A d \in Range(raw) : (d \in Range(live)) # (\E g \in gone : g.of = d)
    /\ Cardinality(gone) + Len(live) = Len(raw)

(* The site of a duplicate that overlaps no other is shown to the end by the *)
(* finding it was collapsed into, through all passes; and the number that a  *)
(* duplicate refers to is that finding's after the report was sorted.        *)
Apart(d) == \A e \in Detections \ {d} : ~Overlap(d, e)
DuplicatesShown ==
  \A g \in gone : g.reason = "DUPLICATE" /\ Apart(g.of) =>
    IF g.canonical # 0
      THEN g.canonical \in DOMAIN live /\ SiteOf[g.of] \in also[live[g.canonical]]
      ELSE \E d \in Range(live) \cup {h.of : h \in {h \in gone : h.reason = "FALSE_POSITIVE"}} :
             SiteOf[g.of] \in also[d]

=============================================================================
