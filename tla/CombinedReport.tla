--------------------------- MODULE CombinedReport ---------------------------
(***************************************************************************)
(* The commands that follow a scan and the report that they share: the     *)
(* scan writes a report, remediate takes its findings one by one, in a     *)
(* batch or from a menu (remediation_agent/remediate.py, discovery.py,     *)
(* select/, interactive/), and then copies the report and adds what became *)
(* of each finding (report_augment/); validate adds its verdicts to the    *)
(* copy (validation/report/augment.py).  What is written under a heading   *)
(* comes from the folders of all the findings that were ever remediated,   *)
(* and is tied to the heading by its title only.                           *)
(*                                                                         *)
(* A Markdown file is the sequence of its blocks from the first finding    *)
(* on; "tail" is all that the scan writes after the last finding.  How an  *)
(* agent edits the target is module Remediation, how a verdict comes about *)
(* is module Validation.                                                   *)
(***************************************************************************)
EXTENDS Naturals, Sequences, FiniteSets, SequencesExt, FiniteSetsExt, Lists

CONSTANTS
  Reports,     \* the reports that the scans write, in order of their names
  Titles,
  Contained,   \* pairs of titles: the first is a substring of the second
  Begins,      \* pairs of titles: the second begins with the first
  TitleRank,   \* the order of the titles as names of folders, each a name of its own
  Caps,        \* what --top may say: {} when it is not there, {0} for all, {n}
  ProfileTop,  \* step_remediate.top_n_findings of the profile; 0 for all
  Outcomes,    \* the statuses in which an agent leaves a finding
  Tailed,      \* the reports that have something after the last finding
  MaxCommands

FolderStatus ==
  {"awaiting_validation", "proposed", "needs_review", "rejected", "deny", "validated",
   "validation_failed"}
ReportData == [title : Titles, loc : Nat, score : Nat]
Reported == DOMAIN Reports

ASSUME CombinedReportAssumption ==
  /\ Reports \in Seq(Seq(ReportData))
  /\ Contained \subseteq Titles \X Titles /\ Begins \subseteq Contained
  /\ \A t \in Titles : <<t, t>> \in Begins
  /\ TitleRank \in [Titles -> Nat] /\ IsInjective(TitleRank) /\ ProfileTop \in Nat
  /\ \A cli \in Caps : cli \in SUBSET Nat /\ Cardinality(cli) <= 1
  /\ Outcomes \subseteq FolderStatus /\ Tailed \subseteq Reported
  /\ MaxCommands \in Nat

VARIABLES
  scans,     \* the reports in security-scan/: whether the SARIF is there too
  marked,    \* the headings that bear the done marker
  folders,   \* remediate_report.json of each folder under security-remediation/
  combined,  \* the copies of reports in security-remediation/
  doing,     \* where the command is
  left,      \* the folders that it still has to take
  pairs,     \* the verdicts of this validate, by folder
  commands

repVars == <<scans, marked, folders, combined, doing, left, pairs, commands>>

newest == Len(scans)
NoTitle == "no title"
Shown == {"remediated", "skipped", "deny"}
Verdicts == {"fixed", "not_fixed"}

Block(is, of, from, says) == [is |-> is, of |-> of, from |-> from, says |-> says]
NoEntry == [from |-> NoTitle, says |-> "none"]

RepTypeOK ==
  /\ scans \in Seq(BOOLEAN) /\ newest <= Len(Reports)
  /\ \A m \in marked : m[1] \in 1 .. newest /\ m[2] \in DOMAIN Reports[m[1]]
  /\ \A d \in DOMAIN folders :
       /\ d[1] \in Nat \ {0} /\ d[2] \in Titles
       /\ folders[d] \in [status : FolderStatus, loc : Nat]
  /\ DOMAIN combined \subseteq 1 .. newest
  /\ doing \in {"nothing", "fixing", "copied", "menu", "marking", "judging", "judged"}
  /\ \A k \in DOMAIN left : left[k][1] \in Nat /\ left[k][2] \in Titles
  /\ \A d \in DOMAIN pairs : d \in DOMAIN folders /\ pairs[d] \in Verdicts
  /\ commands \in 0 .. MaxCommands

RepInit ==
  /\ scans = <<>> /\ marked = {} /\ folders = <<>> /\ combined = <<>>
  /\ doing = "nothing" /\ left = <<>> /\ pairs = <<>> /\ commands = 0

-----------------------------------------------------------------------------
(* The documents.                                                            *)

(* FinalReport.to_markdown: the findings in order, then the rest.            *)
ScanMarkdown(r) ==
  [i \in DOMAIN Reports[r] |->
     Block(IF <<r, i>> \in marked THEN "marked" ELSE "heading", i, Reports[r][i].title, "none")]
    \o IF r \in Tailed THEN <<Block("tail", 0, NoTitle, "none")>> ELSE <<>>

IsHeading(b) == b.is \in {"heading", "marked"}

(* From the heading of the i-th finding to that of the next, or to "end".    *)
HeadingAt(md, i) == CHOOSE k \in DOMAIN md : IsHeading(md[k]) /\ md[k].of = i
Headings(md) == Cardinality({k \in DOMAIN md : IsHeading(md[k])})
Segment(md, i, end) ==
  SubSeq(md, HeadingAt(md, i), IF i < Headings(md) THEN HeadingAt(md, i + 1) - 1 ELSE end)

(* What comes before the first section of this kind.                         *)
Before(kind, blocks) ==
  LET cut == {k \in DOMAIN blocks : blocks[k].is = kind}
  IN IF cut = {} THEN blocks ELSE SubSeq(blocks, 1, Min(cut) - 1)

(* _best_md_match: the folders whose title is that of the heading.  Only if  *)
(* there is none, those that overlap it: with the marker a heading equals no *)
(* title and is part of none.                                                *)
ExactFor(h, S) == {d \in S : h.is = "heading" /\ d[2] = h.from}
FuzzyFor(h, S) ==
  {d \in S : <<d[2], h.from>> \in Contained \/ (h.is = "heading" /\ <<h.from, d[2]>> \in Contained)}
Likely(h, S) == IF ExactFor(h, S) # {} THEN ExactFor(h, S) ELSE FuzzyFor(h, S)
Matches(h, S) == IF Cardinality(Likely(h, S)) = 1 THEN Likely(h, S) ELSE {}

(* The folders are taken in the order of their names, and the last one that  *)
(* is put on a result stays there.                                           *)
Later(d, e) == d[1] > e[1] \/ (d[1] = e[1] /\ TitleRank[d[2]] >= TitleRank[e[2]])
LastOf(S) == CHOOSE d \in S : \A e \in S : Later(d, e)

AtLoc(r, loc) == {i \in DOMAIN Reports[r] : Reports[r][i].loc = loc}
WithTitle(r, t) == {i \in DOMAIN Reports[r] : <<t, Reports[r][i].title>> \in Begins}

-----------------------------------------------------------------------------
(* What remediate adds.                                                      *)

(* _status_and_reason, for the report.                                       *)
ShownStatus(status) ==
  CASE status = "deny" -> "deny"
    [] status \in {"awaiting_validation", "proposed", "validated"} -> "remediated"
    [] OTHER -> "skipped"

RemediationEntry(d) == [from |-> d[2], says |-> ShownStatus(folders[d].status)]

(* A finding that no folder matches was never handed to an agent.            *)
NotProcessed == [from |-> NoTitle, says |-> "skipped"]

RemediationSection(S) ==
  LET entry == IF S = {} THEN NotProcessed ELSE RemediationEntry(CHOOSE d \in S : TRUE)
  IN <<Block("rem", 0, entry.from, entry.says)>>
Summary == <<Block("summary", 0, NoTitle, "none")>>

(* By location, else the first result whose message begins with the title.   *)
ResultOf(r, d) ==
  LET located == AtLoc(r, folders[d].loc)
      S == IF located # {} THEN located ELSE WithTitle(r, d[2])
  IN IF S = {} THEN 0 ELSE Min(S)

RemediationSarif(r, sarif) ==
  [i \in DOMAIN sarif |->
     LET S == {d \in DOMAIN folders : ResultOf(r, d) = i}
     IN [sarif[i] EXCEPT !.rem = IF S = {} THEN NotProcessed ELSE RemediationEntry(LastOf(S))]]

(* A bug: an earlier section goes only when there is something to put there. *)
StaleKept(segment, S) ==
  (IF S = {} THEN segment ELSE Before("rem", segment)) \o RemediationSection(S)

(* _augment_segment: the segment of the last finding reaches to the end of   *)
(* the file, past what the scan writes after it.                             *)
RemediationSegment(segment, S) == Before("rem", segment) \o RemediationSection(S)

RemediationMd(md) ==
  LET old == Picked(md, {k \in DOMAIN md : md[k].is # "summary"})
      Augmented(i) == RemediationSegment(Segment(old, i, Len(old)),
                                         Matches(old[HeadingAt(old, i)], DOMAIN folders))
  IN FlattenSeq([i \in 1 .. Headings(old) |-> Augmented(i)]) \o Summary

-----------------------------------------------------------------------------
(* What validate adds.                                                       *)
ValidationEntry(d) == [from |-> d[2], says |-> pairs[d]]
ValidationSection(d) == <<Block("val", 0, d[2], pairs[d])>>

(* By location, else the only result whose message begins with the title.    *)
ValidatedResult(r, d) ==
  LET located == AtLoc(r, folders[d].loc)
      named == WithTitle(r, d[2])
  IN IF located # {} THEN Min(located) ELSE IF Cardinality(named) = 1 THEN Min(named) ELSE 0

ValidationSarif(r, sarif) ==
  [i \in DOMAIN sarif |->
     LET S == {d \in DOMAIN pairs : ValidatedResult(r, d) = i}
     IN IF S = {} THEN sarif[i] ELSE [sarif[i] EXCEPT !.val = ValidationEntry(LastOf(S))]]

ValidationSegment(segment, S) ==
  IF S = {} THEN segment ELSE Before("val", segment) \o ValidationSection(CHOOSE d \in S : TRUE)

(* The last segment ends where the first section of the report begins.       *)
ValidationMd(md) ==
  LET tail == {k \in DOMAIN md : md[k].is \in {"tail", "summary"}}
      end == IF tail = {} THEN Len(md) ELSE Min(tail) - 1
      Augmented(i) == ValidationSegment(Segment(md, i, end),
                                        Matches(md[HeadingAt(md, i)], DOMAIN pairs))
  IN FlattenSeq([i \in 1 .. Headings(md) |-> Augmented(i)]) \o SubSeq(md, end + 1, Len(md))

-----------------------------------------------------------------------------
(* A scan: the SARIF is written last, and only if the scan gets so far.      *)
WriteReport(sarif) ==
  /\ doing = "nothing" /\ newest < Len(Reports)
  /\ scans' = Append(scans, sarif)
  /\ UNCHANGED <<marked, folders, combined, doing, left, pairs, commands>>

Begin(what) ==
  /\ doing = "nothing" /\ commands < MaxCommands
  /\ commands' = commands + 1 /\ doing' = what /\ pairs' = <<>>
  /\ UNCHANGED <<scans, marked, folders, combined>>

(* select_top_by_cvss: the highest scores first, the earlier one of two that *)
(* are equal; without a cap the order of the report.                         *)
Indices(r) == [i \in DOMAIN Reports[r] |-> i]
Higher(r, i, j) ==
  Reports[r][i].score > Reports[r][j].score
    \/ (Reports[r][i].score = Reports[r][j].score /\ i <= j)
SelectTop(r, cap) ==
  IF cap = 0 THEN Indices(r)
  ELSE LET D == DOMAIN Reports[r]
           sorted == Ordered([i \in D |-> {j \in D : Higher(r, j, i)}])
       IN SubSeq(sorted, 1, Min({cap, Len(sorted)}))

HasFindings == newest > 0 /\ Reports[newest] # <<>>
FolderOf(r, i) == <<i, Reports[r][i].title>>

(* resolve_top: what the command line says goes before the profile.          *)
ResolveTop(cli) == IF cli = {} THEN ProfileTop ELSE Min(cli)

LoadFindings(cap) ==
  [k \in DOMAIN SelectTop(newest, cap) |-> FolderOf(newest, SelectTop(newest, cap)[k])]

(* remediate: the newest report, and the findings that the cap leaves.       *)
Remediate(cli) ==
  HasFindings /\ Begin("fixing") /\ left' = LoadFindings(ResolveTop(cli))

Put(d, status) ==
  folders' = [e \in DOMAIN folders \cup {d} |->
                IF e = d THEN [status |-> status, loc |-> Reports[newest][d[1]].loc] ELSE folders[e]]

(* remediate_one: a finding that fails, or has a checkpoint and is resumed,  *)
(* leaves its folder as it is.                                               *)
RemediateOne(outcome) ==
  /\ doing = "fixing" /\ left # <<>>
  /\ left' = Tail(left)
  /\ IF outcome = "kept" THEN UNCHANGED folders ELSE Put(Head(left), outcome)
  /\ UNCHANGED <<scans, marked, combined, doing, pairs, commands>>

(* _ensure_combined: what is there is not copied again.                      *)
NoResult == [rem |-> NoEntry, val |-> NoEntry]
Copied(r) ==
  IF r \in DOMAIN combined THEN combined[r]
  ELSE [md |-> ScanMarkdown(r), sarif |-> [i \in DOMAIN Reports[r] |-> NoResult]]
Replace(r, doc) ==
  combined' = [q \in DOMAIN combined \cup {r} |-> IF q = r THEN doc ELSE combined[q]]

(* _locate_scan_report: the report that was read, with its SARIF.            *)
HasSibling == scans[newest]

(* augment_reports: not without a folder or the SARIF of the report.         *)
AddRemediation ==
  /\ doing = "fixing" /\ left = <<>> /\ DOMAIN folders # {} /\ HasSibling
  /\ Replace(newest, [Copied(newest) EXCEPT !.sarif = RemediationSarif(newest, @)])
  /\ doing' = "copied"
  /\ UNCHANGED <<scans, marked, folders, left, pairs, commands>>

NothingToAdd ==
  /\ doing = "fixing" /\ left = <<>> /\ (DOMAIN folders = {} \/ ~HasSibling)
  /\ doing' = "nothing"
  /\ UNCHANGED <<scans, marked, folders, combined, left, pairs, commands>>

AddRemediationMd ==
  /\ doing = "copied"
  /\ Replace(newest, [combined[newest] EXCEPT !.md = RemediationMd(@)])
  /\ doing' = "nothing"
  /\ UNCHANGED <<scans, marked, folders, left, pairs, commands>>

(* remediate --interactive: the cap of the profile does not hold.  One       *)
(* finding at a time, the marker after the folder; the copy of the report is *)
(* left alone.                                                               *)
Menu(cli) ==
  HasFindings /\ Begin("menu") /\ left' = LoadFindings(IF cli = {} THEN 0 ELSE Min(cli))

Rows == {left[k] : k \in DOMAIN left}

Pick(d, outcome) ==
  /\ doing = "menu" /\ Put(d, outcome)
  /\ left' = <<d>> \o left /\ doing' = "marking"
  /\ UNCHANGED <<scans, marked, combined, pairs, commands>>

MarkDone ==
  /\ doing = "marking"
  /\ marked' = marked \cup {<<newest, Head(left)[1]>>}
  /\ left' = Tail(left) /\ doing' = "menu"
  /\ UNCHANGED <<scans, folders, combined, pairs, commands>>

(* validate: the folders that can be, in the order of their names.           *)
Validate(S) ==
  /\ S # {}
  /\ \A d \in S : folders[d].status \in {"awaiting_validation", "needs_review", "validation_failed"}
  /\ Begin("judging") /\ left' = Ordered([d \in S |-> {e \in S : Later(d, e)}])

StatusAfter(verdict) ==
  CASE verdict = "fixed" -> "validated"
    [] verdict = "not_fixed" -> "validation_failed"
    [] verdict = "unverifiable" -> "needs_review"

(* _run_reports: a verdict that could not be reached is a pair as well, and  *)
(* shows as not fixed; a finding that is refused makes none.                 *)
JudgeOne(verdict) ==
  /\ doing = "judging" /\ left # <<>>
  /\ left' = Tail(left)
  /\ folders' = [folders EXCEPT ![Head(left)].status = StatusAfter(verdict)]
  /\ pairs' = [d \in DOMAIN pairs \cup {Head(left)} |->
                 IF d # Head(left) THEN pairs[d]
                 ELSE IF verdict = "fixed" THEN "fixed" ELSE "not_fixed"]
  /\ UNCHANGED <<scans, marked, combined, doing, commands>>

RefuseOne ==
  /\ doing = "judging" /\ left # <<>>
  /\ left' = Tail(left)
  /\ UNCHANGED <<scans, marked, folders, combined, doing, pairs, commands>>

(* _locate_combined_report: the newest copy there is, of whichever scan.     *)
NewestCopy == Max(DOMAIN combined)

AddValidation ==
  /\ doing = "judging" /\ left = <<>> /\ DOMAIN combined # {}
  /\ Replace(NewestCopy, [combined[NewestCopy] EXCEPT !.sarif = ValidationSarif(NewestCopy, @)])
  /\ doing' = "judged"
  /\ UNCHANGED <<scans, marked, folders, left, pairs, commands>>

AddValidationMd ==
  /\ doing = "judged"
  /\ Replace(NewestCopy, [combined[NewestCopy] EXCEPT !.md = ValidationMd(@)])
  /\ doing' = "nothing" /\ pairs' = <<>>
  /\ UNCHANGED <<scans, marked, folders, left, commands>>

(* The command ends: the menu is left, there is no copy to add verdicts to,  *)
(* or the process is killed; the files stay as they are.                     *)
Stop ==
  /\ doing # "nothing"
  /\ doing' = "nothing" /\ left' = <<>> /\ pairs' = <<>>
  /\ UNCHANGED <<scans, marked, folders, combined, commands>>

RepNext ==
  \/ \E sarif \in BOOLEAN : WriteReport(sarif)
  \/ \E cli \in Caps : Remediate(cli) \/ Menu(cli)
  \/ \E outcome \in Outcomes : RemediateOne(outcome) \/ \E d \in Rows : Pick(d, outcome)
  \/ RemediateOne("kept")
  \/ AddRemediation \/ NothingToAdd \/ AddRemediationMd
  \/ MarkDone
  \/ \E S \in SUBSET DOMAIN folders : Validate(S)
  \/ \E verdict \in Verdicts \cup {"unverifiable"} : JudgeOne(verdict)
  \/ RefuseOne \/ AddValidation \/ AddValidationMd
  \/ Stop

RepSpec == RepInit /\ [][RepNext]_repVars

-----------------------------------------------------------------------------
(* However often and in whatever order the commands are run, and wherever    *)
(* one is killed, a combined report keeps every heading once and in order    *)
(* and what the scan wrote after them; a finding has at most one section of  *)
(* each kind; where one finding has a Remediation, each has one or has a     *)
(* Validation in its place; and no Validation slips below the sections of    *)
(* the report (markdown.py:119-145, augment.py:285-315).                     *)
SectionsWhole ==
  \A r \in DOMAIN combined :
    LET md == combined[r].md
        findings == DOMAIN Reports[r]
        HowMany(i, kind) ==
          Cardinality({k \in DOMAIN Segment(md, i, Len(md)) : Segment(md, i, Len(md))[k].is = kind})
        level == {k \in DOMAIN md : md[k].is \in {"tail", "summary"}}
        heads == {k \in DOMAIN md : IsHeading(md[k])}
    IN /\ {md[k].of : k \in heads} = findings /\ \A j, k \in heads : j < k => md[j].of < md[k].of
       /\ \A kind \in {"rem", "val"}, i \in findings : HowMany(i, kind) <= 1
       /\ \A i, j \in findings : HowMany(i, "rem") > 0 => HowMany(j, "rem") + HowMany(j, "val") > 0
       /\ Cardinality({k \in level : md[k].is = "tail"}) = IF r \in Tailed THEN 1 ELSE 0
       /\ \A k \in DOMAIN md, s \in level : md[k].is = "val" => k < s

(* What a Remediation section says is of the finding whose heading it is     *)
(* under, that is of a finding with this very title (markdown.py:82-90).     *)
RightHeading ==
  \A r \in DOMAIN combined :
    \A i \in DOMAIN Reports[r] :
      LET segment == Segment(combined[r].md, i, Len(combined[r].md))
      IN \A k \in DOMAIN segment :
           segment[k].is = "rem" => segment[k].from \in {NoTitle, Reports[r][i].title}

=============================================================================
