------------------------------- MODULE MCAgents -------------------------------
(***************************************************************************)
(* The small instance of the stages that run one after the other over what *)
(* an agent answers: the scope and the plan (1 to 3), the flow of the      *)
(* findings (4 to 9), remediation (10), validation (11) and the report to  *)
(* which the last two add.  They share no state: a behaviour is one of a   *)
(* single part.                                                            *)
(***************************************************************************)
EXTENDS ScopePlan, FindingFlow, Remediation, Validation, CombinedReport

VARIABLE part

vars == <<part, scopeVars, flowVars, remVars, valVars, repVars>>

(* Scope: two headers of a call chain that is over the cap, a function that  *)
(* two files define, a test file, and three variants of a configuration.     *)
MCDisk == <<"a.c", "b.c", "c.c", "d.c", "t.c", "x.yml", "y.yml", "z.yml">>
MCConfigs == {"x.yml", "y.yml", "z.yml"}
MCSources == {"a.c", "b.c", "c.c", "d.c", "t.c"}
MCOnDisk == MCConfigs \cup MCSources
MCMarks == [f \in MCOnDisk |-> CASE f = "t.c" -> {"tests"} [] f = "d.c" -> {"gen"} [] OTHER -> {}]
MCKb == [f \in MCOnDisk |-> IF f = "c.c" THEN 2 ELSE 1]
MCLines == [f \in MCOnDisk |-> 2]
MCShape == [f \in MCOnDisk |-> IF f \in MCConfigs THEN "keys" ELSE "no file"]
MCSignals == [f \in MCOnDisk |-> IF f \in {"y.yml", "z.yml"} THEN {"password"} ELSE {}]
MCTop == [f \in MCOnDisk |-> "top"]
MCDir == [f \in MCOnDisk |-> IF f \in {"a.c", "b.c"} THEN "top/one" ELSE "top/two"]
MCProduction == [f \in MCOnDisk |-> CHOOSE i \in DOMAIN MCDisk : MCDisk[i] = f]
MCSettings == [marks |-> {"tests"}, kb |-> 2, configs |-> MCConfigs, least |-> 3]
NoOverlay == [marks |-> {}, kb |-> 0, configs |-> {}, least |-> 0]
MCOverlays == {NoOverlay, [NoOverlay EXCEPT !.marks = {"gen"}], [NoOverlay EXCEPT !.kb = 1, !.least = 4]}
Path(f) == [is |-> f, maybe |-> {f}]
Vague(S) == [is |-> "no file", maybe |-> S]
At(p, f, o) == [path |-> p, fn |-> f, order |-> o]
MCMapAnswers ==
  {[modules |-> <<>>, entries |-> <<>>, sinks |-> <<>>, calls |-> {}],
   [modules |-> <<<<Path("a.c"), Path("c.c"), Vague({"c.c"})>>, <<Path("b.c"), Path("d.c"), Path("c.c")>>>>,
    entries |-> <<At(Path("a.c"), "main", 1), At(Path("d.c"), "main", 0)>>,
    sinks |-> <<At(Path("b.c"), "copy", 1)>>, calls |-> {[caller |-> "main", callee |-> "parse"]}],
   [modules |-> <<>>, entries |-> <<At(Vague({"a.c"}), "main", 1)>>,
    sinks |-> <<At(Path("b.c"), "copy", 1), At(Vague({"c.c", "d.c"}), "copy", 1), At(Path("a.c"), "main", 1)>>,
    calls |-> {}]}
MCPlanAnswers ==
  {<<>>,
   <<[paths |-> {Path("a.c"), Path("b.c"), Path("c.c"), Vague({"d.c"})}, rank |-> 1, threat |-> "T1"]>>,
   <<[paths |-> {Path("d.c")}, rank |-> 999, threat |-> "T9"], [paths |-> {Vague({})}, rank |-> 0, threat |-> "none"]>>}
MCThreatAnswers == {<<>>, <<"T1", "T2">>}
MCDefs == [main |-> {"a.c", "d.c"}, parse |-> {"c.c"}, copy |-> {"b.c"}, module |-> {}]
Site(f, n, m) == [file |-> f, in |-> n, name |-> m]
MCCallSites == {Site("a.c", "main", "parse"), Site("c.c", "parse", "copy"), Site("b.c", "copy", "main"),
                Site("d.c", "module", "main")}
MCNearness == [f \in MCOnDisk |-> [g \in MCOnDisk |-> IF MCDir[f] = MCDir[g] THEN 2 ELSE 1]]
MCSuffix == [f \in MCOnDisk |-> {f}]

(* Flow: two neighbours of a class, two that overlap, one that the policy    *)
(* excludes; the third is in both chunks.                                    *)
Span(f, a, b) == [file |-> f, first |-> a, last |-> b]
MCSiteOf == <<Span("a", 12, 13), Span("a", 21, 22), Span("b", 5, 9), Span("b", 8, 12), Span("t", 1, 1)>>
MCClassOf == <<"x", "x", "x", "y", "x">>
MCConfidence == <<1, 2, 3, 2, 1>>
MCSeverityOf == <<1, 0, 1, 1, 0>>
MCTextOf == <<<<"plain">>, <<"plain", "boundary">>, <<"heading">>, <<>>, <<>>>>
MCChunks == <<[sees |-> {1, 2, 3}, special |-> FALSE], [sees |-> {3, 4, 5}, special |-> TRUE]>>

(* Remediation: the report and its reverse, a source file, a file that the   *)
(* policy forbids and one that it forbids to create.                         *)
MCLists == {<<"f1", "f2">>, <<"f2", "f1">>}
MCFileOf == [f1 |-> "src", f2 |-> "src"]
MCCweOf == [f1 |-> "c1", f2 |-> "c2"]
MCPolicy == [loaded |-> TRUE, deny |-> {}, allow |-> {"c1"}, denyPaths |-> {"ci"},
             forbidPaths |-> {"new"}, patches |-> TRUE]

(* Validation: two reports; the gates are clean, or partial on security, or  *)
(* one of them has a name that is none.                                      *)
MCWeight == [root |-> 4300, instances |-> 2467, security |-> 1867, practices |-> 1366]
MCGate == DOMAIN MCWeight
Judged(n, s) == <<[name |-> n, status |-> "pass"], [name |-> "instances", status |-> "pass"],
                  [name |-> "security", status |-> s], [name |-> "practices", status |-> "pass"]>>
MCLists0 == {Judged("root", "pass"), Judged("root", "partial"), Judged("root cause", "pass")}
MCIdOf == <<"f", "g">>

(* Report: two titles of which one begins with the other; the second scan    *)
(* has one of them left, with another number and at another place.           *)
Heading(t, l, s) == [title |-> t, loc |-> l, score |-> s]
MCReports == <<<<Heading("sqli", 1, 5), Heading("sqli in reports", 2, 9)>>,
               <<Heading("sqli in reports", 1, 9)>>>>
MCTitles == {"sqli", "sqli in reports"}
MCBegins == {<<t, t>> : t \in MCTitles} \cup {<<"sqli", "sqli in reports">>}
MCTitleRank == [t \in MCTitles |-> IF t = "sqli" THEN 1 ELSE 2]

Init ==
  /\ part \in {"scope", "flow", "rem", "val", "report"}
  /\ ScopeInit /\ FlowInit /\ RemInit /\ ValInit /\ RepInit

Next ==
  \/ part = "scope" /\ ScopeNext /\ UNCHANGED <<part, flowVars, remVars, valVars, repVars>>
  \/ part = "flow" /\ FlowNext /\ UNCHANGED <<part, scopeVars, remVars, valVars, repVars>>
  \/ part = "rem" /\ RemNext /\ UNCHANGED <<part, scopeVars, flowVars, valVars, repVars>>
  \/ part = "val" /\ ValNext /\ UNCHANGED <<part, scopeVars, flowVars, remVars, repVars>>
  \/ part = "report" /\ RepNext /\ UNCHANGED <<part, scopeVars, flowVars, remVars, valVars>>

Spec == Init /\ [][Next]_vars

(* Every variable of the five parts has its type.                            *)
TypeOK == ScopeTypeOK /\ FlowTypeOK /\ RemTypeOK /\ ValTypeOK /\ RepTypeOK

=============================================================================
