# Verification of vvaharness

vvaharness is an agentic source-code scanner. A scan runs stages S1–S9 over one
repository (preprocess, threat model, decompose, deep dive, prefilter, verify,
dedup, chain, SARIF); S10 remediates findings and S11 validates the
remediations. This directory holds TLA+ models of its control, TLC
configurations that check them on small instances, and proofs that TLAPS checks
for every instance. All paths below are relative to `src/vvaharness/`.

## Inventory

| component | state it keeps | operations | hard behaviour | what makes it correct |
|---|---|---|---|---|
| streaming coordinator `orchestrator/streaming_verification.py` | candidate queue, semaphore, two executors, submission indexes, verdict lists | publish, dispatch, submit, verify, ASAN attempt, collect, unwind | five kinds of threads; Ctrl-C; a dispatcher that fails; slots and budgets | the results are those of the sequential pipeline; no slot is lost; it always ends, and ends quiet |
| scan orchestrator `orchestrator/scan.py` | results in memory, `step1.yaml` | the stages in order, `--resume`, `--stop-after` | death between any two saves; skipped stages | one report is one execution of each stage; nothing is paid for twice |
| checkpoint store `orchestrator/{checkpoints,store}.py` | SQLite rows per run and step | register, reset, save, load, gc | lost rows, eviction from another process, shared run id | a resume sees only the latest fresh scan |
| batch runner and cleanup `orchestrator/{batch,cleanup}.py` | workspace, markers, results | stage, clone, copy, reuse, scan, purge, summarise | clones cut short, deletions that fail, kills, later batches | the right repository is scanned, source is purged, reports and local repositories are kept, every row has a result |
| deep dive `pipeline/stages/s4_deepdive.py` | outcomes per chunk, votes | chunk audit, voting, guardrail gate | pool, Ctrl-C, cumulative guardrail blocks | rank order, unanimity of votes, fail fast |
| prefilter, dedup `pipeline/stages/{s5_prefilter,s7_dedup}.py` | none | gates, pairwise similarity, merge | order dependence, mutation of shared findings | one representative for each defect, no finding lost |
| static and ASAN verification `pipeline/stages/{s6_verify,asan_verify}.py` | verdict lists, shared build, budget | verify, gate, build, run | pool, deadlines, retry loops that catch everything | evidence before "verified"; budgets hold; abort is heard |
| chaining `pipeline/stages/s8_chain.py` | chains | group, score | – | chains cite reported findings |
| backends `backends/*.py` | abort flag and process table (CLI), clients | run a prompt, kill, retry | spawn racing abort, timeouts, retry of what was done | no child outlives an abort; bounded retries |
| remediation `remediation_agent/` | per-finding checkpoints, working tree | gate, plugin, post-gate, revert | crash between edit and checkpoint | nothing disallowed stays; no finding is remediated twice |
| validation `pipeline/stages/s11_validate.py`, `validation/` | session workspace, collected results, scores | launch, collect, score, write back | missing or late results | the verdict written is the one collected |
| scope and plan `pipeline/stages/s1_*.py`, `s2_threatmodel.py`, `s3_decompose.py` | files in scope, map, chunks | exclude, walk, collapse, map, model threats, plan, sweep | a model that proposes anything; caps, shards and catch-all that meet | no file in scope falls through the plan |
| launch and readiness `cli.py`, `orchestrator/{entry,preflight}.py`, `util/environment.py`, `config/`, `manifest.py` | environment, configuration in force, credentials | .env, trust gate, configuration, overlay, doctor, preflight | the same needs written down in four places | a check that passed is not belied by a later call |
| combined report `remediation_agent/report_augment/`, `validation/report/augment.py` | the Markdown and SARIF copies | select, process, splice sections | several commands edit one file, tied to it by titles | every heading once, every section whole, under its own heading |
| everything else | redaction, accounting, prompts, language hints, data tables | | text or tables | |

Interaction: `scan.py` calls the stages and saves each result; with
`--experimental-streaming-verification` it hands S4–S6 to the coordinator, which
calls S4 with a callback, S5 on the complete population, and the verifiers of S6
from its pools. `batch.py` calls `scan_repo` once for each unit. The abort flag
of `backends/claude_cli.py` is shared by the whole process. PROJECT.json lists
all components with their status, and the hazards at their lines.

## Modules

| module | models | uses |
|---|---|---|
| `VerifyContract` | what S5/S6 promise: select one finding for each defect, decide each selected finding once, return only then | |
| `StreamVerify` | the streaming coordinator, thread by thread | refines `VerifyContract` |
| `ScanResume` | sessions of one repository over its checkpoints | |
| `BatchStaging` | batches over one workspace | |
| `CliCalls` | calls that run claude or codex as a child process, from the pools of S4 and S6 | |
| `HttpCalls` | calls over HTTP: retries, dropped parameters, tool loops | |
| `AsanPass` | dynamic verification: build, attempts, deadlines | |
| `Launch` | from the command line to the first call of a stage; doctor and preflight | |
| `ScopePlan` | S1 to S3: from the repository to the chunks | |
| `FindingFlow` | S4 to S9: from the votes to the SARIF file | |
| `Remediation` | S10: the agent's edits, the post-gate, the checkpoints | |
| `ValidationScore` | the host's score of a list of gates | |
| `Validation` | S11: sessions, verdicts, write-back, exit code | extends `ValidationScore` |
| `CombinedReport` | scan, remediate and validate over one report | |
| `Lists` | lists that are filtered and sorted, by the indices that stay | used by `ScopePlan`, `FindingFlow` |
| `MCStreamVerify`, `MCBatchStaging` | the instances of those two modules | |
| `MCBackends` | the instance of `CliCalls`, `HttpCalls`, `AsanPass`, `Launch` | |
| `MCAgents` | the instance of `ScopePlan`, `FindingFlow`, `Remediation`, `Validation`, `CombinedReport` | |
| `X_proofs` | the theorems about `X`, for `StreamVerify`, `ScanResume`, `BatchStaging`, `ScopePlan`, `FindingFlow`, and the lemmas about `Lists` | `X`, TLAPS |
| `Agents_proofs` | the theorems about `Remediation`, `Validation`, `CombinedReport` and the parts of `MCAgents` together | `MCAgents`, `ScopePlan_proofs`, `FindingFlow_proofs` |
| `Backends_proofs` | the theorems about `CliCalls`, `HttpCalls`, `AsanPass`, `Launch` and their composition | `MCBackends`, TLAPS |

`MCBackends` and `MCAgents` put several components side by side. These do not
share state in the model, so a behaviour is one of a single component while the
others stand still; they have one run because they answer one kind of question
each, not because they interact. Where components do interact, one module has
both sides: the pools and the backend's abort flag in `CliCalls`, S4 to S6 in
`StreamVerify`, the stages and the checkpoints in `ScanResume`, remediation,
validation and the report they share in `CombinedReport`.

### StreamVerify

`chunk` is the S4 pool; `queue` is `candidate_queue`, with `QueueEnd` for the
sentinel; `disp`, `batch`, `dispAbort`, `dispError` are the dispatcher;
`slots`, `idx`, `nextIndex`, `work`, `verdict` are the semaphore, the
submission table and the futures; `asanQueue`, `active`, `asan`, `attempted`,
`build` are the ASAN executor; `main`, `how`, `auth`, `fate`, `waiting`,
`hits`, `successes` the main thread. One action is one atomic step between two
points where another thread may run: for instance a future is `done` (visible
to `as_completed`) before its done-callback gives the slot back (`freed`), and
`AcquireSlot` and `Submit` are two steps. A refused submission, a policy filter
that raises, a failed chunk, a verifier that errs or meets a guardrail, a failed
build and an exhausted budget are all actions. Ctrl-C is delivered at most once:
a second one is outside the model. A finding is the chunk that reports it and
the defect it is about; S5's dedup keeps one finding for each defect.
Because the model has no text, the similarity that decides "same defect" is a
function given by the instance.

The abstract `VerifyContract` is implemented under the mapping of `Contract`
(`found` is the population of finished chunks, `outcome` is `main` once exited):
verification that starts before S5 has made its selection is invisible there.

### ScanResume

A session is one call of `scan_repo`. `row` is the checkpoints table, `overlay`
the `step1.yaml` file, `val` what the session holds. The value of a stage is its
lineage: the set of (stage, session) pairs it was computed from, so that "mixed
from two executions" can be said. `at`/`phase` walk the load–run–save sequence
of each stage, in the code's order, with its three transactions for streaming.
`Die` ends a session anywhere; `Evict` is `vvaharness gc`; `LoseOne` is a row
that is too large to be saved or does not validate. Since the SARIF name
contains the time, S9 always runs (`EnterSarif`).

### BatchStaging

`tree` says for each directory which repository its source is of, how much is
there (`whole`, `part`, `none`, `absent`) and whether the report folder is;
`marker` is the binding outside the workspace. `Row` and `Here` are the row
being staged and its directory; `Reuse`, `CannotRemove`, `Fetch`, `FetchFails`
are the outcomes of `_acquire_repo` and `_stage_repo`; `CutShort` is what a
timeout, a Ctrl-C or a kill leaves. `Purge` is the `finally` clause. `unbound`
and `stuck` are history: directories whose last fetch did not get to the marker
write, and directories a deletion failed in. Lists are injective: the parsers
reject a path that occurs twice. Two ungrouped rows with the same repo_name but
different paths share a directory, and staging the second deletes what the first
left, its report included (batch.py:380, a listed hazard); the instance leaves
this out and the two theorems it would break say so in their hypothesis
`DistinctNames`.

### CliCalls

`main`, `cause`, `queued`, `victims` are the main thread and its futures;
`flag` and `live` are `_ABORT` and `_LIVE`; `pc`, `job`, `child`, `reply`,
`transients`, `timeouts` belong to each thread. A call is one loop of `Enter`
(the flag is looked at), `Spawn`, `Register`, `Heartbeat`, and `Reap`,
`Classify`, `Finish` or a retry; the window between `Spawn` and `Register`,
where a child is in no table, is a state. `Abort` sets the flag, `Snapshot`
copies the table and `Kill` kills the copy, as three steps. `Drained` is the
end of the pool and `NextUnit` the reset between repositories. A unit whose
jobs stream their trace (`Solo`) runs in the main thread, where a Ctrl-C lands
inside the call.

### HttpCalls

A request is the set of its optional parameters (`kw`), and what the process
has learned of the model outlives a call. `Replied` and `Failed` take any
refusal of the provider; `Dropped`, `Renamed` and `Grant` are the repairs,
`SitOut` the waits, `Evict` and `Forced` what a tool loop does when its history
is too long or its turns are used up.

### AsanPass

`left` is the time until the deadline in force, in some unit; `Timed` lets time
pass, and every action that runs a command or a model call takes at most what
it is given. `phase` goes through the shared build and, for each eligible
finding, planning, running and evaluating. The planner and the build do
anything; `crash` is what the harness captured.

### Launch

A machine is its environment, its programs and packages; a command is scan,
remediate, doctor, test or setup with its options. `cfg` is the configuration
in force after the trust gate, the local file and the overlay; `given` the
credentials each client was configured with; `made` the calls and whether they
had what they need. `vouched` is history: the pairs of configuration and
environment that a readiness check has passed.

### ScopePlan

A file is what the code asks of it (marks, size, shape, signals), and a path
that a model wrote is the file it names or the files it may mean. The actions
are the stages' passes in their order; inside a pass the deterministic work is
one operator for each function (`CollapseConfigs`, `MapRepository`,
`AddTaints`, `Pack`, `CatchAll`, `Specialise`). The shards of a list are described
by the indices where the loop begins a new one. The agents answer anything
among the answers of the instance, also nothing readable.

### FindingFlow

A detection is what a run of S4 may report. `live` is the list of findings and
`gone` the dropped ones with their reasons and the number of the finding they
duplicate; `also` the sites a finding shows. `Votes`, `Dedup`, `Verify`,
`Chain` and `EmitSarif` are the stages; `Answers` is any clustering or ranking a
model may send back, with repeated and invalid numbers.

### Remediation

`disk` is the state of each file, `base` what it was when the finding was begun,
`snap` what the harness captured, `intent` what `git add -N` left in the index.
`AgentReturns` edits anything and reports what it likes; `PostGate` compares,
judges and rolls back; `WriteVerdict` and `Save` are the record and the
checkpoint, two steps a kill may separate. `AgentRaises` leaves its edits
behind. Between runs a new scan may reorder the findings.

### Validation and ValidationScore

`dto` is each remediation report: its status, its patch and, as history, the
score the status rests on. `Session` writes any list of gates for any finding,
or nothing, and ends well or not; `Collect`, `WriteBack`, `Write`, `SaveVerdict`
are what the host makes of it. `ScoreFix` and `HostScore` compute the verdict in
integers.

### CombinedReport

A Markdown file is a sequence of blocks (headings, sections, the tail). `Segment`
and `Matches` are how a section finds its heading, `RemediationMd` and
`ValidationMd` what is spliced in; the SARIF file is annotated separately, and a
command may be killed between the two.

## Runs

| run | cfg | result |
|---|---|---|
| `stream` | `stream.cfg` | type invariant; slot conservation; no double submission; everything selected was submitted; quiet exit; verified only on evidence; refinement of `VerifyContract`; the audit ends even if no verifier moves; everything ends |
| `stream_gate` | `stream_gate.cfg` | violation: the guardrail gate aborts for "zero successes" while a selected finding has been verified (streaming_verification.py:500) |
| `stream_order` | `stream_order.cfg` | violation: results follow completion order, which line 554 says must not leak |
| `scan` | `scan.cfg` | coherent reports, only this scan's rows, `--stop-after` honoured, nothing redone |
| `scan_asan` | `scan_asan.cfg` | violation: in streaming mode a death during ASAN verification repeats static verification, against README.md:328-330 |
| `scan_overlay` | `scan_overlay.cfg` | violation: `step1.yaml` survives a fresh scan's reset, against scan.py:104 |
| `batch` | `batch.cfg` | right repository, source purged, reports kept, local repositories intact, a result for every row |
| `batch_whole` | `batch_whole.cfg` | violation: an ungrouped clone that was purged is "reused as a verified checkout" and scanned empty, against batch.py:370-371 |
| `backends` | `backends.cfg` | an abort leaves no child of claude that is waited for (`AbortReaches`), nothing of a unit outlives it (`UnitsApart`), no job is aborted in a unit that was not (`NoSpuriousAbort`), an aborted pool ends by its own doing (`AbortEnds`); a repaired request is sent (`CleanedRequestSent`); only a captured crash confirms (`CrashConfirmed`), no command passes its deadline (`DeadlineKept`), every call and the pass end (`WorkEnds`); a passed readiness check holds (`ProbeForetells`) |
| `agents` | `agents.cfg` | no file falls through the plan (`NothingUnscanned`); no finding is lost or doubled (`Accounted`) and duplicates stay shown (`DuplicatesShown`); forbidden edits are undone (`ForbiddenUndone`), an accepted patch is of a clean tree (`AcceptIsClean`), counted means recorded (`CountedIsDone`); validated means scored for this patch (`ValidatedIsScored`), exit 0 means judged (`CleanExit`); the report keeps its shape (`SectionsWhole`) |
| `validation_target` | `validation_target.cfg` | violation: a session writes through a hard link into the target, against docs/validation.md:133-135 |
| `report_heading` | `report_heading.cfg` | violation: a finding that was not processed shows the result of another whose title contains its own, against markdown.py:20 and 88-90 |

Bounds, and why they suffice. `stream`: two chunks and two audit workers give
every order of publication; three eligible findings against two slots (one
verifier, `2 * Parallel` slots) make the dispatcher wait, also while it is
aborted; a budget of one ASAN attempt is exceeded; two reports of one defect in
different chunks make speculative verification meet S5's dedup; a policy-excluded
finding is never submitted. `GateFloor` is 3 in the code (`max(3, parallel)`)
and is 2 in this instance, so that three findings can open the gate and fail to
open it; `stream_gate` uses 3 and four findings. `scan`: three sessions are a
fresh scan, its replacement and a resume, or a scan resumed twice; one fault
suffices to break a coherence that does not tolerate it, and four `--stop-after`
values are the ones whose handling depends on the path taken. `batch`: three
batches are needed to bind a directory, to replace what it holds and to ask for
the first again; one fault is one failed deletion or marker write (clones that
fail, interrupts and kills are not faults and not bounded). `scan` and the batch
runs switch deadlock checking off because sessions and batches are bounded and
the system stops when they are used up.

`backends`: two threads suffice for one to be between spawn and registration
while the other is waited for; three units are a pool that is aborted, the pool
after it, and one whose calls stream; one retry of each kind is taken and used
up; `Gate` is 1, so that one refusal opens the guardrail gate. Two HTTP calls
let the second meet what the first has learned; the attempts are the code's 3
and 6. Of three findings two are eligible for ASAN, with estimates on both sides
of the limits, so that a build is shared and an attempt runs short. Five profiles
and five machines are chosen so that each check meets a role, a key, a program or
a package that another does not ask for; two launches are a check and the scan
after it. `agents`: eight files hold a chain of calls above the cap, a function
with two definitions and three variants of a configuration; five detections make
a cluster of overlapping sites, a policy drop and a specialist's repeat; a source
file, a forbidden file and one that may not be created, two findings in two
orders and one failure make a resumed run meet another finding's checkpoint; two
reports, two sessions and one corrected patch make a stale verdict possible; two
titles of which one begins with the other, and three commands, let remediate be
killed between its two files and validate and remediate meet with their sections in
either order. A fourth command can leave a finding a Validation in the place of its
Remediation (see below); with four commands and one outcome TLC checks the same
properties in 639,792 states, which takes longer than this run may, and the theorem
about `SectionsWhole` covers any number. `Corrected` bounds the patch of every report. Deadlock
checking is off in both: launches, runs and calls are bounded and then stop.

Fairness. Invariants need none. `AuditEnds` assumes only that the audit's own
threads are scheduled (`AuditFairness`): its point is that the verifiers are not
needed. `Terminates` adds weak fairness of the dispatcher, each verifier, the
ASAN worker and the main thread: they are operating-system threads that are
always runnable when their action is enabled, every wait in the code is either
on another of these threads or has a timeout of its own, and external calls
(model, build) are bounded by timeouts in the backends. Ctrl-C, failures and
particular verdicts are never owed.

`AbortEnds` assumes `CliFairness`, that the threads that are able to go on do,
and never that a child exits by itself or that a deadline expires: the abort
alone must end the pool. `CallEnds` assumes that a request is answered, if only
by the client's own timeout (`HttpFairness`). `PassEnds` assumes that the pass
goes on and that an attempt, which creates a directory and runs a model call,
does not for ever take no time at all (`AsanFairness`, strong fairness of time).
The `agents` run has no liveness: those stages are loops over finite lists.

## Proofs

`StreamVerify_proofs` assumes only `StreamAssumption` (finite sets of chunks and
findings, positive pool sizes, any budget and gate), and proves, for every
instance:

- `TypeCorrect`: `TypeOK` is inductive; `slots \in Nat` is what it says of the
  semaphore.
- `ExitIsQuiescent`, from `ExitInv`: once shutdown has begun the static executor
  is closed, and it is left only when nothing is in flight. `Quiescent` alone is
  not inductive: it does not say that nothing can enter the pools while they
  close.
- `NeverResubmitted` and `CollectedWasSubmitted`, from `PipelineInv`, the
  conjunction of `FreshInv` (a chunk is queued at most once, and its findings
  are fresh until it is dispatched), `EndInv` (the sentinel is last, the
  dispatcher stops early only with its abort flag, and the main thread passes
  the join only then or after the sentinel) and `DrainInv` (each eligible
  finding of a finished chunk is queued, in the batch or submitted). The three
  lean on each other: a selected finding has been submitted because its chunk is
  done, the queue has been drained up to the sentinel and the batch is empty.
- `SlotsConserved`: `SlotConservation` is inductive together with `TypeOK` and
  `SubmittedOnce` (a finding that was submitted twice would take two slots and
  hold one future).

- `VerifiedHasEvidence`, from `EvidenceInv`: the ASAN queue has no duplicates
  and holds findings in state "queued", the worker holds the only one "running",
  an ASAN state exists only for a static true positive whose verifier has
  finished, and a fate only for a completed future. Without these a verdict or
  an outcome could change after it was collected.
- `StreamImplementsContract`: under the mapping of `Contract` the coordinator
  implements `VerifyContract`. The steps are those of a refinement: `Init` maps to
  the contract's `Init` and every step to a step of the contract or a stutter
  (`StepKeepsContract`). A chunk that finishes is the contract's `Audit`
  (`PopulationGrows`), a verdict that is collected its `Commit`
  (`OthersUncommitted`), everything before S5's selection is a stutter. It rests on
  `PromiseInv`: a finding is committed only once it has been selected, and nothing
  joins the population after the selection.

`ScanResume_proofs` assumes `ScanAssumption` (two bounds in Nat, known
`--stop-after` values). `ScanTyped` and `ResumeSeesThisScan` rest on `ScanInv`,
which says of every row and every held result, between sessions too, what
`OnlyThisScan` says of held results inside one; each stage is shown to be
`Sound`, once for loads, once for saves and once for each way a lineage is made.
`StopRespected` rests on `FlowInv`, how far a session may have got on each path;
`CompletedWorkKept` on `RowsInv`, which rows there are at each place of a session
when no row was lost;
`OneExecutionOfEach` on `ValsInv` (a session holds nothing of a stage to come) and
`CohInv`: a lineage names only stages up to its own (`OwnInv`), and all that a
session holds or a later load can bring in is coherent together (`PoolInv`).
`CoherentReport` alone is not inductive, since a session can load a row that
disagrees with one it does not hold yet.

`BatchStaging_proofs` proves its six properties from the assumptions on
constants. `BatchInv` ties the results to the units of the list
(`EveryRowHasResult`); the invariants about the tree say who owns each directory
while a row is staged, and that a directory whose marker names a repository holds
that one or is in `unbound` or `stuck`. `SourceGoneAfter` and `ReportsOutlivePurge`
have the hypothesis `DistinctNames`.

`Backends_proofs` holds the theorems about the four modules of `MCBackends`. Those
about the calls through a child process (`CliTyped`, `AbortStaysInUnit`,
`AbortReachesAll`, `NothingLeftBehind`) use `CliInv`: one part for the main thread
(the flag is up while an aborted pool drains, nothing is over while a thread is
busy) and one for each thread, that ties its place in the call to its child, its
entry in the table and the future it works for. The heart of it is that a thread
which registers after the snapshot looks at the flag before it waits. HTTP calls
(`HttpTyped`, `NeverExhausted`): an attempt beyond the first number is granted only
for a parameter that was dropped, and there are not enough of them to use up the
grant (`Granted`). Dynamic verification (`AsanTyped`, `KeptHasCrash`,
`CommandsInTime`): findings before the current one are decided once (`Decided`),
and a crash seen in an attempt is a report of its own finding. The start of a scan
(`LaunchTyped`, `ProbeIsRight`): `LaunchInv` says of every configuration that was
passed, and of every call that was made, what the credentials mean that `configure`
gives for that configuration (`GivenFor`, `PromptsWith`, `ActsWith`).
`ProbeForetells` speaks of the configuration now in force and is not inductive: the
preflight configures the backends for one configuration, and a later scan of the
same process for another one. `BackendsTyped` puts the type invariants together.

`FindingFlow_proofs` (`FlowTyped`, `EveryFindingAccounted`, `EveryDuplicateShown`)
uses `FlowInv`. Its first part, `Shared`, says that the list and the dropped findings
share out what stage 4 found, as sets and without repetition; `Accounted` follows
by counting. The second is `DuplicatesShown` itself with the fact that no number is
given before stage 7. Below that are lemmas about the operators: an `Ordered` set
is a numbering of it (`OrderedIs`), so that filtering (`PickedIs`), the ranking
(`RankedIs`) and the sort by severity (`SortedIs`) lose and repeat nothing; the
first ones that stand for themselves exist for every list (`StandingIs`), parents
point backwards (`ParentsAre`, `AnswersAre`), and following them ends (`RootIs`).
`FlowTyped` needs in addition that the numbers given to dropped findings stay within
what stage 4 found, and what the sites and the SARIF results are made of (`TypedInv`).

`ScopePlan_proofs` (`ScopeTyped`, `NothingLeftUnscanned`) uses `PlanInv`: a file
that the collapse drops shares its shape and directory with one that is kept and
shows each of its signals (`CollapsedShown`); once the chunks are split, none but a
single file is above the caps (`ChunksWhole`); once the catch-all has run, every
eligible file in scope is in a chunk or is one that the caps leave to the
specialists (`EligibleSwept`). Before the map is made there is nothing of it, which
is why the scope may still shrink. `NothingUnscanned` is a consequence and not
inductive: it speaks of the plan when it is done. The lemmas say of each operator
what it gives for every repository: the shards of a list are the list and stay
under the caps (`ShardsAre`, `StartsAre`, `PackedIs`), the groups by module and
directory lose no file (`GroupsAre`), the rounds by which calls are found in the
text and the searches along them stay inside the repository (`FromTextIs`,
`TaintsAre`).

`Lists_proofs` has what these and the report need of lists: filtering (`PickedIs`),
lists one after the other (`FlattenIs`) and where a place of the whole is in its
parts (`Parts`, `FlattenAt`, `InPart`), orders by a key (`ByKey`), and induction up
to a bound as an argument about sets (`UpTo`).

`Agents_proofs` proves of remediation (`RemediationTyped`, `ForbiddenRestored`,
`AcceptedTreeClean`, `ProcessedHasRecord`) that the snapshot holds every forbidden
file that was there when the finding was begun, and that a record exists for each
checkpoint; of validation (`ValidationTyped`, `ValidatedHasScore`,
`CleanExitHasJudged`) that each selected report is queued, judged or a failure has
been noted; and of the combined report (`ReportTyped`, `SectionsStayWhole`) that it
is always one segment for each finding, in order, of a shape that the commands keep
(`RepInv`, `DocumentOK`, `SegmentOK`). The shape is stronger than `SectionsWhole`,
which says little of what is above what. A heading has at most one Remediation and
one Validation; what the scan wrote at the end and at most one summary are only
under the last one, the Validation above them, the Remediation below the scan's end,
the summary last; and if any finding has a Remediation then each has one or a
Validation. That is what makes the cuts of the code safe. The pattern for an earlier
section reaches to the end of the segment: a Remediation that is replaced takes only
a Validation with it (the old summary is out by then), and a Validation is cut above the
sections of the report. A document of this shape is read back as the same segments (`WholeDocument` and `ParsedIs` find the
headings, `PutTogether` the segments again), and each command turns a segment into
one of the same shape (`RemediationGoesIn`, `SummaryGoesIn`, `SummaryComesOut`,
`ValidationGoesIn`). `AgentsTyped` puts the type invariants of the five parts
together.

The attempt at `SectionsStayWhole` corrected the model: the property used to say
that a Remediation under one heading means one under each, which three commands do
not refute and the proof does not give, because it is false with four.

Only model-checked: liveness (`AuditEnds`, `Terminates`, `AbortEnds`, `WorkEnds`,
`CallEnds`, `PassEnds`), which is beyond the provers.

## Disagreements without a run

Met while modelling; each is a comment or a message that the code does not bear
out, and none of them is the subject of a run.

- preflight.py:238 calls preprocess and verify "the only two roles that drive the
  agentic() backend path". Dynamic verification (asan_verify.py:310, 639) and
  remediation use it as well, so a backend that cannot give them Bash or Edit is
  found out only there. `ProbeForetells` excludes exactly these calls.
- `config_check` says of its SDK credential rule that it "matches
  preflight.check_backends()" (util/environment.py:306). It decides whether sdk is
  the only backend from 8 of the 11 roles; it also does not see a key in the
  openai block of the profile, and looks for `claude` but not `claude.cmd`.
- `check_backends` does not read VVAHARNESS_CLAUDE_BINARY, which
  backends/claude_cli.py:219 obeys.
- cli.py:252-253 says that the manifest reflects "the config actually in force".
  It records the one that was asked for, also when the trust gate of entry.py has
  put the packaged one in its place.
- report_augment/__init__.py:21-22 says that "the combined report carries BOTH the
  validation and remediation results". The pattern for an earlier section reaches to
  the end of a segment (report_augment/markdown.py:38-39), so a remediate after a
  validate drops every Validation from the Markdown. The pattern of
  validation/report/augment.py:47 does the same to a Remediation that comes after a
  Validation, and so one finding can lose its Remediation while the others keep
  theirs; four commands and a kill lead there, and `SectionsWhole` says what is left.
- A taint chunk whose own files exceed the cap is split without regard to the
  call chain, so source and sink may end up in different chunks (`Split`).

## Not modelled

Redaction, language hints, prompts, the extraction of JSON from text, the layout
of reports, counters and status lines: text without control, or counters nothing
reads back. CVSS and CWE tables are given by the instance where they decide an
order. Inside modelled components: the migration of legacy checkpoint files and
the manifest parsers, the sandbox of dynamic verification, the agent SDK's own
loop, the permission policy and subagents of a validation session, the playbook
of the remediation agent.

Two concurrent scans of one repository, a second Ctrl-C while the first is being
handled, and the ungrouped batch with equal names are outside the models; the
first and the last are listed as hazards.
