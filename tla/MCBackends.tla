----------------------------- MODULE MCBackends -----------------------------
(***************************************************************************)
(* The small instance of how a command gets to the backends, of the ways a *)
(* model is called and of the dynamic verification that calls one.  They   *)
(* share no state: a behaviour is one of a single component, while the     *)
(* others are over.                                                        *)
(***************************************************************************)
EXTENDS CliCalls, HttpCalls, AsanPass, Launch

CONSTANTS w1, w2

MCWorkers == {w1, w2}
Job(i, v, s) == [id |-> i, via |-> v, stream |-> s]
MCPlan == <<{Job(1, "cli", FALSE), Job(2, "cli", FALSE)},
            {Job(3, "codex", FALSE), Job(4, "cli", FALSE)},
            {Job(5, "codex", TRUE), Job(6, "cli", TRUE)}>>
Printed(rc, shape, status, says) == [rc |-> rc, shape |-> shape, status |-> status, says |-> says]
MCReplies ==
  {Printed(0, "result", "none", "answer"), Printed(0, "result", "none", "refusal"),
   Printed(1, "raw", "none", "busy"), Printed(1, "raw", "none", "cap")}

MCVerified == <<"a", "b", "c">>
MCComplexity == [a |-> 2, b |-> 2, c |-> 5]

(* Profiles with one backend and with several, with and without a block for  *)
(* it; the shipped roles are abbreviated to those that differ.               *)
To(id, backend) == [id |-> id, via |-> backend]
Profile(routes, local, keys, blocks, explore, inspect, auto) ==
  [routes |-> routes, local |-> local, keys |-> keys, blocks |-> blocks,
   explore |-> explore, inspect |-> inspect, auto |-> auto]
AllBy(v) == [r \in {"autoexclude", "preprocess", "verify", "chain"} |-> To("m", v)]
NoRoutes == [r \in {} |-> To("m", "cli")]
MCConfigs ==
  [packaged |-> Profile(AllBy("cli"), NoRoutes, {}, {"cli"}, LocalTools \cup {"Bash"}, {}, TRUE),
   sdk |-> Profile(AllBy("sdk"), [r \in {"remediate"} |-> To("m", "sdk")], {}, {"sdk"},
                   LocalTools, {}, TRUE),
   full |-> Profile(("chain" :> To("m", "cli")) @@ ("asan_verify" :> To("g", "codex")) @@ AllBy("sdk"),
                    ("verify" :> To("g", "openai")) @@ ("remediate" :> To("g", "openai")), {"openai"},
                    {"sdk", "openai"}, LocalTools \cup {"Bash"}, {"Read"}, TRUE),
   openai |-> Profile(AllBy("openai"), NoRoutes, {}, {"openai"}, LocalTools,
                      {"Read", "Bash"}, FALSE),
   planted |-> Profile(AllBy("sdk"), NoRoutes, {"sdk"}, {"sdk"}, LocalTools, {}, FALSE)]

Machine(exported, dotenv, at0, cwd, path, installed, jwt) ==
  [exported |-> exported, dotenv |-> dotenv, dotenvAt |-> at0, cwd |-> cwd, path |-> path,
   installed |-> installed, jwt |-> jwt, gateway |-> jwt]
MCMachines ==
  {Machine({}, {}, "none", "outside", {"claude"}, {"openai"}, FALSE),
   Machine({"API_KEY"}, {}, "none", "inside", {"claude", "codex"}, {"openai"}, TRUE),
   Machine({"SDK_API_KEY", "NO_LOCAL_CONFIG"}, {"OPENAI_API_KEY"}, "inside", "inside",
           {"claude.cmd", "codex"}, {"openai", "claude_agent_sdk"}, FALSE),
   Machine({"AUTH_TOKEN", "ALLOW_CWD_CONFIG", "CLAUDE_BINARY"}, {"SDK_API_KEY", "OPENAI_API_KEY"},
           "inside", "inside", {"claude", "codex"}, {"openai", "claude_agent_sdk"}, FALSE),
   Machine({"SDK_API_KEY", "OPENAI_API_KEY"}, {}, "none", "outside", {"claude", "codex"}, {}, FALSE)}

Command(what, config, repo, skip, clone, overlay, auto) ==
  [what |-> what, config |-> config, repo |-> repo, skip |-> skip, clone |-> clone,
   overlay |-> overlay, auto |-> auto]
MCCommands ==
  {Command("setup", "default", FALSE, FALSE, FALSE, "none", "none"),
   Command("test", "openai", FALSE, FALSE, FALSE, "none", "none"),
   Command("doctor", "gone", FALSE, FALSE, FALSE, "none", "none"),
   Command("scan", "gone", TRUE, FALSE, FALSE, "none", "none"),
   Command("scan", "planted", TRUE, FALSE, FALSE, "none", "on"),
   Command("scan", "openai", TRUE, TRUE, FALSE, "file", "on"),
   Command("scan", "openai", TRUE, TRUE, FALSE, "none", "none"),
   Command("scan", "sdk", FALSE, FALSE, TRUE, "bad", "off"),
   Command("scan", "sdk", FALSE, FALSE, TRUE, "none", "off"),
   Command("remediate", "full", TRUE, FALSE, FALSE, "none", "none")}
  \cup {Command("doctor", p, FALSE, FALSE, FALSE, "none", "none") : p \in {"sdk", "full", "openai"}}
  \cup {Command("scan", p, TRUE, skip, FALSE, "none", "none") :
          p \in {"sdk", "full"}, skip \in BOOLEAN}

CliOver ==
  /\ unit = Len(Plan) /\ main = "over" /\ cause = "none" /\ queued = {} /\ victims = {}
  /\ flag = FALSE /\ live = {}
  /\ pc = [w \in Workers |-> "idle"] /\ job = [w \in Workers |-> NoJob]
  /\ child = [w \in Workers |-> "none"] /\ reply = [w \in Workers |-> NoReply]
  /\ transients = [w \in Workers |-> 0] /\ timeouts = [w \in Workers |-> 0]
  /\ result = [j \in Plan[Len(Plan)] |-> "ok"]

HttpOver ==
  /\ via = (CHOOSE v \in Via : TRUE) /\ at = "idle" /\ sent = FALSE /\ kw = {} /\ learned = {}
  /\ attempt = 0 /\ attempts = Attempts /\ turn = 0 /\ retries = 0 /\ shrinks = 0
  /\ history = <<>> /\ outcome = "text" /\ calls = MaxCalls

AsanOver ==
  /\ phase = "over" /\ next = Len(Verified) + 1 /\ attempted = 0 /\ build = "none"
  /\ left = 0 /\ limit = 0 /\ commands = 0 /\ crash = FALSE
  /\ kept = {} /\ dropped = Candidates /\ reports = {}

LaunchOver ==
  /\ machine = (CHOOSE m \in Machines : TRUE) /\ command = Idle /\ step = "over" /\ env = {}
  /\ place = Packaged /\ cfg = Configs[Packaged] /\ given = NothingGiven
  /\ prompts = {} /\ tries = {} /\ ok = TRUE /\ survey = FALSE /\ made = {}
  /\ code = 0 /\ manifest = NoManifest /\ vouched = {} /\ launches = MaxLaunches

vars == <<cliVars, httpVars, asanVars, launchVars>>

Init ==
  \/ CliInit /\ HttpOver /\ AsanOver /\ LaunchOver
  \/ HttpInit /\ CliOver /\ AsanOver /\ LaunchOver
  \/ AsanInit /\ CliOver /\ HttpOver /\ LaunchOver
  \/ LaunchInit /\ CliOver /\ HttpOver /\ AsanOver

Next ==
  \/ CliNext /\ UNCHANGED <<httpVars, asanVars, launchVars>>
  \/ HttpNext /\ UNCHANGED <<cliVars, asanVars, launchVars>>
  \/ AsanNext /\ UNCHANGED <<cliVars, httpVars, launchVars>>
  \/ LaunchNext /\ UNCHANGED <<cliVars, httpVars, asanVars>>

(* Every call of an HTTP backend and every pass of dynamic verification      *)
(* comes to an end (sdk.py:300-353, oai.py:504-551, s6_verify.py:276-380).   *)
WorkEnds == CallEnds /\ PassEnds

FairSpec == Init /\ [][Next]_vars /\ CliFairness /\ HttpFairness /\ AsanFairness

(* Every variable of the commands, of the calls and of dynamic verification  *)
(* has its type.                                                             *)
TypeOK == CliTypeOK /\ HttpTypeOK /\ AsanTypeOK /\ LaunchTypeOK

=============================================================================
