------------------------------- MODULE Launch -------------------------------
(***************************************************************************)
(* From the command line to the first call of a stage (cli.py,             *)
(* orchestrator/entry.py and preflight.py, util/environment.py, config/,   *)
(* manifest.py): the .env, the configuration in force, the credentials     *)
(* that a backend is given, and the two readiness checks, of doctor and of *)
(* the scan, which are written separately from each other and from the     *)
(* clients whose needs they predict.  Commands run one after the other on  *)
(* a machine, each in a process of its own; only .env and the manifest     *)
(* outlive it.  A provider may refuse any request.                         *)
(***************************************************************************)
EXTENDS Naturals, Sequences, FiniteSets

CONSTANTS
  Configs,    \* the configurations there are, by place
  Packaged,   \* the place of the default profile
  InTarget,   \* the places inside the directory that is scanned
  Machines,
  Commands,
  Overlay,    \* the tools that the file of --step1-config lists
  MaxLaunches

(* _MODEL_ROLES, and the roles that config_check and the manifest know.      *)
ModelRoles ==
  {"autoexclude", "preprocess", "threatmodel", "decompose", "deepdive", "verify",
   "asan_verify", "dedup", "chain", "remediate", "validate"}
ReportedRoles == ModelRoles \ {"asan_verify", "remediate", "validate"}

Backends == {"cli", "sdk", "openai", "codex"}
Tools == {"Read", "Glob", "Grep", "Bash", "Edit", "Write"}
LocalTools == {"Read", "Glob", "Grep"}
Variables ==
  {"SDK_API_KEY", "API_KEY", "AUTH_TOKEN", "OPENAI_API_KEY", "BASE_URL",
   "ALLOW_CWD_CONFIG", "NO_LOCAL_CONFIG", "CLAUDE_BINARY"}

(* routes and local: the model and the backend of a role, in the file and in *)
(* the config.local.yaml beside it.                                          *)
IsRoutes(f) == DOMAIN f \subseteq ModelRoles /\ \A r \in DOMAIN f : f[r].via \in Backends
IsConfig(c) ==
  /\ c = [routes |-> c.routes, local |-> c.local, keys |-> c.keys, blocks |-> c.blocks,
          explore |-> c.explore, inspect |-> c.inspect, auto |-> c.auto]
  /\ IsRoutes(c.routes) /\ IsRoutes(c.local)
  /\ c.keys \subseteq {"sdk", "openai"}       \* the blocks with an api_key
  /\ c.blocks \subseteq Backends /\ c.keys \subseteq c.blocks
  /\ c.explore \subseteq Tools /\ c.inspect \subseteq Tools
  /\ c.auto \in BOOLEAN

IsMachine(m) ==
  /\ m = [exported |-> m.exported, dotenv |-> m.dotenv, dotenvAt |-> m.dotenvAt, cwd |-> m.cwd,
          path |-> m.path, installed |-> m.installed, jwt |-> m.jwt, gateway |-> m.gateway]
  /\ m.exported \subseteq Variables /\ m.dotenv \subseteq Variables
  /\ m.dotenvAt \in {"none", "outside", "inside"} /\ m.cwd \in {"outside", "inside"}
  /\ m.path \subseteq {"claude", "claude.cmd", "codex"}
  /\ m.installed \subseteq {"openai", "claude_agent_sdk"}
  /\ m.jwt \in BOOLEAN /\ m.gateway \in BOOLEAN

IsCommand(c) ==
  /\ c.what \in {"setup", "doctor", "test", "scan", "remediate"}
  /\ c.config \in STRING /\ c.repo \in BOOLEAN /\ c.skip \in BOOLEAN /\ c.clone \in BOOLEAN
  /\ c.overlay \in {"none", "file", "bad"} /\ c.auto \in {"none", "on", "off"}

ASSUME LaunchAssumption ==
  /\ \A p \in DOMAIN Configs : IsConfig(Configs[p])
  /\ Packaged \in DOMAIN Configs \ InTarget
  /\ Machines # {} /\ \A m \in Machines : IsMachine(m)
  /\ \A c \in Commands : IsCommand(c)
  /\ Overlay \subseteq Tools /\ MaxLaunches \in Nat

VARIABLES
  machine,
  command,
  step,       \* where the process is
  env,        \* the variables of the process that are set and not empty
  place,      \* the configuration that it reads
  cfg,        \* what it has read
  given,      \* what configure passed to the clients
  prompts,    \* the models that the probe still has to ask
  tries,      \* the agents that it still has to try
  ok,
  survey,     \* whether stage 1 derives its own excludes
  made,      \* how the calls of the stages went
  code,       \* the exit code of the last command
  manifest,
  vouched,    \* the configurations and environments that a probe has passed
  launches

launchVars == <<machine, command, step, env, place, cfg, given, prompts, tries, ok, survey, made,
                code, manifest, vouched, launches>>
process == <<command, env, place, cfg, given, survey>>
probing == <<prompts, tries, ok>>
lasting == <<machine, vouched, launches>>

Idle == [what |-> "setup", config |-> "default", repo |-> FALSE, skip |-> FALSE, clone |-> FALSE,
         overlay |-> "none", auto |-> "none"]
NothingGiven == [keys |-> {}, fallback |-> FALSE]
NoManifest == [place |-> "none", code |-> 0]

LaunchTypeOK ==
  /\ IsMachine(machine) /\ command \in Commands \cup {Idle}
  /\ step \in {"start", "gate", "load", "overlay", "configure", "static", "check", "probe",
               "target", "run", "over"}
  /\ env \subseteq Variables /\ IsConfig(cfg)
  /\ given \in [keys : SUBSET {"sdk", "openai"}, fallback : BOOLEAN]
  /\ \A t \in prompts : t.via \in Backends
  /\ \A t \in tries : t.via \in Backends /\ t.tools \subseteq Tools
  /\ ok \in BOOLEAN /\ survey \in BOOLEAN
  /\ \A c \in made : c.role \in ModelRoles /\ c.went \in {"answered", "refused", "unready"}
  /\ code \in {0, 1, 2, 130} /\ manifest.code \in {0, 1, 2, 130}
  /\ launches \in 0 .. MaxLaunches

LaunchInit ==
  /\ machine \in Machines /\ command = Idle /\ step = "over" /\ env = {}
  /\ place = Packaged /\ cfg = Configs[Packaged] /\ given = NothingGiven
  /\ prompts = {} /\ tries = {} /\ ok = TRUE /\ survey = FALSE /\ made = {}
  /\ code = 0 /\ manifest = NoManifest /\ vouched = {} /\ launches = 0

-----------------------------------------------------------------------------
(* The configuration.                                                        *)

(* _config_path_from: what --config says, else ./config.yaml or the profile. *)
ConfigPath(c) ==
  IF c.config # "default" THEN c.config
  ELSE IF "config.yaml" \in DOMAIN Configs THEN "config.yaml" ELSE Packaged

(* load: config.local.yaml goes over the file, key by key.                   *)
Over(f, g) == [x \in DOMAIN f \cup DOMAIN g |-> IF x \in DOMAIN f THEN f[x] ELSE g[x]]
Load(p) ==
  [Configs[p] EXCEPT !.routes = IF "NO_LOCAL_CONFIG" \in env THEN @ ELSE Over(Configs[p].local, @)]

(* apply_step1_overlay: a list is appended to the one there is.              *)
WithOverlay(c) == [c EXCEPT !.explore = @ \cup Overlay]

(* _resolve_auto_step1: the flag that disables goes before the one that      *)
(* enables, and both before the configuration.                               *)
AutoStep1(c, conf) == c.auto # "off" /\ (c.auto = "on" \/ conf.auto)

Vias(c, roles) == {c.routes[r].via : r \in DOMAIN c.routes \cap roles}
Sole(c, roles) == Vias(c, roles) = {"sdk"}

-----------------------------------------------------------------------------
(* What a client needs.                                                      *)
Shared == {"API_KEY", "AUTH_TOKEN"}

(* sdk._get_client: its own key, else, if it is the only backend, those of   *)
(* the claude CLI.  Given none, the anthropic package looks for them itself. *)
SdkKey ==
  IF "sdk" \in given.keys \/ "SDK_API_KEY" \in env THEN "own"
  ELSE IF given.fallback /\ Shared \cap env # {} THEN "shared"
  ELSE IF Shared \cap env # {} THEN "package" ELSE "none"

(* _sdk_env: the agent that the SDK spawns reads the environment only.       *)
AgentKey == (Shared \cup {"SDK_API_KEY"}) \cap env # {}

OpenaiKey == "openai" \in given.keys \/ "OPENAI_API_KEY" \in env

(* _find_claude_cmd, once, when the backend is first imported.               *)
ClaudeFound == "CLAUDE_BINARY" \in env \/ "claude" \in machine.path

CanPrompt(via) ==
  CASE via = "cli" -> ClaudeFound
    [] via = "sdk" -> SdkKey # "none"
    [] via = "openai" -> "openai" \in machine.installed /\ OpenaiKey
    [] via = "codex" -> "codex" \in machine.path

(* agentic: the loop of the harness has three tools, and the SDK hands a     *)
(* role that wants others to the Claude Agent SDK.                           *)
Implements(via, tools) ==
  CASE via = "cli" -> TRUE
    [] via = "sdk" -> tools \subseteq LocalTools
                        \/ ("claude_agent_sdk" \in machine.installed /\ AgentKey)
    [] via = "openai" -> tools \subseteq LocalTools
    [] via = "codex" -> tools \subseteq LocalTools \cup {"Bash"}

CanAct(via, tools) ==
  /\ Implements(via, tools)
  /\ (via = "sdk" /\ ~(tools \subseteq LocalTools)) \/ CanPrompt(via)

-----------------------------------------------------------------------------
(* A command.                                                                *)
Launched(c) ==
  /\ step = "over" /\ launches < MaxLaunches
  /\ launches' = launches + 1 /\ command' = c /\ step' = "start"
  /\ env' = machine.exported /\ given' = NothingGiven
  /\ made' = {} /\ survey' = FALSE /\ prompts' = {} /\ tries' = {} /\ ok' = TRUE
  /\ UNCHANGED <<machine, place, cfg, code, manifest, vouched>>

(* main returns, or is interrupted; only a scan leaves a manifest, and it    *)
(* names the configuration that was asked for.                               *)
Exit(c) ==
  /\ step' = "over" /\ code' = c
  /\ manifest' = IF command.what = "scan" THEN [place |-> ConfigPath(command), code |-> c] ELSE manifest

(* _load_dotenv: what is exported stays, and a file inside the target is     *)
(* not read unless that is allowed.                                          *)
EnvRefused == command.repo /\ machine.dotenvAt = "inside" /\ "ALLOW_CWD_CONFIG" \notin env
LoadDotenv ==
  /\ step = "start"
  /\ env' = IF machine.dotenvAt = "none" \/ EnvRefused THEN env ELSE env \cup machine.dotenv
  /\ place' = ConfigPath(command)
  /\ step' = IF command.what = "scan" THEN "gate"
             ELSE IF command.what = "setup" THEN "static" ELSE "load"
  /\ UNCHANGED <<command, cfg, given, survey, probing, lasting, made, code, manifest>>

(* The configuration of a scan is not taken from its target.                 *)
TrustGate ==
  /\ step = "gate" /\ step' = "load"
  /\ place' = IF command.repo /\ "ALLOW_CWD_CONFIG" \notin env /\ place \in InTarget
              THEN Packaged ELSE place
  /\ UNCHANGED <<command, env, cfg, given, survey, probing, lasting, made, code, manifest>>

LoadConfig ==
  /\ step = "load" /\ place \in DOMAIN Configs
  /\ cfg' = Load(place) /\ survey' = (command.what = "scan" /\ AutoStep1(command, Load(place)))
  /\ step' = IF command.what = "scan" THEN "overlay" ELSE "configure"
  /\ UNCHANGED <<command, env, place, given, probing, lasting, made, code, manifest>>

(* doctor, test and remediate say so; a scan raises, and leaves no manifest. *)
ConfigMissing ==
  /\ step = "load" /\ place \notin DOMAIN Configs
  /\ IF command.what = "scan" THEN step' = "over" /\ code' = 1 /\ UNCHANGED manifest ELSE Exit(2)
  /\ UNCHANGED <<process, probing, lasting, made>>

(* --step1-config goes before the survey.                                    *)
ApplyOverlay ==
  /\ step = "overlay" /\ command.overlay # "bad"
  /\ cfg' = IF command.overlay = "file" THEN WithOverlay(cfg) ELSE cfg
  /\ survey' = (survey /\ command.overlay = "none")
  /\ step' = "configure"
  /\ UNCHANGED <<command, env, place, given, probing, lasting, made, code, manifest>>

OverlayMissing ==
  /\ step = "overlay" /\ command.overlay = "bad" /\ Exit(2)
  /\ UNCHANGED <<process, probing, lasting, made>>

(* configure: a key that the block does not have is not taken back.          *)
Configure(keys, fallback) ==
  [keys |-> given.keys \cup keys, fallback |-> fallback]

(* configure_backends: a backend without a block is not configured.          *)
ConfigureBackends ==
  /\ step = "configure"
  /\ given' = Configure(cfg.keys, "sdk" \in cfg.blocks /\ Sole(cfg, ModelRoles))
  /\ step' = CASE command.what = "scan" -> IF command.skip \/ command.clone THEN "target" ELSE "check"
               [] command.what = "doctor" -> "static"
               [] command.what = "test" -> "check"
               [] command.what = "remediate" -> "run"
  /\ UNCHANGED <<command, env, place, cfg, survey, probing, lasting, made, code, manifest>>

-----------------------------------------------------------------------------
(* The checks.                                                               *)

(* _gateway_check: the token of a gateway without its address.               *)
GatewayGap == "BASE_URL" \notin env /\ "API_KEY" \in env /\ machine.jwt

(* check_backends, of all roles.                                             *)
CheckBackends ==
  LET vias == Vias(cfg, ModelRoles)
  IN /\ "cli" \in vias => {"claude", "claude.cmd"} \cap machine.path # {}
     /\ "sdk" \in vias =>
          \/ "sdk" \in cfg.keys \/ "SDK_API_KEY" \in env
          \/ Sole(cfg, ModelRoles) /\ Shared \cap env # {}
     /\ "openai" \in vias => "openai" \in cfg.keys \/ "OPENAI_API_KEY" \in env
     /\ ~GatewayGap

(* config_check, of the roles that doctor and setup know.                    *)
ConfigCheck(c) ==
  LET vias == Vias(c, ReportedRoles)
  IN /\ "cli" \in vias => "claude" \in machine.path
     /\ "sdk" \in vias =>
          /\ \/ "sdk" \in c.keys \/ "SDK_API_KEY" \in env
             \/ Sole(c, ReportedRoles) /\ Shared \cap env # {}
          /\ ~GatewayGap
     /\ "openai" \in vias => "OPENAI_API_KEY" \in env

(* probe_backends: one prompt for each model and backend.                    *)
ProbeTargets(c) == {c.routes[r] : r \in DOMAIN c.routes}

(* _agentic_role_tools: what the stage will ask for.                         *)
AgenticRoles == {"preprocess", "verify"}
RoleTools(c, role) ==
  CASE role = "preprocess" -> c.explore
    [] role = "verify" -> IF c.inspect = {} THEN LocalTools ELSE c.inspect
    [] role = "asan_verify" -> LocalTools \cup {"Bash"}
    [] role = "remediate" -> LocalTools \cup {"Edit", "Write"}

(* A bug: an agent is tried once for a model, whatever tools it is given.    *)
AgenticByModel(c) ==
  {[id |-> c.routes[r].id, via |-> c.routes[r].via, tools |-> RoleTools(c, r)] :
     r \in {q \in AgenticRoles \cap DOMAIN c.routes :
              q = "verify" => \A p \in {"preprocess"} \cap DOMAIN c.routes : c.routes[p] # c.routes[q]}}

(* _probe_agentic_roles: one agent for each model, backend and set of tools. *)
AgenticTargets(c) ==
  {[id |-> c.routes[r].id, via |-> c.routes[r].via, tools |-> RoleTools(c, r)] :
     r \in AgenticRoles \cap DOMAIN c.routes}

StartProbe == prompts' = ProbeTargets(cfg) /\ tries' = AgenticTargets(cfg) /\ step' = "probe"

(* The check of a scan; vvaharness test asks the models at once.             *)
Preflight ==
  /\ step = "check" /\ (command.what = "test" \/ CheckBackends)
  /\ StartProbe
  /\ UNCHANGED <<process, ok, lasting, made, code, manifest>>

PreflightFails ==
  /\ step = "check" /\ command.what = "scan" /\ ~CheckBackends /\ Exit(1)
  /\ UNCHANGED <<process, probing, lasting, made>>

(* run_checks: for setup that is all, doctor goes on to ask the models.      *)
Doctor ==
  /\ step = "static" /\ command.what = "doctor" /\ ConfigCheck(Load(place))
  /\ StartProbe
  /\ UNCHANGED <<process, ok, lasting, made, code, manifest>>

Blocked ==
  /\ step = "static" /\ command.what = "doctor" /\ ~ConfigCheck(Load(place)) /\ Exit(1)
  /\ UNCHANGED <<process, probing, lasting, made>>

(* _setup: with --write-env a .env is written, with the gateway that was     *)
(* found, if there is none.                                                  *)
Setup(write) ==
  /\ step = "static" /\ command.what = "setup"
  /\ machine' = IF ~write \/ machine.dotenvAt # "none" THEN machine
                ELSE [machine EXCEPT !.dotenvAt = machine.cwd,
                                     !.dotenv = IF machine.gateway THEN {"BASE_URL"} ELSE {}]
  /\ Exit(IF place \in DOMAIN Configs /\ ConfigCheck(Load(place)) THEN 0 ELSE 1)
  /\ UNCHANGED <<process, probing, vouched, launches, made>>

(* A reply that is cut by the few tokens of the probe counts as an answer.   *)
First(targets) == CHOOSE t \in targets : TRUE

AskModel(refused) ==
  /\ step = "probe" /\ prompts # {}
  /\ prompts' = prompts \ {First(prompts)}
  /\ ok' = (ok /\ CanPrompt(First(prompts).via) /\ ~refused)
  /\ UNCHANGED <<process, step, tries, lasting, made, code, manifest>>

TryAgent(refused) ==
  /\ step = "probe" /\ prompts = {} /\ tries # {}
  /\ tries' = tries \ {First(tries)}
  /\ ok' = (ok /\ CanAct(First(tries).via, First(tries).tools) /\ ~refused)
  /\ UNCHANGED <<process, step, prompts, lasting, made, code, manifest>>

Probed ==
  /\ step = "probe" /\ prompts = {} /\ tries = {}
  /\ vouched' = IF ok THEN vouched \cup {<<cfg, env>>} ELSE vouched
  /\ IF ~ok THEN Exit(1)
     ELSE IF command.what = "scan" THEN step' = "target" /\ UNCHANGED <<code, manifest>>
     ELSE Exit(0)
  /\ UNCHANGED <<process, probing, machine, launches, made>>

-----------------------------------------------------------------------------
(* The scan itself, up to the first call of each role.                       *)
OpenTarget ==
  /\ step = "target" /\ step' = "run"
  /\ UNCHANGED <<process, probing, lasting, made, code, manifest>>

TargetMissing ==
  /\ step = "target" /\ Exit(2)
  /\ UNCHANGED <<process, probing, lasting, made>>

(* The dynamic verification without a model of its own takes the verifier's. *)
RouteOf(role) ==
  IF role = "asan_verify" /\ role \notin DOMAIN cfg.routes THEN cfg.routes["verify"]
  ELSE cfg.routes[role]

Called ==
  IF command.what = "remediate" THEN {"remediate"} \cap DOMAIN cfg.routes
  ELSE IF command.clone THEN {}
  ELSE (DOMAIN cfg.routes \cup IF "verify" \in DOMAIN cfg.routes THEN {"asan_verify"} ELSE {})
         \ ({"remediate", "validate"} \cup IF survey THEN {} ELSE {"autoexclude"})

Agents == AgenticRoles \cup {"asan_verify", "remediate"}
Ready(role) ==
  IF role \in Agents THEN CanAct(RouteOf(role).via, RoleTools(cfg, role))
  ELSE CanPrompt(RouteOf(role).via)

(* The roles in the order of the stages.                                     *)
StageOrder ==
  <<"autoexclude", "preprocess", "threatmodel", "decompose", "deepdive", "verify", "asan_verify",
    "dedup", "chain", "remediate">>
NextRoles == {r \in Called : \A c \in made : c.role # r}
IsNext(role) ==
  \E k \in DOMAIN StageOrder :
    /\ StageOrder[k] = role /\ role \in NextRoles
    /\ \A i \in 1 .. k - 1 : StageOrder[i] \notin NextRoles

StageCall(role, refused) ==
  /\ step = "run" /\ IsNext(role)
  /\ made' = made \cup
       {[role |-> role, went |-> IF ~Ready(role) THEN "unready" ELSE IF refused THEN "refused" ELSE "answered"]}
  /\ UNCHANGED <<process, step, probing, lasting, code, manifest>>

ScanEnds ==
  /\ step = "run"
  /\ Exit(0) \/ Exit(1)
  /\ UNCHANGED <<process, probing, lasting, made>>

(* Ctrl-C: scan_repo and main turn it into an exit code.                     *)
Interrupt ==
  /\ step \in {"probe", "run"} /\ Exit(130)
  /\ UNCHANGED <<process, probing, lasting, made>>

LaunchNext ==
  \/ \E c \in Commands : Launched(c)
  \/ LoadDotenv \/ TrustGate \/ LoadConfig \/ ConfigMissing
  \/ ApplyOverlay \/ OverlayMissing \/ ConfigureBackends
  \/ Preflight \/ PreflightFails \/ Doctor \/ Blocked
  \/ \E write \in BOOLEAN : Setup(write)
  \/ \E refused \in BOOLEAN :
       \/ AskModel(refused) \/ TryAgent(refused)
       \/ \E role \in ModelRoles : StageCall(role, refused)
  \/ Probed \/ OpenTarget \/ TargetMissing \/ ScanEnds \/ Interrupt

LaunchSpec == LaunchInit /\ [][LaunchNext]_launchVars

-----------------------------------------------------------------------------
(* What doctor, test or the preflight of a scan has passed holds for every   *)
(* later scan with this configuration in this environment, skipped preflight *)
(* or not: no call of a stage then lacks a credential, a package or a        *)
(* program; and only dynamic verification and remediation, whose tools are   *)
(* not probed, can ask for tools that the backend cannot give them           *)
(* (preflight.py:232-257, 323-374, entry.py:205-213).                        *)
ProbeForetells ==
  \A c \in made :
    c.went = "unready" /\ <<cfg, env>> \in vouched =>
      c.role \in Agents \ AgenticRoles /\ ~Implements(RouteOf(c.role).via, RoleTools(cfg, c.role))

(* Inductive strengthening, for the proofs: what a probe has passed and what *)
(* a stage lacks, said of the credentials that configure gives for cfg.      *)
GivenFor(c) == [keys |-> c.keys, fallback |-> "sdk" \in c.blocks /\ Sole(c, ModelRoles)]
PromptsWith(c, e, via) ==
  CASE via = "cli" -> "CLAUDE_BINARY" \in e \/ "claude" \in machine.path
    [] via = "sdk" -> "sdk" \in c.keys \/ (Shared \cup {"SDK_API_KEY"}) \cap e # {}
    [] via = "openai" -> "openai" \in machine.installed
                           /\ ("openai" \in c.keys \/ "OPENAI_API_KEY" \in e)
    [] via = "codex" -> "codex" \in machine.path
ActsWith(c, e, via, tools) ==
  IF via = "sdk" /\ ~(tools \subseteq LocalTools)
  THEN "claude_agent_sdk" \in machine.installed /\ (Shared \cup {"SDK_API_KEY"}) \cap e # {}
  ELSE /\ via \in {"sdk", "openai"} => tools \subseteq LocalTools
       /\ via = "codex" => tools \subseteq LocalTools \cup {"Bash"}
       /\ PromptsWith(c, e, via)

LaunchInv ==
  /\ LaunchTypeOK
  /\ step \in {"start", "gate", "load", "overlay", "configure"} => given = NothingGiven
  /\ step \in {"gate", "load", "overlay", "configure"} => command.what # "setup"
  /\ \/ step \in {"check", "probe", "target", "run"} \/ made # {}
     \/ step = "static" /\ command.what = "doctor"
     => given = GivenFor(cfg)
  /\ made # {} => step \in {"run", "over"}
  /\ \A c \in made : c.went = "unready" => c.role \in Called /\ ~Ready(c.role)
  /\ step = "probe" /\ ok =>
       /\ \A t \in ProbeTargets(cfg) \ prompts : CanPrompt(t.via)
       /\ \A t \in AgenticTargets(cfg) \ tries : CanAct(t.via, t.tools)
  /\ \A v \in vouched :
       /\ \A t \in ProbeTargets(v[1]) : PromptsWith(v[1], v[2], t.via)
       /\ \A t \in AgenticTargets(v[1]) : ActsWith(v[1], v[2], t.via, t.tools)

=============================================================================
