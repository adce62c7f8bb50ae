----------------------------- MODULE HttpCalls -----------------------------
(***************************************************************************)
(* Model calls made over HTTP (backends/sdk.py, backends/oai.py, reached   *)
(* through backends/llm.py) and the tool loop they run over the local read *)
(* tools (backends/localtools.py).  A thread makes one call after another  *)
(* to one model; what the process has learned about the model's parameters *)
(* outlives a call.  The provider answers a request as it likes.           *)
(*                                                                         *)
(* A request is abstracted to the optional parameters it carries, and the  *)
(* history of a tool loop to the tool results in it: whether each is large *)
(* enough to be evicted, or has been.                                      *)
(***************************************************************************)
EXTENDS Naturals, Sequences, FiniteSets, SequencesExt

CONSTANTS
  Via,            \* the backends a call may go to
  NoTemperature,  \* the model's name says that it takes no temperature
  Attempts,       \* how often a prompt is sent, at least
  MostAttempts,   \* and at most
  MaxRetries,     \* the transient failures a tool loop sits out
  MaxShrinks,     \* the evictions for one turn
  MaxTurns,       \* the turns of a tool loop
  MaxCalls        \* the calls of the thread

ASSUME HttpAssumption ==
  /\ Via \subseteq {"sdk", "openai"} /\ Via # {} /\ NoTemperature \in BOOLEAN
  /\ {Attempts, MostAttempts, MaxTurns} \subseteq Nat \ {0} /\ Attempts < MostAttempts
  /\ {MaxRetries, MaxShrinks, MaxCalls} \subseteq Nat

Params == {"temperature", "thinking", "max_tokens", "max_completion_tokens"}

(* Why a request is not answered: the refusal names a parameter, the context *)
(* is too long, the service overloaded, the connection lost; other errors.   *)
Refusals == {"temperature", "thinking", "max_completion_tokens"}
Refused == Refusals \cup {"overflow", "busy", "lost", "error"}

VARIABLES
  via, at,                   \* the backend of the current call, and where it is
  sent,                      \* a request awaits its answer
  kw,                        \* the parameters its next request carries
  learned,                   \* what the model is known to reject: _NO_TEMP_MODELS, ...
  attempt, attempts,         \* of a prompt
  turn, retries, shrinks,    \* of a tool loop
  history,                   \* its tool results, oldest first
  outcome, calls             \* how the last call ended; the calls so far

promptVars == <<attempt, attempts>>
loopVars == <<turn, retries, shrinks, history>>
httpVars == <<via, at, sent, kw, learned, promptVars, loopVars, outcome, calls>>

HttpTypeOK ==
  /\ via \in Via /\ at \in {"idle", "prompt", "turn", "final"} /\ sent \in BOOLEAN
  /\ kw \subseteq Params /\ learned \subseteq Refusals
  /\ attempt \in 0 .. MostAttempts /\ attempts \in Attempts .. MostAttempts
  /\ turn \in 0 .. MaxTurns /\ retries \in 0 .. MaxRetries
  /\ shrinks \in 0 .. MaxShrinks /\ history \in Seq({"small", "large", "evicted"})
  /\ outcome \in {"none", "text", "error", "exhausted", "unsupported", "delegated"}
  /\ calls \in 0 .. MaxCalls

HttpInit ==
  /\ via \in Via /\ at = "idle" /\ sent = FALSE /\ kw = {} /\ learned = {}
  /\ attempt = 0 /\ attempts = Attempts
  /\ turn = 0 /\ retries = 0 /\ shrinks = 0 /\ history = <<>>
  /\ outcome = "none" /\ calls = 0

-----------------------------------------------------------------------------
(* The parameters of a first request.  Thinking switches the temperature off.*)
Length == IF via = "sdk" \/ "max_completion_tokens" \in learned THEN "max_tokens"
                                                                ELSE "max_completion_tokens"

PromptParams(wanted) ==
  LET thinks == via = "sdk" /\ "thinking" \in wanted \ learned
      warm == "temperature" \in wanted \ learned
              /\ (via = "sdk" => ~thinks /\ ~NoTemperature)
  IN {Length} \cup {p \in {"thinking"} : thinks} \cup {p \in {"temperature"} : warm}

Begin ==
  /\ at = "idle" /\ calls < MaxCalls
  /\ calls' = calls + 1 /\ outcome' = "none"
  /\ attempt' = 0 /\ attempts' = Attempts
  /\ turn' = 1 /\ retries' = 0 /\ shrinks' = 0 /\ history' = <<>>
  /\ UNCHANGED <<via, sent>>

Prompt(wanted) ==
  /\ Begin /\ at' = "prompt" /\ kw' = PromptParams(wanted)
  /\ learned' = IF via = "sdk" /\ NoTemperature
                   /\ "temperature" \in wanted /\ "thinking" \notin wanted \ learned
                  THEN learned \cup {"temperature"} ELSE learned

Agentic ==
  /\ Begin /\ at' = "turn" /\ kw' = {Length} /\ UNCHANGED learned

(* A tool that the local loop does not have.  A call through the SDK is      *)
(* handed over to the Claude Agent SDK, one to OpenAI fails.                 *)
OtherTools ==
  /\ at = "idle" /\ calls < MaxCalls
  /\ calls' = calls + 1
  /\ outcome' = IF via = "sdk" THEN "delegated" ELSE "unsupported"
  /\ UNCHANGED <<via, at, sent, kw, learned, promptVars, loopVars>>

Send ==
  /\ at # "idle" /\ ~sent
  /\ IF at = "prompt" THEN attempt < attempts /\ attempt' = attempt + 1
                      ELSE UNCHANGED attempt
  /\ sent' = TRUE
  /\ UNCHANGED <<via, at, kw, learned, attempts, loopVars, outcome, calls>>

End(how) ==
  /\ outcome' = how /\ at' = "idle" /\ sent' = FALSE
  /\ UNCHANGED <<via, kw, learned, promptVars, loopVars, calls>>

-----------------------------------------------------------------------------
(* prompt                                                                    *)

(* The parameter that a refusal makes prompt drop or rename, if any.         *)
Dropped(r) ==
  CASE r \in {"temperature", "thinking"} /\ r \in kw -> r
    [] r = "max_completion_tokens" /\ via = "openai" ->
         IF r \in kw THEN r ELSE "max_tokens"
    [] OTHER -> "none"

Renamed(p) ==
  CASE p = "max_completion_tokens" -> {"max_tokens"}
    [] p = "max_tokens" -> {"max_completion_tokens"}
    [] OTHER -> {}

(* A bug: a parameter dropped from the last attempt is not sent again.       *)
GrantNone == attempts

(* A parameter dropped on the last attempt buys one more.                    *)
Grant == IF attempt = attempts /\ attempts < MostAttempts THEN attempts + 1 ELSE attempts

PromptAnswered(r) ==
  /\ at = "prompt" /\ sent /\ sent' = FALSE
  /\ \/ /\ Dropped(r) # "none"
        /\ kw' = (kw \ {Dropped(r)}) \cup Renamed(Dropped(r))
        /\ learned' = learned \cup ({Dropped(r)} \cap Refusals)
        /\ attempts' = Grant
        /\ UNCHANGED <<at, outcome>>
     \/ /\ r \in {"busy", "lost"} /\ attempt < attempts
        /\ UNCHANGED <<at, kw, learned, attempts, outcome>>
     \/ /\ Dropped(r) = "none" /\ (r \in {"busy", "lost"} => attempt = attempts)
        /\ at' = "idle" /\ outcome' = "error"
        /\ UNCHANGED <<kw, learned, attempts>>
  /\ UNCHANGED <<via, attempt, loopVars, calls>>

PromptReplied == at = "prompt" /\ sent /\ End("text")

(* The attempts ran out on refusals: there is no text to return.             *)
Exhausted == at = "prompt" /\ ~sent /\ attempt = attempts /\ End("exhausted")

-----------------------------------------------------------------------------
(* agentic                                                                   *)

(* _shrink_history: the oldest result that is large and still there.         *)
Evict ==
  IF \E i \in DOMAIN history : history[i] = "large"
    THEN ReplaceAt(history, SelectInSeq(history, LAMBDA x : x = "large"), "evicted")
    ELSE history

(* A bug: the transient failures are not counted.                            *)
SitOutForever == retries' = retries /\ retries < MaxRetries

(* A bug: one more than allowed is sat out.                                  *)
SitOutOneMore == retries' = retries + 1 /\ retries <= MaxRetries

SitOut == retries' = retries + 1 /\ retries < MaxRetries

Failed(r) ==
  /\ at = "turn" /\ sent /\ sent' = FALSE
  /\ \/ /\ r \in {"busy", "lost"} /\ SitOut
        /\ UNCHANGED <<at, kw, learned, shrinks, history, outcome>>
     \/ /\ via = "openai" /\ r = "max_completion_tokens" /\ r \in kw
        /\ kw' = (kw \ {r}) \cup {"max_tokens"} /\ learned' = learned \cup {r}
        /\ UNCHANGED <<at, retries, shrinks, history, outcome>>
     \/ /\ via = "openai" /\ r = "overflow" /\ shrinks < MaxShrinks
        /\ \E i \in DOMAIN history : history[i] = "large"
        /\ history' = Evict /\ shrinks' = shrinks + 1
        /\ UNCHANGED <<at, kw, learned, retries, outcome>>
     \/ /\ \/ r \in {"error", "temperature", "thinking"}
           \/ r = "max_completion_tokens" /\ (via = "sdk" \/ r \notin kw)
           \/ r = "overflow" /\ (via = "sdk" \/ shrinks = MaxShrinks
                                 \/ \A i \in DOMAIN history : history[i] # "large")
           \/ r \in {"busy", "lost"} /\ retries = MaxRetries
        /\ at' = "idle" /\ outcome' = "error"
        /\ UNCHANGED <<kw, learned, retries, shrinks, history>>
  /\ UNCHANGED <<via, promptVars, turn, calls>>

Replied == at = "turn" /\ sent /\ End("text")

(* The model asks for tools, one result is added for each (here: one), and   *)
(* the next turn begins.  OpenAI's counters are of a turn, the SDK's of the  *)
(* call.  After the last turn a final answer is forced.                      *)
ToolsRun(size) ==
  /\ at = "turn" /\ sent /\ sent' = FALSE
  /\ history' = Append(history, size)
  /\ at' = IF turn = MaxTurns THEN "final" ELSE "turn"
  /\ turn' = IF turn = MaxTurns THEN turn ELSE turn + 1
  /\ shrinks' = 0
  /\ retries' = IF via = "openai" THEN 0 ELSE retries
  /\ UNCHANGED <<via, kw, learned, promptVars, outcome, calls>>

(* The forced answer is asked for once.                                      *)
Forced(ok) == at = "final" /\ sent /\ End(IF ok THEN "text" ELSE "error")

-----------------------------------------------------------------------------
HttpStep ==
  \/ Send
  \/ \E r \in Refused : PromptAnswered(r) \/ Failed(r)
  \/ PromptReplied \/ Exhausted \/ Replied
  \/ \E size \in {"small", "large"} : ToolsRun(size)
  \/ \E ok \in BOOLEAN : Forced(ok)

HttpNext ==
  \/ \E wanted \in SUBSET {"temperature", "thinking"} : Prompt(wanted)
  \/ Agentic \/ OtherTools
  \/ HttpStep

(* A provider answers every request, if only by the client's own timeout.    *)
HttpSpec == HttpInit /\ [][HttpNext]_httpVars
HttpFairness == WF_httpVars(HttpStep)
HttpFairSpec == HttpSpec /\ HttpFairness

-----------------------------------------------------------------------------
(* Whatever the provider answers, a call ends: retries, evictions, renamed   *)
(* parameters and turns cannot feed each other for ever (oai.py:443-494).    *)
CallEnds == at # "idle" ~> at = "idle"

(* A parameter that is dropped is dropped for a request that is then sent: a *)
(* call through the SDK never runs out of attempts on refusals, in whatever  *)
(* order they come between transient failures (sdk.py:279-281).              *)
CleanedRequestSent == via = "sdk" => outcome # "exhausted"

=============================================================================
