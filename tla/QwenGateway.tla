---------------------------- MODULE QwenGateway ----------------------------
(***************************************************************************)
(* One question to Qwen, from the caller in the workflow or the API down   *)
(* to the HTTP requests: QwenGateway._post retries transient failures, the *)
(* typed tasks of qwen_tasks repair what is left to their fallback, the    *)
(* vision agent is called again by Orchestrator._run_agent, and the        *)
(* endpoints leave an exception to the application's handlers.  Questions  *)
(* share nothing: each has a client of its own.                            *)
(*                                                                         *)
(* Exceptions are kept by the handler that catches them: "gateway" is      *)
(* QwenGatewayError, "value" any other ValueError (an undecodable body,    *)
(* pydantic's ValidationError).                                            *)
(***************************************************************************)
EXTENDS Integers

CONSTANTS
    MaxSetting,      \* the largest QWEN_MAX_RETRIES considered (a bound)
    None             \* neither an answer nor an outcome yet

ASSUME GatewayAssumption == MaxSetting \in Nat /\ None \notin {"qwen", "fallback"}

\* Who asks: the tasks that go through _run(), the agent and the endpoints
\* that inspect a photo, and the endpoint that returns the answer as it is.
TextTask == {"extract_recall", "assess_inventory_match", "assess_risk",
             "draft_customer_notice", "generate_briefing"}
VisionAgent == "ShelfVisionAgent"
ImageEndpoint == "inspect_shelf_photo"
SummaryEndpoint == "qwen_recall_summary"
Caller == TextTask \union {VisionAgent, ImageEndpoint, SummaryEndpoint}
AsksAboutImage == {VisionAgent, ImageEndpoint}

\* What the provider may do with a request.  Of the JSON objects it may
\* answer, "incomplete" lacks a field the task requires, "illtyped" has one
\* of a type or range that no model field accepts.
Object == {"valid", "incomplete", "illtyped"}
NoObject == "no_object"       \* no content, or content that is no JSON object
Undecodable == "undecodable"  \* a body that is not JSON
Refusal == "http_4xx"
Transient == {"http_5xx", "transport"}
ProviderAnswer == Object \union {NoObject, Undecodable, Refusal} \union Transient

VARIABLES
    configured,  \* qwen_configured
    setting,     \* QWEN_MAX_RETRIES
    caller,
    phase,       \* where the question is
    attempt,     \* the attempt of _post
    tries,       \* the attempt of the agent
    posts,       \* requests sent to the provider
    reply,        \* the provider's last answer
    outcome      \* what the caller got: the source of its value, "failed" or a status

config == <<configured, setting, caller>>
gatewayVars == <<config, phase, attempt, tries, posts, reply, outcome>>

\* max(1, qwen_max_retries), in the gateway and in the orchestrator.
Attempts == IF setting < 1 THEN 1 ELSE setting

GatewayInit ==
    /\ configured \in BOOLEAN /\ setting \in 0..MaxSetting /\ caller \in Caller
    /\ phase = "asked" /\ attempt = 1 /\ tries = 1 /\ posts = 0
    /\ reply = None /\ outcome = None

-----------------------------------------------------------------------------
(* complete_json(), complete_image_json() *)

Settle(result) ==
    /\ phase' = "settled" /\ outcome' = result
    /\ UNCHANGED <<config, attempt, tries, posts>>

\* A plausible bug: a demo answer is marked as the model's.
AskUnmarked ==
    /\ phase = "asked"
    /\ IF configured
       THEN phase' = "posting" /\ UNCHANGED <<config, attempt, tries, posts, outcome>>
       ELSE Settle("qwen")
    /\ UNCHANGED reply

\* Without a key the fallback is the answer, and nothing is sent.
Ask ==
    /\ phase = "asked"
    /\ IF configured
       THEN phase' = "posting" /\ UNCHANGED <<config, attempt, tries, posts, outcome>>
       ELSE Settle("fallback")
    /\ UNCHANGED reply

Post ==
    /\ phase = "posting"
    /\ phase' = "posted" /\ posts' = posts + 1
    /\ UNCHANGED <<config, attempt, tries, reply, outcome>>

\* A plausible bug: one retry too many.
RetriedOnceMore(answer) == answer \in Transient /\ attempt <= Attempts

\* _post tries again: 4xx fails fast, and so does the last attempt.
Retried(answer) == answer \in Transient /\ attempt < Attempts

\* The answer passes the caller's schema.  The inspection coerces its fields
\* and has a default for each; the summary endpoint takes any object.
Accepted(answer) ==
    \/ answer = "valid"
    \/ answer = "incomplete" /\ caller \in AsksAboutImage \union {SummaryEndpoint}
    \/ answer = "illtyped" /\ caller = SummaryEndpoint

\* The exception that leaves the gateway or the schema.
Raised(answer) ==
    IF answer \in {NoObject, Refusal} \union Transient THEN "gateway" ELSE "value"

\* _run_agent calls the agent again.
TryAgain ==
    /\ tries < Attempts
    /\ tries' = tries + 1 /\ attempt' = 1 /\ phase' = "asked"
    /\ UNCHANGED <<config, posts, outcome>>

\* A plausible bug: _run() catches the gateway's own exception only.
CatchGatewayErrorOnly(exception) ==
    CASE caller \in TextTask /\ exception = "gateway" -> Settle("fallback")
      [] caller \in TextTask /\ exception = "value"   -> Settle("failed")
      [] caller = VisionAgent -> TryAgain \/ (tries >= Attempts /\ Settle("failed"))
      [] OTHER -> Settle(IF exception = "gateway" THEN "http_502" ELSE "http_400")

\* What the caller makes of an exception.
Catch(exception) ==
    CASE caller \in TextTask -> Settle("fallback")
      [] caller = VisionAgent -> TryAgain \/ (tries >= Attempts /\ Settle("failed"))
      [] OTHER -> Settle(IF exception = "gateway" THEN "http_502" ELSE "http_400")

\* The provider answers, or the transport fails.
ReceiveAnswer(answer) ==
    /\ phase = "posted"
    /\ reply' = answer
    /\ IF Retried(answer)
       THEN phase' = "sleeping" /\ UNCHANGED <<config, attempt, tries, posts, outcome>>
       ELSE IF Accepted(answer) THEN Settle("qwen") ELSE Catch(Raised(answer))

Answer == \E answer \in ProviderAnswer : ReceiveAnswer(answer)

\* A plausible bug: requests with an image have no timeout.
TimeOutOfText == caller \notin AsksAboutImage /\ ReceiveAnswer("transport")

\* The client's timeout: a provider that keeps silent ends as a transport error.
TimeOut == ReceiveAnswer("transport")

\* asyncio.sleep() between two attempts.
Wake ==
    /\ phase = "sleeping"
    /\ phase' = "posting" /\ attempt' = attempt + 1
    /\ UNCHANGED <<config, tries, posts, reply, outcome>>

GatewayNext == Ask \/ Post \/ Answer \/ TimeOut \/ Wake

-----------------------------------------------------------------------------
(***************************************************************************)
(* "Bounded retries on 5xx/transport errors": a question costs at most the *)
(* configured number of requests, and the agent's, which is tried again as *)
(* a whole under the same setting, at most its square.                     *)
(***************************************************************************)
PostsAreBounded ==
    posts <= IF caller = VisionAgent THEN Attempts * Attempts ELSE Attempts

(***************************************************************************)
(* Whatever the provider answers, a typed task gives the workflow a value, *)
(* and nothing that it does can fail a text agent.                         *)
(***************************************************************************)
TextTasksNeverFail == caller \in TextTask /\ phase = "settled" => outcome \in {"qwen", "fallback"}

(***************************************************************************)
(* The source that badges and events show is honest: "qwen" stands on an   *)
(* answer of the provider, and a deterministic value is only given where   *)
(* there is no key or the provider's last answer was of no use.  Without a *)
(* key nothing is sent.                                                    *)
(***************************************************************************)
SourceIsHonest ==
    /\ outcome = "qwen" => configured /\ reply \in Object
    /\ outcome = "fallback" => ~configured \/ reply # "valid"
    /\ posts > 0 => configured
=============================================================================
