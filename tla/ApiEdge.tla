------------------------------ MODULE ApiEdge ------------------------------
(***************************************************************************)
(* The way of a question through the API: a request that the limiter lets  *)
(* in, whose handler asks Qwen and is not done before the question is      *)
(* settled, among requests that ask nothing; or a question of an agent,    *)
(* which runs in the background and passes no limiter.                     *)
(***************************************************************************)
EXTENDS RateLimiter, QwenGateway

VARIABLE
    asker   \* "agent", or the asking request: "outside", "inside" or "done"

edgeVars == <<limiterVars, gatewayVars, asker>>

\* Only agents reason and only endpoints summarise; the photo endpoints and
\* demo_briefing() ask what agents ask as well.
AskersOf(c) ==
    CASE c \in {ImageEndpoint, SummaryEndpoint} -> {"outside"}
      [] c = "generate_briefing"                -> {"agent", "outside"}
      [] OTHER                                  -> {"agent"}

EdgeInit ==
    /\ LimiterInit /\ GatewayInit
    /\ asker \in AskersOf(caller)

\* The middleware lets a request in: there is no limit, or the client is
\* within it.  A request to /health, which is exempt, asks nothing.
LetIn == (~Limited /\ PassFree) \/ \E c \in Client : Admit(c)

AskingRequestArrives ==
    /\ asker = "outside" /\ LetIn
    /\ asker' = "inside"
    /\ UNCHANGED gatewayVars

AskingRequestIsDone ==
    /\ asker = "inside" /\ phase = "settled" /\ Done
    /\ asker' = "done"
    /\ UNCHANGED gatewayVars

\* Requests that do not ask come, wait and go, and the clock runs.
OtherRequests ==
    /\ \/ PassFree \/ Tick \/ SetBack
       \/ \E c \in Client : Admit(c) \/ Refuse(c)
       \/ Done /\ (asker = "inside" => inApp > 1)
    /\ UNCHANGED <<gatewayVars, asker>>

\* A step of the question, once it can be asked.
Questioning(step) ==
    /\ asker # "outside" /\ step
    /\ UNCHANGED <<limiterVars, asker>>

EdgeNext ==
    \/ AskingRequestArrives \/ AskingRequestIsDone \/ OtherRequests
    \/ Questioning(GatewayNext)

\* The event loop runs what is ready and its timers, and a handler that has
\* its answer returns it.  The provider owes nothing, nor do other requests.
FairEdgeSpec ==
    /\ EdgeInit /\ [][EdgeNext]_edgeVars
    /\ WF_edgeVars(Questioning(Ask \/ Post \/ Wake)) /\ WF_edgeVars(Questioning(TimeOut))
    /\ WF_edgeVars(AskingRequestIsDone)

-----------------------------------------------------------------------------
(***************************************************************************)
(* A provider that keeps silent, or fails in whatever way, holds nobody up *)
(* for good: the question of an agent is settled, and an asking request is *)
(* settled, answered and counted by the telemetry.                         *)
(***************************************************************************)
NoQuestionHangs ==
    asker \in {"agent", "inside"} ~> phase = "settled" /\ asker \in {"agent", "done"}
=============================================================================
