----------------------------- MODULE AgentGraph -----------------------------
(***************************************************************************)
(* The dependency graph of the specialist agents and the waves that        *)
(* Orchestrator._waves() cuts it into: wave w holds every agent whose      *)
(* dependencies all lie in waves before w.  Waves are numbered from 0, as  *)
(* the code's next_wave is.                                                *)
(***************************************************************************)
EXTENDS Naturals, FiniteSets

CONSTANTS
    Agent,       \* the registered agents
    DependsOn    \* [Agent -> SUBSET Agent]: Agent.depends_on

\* The agents of the first w waves: the code's `resolved` after w turns.
Resolved[w \in Nat] ==
    IF w = 0 THEN {}
             ELSE LET before == Resolved[w - 1]
                  IN  {a \in Agent : a \in before \/ DependsOn[a] \subseteq before}

\* Wave w of the schedule, and whether the schedule ends before it.
Wave(w) == {a \in Agent : DependsOn[a] \subseteq Resolved[w] /\ a \notin Resolved[w]}
NoWaveLeft(w) == Agent \subseteq Resolved[w]
WaveCount == CHOOSE w \in 0..Cardinality(Agent) :
                 NoWaveLeft(w) /\ \A v \in 0..w - 1 : ~NoWaveLeft(v)

(***************************************************************************)
(* default_agents() is a list without a cycle; with one, _waves() raises before any     *)
(* agent runs (test_orchestrator covers it).                               *)
(***************************************************************************)
ASSUME DependsOnAssumption ==
    /\ IsFiniteSet(Agent)
    /\ DependsOn \in [Agent -> SUBSET Agent]
    /\ \E w \in 0..Cardinality(Agent) : NoWaveLeft(w)

\* What one agent may end a run as: AgentRunStatus of an AgentRunResult.
Outcome == {"completed", "failed", "skipped"}

\* A results dictionary: "none" stands for an agent without an entry.
Results == [Agent -> Outcome \union {"none"}]
NoResults == [a \in Agent |-> "none"]

\* A plausible bug: only direct failures count, so a skip does not cascade.
FailedDepsOnlyFailed(results, a) == {d \in DependsOn[a] : results[d] = "failed"}

\* The dependencies of a that have a result other than completed.
FailedDeps(results, a) == {d \in DependsOn[a] : results[d] \notin {"none", "completed"}}
=============================================================================
