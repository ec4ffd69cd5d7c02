--------------------------- MODULE AgentPipeline ---------------------------
(***************************************************************************)
(* The nine specialist agents of default_agents() on their shared          *)
(* blackboard: what each one reads, writes and remembers, and in which     *)
(* order, with the retries of Orchestrator._run_agent, the checkpoint at   *)
(* the end of a wave, a crash of the process and the resumption from the   *)
(* last checkpoint.                                                        *)
(*                                                                         *)
(* A blackboard entry is kept as far as the readers tell entries apart:    *)
(* absent, empty (a list of nothing, zero, None) or full.  A fault is a    *)
(* refused insert of a reasoning event, a memory store that is busy or an  *)
(* unusable answer to the photo.  The orchestrator's own events are taken  *)
(* to be persisted: when one is not the run fails, OrchestrationService.   *)
(***************************************************************************)
EXTENDS AgentGraph, Integers, Sequences

CONSTANTS
    Supplier,      \* the names a supplier may be extracted by
    None,          \* no supplier in the extraction, or no extraction yet
    MaxAttempts,   \* _max_attempts
    MaxFaults,     \* faults in a behaviour (a bound)
    MaxCrashes     \* crashes in a behaviour (a bound)

ASSUME PipelineAssumption ==
    MaxAttempts \in Nat \ {0} /\ MaxFaults \in Nat /\ MaxCrashes \in Nat /\ None \notin Supplier

Specialist == {"Intake", "Extraction", "Inventory", "Vision", "Risk", "Memory",
               "Operations", "Communications", "Compliance"}

SpecialistDependsOn ==
    [a \in Specialist |->
        CASE a = "Intake"                         -> {}
          [] a = "Extraction"                     -> {"Intake"}
          [] a \in {"Inventory", "Vision"}        -> {"Extraction"}
          [] a = "Risk"                           -> {"Inventory", "Vision"}
          [] a = "Memory"                         -> {"Inventory"}
          [] a \in {"Operations", "Communications"} -> {"Inventory", "Risk"}
          [] a = "Compliance"                     -> {"Inventory", "Vision", "Communications"}]

ASSUME SpecialistsAssumption == Agent = Specialist /\ DependsOn = SpecialistDependsOn

\* The waves, and the agents before each one.
Stage == [w \in 0..WaveCount |-> Wave(w)]
Before == [w \in 0..WaveCount |-> Resolved[w]]

\* The stages that MissionControl.tsx draws.
WAVES == <<{"Intake"}, {"Extraction"}, {"Inventory", "Vision"}, {"Risk", "Memory"},
           {"Operations", "Communications"}, {"Compliance"}>>

(***************************************************************************)
(* The dashboard's hard-coded stages are the waves the orchestrator runs.  *)
(***************************************************************************)
ASSUME DashboardWavesAssumption ==
    WaveCount = Len(WAVES) /\ \A w \in DOMAIN WAVES : Stage[w - 1] = WAVES[w]

-----------------------------------------------------------------------------
(* What the agents do. *)

\* Of each agent's run(): the order of its checks, its blackboard and memory accesses, its
\* questions and its reasoning event, and the entries it reads and writes.
RecallIntakeAgent ==
    [program |-> <<"check", "reason", "write">>, reads |-> {}, writes |-> {"intake_valid"}]
DocumentExtractionAgent ==
    [program |-> <<"ask", "write", "reason", "remember">>, reads |-> {}, writes |-> {"extraction"}]
InventoryMatchingAgent ==
    [program |-> <<"remember", "reason", "write">>, reads |-> {},
     writes |-> {"decisions", "affected_decisions", "affected_stores", "affected_items",
                 "supplier_aliases"}]
ShelfVisionAgent ==
    [program |-> <<"inspect", "write", "reason">>, reads |-> {}, writes |-> {"inspection"}]
RiskScoringAgent ==
    [program |-> <<"read", "write", "reason">>, reads |-> {"affected_items", "affected_stores"},
     writes |-> {"risk"}]
MemoryAgent ==
    [program |-> <<"read", "remember", "write", "reason">>, reads |-> {"decisions", "affected_items"},
     writes |-> {"insights"}]
OperationsTaskAgent ==
    [program |-> <<"read", "write", "reason">>, reads |-> {"affected_stores"}, writes |-> {"tasks"}]
CommunicationsAgent ==
    [program |-> <<"read", "write", "reason">>, reads |-> {"affected_items"},
     writes |-> {"customer_notice"}]
ComplianceEvidenceAgent ==
    [program |-> <<"write", "reason">>, reads |-> {}, writes |-> {"evidence", "evidence_progress"}]

DefaultAgent ==
    [a \in Agent |->
        CASE a = "Intake"         -> RecallIntakeAgent
          [] a = "Extraction"     -> DocumentExtractionAgent
          [] a = "Inventory"      -> InventoryMatchingAgent
          [] a = "Vision"         -> ShelfVisionAgent
          [] a = "Risk"           -> RiskScoringAgent
          [] a = "Memory"         -> MemoryAgent
          [] a = "Operations"     -> OperationsTaskAgent
          [] a = "Communications" -> CommunicationsAgent
          [] a = "Compliance"     -> ComplianceEvidenceAgent]

Program == [a \in Agent |-> DefaultAgent[a].program]
Reads == [a \in Agent |-> DefaultAgent[a].reads]
Writes == [a \in Agent |-> DefaultAgent[a].writes]

Key == UNION {Writes[a] : a \in Agent}
AnalysisKeys == {"affected_decisions", "affected_stores", "affected_items", "tasks", "evidence",
                 "evidence_progress", "insights", "risk", "customer_notice"}

Remembering == {"Extraction", "Inventory", "Memory"}

VARIABLES
    incident,    \* what of the incident the agents' control depends on
    run,         \* the process that executes the run
    wave,        \* the index of the wave that runs, or of the next one
    board,       \* ctx.blackboard
    results,     \* the results dictionary
    at,          \* the step of run() each agent of the wave is at, 0 before it starts
    attempts,
    returned,    \* the agents of the wave whose _run_agent() has returned
    extracted,   \* the supplier in the extraction on the blackboard
    seen,        \* what each agent last found on the blackboard
    told,        \* deriveAgentStates() of the persisted events
    memory,      \* the keys of memory_records
    saved,       \* the last checkpoint
    analysis,    \* the entries of the final analysis that are not empty
    faults, crashes

progress == <<wave, board, results, returned, extracted>>
durable == <<incident, told, memory, saved, analysis, seen>>
vars == <<progress, durable, run, at, attempts, faults, crashes>>

\* The entries that are empty when no inventory row matches the criteria.
Produced(k) ==
    IF k \in {"affected_decisions", "affected_stores", "affected_items"} /\ ~incident.affected
    THEN "empty" ELSE "full"

\* The records a writes to memory.
Records(a) ==
    CASE a = "Extraction" -> {<<"supplier_alias", s>> : s \in {extracted} \ {None}}
      [] a = "Inventory"  -> {<<"supplier_alias", "inventory">>}
      [] a = "Memory"     -> {<<"decision", "incident">>} \union
                             (IF "decisions" \in seen[a] THEN {<<"false_positive", "row">>} ELSE {})

\* A plausible bug: insights is not a field of the model.
FromRuntimeWithoutInsights(b) ==
    [k \in Key |-> IF b[k] = "absent" \/ k = "insights" THEN "empty" ELSE b[k]]

\* A plausible bug: affected_items is not a field of the model.
FromRuntimeWithoutItems(b) ==
    [k \in Key |-> IF b[k] = "absent" \/ k = "affected_items" THEN "empty" ELSE b[k]]

\* OrchestrationBlackboard: a missing field takes its default, and what is
\* empty is not put back.
FromRuntime(b) == [k \in Key |-> IF b[k] = "absent" THEN "empty" ELSE b[k]]

ToRuntime(b) == [k \in Key |-> IF b[k] = "empty" THEN "absent" ELSE b[k]]

NoBoard == [k \in Key |-> "absent"]
Idle == [a \in Agent |-> 0]

Init ==
    /\ incident \in [blank : BOOLEAN, affected : BOOLEAN]
    /\ run = "running" /\ wave = 0 /\ board = NoBoard /\ results = NoResults
    /\ at = Idle /\ attempts = Idle /\ returned = {} /\ extracted = None
    /\ seen = [a \in Agent |-> {}] /\ told = [a \in Agent |-> "pending"]
    /\ memory = {} /\ analysis = {}
    /\ saved = [wave |-> 0, board |-> [k \in Key |-> "empty"], results |-> NoResults,
                extracted |-> None]
    /\ faults = 0 /\ crashes = 0

-----------------------------------------------------------------------------
(* _run_agent() *)

Waiting(a) == run = "running" /\ a \in Stage[wave] /\ at[a] = 0 /\ a \notin returned
Running(a) == run = "running" /\ at[a] > 0

\* _run_agent(a) returns: its result is stored and its last event recorded.
Return(a, status) ==
    /\ results' = [results EXCEPT ![a] = status]
    /\ told' = [told EXCEPT ![a] = IF status = "completed" THEN "completed" ELSE "failed"]
    /\ at' = [at EXCEPT ![a] = 0]
    /\ returned' = returned \union {a}

\* A plausible bug: an agent that is skipped leaves no event.
SkipSilently(a) ==
    /\ Waiting(a) /\ FailedDeps(results, a) # {}
    /\ results' = [results EXCEPT ![a] = "skipped"]
    /\ returned' = returned \union {a}
    /\ UNCHANGED <<incident, told, memory, saved, analysis, seen, run, wave, board, at, attempts,
                   extracted, faults, crashes>>

Skip(a) ==
    /\ Waiting(a) /\ FailedDeps(results, a) # {}
    /\ Return(a, "skipped")
    /\ UNCHANGED <<incident, memory, saved, analysis, seen, run, wave, board, attempts,
                   extracted, faults, crashes>>

Begin(a) ==
    /\ Waiting(a) /\ FailedDeps(results, a) = {}
    /\ at' = [at EXCEPT ![a] = 1]
    /\ attempts' = [attempts EXCEPT ![a] = 1]
    /\ told' = [told EXCEPT ![a] = "running"]
    /\ UNCHANGED <<progress, incident, memory, saved, analysis, seen, run, faults, crashes>>

\* The step of run() that a is at succeeds.
Step(a) ==
    /\ Running(a) /\ at[a] <= Len(Program[a])
    /\ LET step == Program[a][at[a]] IN
       /\ step = "check" => ~incident.blank
       /\ IF step = "ask" THEN extracted' \in Supplier \union {None} ELSE UNCHANGED extracted
       /\ board' = IF step = "write"
                   THEN [k \in Key |-> IF k \in Writes[a] THEN Produced(k) ELSE board[k]]
                   ELSE board
       /\ memory' = IF step = "remember" THEN memory \union Records(a) ELSE memory
       /\ seen' = IF step = "read"
                  THEN [seen EXCEPT ![a] = {k \in Reads[a] : board[k] = "full"}] ELSE seen
    /\ at' = [at EXCEPT ![a] = @ + 1]
    /\ UNCHANGED <<incident, told, saved, analysis, run, wave, results, attempts, returned,
                   faults, crashes>>

\* The step a is at raises: an empty notice, or a fault.
Raises(a) ==
    /\ Running(a) /\ at[a] <= Len(Program[a])
    /\ LET step == Program[a][at[a]] IN
       \/ step = "check" /\ incident.blank /\ UNCHANGED faults
       \/ /\ step \in {"reason", "inspect"} \/ (step = "remember" /\ Records(a) # {})
          /\ faults < MaxFaults /\ faults' = faults + 1

Retry(a) ==
    /\ attempts[a] < MaxAttempts
    /\ attempts' = [attempts EXCEPT ![a] = @ + 1]
    /\ at' = [at EXCEPT ![a] = 1]
    /\ UNCHANGED <<results, told, returned>>

GiveUp(a) == attempts[a] >= MaxAttempts /\ Return(a, "failed") /\ UNCHANGED attempts

\* A plausible bug: a busy memory store is passed over.
RaiseButForMemory(a) ==
    /\ Raises(a)
    /\ IF Program[a][at[a]] = "remember"
       THEN at' = [at EXCEPT ![a] = @ + 1] /\ UNCHANGED <<results, told, returned, attempts>>
       ELSE Retry(a) \/ GiveUp(a)
    /\ UNCHANGED <<incident, memory, saved, analysis, seen, run, wave, board, extracted, crashes>>

Raise(a) ==
    /\ Raises(a)
    /\ Retry(a) \/ GiveUp(a)
    /\ UNCHANGED <<incident, memory, saved, analysis, seen, run, wave, board, extracted, crashes>>

Finish(a) ==
    /\ Running(a) /\ at[a] > Len(Program[a])
    /\ Return(a, "completed")
    /\ UNCHANGED <<incident, memory, saved, analysis, seen, run, wave, board, attempts,
                   extracted, faults, crashes>>

-----------------------------------------------------------------------------
(* run() *)

\* gather() has returned: the wave is checkpointed.
EndWave ==
    /\ run = "running" /\ wave < WaveCount /\ Stage[wave] \subseteq returned
    /\ wave' = wave + 1 /\ returned' = {}
    /\ saved' = [wave |-> wave + 1, board |-> FromRuntime(board), results |-> results,
                 extracted |-> extracted]
    /\ UNCHANGED <<incident, told, memory, analysis, seen, run, board, results, at, attempts,
                   extracted, faults, crashes>>

\* _assemble_analysis(): absent entries take their defaults.
Assemble ==
    /\ run = "running" /\ wave = WaveCount
    /\ analysis' = {k \in AnalysisKeys : board[k] = "full"}
    /\ run' = "assembled"
    /\ UNCHANGED <<progress, incident, told, memory, saved, seen, at, attempts, faults, crashes>>

\* The process stops: nothing of the run's state in memory is left.
Crash ==
    /\ run = "running" /\ crashes < MaxCrashes
    /\ crashes' = crashes + 1 /\ run' = "down"
    /\ wave' = 0 /\ board' = NoBoard /\ results' = NoResults /\ returned' = {}
    /\ extracted' = None /\ at' = Idle /\ attempts' = Idle
    /\ UNCHANGED <<durable, faults>>

\* run() with a recovery checkpoint.
Resume ==
    /\ run = "down" /\ run' = "running"
    /\ wave' = saved.wave /\ board' = ToRuntime(saved.board) /\ results' = saved.results
    /\ extracted' = saved.extracted
    /\ UNCHANGED <<durable, at, attempts, returned, faults, crashes>>

Proceed ==
    \/ \E a \in Agent : Skip(a) \/ Begin(a) \/ Step(a) \/ Raise(a) \/ Finish(a)
    \/ EndWave \/ Assemble \/ Resume

Next == Proceed \/ Crash

Spec == Init /\ [][Next]_vars

-----------------------------------------------------------------------------
(***************************************************************************)
(* The events and the checkpoint, which are persisted apart and replayed   *)
(* apart, tell the same story: for an agent of a wave that is checkpointed *)
(* the last event the dashboard folds agrees with the stored result, and   *)
(* no later crash, retry or resumption changes it.                         *)
(***************************************************************************)
EventsTellTheResult ==
    \A a \in Before[saved.wave] :
        told[a] = IF saved.results[a] = "completed" THEN "completed" ELSE "failed"

(***************************************************************************)
(* An agent works from what its dependencies produced: whatever crashed or *)
(* was retried, what it found on the blackboard, absent entries read as    *)
(* their defaults, is what a completed writer put there.                   *)
(***************************************************************************)
ReadersSeeTheirWriters ==
    \A a \in Agent : results[a] = "completed" =>
        seen[a] = {k \in Reads[a] : Produced(k) = "full"}

(***************************************************************************)
(* The final analysis holds the work of every agent that completed, also   *)
(* of those that completed before a crash, and nothing of an agent that    *)
(* was skipped.                                                            *)
(***************************************************************************)
AnalysisMatchesResults ==
    run = "assembled" =>
        \A a \in Agent :
            LET own == {k \in Writes[a] \intersect AnalysisKeys : Produced(k) = "full"} IN
            /\ results[a] = "completed" => own \subseteq analysis
            /\ results[a] = "skipped" => own \intersect analysis = {}

(***************************************************************************)
(* An agent whose result says completed has put its records into memory,   *)
(* though the memory store may have been busy and its attempts retried.    *)
(***************************************************************************)
CompletedAgentsAreRemembered ==
    \A a \in Remembering : results[a] = "completed" => Records(a) \subseteq memory
=============================================================================
