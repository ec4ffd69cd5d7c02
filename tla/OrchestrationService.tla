------------------------ MODULE OrchestrationService ------------------------
(***************************************************************************)
(* The durable run lifecycle: OrchestrationService and the Orchestrator it *)
(* runs, over the SQLite run store.  Requests create or reuse runs, each   *)
(* run is executed by an asyncio task that walks the waves of agents,      *)
(* every event is committed before it is published, every wave ends in a   *)
(* checkpoint, and a restarted process resumes from the last one.          *)
(*                                                                         *)
(* One action is one synchronous stretch of the code that ends in a        *)
(* committed transaction; a crash, a store outage or another task's step   *)
(* may come between any two.  The agents of a wave are asyncio tasks of    *)
(* their own (asyncio.gather), and outlive the run() that started them     *)
(* when a sibling raises.                                                  *)
(***************************************************************************)
EXTENDS RunStore

CONSTANTS
    ExecId,       \* calls of _execute that can be in memory at once (a bound)
    NoTask,       \* no entry in the task registry
    MaxAttempts,  \* Orchestrator._max_attempts
    MaxCrashes,   \* process crashes (a bound)
    MaxOutages    \* outages of the store (a bound)

ASSUME BoundsAssumption ==
    /\ MaxAttempts \in Nat \ {0}
    /\ MaxCrashes \in Nat
    /\ MaxOutages \in Nat
ASSUME NoTaskAssumption == NoTask \notin ExecId \union RunId

VARIABLES
    runs,        \* orchestration_runs: [RunId -> Row or NoRow]
    events,      \* orchestration_events: [RunId -> set of Event]
    exec,        \* the calls of _execute, each with its orchestrator and recorder
    tasks,       \* OrchestrationService._tasks
    calls,       \* runs whose start() has not yet been through _ensure_worker
    recovering,  \* runs recover() has listed and not yet handled
    proc,        \* the API process
    store,       \* whether SQLite answers
    crashes, outages

world == <<proc, store, crashes, outages>>
vars == <<runs, events, exec, tasks, calls, recovering, proc, store, crashes, outages>>

(* Where a call of _execute stands: in the service ("created", "settle",   *)
(* "fail"), in Orchestrator.run (the others), or over ("done": its done    *)
(* callback is still to come; "gone": the callback has run).               *)
Pc == {"created", "intro", "wave", "mark", "reconcile", "resolve", "brief", "finish",
       "settle", "fail", "done", "gone"}

\* Where a call of _run_agent stands; "idle": not called, or over.
AgentPc == {"idle", "begin", "running", "reasoned", "failing"}

Exec == [run : RunId \union {NoTask}, pc : Pc, seq : Nat, wave : Nat,
         at : [Agent -> AgentPc], attempts : [Agent -> Nat], results : Results]

NewExec(r) ==
    [run |-> r, pc |-> "created", seq |-> 0, wave |-> 0, at |-> [a \in Agent |-> "idle"],
     attempts |-> [a \in Agent |-> 0], results |-> NoResults]
Vacant == [NewExec(NoTask) EXCEPT !.pc = "gone"]

Over(e) == exec[e].pc \in {"done", "gone"}
Free(e) == exec[e].pc = "gone" /\ \A a \in Agent : exec[e].at[a] = "idle"

\* The process was given a working store when it started, and SQLite answers now.
Answers == proc.attached /\ store = "ok"

Init ==
    /\ runs = [r \in RunId |-> NoRow]
    /\ events = [r \in RunId |-> {}]
    /\ exec = [e \in ExecId |-> Vacant]
    /\ tasks = [r \in RunId |-> NoTask]
    /\ calls = {} /\ recovering = {}
    /\ proc \in [up : {FALSE}, attached : {FALSE}, incident : Incident, mode : Mode]
    /\ store = "ok" /\ crashes = 0 /\ outages = 0

---------------------------------------------------------------------------
(* EventRecorder.record: the recorder numbers the event, then persists it. *)
(* `ok` is the call's state after the event is committed, `bad` its state  *)
(* after the append raised; the number is used up either way.              *)

Record(e, wave, ok, bad) ==
    LET r == exec[e].run
        s == exec[e].seq + 1
        appended == Answers /\ SequenceFree(events[r], s)
    IN  \/ /\ appended
           /\ events' = [events EXCEPT ![r] =
                            @ \union {[seq |-> s, wave |-> wave]}]
           /\ exec' = [exec EXCEPT ![e] = [ok EXCEPT !.seq = s]]
        \/ /\ ~appended
           /\ events' = events
           /\ exec' = [exec EXCEPT ![e] = [bad EXCEPT !.seq = s]]

At(x, pc) == [x EXCEPT !.pc = pc]

\* An agent coroutine raises: gather hands the error to run(), siblings go on.
Raised(x, a) == [x EXCEPT !.at[a] = "idle", !.pc = IF @ = "wave" THEN "fail" ELSE @]

Returned(x, a, outcome) == [x EXCEPT !.at[a] = "idle", !.results[a] = outcome]

\* The loop head of Orchestrator.run: gather wave w, or leave the loop.
EnterWave(x, w) ==
    IF NoWaveLeft(w)
    THEN [x EXCEPT !.pc = "reconcile", !.wave = w]
    ELSE [x EXCEPT !.pc = "wave", !.wave = w,
                   !.at = [a \in Agent |-> IF a \in Wave(w) THEN "begin" ELSE "idle"]]

---------------------------------------------------------------------------
(* Orchestrator._run_agent.                                                *)

AgentSkips(e, a) ==
    /\ exec[e].at[a] = "begin" /\ FailedDeps(exec[e].results, a) # {}
    /\ Record(e, 0, Returned(exec[e], a, "skipped"), Raised(exec[e], a))

AgentStarts(e, a) ==
    /\ exec[e].at[a] = "begin" /\ FailedDeps(exec[e].results, a) = {}
    /\ Record(e, 0,
              [exec[e] EXCEPT !.at[a] = "running", !.attempts[a] = 1], Raised(exec[e], a))

\* agent.run reports its reasoning; a failed append makes the attempt fail.
AgentReasons(e, a) ==
    /\ exec[e].at[a] = "running"
    /\ Record(e, 0,
              [exec[e] EXCEPT !.at[a] = "reasoned"], [exec[e] EXCEPT !.at[a] = "failing"])

AgentRaises(e, a) ==
    /\ exec[e].at[a] \in {"running", "reasoned"}
    /\ exec' = [exec EXCEPT ![e].at[a] = "failing"]
    /\ events' = events

AgentRetries(e, a) ==
    /\ exec[e].at[a] = "failing" /\ exec[e].attempts[a] < MaxAttempts
    /\ Record(e, 0,
              [exec[e] EXCEPT !.at[a] = "running", !.attempts[a] = @ + 1], Raised(exec[e], a))

AgentGivesUp(e, a) ==
    /\ exec[e].at[a] = "failing" /\ exec[e].attempts[a] >= MaxAttempts
    /\ Record(e, 0, Returned(exec[e], a, "failed"), Raised(exec[e], a))

AgentCompletes(e, a) ==
    /\ exec[e].at[a] = "reasoned"
    /\ LET x == Returned(exec[e], a, "completed")
       IN  Record(e, 0, x, Raised(x, a))

AgentStep(e, a) ==
    /\ \/ AgentSkips(e, a) \/ AgentStarts(e, a) \/ AgentReasons(e, a) \/ AgentRaises(e, a)
       \/ AgentRetries(e, a) \/ AgentGivesUp(e, a) \/ AgentCompletes(e, a)
    /\ UNCHANGED <<runs, tasks, calls, recovering, world>>

---------------------------------------------------------------------------
(* OrchestrationService._execute and Orchestrator.run.                     *)

\* A plausible bug: the checkpoint is not handed to the resumed run.
BeginAfresh(e) ==
    LET r == exec[e].run
    IN  /\ exec[e].pc = "created" /\ Answers
        /\ runs' = [runs EXCEPT ![r] = ClaimRun(@)]
        /\ exec' = [exec EXCEPT ![e] =
               [@ EXCEPT !.pc = "intro", !.seq = LatestSequence(events[r])]]
        /\ events' = events

\* load_checkpoint, claim_run, latest_sequence.
Begin(e) ==
    LET r == exec[e].run
        row == ClaimRun(runs[r])
    IN  /\ exec[e].pc = "created"
        /\ \/ /\ Answers
              /\ runs' = [runs EXCEPT ![r] = row]
              /\ exec' = [exec EXCEPT ![e] =
                     IF row.result.present \/ row.status = "completed"
                     THEN At(@, "done")
                     ELSE [@ EXCEPT !.pc = "intro", !.seq = LatestSequence(events[r]),
                                    !.wave = row.snapshot.nextWave,
                                    !.results = row.snapshot.results]]
           \/ /\ ~Answers
              /\ runs' = runs
              /\ exec' = [exec EXCEPT ![e] = At(@, "fail")]
        /\ events' = events

RecordIn(e, pc, wave, ok) ==
    /\ exec[e].pc = pc
    /\ Record(e, wave, ok, At(exec[e], "fail"))
    /\ runs' = runs

Introduce(e) == RecordIn(e, "intro", 0, EnterWave(exec[e], exec[e].wave))

\* A plausible bug: a wave is saved as soon as one of its agents has returned.
CheckpointWaveEarly(e) ==
    LET r == exec[e].run
    IN  /\ exec[e].pc = "wave" /\ \E a \in Wave(exec[e].wave) : exec[e].at[a] = "idle"
        /\ Answers /\ Unsettled(runs[r])
        /\ runs' = [runs EXCEPT ![r] = SaveCheckpoint(@, exec[e].wave + 1, exec[e].results)]
        /\ exec' = [exec EXCEPT ![e] = At(@, "mark")]
        /\ events' = events

\* A plausible bug: the sink's error is swallowed, as that of the memory checkpoint is.
CheckpointWaveBestEffort(e) ==
    LET r == exec[e].run
    IN  /\ exec[e].pc = "wave" /\ \A a \in Agent : exec[e].at[a] = "idle"
        /\ runs' = [runs EXCEPT ![r] =
               IF Answers THEN SaveCheckpoint(@, exec[e].wave + 1, exec[e].results) ELSE @]
        /\ exec' = [exec EXCEPT ![e] = At(@, "mark")]
        /\ events' = events

\* Every agent of the wave has returned: gather returns and the checkpoint is saved.
CheckpointWave(e) ==
    LET r == exec[e].run
        saved == Answers /\ Unsettled(runs[r])
    IN  /\ exec[e].pc = "wave" /\ \A a \in Agent : exec[e].at[a] = "idle"
        /\ \/ /\ saved
              /\ runs' = [runs EXCEPT ![r] =
                             SaveCheckpoint(@, exec[e].wave + 1, exec[e].results)]
              /\ exec' = [exec EXCEPT ![e] = At(@, "mark")]
           \/ /\ ~saved
              /\ runs' = runs
              /\ exec' = [exec EXCEPT ![e] = At(@, "fail")]
        /\ events' = events

MarkCheckpoint(e) ==
    RecordIn(e, "mark", exec[e].wave + 1, EnterWave(exec[e], exec[e].wave + 1))

\* _reconcile: a conflict and its resolution, or a single agreement.
FindConflict(e) == RecordIn(e, "reconcile", 0, At(exec[e], "resolve"))
Resolve(e) == \E pc \in {"reconcile", "resolve"} : RecordIn(e, pc, 0, At(exec[e], "brief"))
Brief(e) == RecordIn(e, "brief", 0, At(exec[e], "finish"))
Finish(e) == RecordIn(e, "finish", 0, At(exec[e], "settle"))

\* _assemble_analysis or memory.list_records raises.
AssemblyRaises(e) ==
    /\ exec[e].pc \in {"brief", "finish"}
    /\ exec' = [exec EXCEPT ![e] = At(@, "fail")]
    /\ UNCHANGED <<runs, events>>

FinalStatus(results) ==
    IF \E a \in Agent : results[a] = "failed" THEN "failed" ELSE "completed"

\* A plausible bug: the history is read before the last event is committed.
SettleRunEarly(e) ==
    LET r == exec[e].run
        history == {ev.seq : ev \in events[r]} \ {exec[e].seq}
    IN  /\ exec[e].pc = "settle" /\ Answers /\ Unsettled(runs[r])
        /\ runs' = [runs EXCEPT ![r] = CompleteRun(@, FinalStatus(exec[e].results), history)]
        /\ exec' = [exec EXCEPT ![e] = At(@, "done")]
        /\ events' = events

\* list_events_after(run_id, 0) and complete_run.
SettleRun(e) ==
    LET r == exec[e].run
        settled == Answers /\ Unsettled(runs[r])
    IN  /\ exec[e].pc = "settle"
        /\ \/ /\ settled
              /\ runs' = [runs EXCEPT ![r] =
                     CompleteRun(@, FinalStatus(exec[e].results), {ev.seq : ev \in events[r]})]
              /\ exec' = [exec EXCEPT ![e] = At(@, "done")]
           \/ /\ ~settled
              /\ runs' = runs
              /\ exec' = [exec EXCEPT ![e] = At(@, "fail")]
        /\ events' = events

\* A plausible bug: the except branch leaves the row as it is.
AbandonRunSilently(e) ==
    /\ exec[e].pc = "fail"
    /\ exec' = [exec EXCEPT ![e] = At(@, "done")]
    /\ UNCHANGED <<runs, events>>

\* The except branch: fail_run, whose own failure is suppressed.
AbandonRun(e) ==
    LET r == exec[e].run
    IN  /\ exec[e].pc = "fail"
        /\ runs' = [runs EXCEPT ![r] = IF Answers /\ Unsettled(@) THEN FailRun(@) ELSE @]
        /\ exec' = [exec EXCEPT ![e] = At(@, "done")]
        /\ events' = events

TaskStep(e) ==
    /\ \/ Begin(e) \/ Introduce(e) \/ CheckpointWave(e) \/ MarkCheckpoint(e)
       \/ FindConflict(e) \/ Resolve(e) \/ Brief(e) \/ Finish(e) \/ AssemblyRaises(e)
       \/ SettleRun(e) \/ AbandonRun(e)
    /\ UNCHANGED <<tasks, calls, recovering, world>>

\* A plausible bug: whichever task is registered is removed.
RemoveAnyTask(e) ==
    /\ exec[e].pc = "done"
    /\ exec' = [exec EXCEPT ![e].pc = "gone"]
    /\ tasks' = [tasks EXCEPT ![exec[e].run] = NoTask]
    /\ UNCHANGED <<runs, events, calls, recovering, world>>

\* The done callback: only the registered task removes its entry.
RemoveTask(e) ==
    LET r == exec[e].run
    IN  /\ exec[e].pc = "done"
        /\ exec' = [exec EXCEPT ![e].pc = "gone"]
        /\ tasks' = [tasks EXCEPT ![r] = IF @ = e THEN NoTask ELSE @]
        /\ UNCHANGED <<runs, events, calls, recovering, world>>

---------------------------------------------------------------------------
(* OrchestrationService.start, recover and _ensure_worker.                 *)

TaskRunning(r) == tasks[r] # NoTask /\ exec[tasks[r]].pc # "done"
\* A plausible bug: a failed run is taken for one to resume.
NeedsWorkerIfNoResult(r) == ~runs[r].result.present /\ ~TaskRunning(r)

NeedsWorker(r) == ~runs[r].result.present /\ runs[r].status # "failed" /\ ~TaskRunning(r)

EnsureWorker(r) ==
    \/ /\ NeedsWorker(r)
       /\ \E e \in ExecId :
             /\ Free(e)
             /\ exec' = [exec EXCEPT ![e] = NewExec(r)]
             /\ tasks' = [tasks EXCEPT ![r] = e]
    \/ /\ ~NeedsWorker(r)
       /\ UNCHANGED <<exec, tasks>>

\* start(), up to the return of create_run.
CreateRun(k) ==
    \E r \in RunId :
        /\ WithKey(runs, k) = {} /\ ~Exists(runs[r])
        /\ runs' = [runs EXCEPT ![r] = NewRow(k, proc.incident, proc.mode)]
        /\ calls' = calls \union {r}

ReuseRun(k) ==
    \E r \in WithKey(runs, k) :
        /\ Reusable(runs[r], proc.incident, proc.mode)
        /\ runs' = runs
        /\ calls' = calls \union {r}

Start(k) ==
    /\ proc.up /\ recovering = {} /\ Answers
    /\ CreateRun(k) \/ ReuseRun(k)
    /\ UNCHANGED <<events, exec, tasks, recovering, world>>

\* The rest of start(): the worker, or an error if the store stopped answering.
EnsureCalled(r) ==
    /\ r \in calls
    /\ calls' = calls \ {r}
    /\ \/ Answers /\ EnsureWorker(r)
       \/ ~Answers /\ UNCHANGED <<exec, tasks>>
    /\ UNCHANGED <<runs, events, recovering, world>>

\* A plausible bug: startup does not look for unfinished runs.
BootWithoutRecovery(i, m) ==
    /\ ~proc.up
    /\ proc' = [up |-> TRUE, attached |-> store = "ok", incident |-> i, mode |-> m]
    /\ UNCHANGED <<runs, events, exec, tasks, calls, recovering, store, crashes, outages>>

\* create_app and the start of recover(): a store that cannot be opened is replaced by
\* one that is unavailable for the life of the process and lists nothing.
Boot(i, m) ==
    /\ ~proc.up
    /\ proc' = [up |-> TRUE, attached |-> store = "ok", incident |-> i, mode |-> m]
    /\ recovering' = IF store = "ok" THEN Recoverable(runs) ELSE {}
    /\ UNCHANGED <<runs, events, exec, tasks, calls, store, crashes, outages>>

\* A plausible bug: the stored incident is not compared.
RecoverAnyRun(r) ==
    /\ r \in recovering /\ Answers
    /\ recovering' = recovering \ {r}
    /\ EnsureWorker(r)
    /\ UNCHANGED <<runs, events, calls, world>>

RecoverRun(r) ==
    /\ r \in recovering /\ Answers
    /\ recovering' = recovering \ {r}
    /\ \/ /\ runs[r].incident # proc.incident
          /\ runs' = [runs EXCEPT ![r] = FailRun(@)]
          /\ UNCHANGED <<exec, tasks>>
       \/ /\ runs[r].incident = proc.incident
          /\ EnsureWorker(r)
          /\ runs' = runs
    /\ UNCHANGED <<events, calls, world>>

\* The process is gone, and its tasks, registry and open requests with it.
LoseProcess ==
    /\ proc' = [proc EXCEPT !.up = FALSE, !.attached = FALSE]
    /\ exec' = [e \in ExecId |-> Vacant]
    /\ tasks' = [r \in RunId |-> NoTask]
    /\ calls' = {} /\ recovering' = {}
    /\ UNCHANGED <<runs, events, store, outages>>

\* recover() raises: the application does not start.
RecoverRaises == recovering # {} /\ ~Answers /\ LoseProcess /\ UNCHANGED crashes

\* A crash; a graceful shutdown cancels the tasks, which write nothing more either.
Crash ==
    /\ proc.up /\ crashes < MaxCrashes
    /\ LoseProcess
    /\ crashes' = crashes + 1

StoreFails ==
    /\ store = "ok" /\ outages < MaxOutages
    /\ store' = "unavailable" /\ outages' = outages + 1
    /\ UNCHANGED <<runs, events, exec, tasks, calls, recovering, proc, crashes>>

StoreReturns ==
    /\ store = "unavailable"
    /\ store' = "ok"
    /\ UNCHANGED <<runs, events, exec, tasks, calls, recovering, proc, crashes, outages>>

Next ==
    \/ \E e \in ExecId : TaskStep(e) \/ RemoveTask(e) \/ \E a \in Agent : AgentStep(e, a)
    \/ \E k \in RequestId : Start(k)
    \/ \E r \in RunId : EnsureCalled(r) \/ RecoverRun(r)
    \/ \E i \in Incident, m \in Mode : Boot(i, m)
    \/ RecoverRaises \/ Crash \/ StoreFails \/ StoreReturns

Spec == Init /\ [][Next]_vars

(* The event loop runs every ready task and callback; an outage ends, and  *)
(* the API is started again after a crash.  Nobody has to call start().    *)
Fairness ==
    /\ \A e \in ExecId :
          /\ WF_vars(TaskStep(e)) /\ WF_vars(RemoveTask(e))
          /\ \A a \in Agent : WF_vars(AgentStep(e, a))
    /\ \A r \in RunId : WF_vars(EnsureCalled(r)) /\ WF_vars(RecoverRun(r))
    /\ WF_vars(\E i \in Incident, m \in Mode : Boot(i, m))
    /\ WF_vars(RecoverRaises) /\ WF_vars(StoreReturns)

FairSpec == Spec /\ Fairness

---------------------------------------------------------------------------
(* Properties.                                                             *)

\* Every variable keeps to the states the repository's columns and the service's
\* dictionaries can hold.
TypeOK ==
    /\ runs \in [RunId -> Row \union {NoRow}]
    /\ events \in [RunId -> SUBSET Event]
    /\ exec \in [ExecId -> Exec]
    /\ tasks \in [RunId -> ExecId \union {NoTask}]
    /\ calls \subseteq RunId /\ recovering \subseteq RunId
    /\ proc \in [up : BOOLEAN, attached : BOOLEAN, incident : Incident, mode : Mode]
    /\ store \in {"ok", "unavailable"}
    /\ crashes \in 0..MaxCrashes /\ outages \in 0..MaxOutages

\* However starts, failures of fail_run and done callbacks interleave, at most one call
\* of _execute works on a run (_ensure_worker, _remove_task).
OneWorkerPerRun ==
    \A e, f \in ExecId : ~Over(e) /\ ~Over(f) /\ exec[e].run = exec[f].run => e = f

\* A worker is only ever at work on a run that is pending or running, so that the
\* terminal checks of save_checkpoint and complete_run never fire on its behalf.
WorkersOnUnsettledRuns ==
    \A e \in ExecId : ~Over(e) => Unsettled(runs[exec[e].run])

\* A worker works for the incident its process was built with, also after a restart
\* under another one (recover's comparison, create_run's conflict).
WorkersServeTheirIncident ==
    \A e \in ExecId : ~Over(e) => runs[exec[e].run].incident = proc.incident

\* An unfinished run is stranded when nobody of a live process is there to finish it: no
\* worker, no start() on its way to _ensure_worker, no recover().
Attended(r) == \E e \in ExecId : ~Over(e) /\ exec[e].run = r
Stranded(r) ==
    proc.up /\ Unsettled(runs[r]) /\ r \notin calls \union recovering /\ ~Attended(r)

\* As long as the store has not failed, whoever lets go of an unfinished run has handed
\* it on (start and recover to _ensure_worker, a lost process to the next one's recover).
NoStrandedRun == \A r \in RunId : outages = 0 => ~Stranded(r)

\* A run is stranded only at a moment when the store does not answer: by a suppressed
\* fail_run, by a start() that cannot look at its row, or by a process that could not
\* open the store.  After an outage no step can strand another run.
StrandedOnlyByOutage ==
    [][\A r \in RunId : ~Stranded(r) /\ Stranded(r)' => ~Answers']_vars

\* A checkpoint is a restart boundary: saved once per wave, and with a result for each
\* agent of the waves before next_wave and for no other.
CheckpointIsWholeWaves ==
    \A r \in RunId : Exists(runs[r]) =>
        /\ runs[r].version = runs[r].nextWave /\ runs[r].snapshot.nextWave = runs[r].nextWave
        /\ \A a \in Agent :
              runs[r].snapshot.results[a] # "none" <=> a \in Resolved[runs[r].nextWave]

\* Failure isolation survives restarts: in every checkpoint, the skipped agents are
\* exactly the ones with a dependency that failed or was skipped.
SkipsFollowFailures ==
    \A r \in RunId : Exists(runs[r]) =>
        LET results == runs[r].snapshot.results
        IN  \A a \in Agent : results[a] # "none" =>
               (results[a] = "skipped" <=>
                   \E d \in DependsOn[a] : results[d] \in {"failed", "skipped"})

\* A wave that the event log announces as checkpointed has been saved.
AnnouncedWavesAreDurable ==
    \A r \in RunId : \A ev \in events[r] : ev.wave <= runs[r].nextWave

\* As long as the store has not failed, a run's events are numbered 1, 2, 3, ... without
\* gap or repetition, across concurrent agents and restarts.
LogHasNoGaps ==
    \A r \in RunId : outages = 0 =>
        {ev.seq : ev \in events[r]} = 1..Cardinality(events[r])

\* As long as the store has not failed, a stored result carries the run's whole event
\* history, the events from before a restart included.
ResultCarriesWholeHistory ==
    \A r \in RunId : outages = 0 /\ Exists(runs[r]) /\ runs[r].result.present =>
        runs[r].result.history = {ev.seq : ev \in events[r]}

\* No agent of a wave announced as checkpointed is called again by the run's worker.
CompletedWavesStayDone ==
    [][\A e \in ExecId, a \in Agent :
          exec[e].at[a] = "begin" /\ exec'[e].at[a] = "running" /\ ~Over(e) =>
              \A ev \in events[exec[e].run] : a \notin Resolved[ev.wave]]_vars

\* The service implements the abstract durable run.
Durable == INSTANCE DurableRun WITH
    Waves <- WaveCount,
    status <- [r \in RunId |-> runs[r].status],
    wave <- [r \in RunId |-> IF Exists(runs[r]) THEN runs[r].nextWave ELSE 0],
    answered <- [r \in RunId |-> Exists(runs[r]) /\ runs[r].result.present]
RefinesDurableRun == Durable!Spec

\* Every accepted run reaches a terminal state, through retries, failures of agents and
\* crashes, unless the store fails.
EveryRunSettles ==
    \A r \in RunId : Exists(runs[r]) ~> (runs[r].status \in Terminal \/ outages > 0)

\* The number a live recorder hands out next is free in the log, as it would be if the
\* repository assigned it.
RecorderSequenceFree ==
    \A e \in ExecId : ~Over(e) /\ exec[e].pc # "created" =>
        SequenceFree(events[exec[e].run], exec[e].seq + 1)
=============================================================================
