--------------------- MODULE OrchestrationServiceProofs ---------------------
(***************************************************************************)
(* Proofs about OrchestrationService for every value of its constants.     *)
(*                                                                         *)
(* Part 1: type correctness (TypeInv).                                     *)
(* Part 2: the registry of tasks: one worker for each run (WorkerInv).     *)
(* Part 3: the rows: what a step may write to them.                        *)
(* Part 4: waves and checkpoints (ProgressInv).                            *)
(* Part 5: the log and the results while the store does not fail (LogInv). *)
(* Part 6: only an outage strands a run.                                   *)
(* Part 7: the service implements DurableRun.                              *)
(***************************************************************************)
EXTENDS OrchestrationService, AgentGraphProofs, TLAPS

(***************************************************************************)
(* Part 1: type correctness.  The strengthening says that every call of    *)
(* _execute still in memory belongs to an existing run, that so do the     *)
(* open start() and recover() calls, and that a non-empty log has a last   *)
(* event, so that latest_sequence is a number.                             *)
(***************************************************************************)
Placed ==
    \A e \in ExecId :
        exec[e].pc # "gone" \/ (\E a \in Agent : exec[e].at[a] # "idle") =>
            exec[e].run \in RunId /\ runs[exec[e].run] \in Row

LogHasLast ==
    \A r \in RunId : events[r] # {} =>
        \E last \in events[r] : \A ev \in events[r] : ev.seq <= last.seq

TypeInv ==
    /\ TypeOK
    /\ Placed
    /\ \A r \in calls \union recovering : runs[r] \in Row
    /\ LogHasLast

---------------------------------------------------------------------------
\* latest_sequence returns a number: the last event's, or 0.
LEMMA LatestSequenceType ==
    ASSUME NEW log \in SUBSET Event,
           log # {} => \E last \in log : \A ev \in log : ev.seq <= last.seq
    PROVE  LatestSequence(log) \in Nat
<1>1. CASE log = {}
  BY <1>1 DEF LatestSequence
<1>2. CASE log # {}
  <2> DEFINE seqs == {ev.seq : ev \in log}
             IsLast(s) == \A ev \in log : ev.seq <= s
  <2>1. PICK s \in seqs : IsLast(s)
    BY <1>2
  <2>2. (CHOOSE t \in seqs : IsLast(t)) \in seqs
    BY <2>1, Zenon
  <2>3. seqs \subseteq Nat
    BY DEF Event
  <2> QED BY <1>2, <2>2, <2>3 DEF LatestSequence
<1> QED BY <1>1, <1>2

\* Every statement of the store turns a row into a row.
LEMMA RowStatements ==
    ASSUME NEW row \in Row, NEW next \in Nat, NEW results \in Results,
           NEW final \in Terminal, NEW history \in SUBSET Nat
    PROVE  /\ ClaimRun(row) \in Row /\ FailRun(row) \in Row
           /\ SaveCheckpoint(row, next, results) \in Row
           /\ CompleteRun(row, final, history) \in Row
<1>1. ClaimRun(row) \in Row
  BY DEF Row, Active, Terminal, ClaimRun, Unsettled
<1>2. FailRun(row) \in Row
  BY DEF Row, Active, Terminal, FailRun
<1>3. SaveCheckpoint(row, next, results) \in Row
  <2>1. [nextWave |-> next, results |-> results] \in Snapshot
    BY DEF Snapshot
  <2>2. row.version + 1 \in Nat
    BY DEF Row
  <2> QED BY <2>1, <2>2 DEF Row, SaveCheckpoint
<1>4. CompleteRun(row, final, history) \in Row
  BY DEF Row, CompleteRun
<1> QED BY <1>1, <1>2, <1>3, <1>4

\* create_run inserts a row.
LEMMA NewRowType ==
    ASSUME NEW k \in RequestId, NEW i \in Incident, NEW m \in Mode
    PROVE  NewRow(k, i, m) \in Row
BY DEF NewRow, Row, Snapshot, Active, NoSnapshot, NoResult, NoResults, Results, Outcome

\* A row is told from its absence by its status.
LEMMA RowExists == \A row \in Row \union {NoRow} : Exists(row) <=> row \in Row
BY DEF Row, NoRow, Exists, Active, Terminal

\* A fresh call of _execute is a call.
LEMMA NewExecType == \A r \in RunId \union {NoTask} : NewExec(r) \in Exec
BY DEF NewExec, Exec, Pc, AgentPc, NoResults, Results, Outcome

\* A slot without a call has nothing running in it.
LEMMA VacantType == Vacant \in Exec /\ Vacant.pc = "gone" /\ \A a \in Agent : Vacant.at[a] = "idle"
BY DEF Vacant, NewExec, Exec, Pc, AgentPc, NoResults, Results, Outcome

\* The loop head of Orchestrator.run keeps the call's run.
LEMMA EnterWaveType ==
    ASSUME NEW x \in Exec, NEW w \in Nat
    PROVE  EnterWave(x, w) \in Exec /\ EnterWave(x, w).run = x.run
BY DEF EnterWave, Exec, Pc, AgentPc

\* So does an agent that raises,
LEMMA RaisedType ==
    ASSUME NEW x \in Exec, NEW a \in Agent
    PROVE  Raised(x, a) \in Exec /\ Raised(x, a).run = x.run
BY DEF Raised, Exec, Pc, AgentPc

\* an agent that returns,
LEMMA ReturnedType ==
    ASSUME NEW x \in Exec, NEW a \in Agent, NEW outcome \in Outcome
    PROVE  Returned(x, a, outcome) \in Exec /\ Returned(x, a, outcome).run = x.run
BY DEF Returned, Exec, AgentPc, Results

\* and a step to another place in the code.
LEMMA AtType ==
    ASSUME NEW x \in Exec, NEW pc \in Pc
    PROVE  At(x, pc) \in Exec /\ At(x, pc).run = x.run
BY DEF At, Exec

---------------------------------------------------------------------------
(* What a step of one call of _execute, or of one of its agents, may do.   *)

InPlace(e) == exec[e].run \in RunId /\ runs[exec[e].run] \in Row

OwnStep(e) ==
    /\ exec' \in [ExecId -> Exec]
    /\ \A f \in ExecId : exec'[f].run = exec[f].run
    /\ \A f \in ExecId \ {e} : exec'[f] = exec[f]
    /\ events' \in [RunId -> SUBSET Event] /\ LogHasLast'
    /\ runs' \in [RunId -> Row \union {NoRow}]
    /\ \A r \in RunId : runs[r] \in Row => runs'[r] \in Row

\* Such steps keep the strengthened type invariant.
LEMMA OwnStepTypeInv ==
    ASSUME TypeInv, NEW e \in ExecId, InPlace(e), OwnStep(e),
           UNCHANGED <<tasks, calls, recovering, world>>
    PROVE  TypeInv'
<1>1. TypeOK'
  BY DEF TypeInv, TypeOK, OwnStep, world
<1>2. Placed'
  BY DEF TypeInv, Placed, OwnStep, InPlace
<1>3. \A r \in (calls \union recovering)' : runs'[r] \in Row
  BY DEF TypeInv, TypeOK, OwnStep
<1>4. LogHasLast'
  BY DEF OwnStep
<1> QED BY <1>1, <1>2, <1>3, <1>4 DEF TypeInv

\* A committed event extends the log and becomes its last; a failed one changes nothing.
LEMMA RecordIsOwnStep ==
    ASSUME TypeInv, NEW e \in ExecId, NEW wave \in Nat, NEW ok \in Exec, NEW bad \in Exec,
           ok.run = exec[e].run, bad.run = exec[e].run, InPlace(e), runs' = runs,
           Record(e, wave, ok, bad)
    PROVE  OwnStep(e)
<1> DEFINE r == exec[e].run
           s == exec[e].seq + 1
           new == [seq |-> s, wave |-> wave]
<1>1. r \in RunId /\ s \in Nat /\ exec \in [ExecId -> Exec] /\ events \in [RunId -> SUBSET Event]
  BY DEF TypeInv, TypeOK, InPlace, Exec
<1>2. /\ [ok EXCEPT !.seq = s] \in Exec /\ [ok EXCEPT !.seq = s].run = r
      /\ [bad EXCEPT !.seq = s] \in Exec /\ [bad EXCEPT !.seq = s].run = r
  BY <1>1 DEF Exec
<1>3. new \in Event
  BY <1>1 DEF Event
<1>4. runs' \in [RunId -> Row \union {NoRow}] /\ \A q \in RunId : runs[q] \in Row => runs'[q] \in Row
  BY DEF TypeInv, TypeOK
<1>5. CASE /\ events' = [events EXCEPT ![r] = @ \union {new}]
           /\ exec' = [exec EXCEPT ![e] = [ok EXCEPT !.seq = s]]
  <2>1. events' \in [RunId -> SUBSET Event]
    BY <1>1, <1>3, <1>5
  <2>2. \A q \in RunId \ {r} : events'[q] = events[q]
    BY <1>1, <1>5
  <2>3. events'[r] = events[r] \union {new}
    BY <1>1, <1>5
  <2>4. \E last \in events'[r] : \A ev \in events'[r] : ev.seq <= last.seq
    <3>1. CASE events[r] = {}
      BY <1>1, <2>3, <3>1
    <3>2. CASE events[r] # {}
      <4>1. PICK last \in events[r] : \A ev \in events[r] : ev.seq <= last.seq
        BY <1>1, <3>2 DEF TypeInv, LogHasLast
      <4>2. last.seq \in Nat /\ \A ev \in events[r] : ev.seq \in Nat
        BY <1>1, <4>1 DEF Event
      <4>3. new.seq = s
        OBVIOUS
      <4>4. CASE last.seq <= s
        <5>1. \A ev \in events'[r] : ev.seq <= new.seq
          BY <1>1, <2>3, <4>1, <4>2, <4>3, <4>4
        <5> QED BY <2>3, <5>1
      <4>5. CASE s <= last.seq
        <5>1. \A ev \in events'[r] : ev.seq <= last.seq
          BY <1>1, <2>3, <4>1, <4>2, <4>3, <4>5
        <5> QED BY <2>3, <4>1, <5>1
      <4> QED BY <1>1, <4>2, <4>4, <4>5
    <3> QED BY <3>1, <3>2
  <2>5. LogHasLast'
    BY <2>2, <2>4 DEF TypeInv, LogHasLast
  <2>6. exec' \in [ExecId -> Exec] /\ exec'[e].run = r /\ \A f \in ExecId \ {e} : exec'[f] = exec[f]
    BY <1>1, <1>2, <1>5
  <2> QED BY <1>4, <2>1, <2>5, <2>6 DEF OwnStep
<1>6. CASE /\ events' = events
           /\ exec' = [exec EXCEPT ![e] = [bad EXCEPT !.seq = s]]
  <2>1. exec' \in [ExecId -> Exec] /\ exec'[e].run = r /\ \A f \in ExecId \ {e} : exec'[f] = exec[f]
    BY <1>1, <1>2, <1>6
  <2>2. LogHasLast'
    BY <1>6 DEF TypeInv, LogHasLast
  <2> QED BY <1>1, <1>4, <1>6, <2>1, <2>2 DEF OwnStep
<1> QED BY <1>5, <1>6 DEF Record

\* A step that moves e alone and leaves the rows and the log alone.
LEMMA LocalIsOwnStep ==
    ASSUME TypeInv, NEW e \in ExecId, NEW x \in Exec, x.run = exec[e].run,
           exec' = [exec EXCEPT ![e] = x], runs' = runs, events' = events
    PROVE  OwnStep(e)
BY DEF TypeInv, TypeOK, OwnStep, LogHasLast

\* A statement on e's row, if any, and a move of e.
LEMMA StatementIsOwnStep ==
    ASSUME TypeInv, NEW e \in ExecId, NEW x \in Exec, NEW row \in Row, InPlace(e),
           x.run = exec[e].run, exec' = [exec EXCEPT ![e] = x],
           runs' = [runs EXCEPT ![exec[e].run] = row], events' = events
    PROVE  OwnStep(e)
BY DEF TypeInv, TypeOK, OwnStep, LogHasLast, InPlace

\* Every step of _run_agent is a step of its own call alone.
LEMMA AgentStepIsOwnStep ==
    ASSUME TypeInv, NEW e \in ExecId, NEW a \in Agent, AgentStep(e, a)
    PROVE  InPlace(e) /\ OwnStep(e)
<1> DEFINE x == exec[e]
<1>1. x \in Exec /\ runs' = runs
  BY DEF TypeInv, TypeOK, AgentStep
<1>2. x.at[a] # "idle"
  BY DEF AgentStep, AgentSkips, AgentStarts, AgentReasons, AgentRaises, AgentRetries,
         AgentGivesUp, AgentCompletes
<1>3. InPlace(e)
  BY <1>2 DEF TypeInv, Placed, InPlace
<1> SUFFICES OwnStep(e)
  BY <1>3
<1>4. Raised(x, a) \in Exec /\ Raised(x, a).run = x.run
  BY <1>1, RaisedType
<1>5. \A y \in Exec : Raised(y, a) \in Exec /\ Raised(y, a).run = y.run
  BY RaisedType
<1>6. \A outcome \in Outcome : /\ Returned(x, a, outcome) \in Exec
                               /\ Returned(x, a, outcome).run = x.run
  BY <1>1, ReturnedType
<1>7. 0 \in Nat /\ {"completed", "failed", "skipped"} = Outcome
  BY DEF Outcome
<1>8. CASE AgentSkips(e, a)
  BY <1>1, <1>3, <1>4, <1>6, <1>7, <1>8, RecordIsOwnStep DEF AgentSkips
<1>9. CASE AgentStarts(e, a)
  <2> DEFINE ok == [x EXCEPT !.at[a] = "running", !.attempts[a] = 1]
  <2>1. ok \in Exec /\ ok.run = x.run
    BY <1>1 DEF Exec, AgentPc
  <2> QED BY <1>1, <1>3, <1>4, <1>7, <1>9, <2>1, RecordIsOwnStep DEF AgentStarts
<1>10. CASE AgentReasons(e, a)
  <2>1. \A pc \in AgentPc : /\ [x EXCEPT !.at[a] = pc] \in Exec
                            /\ [x EXCEPT !.at[a] = pc].run = x.run
    BY <1>1 DEF Exec
  <2>2. "reasoned" \in AgentPc /\ "failing" \in AgentPc
    BY DEF AgentPc
  <2> QED BY <1>1, <1>3, <1>7, <1>10, <2>1, <2>2, RecordIsOwnStep DEF AgentReasons
<1>11. CASE AgentRaises(e, a)
  <2> DEFINE y == [x EXCEPT !.at[a] = "failing"]
  <2>1. y \in Exec /\ y.run = x.run
    BY <1>1 DEF Exec, AgentPc
  <2>2. exec' = [exec EXCEPT ![e] = y] /\ events' = events
    BY <1>11 DEF AgentRaises
  <2> QED BY <1>1, <1>3, <2>1, <2>2, LocalIsOwnStep
<1>12. CASE AgentRetries(e, a)
  <2> DEFINE ok == [x EXCEPT !.at[a] = "running", !.attempts[a] = @ + 1]
  <2>1. x.attempts \in [Agent -> Nat] /\ x.at \in [Agent -> AgentPc] /\ "running" \in AgentPc
    BY <1>1 DEF Exec, AgentPc
  <2>2. [x.attempts EXCEPT ![a] = @ + 1] \in [Agent -> Nat]
    BY <2>1
  <2>3. ok \in Exec /\ ok.run = x.run
    BY <1>1, <2>1, <2>2 DEF Exec
  <2> QED BY <1>1, <1>3, <1>4, <1>7, <1>12, <2>3, RecordIsOwnStep DEF AgentRetries
<1>13. CASE AgentGivesUp(e, a)
  BY <1>1, <1>3, <1>4, <1>6, <1>7, <1>13, RecordIsOwnStep DEF AgentGivesUp
<1>14. CASE AgentCompletes(e, a)
  BY <1>1, <1>3, <1>5, <1>6, <1>7, <1>14, RecordIsOwnStep DEF AgentCompletes
<1> QED BY <1>8, <1>9, <1>10, <1>11, <1>12, <1>13, <1>14 DEF AgentStep

\* So is every step of _execute and of Orchestrator.run.
LEMMA TaskStepIsOwnStep ==
    ASSUME TypeInv, NEW e \in ExecId, TaskStep(e)
    PROVE  InPlace(e) /\ OwnStep(e)
<1> DEFINE x == exec[e]
           r == x.run
<1>1. x \in Exec /\ x.wave \in Nat /\ x.wave + 1 \in Nat /\ x.results \in Results
  BY DEF TypeInv, TypeOK, Exec
<1>2. x.pc # "gone"
  BY DEF TaskStep, Begin, Introduce, CheckpointWave, MarkCheckpoint, FindConflict, Resolve,
         Brief, Finish, AssemblyRaises, SettleRun, AbandonRun, RecordIn
<1>3. InPlace(e)
  BY <1>2 DEF TypeInv, Placed, InPlace
<1> SUFFICES OwnStep(e)
  BY <1>3
<1>4. \A pc \in Pc : At(x, pc) \in Exec /\ At(x, pc).run = r
  BY <1>1, AtType
<1>5. {"done", "fail", "mark", "resolve", "brief", "finish", "settle"} \subseteq Pc
  BY DEF Pc
<1>6. /\ EnterWave(x, x.wave) \in Exec /\ EnterWave(x, x.wave).run = r
      /\ EnterWave(x, x.wave + 1) \in Exec /\ EnterWave(x, x.wave + 1).run = r
  BY <1>1, EnterWaveType
<1>7. runs[r] \in Row /\ r \in RunId
  BY <1>3 DEF InPlace
<1>8. ASSUME NEW pc \in Pc, runs' = runs, events' = events,
             exec' = [exec EXCEPT ![e] = At(@, pc)]
      PROVE  OwnStep(e)
  <2>1. exec' = [exec EXCEPT ![e] = At(x, pc)]
    BY <1>8
  <2> QED BY <1>4, <1>8, <2>1, LocalIsOwnStep
<1>9. ASSUME NEW pc \in Pc, NEW row \in Row, events' = events,
             runs' = [runs EXCEPT ![r] = row], exec' = [exec EXCEPT ![e] = At(@, pc)]
      PROVE  OwnStep(e)
  <2>1. exec' = [exec EXCEPT ![e] = At(x, pc)]
    BY <1>9
  <2> QED BY <1>3, <1>4, <1>9, <2>1, StatementIsOwnStep
<1>10. ASSUME NEW wave \in Nat, NEW ok \in Exec, ok.run = r, runs' = runs,
              Record(e, wave, ok, At(x, "fail"))
       PROVE  OwnStep(e)
  BY <1>3, <1>4, <1>5, <1>10, RecordIsOwnStep
<1>11. CASE Begin(e)
  <2> DEFINE row == ClaimRun(runs[r])
             y == [x EXCEPT !.pc = "intro", !.seq = LatestSequence(events[r]),
                            !.wave = row.snapshot.nextWave, !.results = row.snapshot.results]
  <2>1. row \in Row /\ row.snapshot.nextWave \in Nat /\ row.snapshot.results \in Results
    <3>1. row \in Row
      BY <1>7 DEF ClaimRun, Row, Active, Terminal, Unsettled
    <3> QED BY <3>1 DEF Row, Snapshot
  <2>2. LatestSequence(events[r]) \in Nat
    BY <1>7, LatestSequenceType DEF TypeInv, TypeOK, LogHasLast
  <2>3. y \in Exec /\ y.run = r
    BY <1>1, <2>1, <2>2 DEF Exec, Pc
  <2>4. CASE /\ runs' = [runs EXCEPT ![r] = row] /\ events' = events
             /\ exec' = [exec EXCEPT ![e] = At(@, "done")]
    BY <1>5, <1>9, <2>1, <2>4
  <2>5. CASE /\ runs' = [runs EXCEPT ![r] = row] /\ events' = events
             /\ exec' = [exec EXCEPT ![e] = y]
    BY <1>3, <2>1, <2>3, <2>5, StatementIsOwnStep
  <2>6. CASE runs' = runs /\ events' = events /\ exec' = [exec EXCEPT ![e] = At(@, "fail")]
    BY <1>5, <1>8, <2>6
  <2> QED BY <1>11, <2>4, <2>5, <2>6 DEF Begin
<1>12. CASE Introduce(e)
  BY <1>6, <1>10, <1>12 DEF Introduce, RecordIn
<1>13. CASE CheckpointWave(e)
  <2> DEFINE row == SaveCheckpoint(runs[r], x.wave + 1, x.results)
  <2>1. row \in Row
    BY <1>1, <1>7, RowStatements DEF Terminal
  <2>2. CASE /\ runs' = [runs EXCEPT ![r] = row] /\ events' = events
             /\ exec' = [exec EXCEPT ![e] = At(@, "mark")]
    BY <1>5, <1>9, <2>1, <2>2
  <2>3. CASE runs' = runs /\ events' = events /\ exec' = [exec EXCEPT ![e] = At(@, "fail")]
    BY <1>5, <1>8, <2>3
  <2> QED BY <1>13, <2>2, <2>3 DEF CheckpointWave
<1>14. CASE MarkCheckpoint(e)
  BY <1>1, <1>6, <1>10, <1>14 DEF MarkCheckpoint, RecordIn
<1>15. CASE FindConflict(e) \/ Resolve(e) \/ Brief(e) \/ Finish(e)
  <2>1. \E pc \in {"resolve", "brief", "finish", "settle"} :
           runs' = runs /\ Record(e, 0, At(x, pc), At(x, "fail"))
    BY <1>15 DEF FindConflict, Resolve, Brief, Finish, RecordIn
  <2> QED BY <1>4, <1>5, <1>10, <2>1
<1>16. CASE AssemblyRaises(e)
  BY <1>5, <1>8, <1>16 DEF AssemblyRaises
<1>17. CASE SettleRun(e)
  <2> DEFINE history == {ev.seq : ev \in events[r]}
             row == CompleteRun(runs[r], FinalStatus(x.results), history)
  <2>1. history \in SUBSET Nat
    BY <1>7 DEF TypeInv, TypeOK, Event
  <2>2. FinalStatus(x.results) \in Terminal
    BY DEF FinalStatus, Terminal
  <2>3. row \in Row
    BY <1>7, <2>1, <2>2 DEF Row, CompleteRun
  <2>4. CASE /\ runs' = [runs EXCEPT ![r] = row] /\ events' = events
             /\ exec' = [exec EXCEPT ![e] = At(@, "done")]
    BY <1>5, <1>9, <2>3, <2>4
  <2>5. CASE runs' = runs /\ events' = events /\ exec' = [exec EXCEPT ![e] = At(@, "fail")]
    BY <1>5, <1>8, <2>5
  <2> QED BY <1>17, <2>4, <2>5 DEF SettleRun
<1>18. CASE AbandonRun(e)
  <2> DEFINE row == IF Answers /\ Unsettled(runs[r]) THEN FailRun(runs[r]) ELSE runs[r]
  <2>1. row \in Row
    BY <1>7 DEF Row, FailRun, Active, Terminal
  <2>2. runs' = [runs EXCEPT ![r] = row]
    BY <1>18 DEF AbandonRun
  <2> QED BY <1>5, <1>9, <1>18, <2>1, <2>2 DEF AbandonRun
<1> QED BY <1>11, <1>12, <1>13, <1>14, <1>15, <1>16, <1>17, <1>18 DEF TaskStep

---------------------------------------------------------------------------
(* The service's own steps.                                                *)

\* _ensure_worker: a new call takes a free slot for an existing run, or nothing changes.
LEMMA EnsureWorkerType ==
    ASSUME TypeInv, NEW r \in RunId, runs[r] \in Row, EnsureWorker(r),
           runs' = runs \/ \A q \in RunId : runs[q] \in Row => runs'[q] \in Row
    PROVE  /\ exec' \in [ExecId -> Exec]
           /\ tasks' \in [RunId -> ExecId \union {NoTask}]
           /\ Placed'
<1>1. NewExec(r) \in Exec /\ NewExec(r).run = r
  BY NewExecType DEF NewExec
<1>2. CASE \E e \in ExecId : /\ exec' = [exec EXCEPT ![e] = NewExec(r)]
                             /\ tasks' = [tasks EXCEPT ![r] = e]
  BY <1>1, <1>2 DEF TypeInv, TypeOK, Placed
<1>3. CASE UNCHANGED <<exec, tasks>>
  BY <1>3 DEF TypeInv, TypeOK, Placed
<1> QED BY <1>2, <1>3 DEF EnsureWorker

\* start() up to create_run keeps the strengthened type invariant.
LEMMA StartTypeInv ==
    ASSUME TypeInv, NEW k \in RequestId, Start(k)
    PROVE  TypeInv'
<1>1. proc.incident \in Incident /\ proc.mode \in Mode
  BY DEF TypeInv, TypeOK
<1>2. NewRow(k, proc.incident, proc.mode) \in Row
  BY <1>1, NewRowType
<1>3. PICK r \in RunId : /\ calls' = calls \union {r}
                         /\ \/ runs' = [runs EXCEPT ![r] = NewRow(k, proc.incident, proc.mode)]
                            \/ runs' = runs /\ Exists(runs[r])
  BY DEF Start, CreateRun, ReuseRun, WithKey
<1>4. /\ runs' \in [RunId -> Row \union {NoRow}] /\ runs'[r] \in Row
      /\ \A q \in RunId : runs[q] \in Row => runs'[q] \in Row
  BY <1>2, <1>3, RowExists DEF TypeInv, TypeOK
<1>5. UNCHANGED <<events, exec, tasks, recovering, world>>
  BY DEF Start
<1>6. TypeOK'
  BY <1>3, <1>4, <1>5 DEF TypeInv, TypeOK, world
<1>7. Placed'
  BY <1>4, <1>5 DEF TypeInv, Placed
<1>8. \A q \in (calls \union recovering)' : runs'[q] \in Row
  BY <1>3, <1>4, <1>5 DEF TypeInv, TypeOK
<1>9. LogHasLast'
  BY <1>5 DEF TypeInv, LogHasLast
<1> QED BY <1>6, <1>7, <1>8, <1>9 DEF TypeInv

\* A turn of recover() keeps it.
LEMMA RecoverRunTypeInv ==
    ASSUME TypeInv, NEW r \in RunId, RecoverRun(r)
    PROVE  TypeInv'
<1>1. runs[r] \in Row /\ FailRun(runs[r]) \in Row
  BY DEF TypeInv, RecoverRun, FailRun, Row, Active, Terminal
<1>2. /\ runs' \in [RunId -> Row \union {NoRow}]
      /\ \A q \in RunId : runs[q] \in Row => runs'[q] \in Row
  BY <1>1 DEF RecoverRun, TypeInv, TypeOK
<1>3. /\ exec' \in [ExecId -> Exec]
      /\ tasks' \in [RunId -> ExecId \union {NoTask}]
      /\ Placed'
  <2>1. CASE UNCHANGED <<exec, tasks>>
    BY <1>2, <2>1 DEF TypeInv, TypeOK, Placed
  <2>2. CASE EnsureWorker(r) /\ runs' = runs
    BY <1>1, <2>2, EnsureWorkerType
  <2> QED BY <2>1, <2>2 DEF RecoverRun
<1>4. recovering' \subseteq recovering /\ UNCHANGED <<events, calls, world>>
  BY DEF RecoverRun
<1>5. TypeOK'
  BY <1>2, <1>3, <1>4 DEF TypeInv, TypeOK, world
<1>6. \A q \in (calls \union recovering)' : runs'[q] \in Row
  BY <1>2, <1>4 DEF TypeInv, TypeOK
<1>7. LogHasLast'
  BY <1>4 DEF TypeInv, LogHasLast
<1> QED BY <1>3, <1>5, <1>6, <1>7 DEF TypeInv

\* The rest of start() keeps it.
LEMMA EnsureCalledTypeInv ==
    ASSUME TypeInv, NEW r \in RunId, EnsureCalled(r)
    PROVE  TypeInv'
<1>1. runs[r] \in Row /\ calls' \subseteq calls /\ UNCHANGED <<runs, events, recovering, world>>
  BY DEF TypeInv, EnsureCalled
<1>2. /\ exec' \in [ExecId -> Exec]
      /\ tasks' \in [RunId -> ExecId \union {NoTask}]
      /\ Placed'
  <2>1. CASE UNCHANGED <<exec, tasks>>
    BY <1>1, <2>1 DEF TypeInv, TypeOK, Placed
  <2>2. CASE EnsureWorker(r)
    BY <1>1, <2>2, EnsureWorkerType
  <2> QED BY <2>1, <2>2 DEF EnsureCalled
<1>3. TypeOK'
  BY <1>1, <1>2 DEF TypeInv, TypeOK, world
<1>4. LogHasLast' /\ \A q \in (calls \union recovering)' : runs'[q] \in Row
  BY <1>1 DEF TypeInv, LogHasLast
<1> QED BY <1>2, <1>3, <1>4 DEF TypeInv

\* Losing the process keeps it.
LEMMA LoseProcessTypeInv ==
    ASSUME TypeInv, LoseProcess, crashes' \in 0..MaxCrashes
    PROVE  TypeInv'
<1>1. exec' \in [ExecId -> Exec] /\ tasks' \in [RunId -> ExecId \union {NoTask}]
  BY VacantType DEF LoseProcess
<1>2. proc' \in [up : BOOLEAN, attached : BOOLEAN, incident : Incident, mode : Mode]
  BY DEF LoseProcess, TypeInv, TypeOK
<1>3. TypeOK'
  BY <1>1, <1>2 DEF LoseProcess, TypeInv, TypeOK
<1>4. Placed'
  BY VacantType DEF LoseProcess, Placed
<1>5. LogHasLast' /\ \A q \in (calls \union recovering)' : runs'[q] \in Row
  BY DEF LoseProcess, TypeInv, LogHasLast
<1> QED BY <1>3, <1>4, <1>5 DEF TypeInv

\* A new store with no process satisfies it.
LEMMA InitTypeInv == Init => TypeInv
<1> SUFFICES ASSUME Init PROVE TypeInv
  OBVIOUS
<1>1. proc \in [up : BOOLEAN, attached : BOOLEAN, incident : Incident, mode : Mode]
  BY DEF Init
<1>2. TypeOK
  BY <1>1, VacantType, BoundsAssumption DEF Init, TypeOK
<1>3. Placed
  BY VacantType DEF Init, Placed
<1>4. LogHasLast /\ \A q \in calls \union recovering : runs[q] \in Row
  BY DEF Init, LogHasLast
<1> QED BY <1>2, <1>3, <1>4 DEF TypeInv

\* Every step of the service keeps it: one step per action.
LEMMA NextTypeInv == TypeInv /\ [Next]_vars => TypeInv'
<1> SUFFICES ASSUME TypeInv, [Next]_vars PROVE TypeInv'
  OBVIOUS
<1>1. CASE \E e \in ExecId : TaskStep(e)
  BY <1>1, TaskStepIsOwnStep, OwnStepTypeInv DEF TaskStep
<1>2. CASE \E e \in ExecId, a \in Agent : AgentStep(e, a)
  <2>1. PICK e \in ExecId, a \in Agent : AgentStep(e, a)
    BY <1>2
  <2>2. InPlace(e) /\ OwnStep(e)
    BY <2>1, AgentStepIsOwnStep
  <2>3. UNCHANGED <<tasks, calls, recovering, world>>
    BY <2>1 DEF AgentStep
  <2> QED BY <2>2, <2>3, OwnStepTypeInv
<1>3. CASE \E e \in ExecId : RemoveTask(e)
  <2>1. PICK e \in ExecId : RemoveTask(e)
    BY <1>3
  <2>2. exec' \in [ExecId -> Exec]
    <3>1. exec \in [ExecId -> Exec] /\ "gone" \in Pc
      BY DEF TypeInv, TypeOK, Pc
    <3>2. At(exec[e], "gone") \in Exec
      BY <3>1, AtType
    <3>3. exec' = [exec EXCEPT ![e] = At(exec[e], "gone")]
      BY <2>1 DEF RemoveTask, At
    <3> QED BY <3>1, <3>2, <3>3
  <2>3. \A f \in ExecId : exec'[f].run = exec[f].run /\ exec'[f].at = exec[f].at
    BY <2>1 DEF RemoveTask, TypeInv, TypeOK, Exec
  <2>4. tasks' \in [RunId -> ExecId \union {NoTask}]
    BY <2>1 DEF RemoveTask, TypeInv, TypeOK
  <2>5. TypeOK'
    BY <2>1, <2>2, <2>4 DEF RemoveTask, TypeInv, TypeOK, world
  <2>6. Placed'
    BY <2>1, <2>3 DEF RemoveTask, TypeInv, TypeOK, Placed
  <2> QED BY <2>1, <2>5, <2>6 DEF RemoveTask, TypeInv, LogHasLast
<1>4. CASE \E k \in RequestId : Start(k)
  BY <1>4, StartTypeInv
<1>5. CASE \E r \in RunId : EnsureCalled(r) \/ RecoverRun(r)
  BY <1>5, EnsureCalledTypeInv, RecoverRunTypeInv
<1>6. CASE \E i \in Incident, m \in Mode : Boot(i, m)
  <2>1. recovering' \subseteq RunId /\ \A r \in recovering' : runs[r] \in Row
    BY <1>6 DEF Boot, Recoverable, Unsettled, Active, NoRow, TypeInv, TypeOK
  <2>2. TypeOK'
    BY <1>6, <2>1 DEF Boot, TypeInv, TypeOK
  <2>3. Placed' /\ LogHasLast'
    BY <1>6 DEF Boot, TypeInv, Placed, LogHasLast
  <2>4. \A r \in (calls \union recovering)' : runs'[r] \in Row
    BY <1>6, <2>1 DEF Boot, TypeInv
  <2> QED BY <2>2, <2>3, <2>4 DEF TypeInv
<1>7. CASE RecoverRaises
  BY <1>7, LoseProcessTypeInv DEF RecoverRaises, TypeInv, TypeOK
<1>8. CASE Crash
  <2>1. crashes' \in 0..MaxCrashes
    BY <1>8, BoundsAssumption DEF Crash, TypeInv, TypeOK
  <2> QED BY <1>8, <2>1, LoseProcessTypeInv DEF Crash
<1>9. CASE StoreFails \/ StoreReturns
  <2>1. outages' \in 0..MaxOutages /\ store' \in {"ok", "unavailable"}
    BY <1>9, BoundsAssumption DEF StoreFails, StoreReturns, TypeInv, TypeOK
  <2>2. UNCHANGED <<runs, events, exec, tasks, calls, recovering, proc, crashes>>
    BY <1>9 DEF StoreFails, StoreReturns
  <2> QED BY <2>1, <2>2 DEF TypeInv, TypeOK, Placed, LogHasLast
<1>10. CASE UNCHANGED vars
  BY <1>10 DEF vars, TypeInv, TypeOK, Placed, LogHasLast
<1> QED BY <1>1, <1>2, <1>3, <1>4, <1>5, <1>6, <1>7, <1>8, <1>9, <1>10 DEF Next

\* Type correctness, for any graph of agents and any number of runs and calls.
THEOREM TypeCorrect == Spec => []TypeOK
<1>1. Spec => []TypeInv
  BY InitTypeInv, NextTypeInv, PTL DEF Spec
<1>2. TypeInv => TypeOK
  BY DEF TypeInv
<1> QED BY <1>1, <1>2, PTL

(***************************************************************************)
(* Part 2: the task registry.  OneWorkerPerRun is not inductive: it needs  *)
(* that a call at work is the registered one (so that _ensure_worker sees  *)
(* it), that its run is unsettled, that a run recover() still has to       *)
(* handle has no task, that start() is served only after recover(), and    *)
(* that nothing is left in the memory of a process that is down.           *)
(***************************************************************************)
Registered(e) ==
    LET r == exec[e].run
    IN  /\ tasks[r] = e
        /\ Unsettled(runs[r])
        /\ runs[r].incident = proc.incident

WorkersRegistered == \A e \in ExecId : ~Over(e) => Registered(e)

ResultIffAnswered ==
    \A r \in RunId : runs[r] \in Row =>
        /\ Unsettled(runs[r]) => ~runs[r].result.present
        /\ runs[r].status = "completed" => runs[r].result.present

CallsOfThisProcess ==
    /\ recovering # {} => calls = {}
    /\ \A r \in calls : runs[r].incident = proc.incident

RecoveringIdle == \A r \in recovering : Unsettled(runs[r]) /\ tasks[r] = NoTask

DownIsEmpty ==
    ~proc.up => /\ calls = {} /\ recovering = {}
                /\ \A r \in RunId : tasks[r] = NoTask
                /\ \A e \in ExecId : exec[e] = Vacant

WorkerInv ==
    /\ WorkersRegistered /\ ResultIffAnswered /\ CallsOfThisProcess
    /\ RecoveringIdle /\ DownIsEmpty

---------------------------------------------------------------------------
\* A record leaves its call where `ok` or `bad` says.
LEMMA RecordPc ==
    ASSUME TypeInv, NEW e \in ExecId, NEW wave, NEW ok \in Exec, NEW bad \in Exec,
           Record(e, wave, ok, bad)
    PROVE  exec'[e].pc \in {ok.pc, bad.pc}
<1>1. exec \in [ExecId -> Exec]
  BY DEF TypeInv, TypeOK
<1>2. \A s : [ok EXCEPT !.seq = s].pc = ok.pc /\ [bad EXCEPT !.seq = s].pc = bad.pc
  BY DEF Exec
<1>3. PICK s : \/ exec' = [exec EXCEPT ![e] = [ok EXCEPT !.seq = s]]
               \/ exec' = [exec EXCEPT ![e] = [bad EXCEPT !.seq = s]]
  BY DEF Record
<1> QED BY <1>1, <1>2, <1>3

\* An agent never brings a finished call back to life.
LEMMA AgentStepPc ==
    ASSUME TypeInv, NEW e \in ExecId, NEW a \in Agent, AgentStep(e, a), Over(e)
    PROVE  exec'[e].pc = exec[e].pc
<1> DEFINE x == exec[e]
<1>1. x \in Exec /\ x.pc # "wave" /\ exec \in [ExecId -> Exec]
  BY DEF TypeInv, TypeOK, Over
<1>2. \A y \in Exec : y.pc = x.pc => Raised(y, a).pc = x.pc /\ Raised(y, a) \in Exec
  BY <1>1, RaisedType DEF Raised, Exec
<1>3. \A outcome \in Outcome : /\ Returned(x, a, outcome).pc = x.pc
                               /\ Returned(x, a, outcome) \in Exec
  BY <1>1, ReturnedType DEF Returned, Exec
<1>4. Outcome = {"completed", "failed", "skipped"}
  BY DEF Outcome
<1>5. CASE AgentSkips(e, a) \/ AgentGivesUp(e, a) \/ AgentCompletes(e, a)
  <2>1. \E ok \in Exec, bad \in Exec :
           ok.pc = x.pc /\ bad.pc = x.pc /\ Record(e, 0, ok, bad)
    BY <1>1, <1>2, <1>3, <1>4, <1>5 DEF AgentSkips, AgentGivesUp, AgentCompletes
  <2> QED BY <2>1, RecordPc
<1>6. CASE AgentStarts(e, a)
  <2> DEFINE ok == [x EXCEPT !.at[a] = "running", !.attempts[a] = 1]
  <2>1. ok \in Exec /\ ok.pc = x.pc
    BY <1>1 DEF Exec, AgentPc
  <2>2. Record(e, 0, ok, Raised(x, a))
    BY <1>6 DEF AgentStarts
  <2> HIDE DEF ok
  <2>3. exec'[e].pc \in {ok.pc, Raised(x, a).pc}
    BY <1>1, <1>2, <2>1, <2>2, RecordPc
  <2> QED BY <1>1, <1>2, <2>1, <2>3
<1>7. CASE AgentReasons(e, a)
  <2>1. \A at \in AgentPc : /\ [x EXCEPT !.at[a] = at] \in Exec
                            /\ [x EXCEPT !.at[a] = at].pc = x.pc
    BY <1>1 DEF Exec
  <2>2. "reasoned" \in AgentPc /\ "failing" \in AgentPc
    BY DEF AgentPc
  <2> DEFINE ok == [x EXCEPT !.at[a] = "reasoned"]
             bad == [x EXCEPT !.at[a] = "failing"]
  <2>3. ok \in Exec /\ bad \in Exec /\ ok.pc = x.pc /\ bad.pc = x.pc
    BY <2>1, <2>2
  <2>4. Record(e, 0, ok, bad)
    BY <1>7 DEF AgentReasons
  <2> HIDE DEF ok, bad
  <2>5. exec'[e].pc \in {ok.pc, bad.pc}
    BY <2>3, <2>4, RecordPc
  <2> QED BY <2>3, <2>5
<1>8. CASE AgentRaises(e, a)
  BY <1>1, <1>8 DEF AgentRaises, Exec
<1>9. CASE AgentRetries(e, a)
  <2> DEFINE ok == [x EXCEPT !.at[a] = "running", !.attempts[a] = @ + 1]
  <2>1. x.attempts \in [Agent -> Nat] /\ x.at \in [Agent -> AgentPc] /\ "running" \in AgentPc
    BY <1>1 DEF Exec, AgentPc
  <2>2. [x.attempts EXCEPT ![a] = @ + 1] \in [Agent -> Nat]
    BY <2>1
  <2>3. ok \in Exec /\ ok.pc = x.pc
    BY <1>1, <2>1, <2>2 DEF Exec
  <2>4. Record(e, 0, ok, Raised(x, a))
    BY <1>9 DEF AgentRetries
  <2> HIDE DEF ok
  <2>5. exec'[e].pc \in {ok.pc, Raised(x, a).pc}
    BY <1>1, <1>2, <2>3, <2>4, RecordPc
  <2> QED BY <1>1, <1>2, <2>3, <2>5
<1> QED BY <1>5, <1>6, <1>7, <1>8, <1>9 DEF AgentStep

\* What the step of a call at work may do to its row.
LEMMA TaskStepEffect ==
    ASSUME TypeInv, NEW e \in ExecId, TaskStep(e), Unsettled(runs[exec[e].run]),
           ~runs[exec[e].run].result.present
    PROVE  LET r == exec[e].run
           IN  /\ \A q \in RunId \ {r} : runs'[q] = runs[q]
               /\ runs'[r].incident = runs[r].incident
               /\ Unsettled(runs'[r]) => ~runs'[r].result.present
               /\ runs'[r].status = "completed" => runs'[r].result.present
               /\ Unsettled(runs'[r]) \/ Over(e)'
<1> DEFINE r == exec[e].run
           row == runs[r]
<1>1. row \in Row /\ r \in RunId /\ exec \in [ExecId -> Exec] /\ runs \in [RunId -> Row \union {NoRow}]
  BY TaskStepIsOwnStep DEF InPlace, TypeInv, TypeOK
<1>2. \A pc : At(exec[e], pc).pc = pc
  BY <1>1 DEF At, Exec
<1>3. CASE runs' = runs
  BY <1>1, <1>3 DEF Unsettled, Active
<1>4. CASE Begin(e) /\ runs' = [runs EXCEPT ![r] = ClaimRun(row)]
  <2>1. /\ ClaimRun(row).incident = row.incident /\ ClaimRun(row).status = "running"
        /\ ClaimRun(row).result = row.result
    BY <1>1 DEF ClaimRun, Row
  <2> QED BY <1>1, <1>4, <2>1 DEF Unsettled, Active
<1>5. CASE runs' = [runs EXCEPT ![r] = SaveCheckpoint(row, exec[e].wave + 1, exec[e].results)]
  <2>1. LET new == SaveCheckpoint(row, exec[e].wave + 1, exec[e].results)
        IN  new.incident = row.incident /\ new.status = row.status /\ new.result = row.result
    BY <1>1 DEF SaveCheckpoint, Row
  <2> QED BY <1>1, <1>5, <2>1 DEF Unsettled, Active
<1>6. CASE SettleRun(e) /\ runs' # runs
  <2> DEFINE history == {ev.seq : ev \in events[r]}
             new == CompleteRun(row, FinalStatus(exec[e].results), history)
  <2>1. runs' = [runs EXCEPT ![r] = new] /\ exec' = [exec EXCEPT ![e] = At(@, "done")]
    BY <1>6 DEF SettleRun
  <2>2. new.incident = row.incident /\ new.status \in Terminal /\ new.result.present
    BY <1>1 DEF CompleteRun, Row, FinalStatus, Terminal
  <2>3. runs'[r] = new /\ exec'[e].pc = "done"
    BY <1>1, <1>2, <2>1
  <2> QED BY <1>1, <2>1, <2>2, <2>3 DEF Unsettled, Active, Terminal, Over
<1>7. CASE AbandonRun(e) /\ runs' # runs
  <2>1. runs' = [runs EXCEPT ![r] = FailRun(row)] /\ exec' = [exec EXCEPT ![e] = At(@, "done")]
    BY <1>1, <1>7 DEF AbandonRun
  <2>2. FailRun(row).incident = row.incident /\ FailRun(row).status = "failed"
    BY <1>1 DEF FailRun, Row
  <2>3. runs'[r] = FailRun(row) /\ exec'[e].pc = "done"
    BY <1>1, <1>2, <2>1
  <2> QED BY <1>1, <2>1, <2>2, <2>3 DEF Unsettled, Active, Over
<1> QED BY <1>3, <1>4, <1>5, <1>6, <1>7 DEF TaskStep, Begin, Introduce, CheckpointWave,
       MarkCheckpoint, FindConflict, Resolve, Brief, Finish, AssemblyRaises, SettleRun,
       AbandonRun, RecordIn

---------------------------------------------------------------------------
\* The facts about TypeInv that the steps below rest on.
LEMMA Basics ==
    ASSUME TypeInv
    PROVE  /\ exec \in [ExecId -> Exec] /\ tasks \in [RunId -> ExecId \union {NoTask}]
           /\ NoTask \notin ExecId
           /\ \A e \in ExecId : ~Over(e) => exec[e].run \in RunId /\ runs[exec[e].run] \in Row
BY NoTaskAssumption DEF TypeInv, TypeOK, Placed, Over

\* A step of an agent keeps the worker invariant: no finished call comes back to life.
LEMMA AgentStepWorkerInv ==
    ASSUME TypeInv, WorkerInv, NEW e \in ExecId, NEW a \in Agent, AgentStep(e, a)
    PROVE  WorkerInv'
<1>1. InPlace(e) /\ OwnStep(e) /\ UNCHANGED <<runs, tasks, calls, recovering, world>>
  BY AgentStepIsOwnStep DEF AgentStep
<1>2. \A f \in ExecId : Over(f) => Over(f)'
  BY <1>1, AgentStepPc DEF OwnStep, Over
<1>3. WorkersRegistered'
  BY <1>1, <1>2 DEF WorkerInv, WorkersRegistered, Registered, OwnStep, world
<1>4. ResultIffAnswered' /\ CallsOfThisProcess' /\ RecoveringIdle'
  BY <1>1 DEF WorkerInv, ResultIffAnswered, CallsOfThisProcess, RecoveringIdle, world
<1>5. exec[e] # Vacant
  BY VacantType DEF AgentStep, AgentSkips, AgentStarts, AgentReasons, AgentRaises,
     AgentRetries, AgentGivesUp, AgentCompletes
<1>6. DownIsEmpty'
  BY <1>1, <1>5 DEF WorkerInv, DownIsEmpty, world
<1> QED BY <1>3, <1>4, <1>6 DEF WorkerInv

\* A step of a call keeps it: the call stays registered and its run unsettled, or it is over.
LEMMA TaskStepWorkerInv ==
    ASSUME TypeInv, WorkerInv, NEW e \in ExecId, TaskStep(e)
    PROVE  WorkerInv'
<1> DEFINE r == exec[e].run
<1>1. InPlace(e) /\ OwnStep(e) /\ UNCHANGED <<tasks, calls, recovering, world>>
  BY TaskStepIsOwnStep DEF TaskStep
<1>2. ~Over(e)
  BY DEF Over, TaskStep, Begin, Introduce, CheckpointWave, MarkCheckpoint, FindConflict,
     Resolve, Brief, Finish, AssemblyRaises, SettleRun, AbandonRun, RecordIn
<1>3. tasks[r] = e /\ Unsettled(runs[r]) /\ runs[r].incident = proc.incident /\ r \in RunId
  BY <1>1, <1>2 DEF WorkerInv, WorkersRegistered, Registered, InPlace
<1>4. ~runs[r].result.present
  BY <1>1, <1>3 DEF WorkerInv, ResultIffAnswered, InPlace
<1>5. /\ \A q \in RunId \ {r} : runs'[q] = runs[q]
      /\ runs'[r].incident = runs[r].incident
      /\ Unsettled(runs'[r]) => ~runs'[r].result.present
      /\ runs'[r].status = "completed" => runs'[r].result.present
      /\ Unsettled(runs'[r]) \/ Over(e)'
  BY <1>3, <1>4, TaskStepEffect
<1>6. WorkersRegistered'
  <2> SUFFICES ASSUME NEW f \in ExecId, ~Over(f)' PROVE Registered(f)'
    BY DEF WorkersRegistered
  <2>1. CASE f = e
    BY <1>1, <1>3, <1>5, <2>1 DEF Registered, OwnStep, world
  <2>2. CASE f # e
    <3>1. exec'[f] = exec[f] /\ ~Over(f)
      BY <1>1, <2>2 DEF OwnStep, Over
    <3>2. Registered(f) /\ exec[f].run \in RunId /\ exec[f].run # r
      BY <1>3, <2>2, <3>1, Basics DEF WorkerInv, WorkersRegistered, Registered
    <3> QED BY <1>1, <1>5, <3>1, <3>2 DEF Registered, world
  <2> QED BY <2>1, <2>2
<1>7. ResultIffAnswered'
  BY <1>3, <1>5, <1>1 DEF WorkerInv, ResultIffAnswered, InPlace
<1>8. CallsOfThisProcess'
  BY <1>1, <1>5 DEF WorkerInv, CallsOfThisProcess, TypeInv, TypeOK, world
<1>9. RecoveringIdle'
  BY <1>1, <1>3, <1>5, Basics DEF WorkerInv, RecoveringIdle, TypeInv, TypeOK
<1>10. DownIsEmpty'
  BY <1>1, <1>2, VacantType DEF WorkerInv, DownIsEmpty, Over, world
<1> QED BY <1>6, <1>7, <1>8, <1>9, <1>10 DEF WorkerInv

\* The done callback compares the registered task with its own: a successor stays.
LEMMA RemoveTaskWorkerInv ==
    ASSUME TypeInv, WorkerInv, NEW e \in ExecId, RemoveTask(e)
    PROVE  WorkerInv'
<1>1. /\ UNCHANGED <<runs, events, calls, recovering, world>>
      /\ \A f \in ExecId \ {e} : exec'[f] = exec[f]
      /\ exec'[e].pc = "gone" /\ exec[e].pc = "done"
      /\ \A r \in RunId : tasks'[r] \in {tasks[r], NoTask} /\ (tasks[r] # e => tasks'[r] = tasks[r])
  BY Basics DEF RemoveTask, Exec
<1>2. WorkersRegistered'
  BY <1>1, Basics DEF WorkerInv, WorkersRegistered, Registered, Over, world
<1>3. ResultIffAnswered' /\ CallsOfThisProcess'
  BY <1>1 DEF WorkerInv, ResultIffAnswered, CallsOfThisProcess, world
<1>4. RecoveringIdle'
  BY <1>1 DEF WorkerInv, RecoveringIdle, TypeInv, TypeOK
<1>5. DownIsEmpty'
  BY <1>1, VacantType DEF WorkerInv, DownIsEmpty, world
<1> QED BY <1>2, <1>3, <1>4, <1>5 DEF WorkerInv

\* start() keeps it: the run it names is for the process's incident.
LEMMA StartWorkerInv ==
    ASSUME TypeInv, WorkerInv, NEW k \in RequestId, Start(k)
    PROVE  WorkerInv'
<1>1. UNCHANGED <<events, exec, tasks, recovering, world>> /\ proc.up /\ recovering = {}
  BY DEF Start
<1>2. PICK r \in RunId :
         /\ calls' = calls \union {r}
         /\ \/ /\ runs' = [runs EXCEPT ![r] = NewRow(k, proc.incident, proc.mode)]
               /\ runs[r] \notin Row
            \/ runs' = runs /\ runs[r].incident = proc.incident
  BY RowExists DEF Start, CreateRun, ReuseRun, Reusable, TypeInv, TypeOK, WithKey
<1>3. /\ \A q \in RunId : runs[q] \in Row => runs'[q] = runs[q]
      /\ runs'[r].incident = proc.incident
      /\ \A q \in RunId \ {r} : runs'[q] = runs[q]
      /\ runs'[r] # runs[r] => Unsettled(runs'[r]) /\ ~runs'[r].result.present
                               /\ runs'[r].status # "completed"
  BY <1>2 DEF TypeInv, TypeOK, NewRow, NoResult, Unsettled, Active
<1>4. WorkersRegistered'
  BY <1>1, <1>3, Basics DEF WorkerInv, WorkersRegistered, Registered, Over, world
<1>5. ResultIffAnswered'
  BY <1>3 DEF WorkerInv, ResultIffAnswered
<1>6. CallsOfThisProcess'
  BY <1>1, <1>2, <1>3 DEF WorkerInv, CallsOfThisProcess, TypeInv, TypeOK, world
<1>7. RecoveringIdle' /\ DownIsEmpty'
  BY <1>1 DEF RecoveringIdle, DownIsEmpty, world
<1> QED BY <1>4, <1>5, <1>6, <1>7 DEF WorkerInv

\* _ensure_worker adds a call to a run only when it has none at work.
LEMMA EnsureWorkerRegistered ==
    ASSUME TypeInv, WorkerInv, NEW r \in RunId, runs[r] \in Row,
           runs[r].incident = proc.incident, EnsureWorker(r), runs' = runs, proc' = proc
    PROVE  WorkersRegistered' /\ \A q \in RunId \ {r} : tasks'[q] = tasks[q]
<1>1. CASE UNCHANGED <<exec, tasks>>
  BY <1>1 DEF WorkerInv, WorkersRegistered, Registered, Over
<1>2. CASE NeedsWorker(r) /\ \E e \in ExecId : /\ Free(e)
                                               /\ exec' = [exec EXCEPT ![e] = NewExec(r)]
                                               /\ tasks' = [tasks EXCEPT ![r] = e]
  <2>1. PICK e \in ExecId : /\ exec' = [exec EXCEPT ![e] = NewExec(r)]
                            /\ tasks' = [tasks EXCEPT ![r] = e]
    BY <1>2
  <2>2. exec'[e].run = r /\ tasks'[r] = e /\ \A f \in ExecId \ {e} : exec'[f] = exec[f]
    BY <2>1, Basics DEF NewExec
  <2>3. \A q \in RunId \ {r} : tasks'[q] = tasks[q]
    BY <2>1, Basics
  <2>4. Unsettled(runs[r])
    BY <1>2 DEF NeedsWorker, WorkerInv, ResultIffAnswered, Row, Unsettled, Active, Terminal
  <2>5. \A f \in ExecId : ~Over(f) => exec[f].run # r
    BY <1>2, Basics DEF NeedsWorker, TaskRunning, WorkerInv, WorkersRegistered, Registered, Over
  <2>6. WorkersRegistered'
    BY <2>2, <2>3, <2>4, <2>5, Basics DEF WorkerInv, WorkersRegistered, Registered, Over
  <2> QED BY <2>3, <2>6
<1> QED BY <1>1, <1>2 DEF EnsureWorker

\* The worker that start() creates is registered on an unsettled run.
LEMMA EnsureCalledWorkerInv ==
    ASSUME TypeInv, WorkerInv, NEW r \in RunId, EnsureCalled(r)
    PROVE  WorkerInv'
<1>1. /\ r \in calls /\ calls' = calls \ {r} /\ recovering = {} /\ recovering' = {}
      /\ runs' = runs /\ proc' = proc /\ proc.up
  BY DEF EnsureCalled, WorkerInv, CallsOfThisProcess, DownIsEmpty, TypeInv, TypeOK, world
<1>2. runs[r] \in Row /\ runs[r].incident = proc.incident
  BY <1>1 DEF TypeInv, WorkerInv, CallsOfThisProcess
<1>3. WorkersRegistered'
  <2>1. CASE EnsureWorker(r)
    BY <1>1, <1>2, <2>1, EnsureWorkerRegistered
  <2>2. CASE UNCHANGED <<exec, tasks>>
    BY <1>1, <2>2 DEF WorkerInv, WorkersRegistered, Registered, Over
  <2> QED BY <2>1, <2>2 DEF EnsureCalled
<1>4. ResultIffAnswered' /\ CallsOfThisProcess' /\ RecoveringIdle' /\ DownIsEmpty'
  BY <1>1 DEF WorkerInv, ResultIffAnswered, CallsOfThisProcess, RecoveringIdle, DownIsEmpty
<1> QED BY <1>3, <1>4 DEF WorkerInv

\* So is the one that recover() creates, unless the run is failed for its incident.
LEMMA RecoverRunWorkerInv ==
    ASSUME TypeInv, WorkerInv, NEW r \in RunId, RecoverRun(r)
    PROVE  WorkerInv'
<1>1. /\ r \in recovering /\ recovering' = recovering \ {r} /\ calls = {} /\ calls' = {}
      /\ proc' = proc /\ proc.up /\ runs[r] \in Row
  BY DEF RecoverRun, WorkerInv, CallsOfThisProcess, DownIsEmpty, TypeInv, world
<1>2. CASE runs' = [runs EXCEPT ![r] = FailRun(@)] /\ UNCHANGED <<exec, tasks>>
  <2>1. FailRun(runs[r]).status = "failed"
    BY <1>1 DEF FailRun, Row
  <2>2. runs'[r].status = "failed" /\ \A q \in RunId \ {r} : runs'[q] = runs[q]
    BY <1>2, <2>1 DEF TypeInv, TypeOK
  <2>3. \A e \in ExecId : ~Over(e) => exec[e].run # r
    BY <1>1, Basics DEF WorkerInv, WorkersRegistered, Registered, RecoveringIdle
  <2>4. WorkersRegistered'
    BY <1>1, <1>2, <2>2, <2>3, Basics DEF WorkerInv, WorkersRegistered, Registered, Over
  <2>5. ResultIffAnswered'
    BY <2>2 DEF WorkerInv, ResultIffAnswered, Unsettled, Active
  <2>6. RecoveringIdle'
    BY <1>1, <1>2, <2>2 DEF WorkerInv, RecoveringIdle, TypeInv, TypeOK
  <2>7. CallsOfThisProcess' /\ DownIsEmpty'
    BY <1>1 DEF CallsOfThisProcess, DownIsEmpty
  <2> QED BY <2>4, <2>5, <2>6, <2>7 DEF WorkerInv
<1>3. CASE runs[r].incident = proc.incident /\ EnsureWorker(r) /\ runs' = runs
  <2>1. WorkersRegistered' /\ \A q \in RunId \ {r} : tasks'[q] = tasks[q]
    BY <1>1, <1>3, EnsureWorkerRegistered
  <2>2. RecoveringIdle'
    BY <1>1, <1>3, <2>1 DEF WorkerInv, RecoveringIdle, TypeInv, TypeOK
  <2>3. ResultIffAnswered' /\ CallsOfThisProcess' /\ DownIsEmpty'
    BY <1>1, <1>3 DEF WorkerInv, ResultIffAnswered, CallsOfThisProcess, DownIsEmpty
  <2> QED BY <2>1, <2>2, <2>3 DEF WorkerInv
<1> QED BY <1>2, <1>3 DEF RecoverRun

\* A new process has no task, and recovers unsettled runs only.
LEMMA BootWorkerInv ==
    ASSUME TypeInv, WorkerInv, NEW i \in Incident, NEW m \in Mode, Boot(i, m)
    PROVE  WorkerInv'
<1>1. /\ ~proc.up /\ proc'.up /\ recovering' \subseteq Recoverable(runs)
      /\ UNCHANGED <<runs, exec, tasks, calls>>
  BY DEF Boot
<1>2. calls = {} /\ (\A r \in RunId : tasks[r] = NoTask) /\ \A e \in ExecId : Over(e)
  BY <1>1, VacantType DEF WorkerInv, DownIsEmpty, Over
<1>3. WorkersRegistered' /\ ResultIffAnswered'
  BY <1>1, <1>2 DEF WorkerInv, WorkersRegistered, ResultIffAnswered, Over
<1>4. CallsOfThisProcess' /\ RecoveringIdle' /\ DownIsEmpty'
  BY <1>1, <1>2 DEF CallsOfThisProcess, RecoveringIdle, DownIsEmpty, Recoverable
<1> QED BY <1>3, <1>4 DEF WorkerInv

\* A lost process leaves no call and no entry in the registry.
LEMMA LoseProcessWorkerInv ==
    ASSUME TypeInv, WorkerInv, LoseProcess
    PROVE  WorkerInv'
<1>1. \A e \in ExecId : exec'[e] = Vacant /\ Over(e)'
  BY VacantType DEF LoseProcess, Over
<1>2. WorkersRegistered'
  BY <1>1 DEF WorkersRegistered
<1>3. ResultIffAnswered' /\ CallsOfThisProcess' /\ RecoveringIdle' /\ DownIsEmpty'
  BY <1>1 DEF LoseProcess, WorkerInv, ResultIffAnswered, CallsOfThisProcess, RecoveringIdle,
     DownIsEmpty
<1> QED BY <1>2, <1>3 DEF WorkerInv

\* The worker invariant holds before the first boot.
LEMMA InitWorkerInv == Init => WorkerInv
<1> SUFFICES ASSUME Init PROVE WorkerInv
  OBVIOUS
<1>1. \A e \in ExecId : exec[e] = Vacant /\ Over(e)
  BY VacantType DEF Init, Over
<1>2. \A r \in RunId : runs[r] \notin Row
  BY RowExists DEF Init, Exists, NoRow
<1> QED BY <1>1, <1>2 DEF Init, WorkerInv, WorkersRegistered, ResultIffAnswered,
       CallsOfThisProcess, RecoveringIdle, DownIsEmpty

\* Every step of the service keeps it.
LEMMA NextWorkerInv == TypeInv /\ WorkerInv /\ [Next]_vars => WorkerInv'
<1> SUFFICES ASSUME TypeInv, WorkerInv, [Next]_vars PROVE WorkerInv'
  OBVIOUS
<1>1. CASE \E e \in ExecId : TaskStep(e) \/ RemoveTask(e) \/ \E a \in Agent : AgentStep(e, a)
  BY <1>1, TaskStepWorkerInv, RemoveTaskWorkerInv, AgentStepWorkerInv
<1>2. CASE \E k \in RequestId : Start(k)
  BY <1>2, StartWorkerInv
<1>3. CASE \E r \in RunId : EnsureCalled(r) \/ RecoverRun(r)
  BY <1>3, EnsureCalledWorkerInv, RecoverRunWorkerInv
<1>4. CASE \E i \in Incident, m \in Mode : Boot(i, m)
  BY <1>4, BootWorkerInv
<1>5. CASE RecoverRaises \/ Crash
  BY <1>5, LoseProcessWorkerInv DEF RecoverRaises, Crash
<1>6. CASE StoreFails \/ StoreReturns \/ UNCHANGED vars
  <2>1. UNCHANGED <<runs, exec, tasks, calls, recovering, proc>>
    BY <1>6 DEF StoreFails, StoreReturns, vars
  <2> QED BY <2>1 DEF WorkerInv, WorkersRegistered, Registered, ResultIffAnswered,
             CallsOfThisProcess, RecoveringIdle, DownIsEmpty, Over
<1> QED BY <1>1, <1>2, <1>3, <1>4, <1>5, <1>6 DEF Next

\* Both invariants hold in every reachable state.
LEMMA WorkersAlwaysRegistered == Spec => [](TypeInv /\ WorkerInv)
BY InitTypeInv, NextTypeInv, InitWorkerInv, NextWorkerInv, PTL DEF Spec

\* Two calls at work on one run would both be its registered task.
THEOREM AtMostOneWorker == Spec => []OneWorkerPerRun
<1>1. TypeInv /\ WorkerInv => OneWorkerPerRun
  BY Basics DEF WorkerInv, WorkersRegistered, Registered, OneWorkerPerRun
<1> QED BY <1>1, WorkersAlwaysRegistered, PTL

\* The terminal checks of the store never reject a statement of a worker.
THEOREM WorkersNeedNoTerminalCheck == Spec => []WorkersOnUnsettledRuns
<1>1. WorkerInv => WorkersOnUnsettledRuns
  BY DEF WorkerInv, WorkersRegistered, Registered, WorkersOnUnsettledRuns
<1> QED BY <1>1, WorkersAlwaysRegistered, PTL

\* Whatever incident each process was built with, its workers serve that incident only.
THEOREM NoForeignIncident == Spec => []WorkersServeTheirIncident
<1>1. WorkerInv => WorkersServeTheirIncident
  BY DEF WorkerInv, WorkersRegistered, Registered, WorkersServeTheirIncident
<1> QED BY <1>1, WorkersAlwaysRegistered, PTL

(***************************************************************************)
(* Part 3: the rows.  Every step leaves them alone, inserts one, or        *)
(* applies one statement to the row of an unsettled run.                   *)
(***************************************************************************)
Idle(x) == \A a \in Agent : x.at[a] = "idle"

InsertStep ==
    \E k \in RequestId, r \in RunId :
        /\ WithKey(runs, k) = {} /\ runs[r] = NoRow
        /\ runs' = [runs EXCEPT ![r] = NewRow(k, proc.incident, proc.mode)]
        /\ UNCHANGED <<events, exec>>

ClaimStep(e) ==
    /\ exec[e].pc = "created"
    /\ runs' = [runs EXCEPT ![exec[e].run] = ClaimRun(@)]

SaveStep(e) ==
    /\ exec[e].pc = "wave" /\ Idle(exec[e])
    /\ runs' = [runs EXCEPT ![exec[e].run] =
                   SaveCheckpoint(@, exec[e].wave + 1, exec[e].results)]

CompleteStep(e) ==
    /\ exec[e].pc = "settle"
    /\ runs' = [runs EXCEPT ![exec[e].run] =
                   CompleteRun(@, FinalStatus(exec[e].results),
                               {ev.seq : ev \in events[exec[e].run]})]

FailStep(r) == Unsettled(runs[r]) /\ runs' = [runs EXCEPT ![r] = FailRun(@)]

WorkerStatement(e) ==
    /\ ~Over(e) /\ exec[e].run \in RunId /\ runs[exec[e].run] \in Row
    /\ Unsettled(runs[exec[e].run])
    /\ ClaimStep(e) \/ SaveStep(e) \/ CompleteStep(e) \/ FailStep(exec[e].run)

\* The done callback and every step of a live call: the place in the code they start from.
LEMMA TaskStepRows ==
    ASSUME TypeInv, WorkerInv, NEW e \in ExecId, TaskStep(e)
    PROVE  runs' = runs \/ WorkerStatement(e)
<1> DEFINE r == exec[e].run
<1>1. ~Over(e)
  BY DEF Over, TaskStep, Begin, Introduce, CheckpointWave, MarkCheckpoint, FindConflict,
     Resolve, Brief, Finish, AssemblyRaises, SettleRun, AbandonRun, RecordIn
<1>2. r \in RunId /\ runs[r] \in Row /\ Unsettled(runs[r])
  BY <1>1, Basics DEF WorkerInv, WorkersRegistered, Registered
<1>3. CASE Begin(e)
  BY <1>1, <1>2, <1>3 DEF Begin, WorkerStatement, ClaimStep
<1>4. CASE CheckpointWave(e)
  BY <1>1, <1>2, <1>4 DEF CheckpointWave, WorkerStatement, SaveStep, Idle
<1>5. CASE SettleRun(e)
  BY <1>1, <1>2, <1>5 DEF SettleRun, WorkerStatement, CompleteStep
<1>6. CASE AbandonRun(e)
  <2>1. CASE Answers /\ Unsettled(runs[r])
    BY <1>1, <1>2, <1>6, <2>1 DEF AbandonRun, WorkerStatement, FailStep
  <2>2. CASE ~(Answers /\ Unsettled(runs[r]))
    BY <1>2, <1>6, <2>2 DEF AbandonRun, TypeInv, TypeOK
  <2> QED BY <2>1, <2>2
<1> QED BY <1>3, <1>4, <1>5, <1>6 DEF TaskStep, Introduce, MarkCheckpoint, FindConflict,
       Resolve, Brief, Finish, AssemblyRaises, RecordIn

\* create_run inserts a row under a key no row has, or changes nothing.
LEMMA StartRows ==
    ASSUME TypeInv, NEW k \in RequestId, Start(k)
    PROVE  runs' = runs \/ InsertStep
<1>1. CASE CreateRun(k)
  <2>1. PICK r \in RunId : /\ WithKey(runs, k) = {} /\ ~Exists(runs[r])
                           /\ runs' = [runs EXCEPT ![r] = NewRow(k, proc.incident, proc.mode)]
    BY <1>1 DEF CreateRun
  <2>2. runs[r] = NoRow
    BY <2>1, RowExists DEF TypeInv, TypeOK
  <2> QED BY <2>1, <2>2 DEF InsertStep, Start
<1>2. CASE ReuseRun(k)
  BY <1>2 DEF ReuseRun
<1> QED BY <1>1, <1>2 DEF Start

\* Those are all the ways in which a step of the service writes a row.
LEMMA NextRows ==
    ASSUME TypeInv, WorkerInv, [Next]_vars
    PROVE  \/ runs' = runs
           \/ InsertStep
           \/ \E e \in ExecId : WorkerStatement(e)
           \/ \E r \in RunId : runs[r] \in Row /\ FailStep(r)
<1>1. CASE \E e \in ExecId : TaskStep(e)
  BY <1>1, TaskStepRows
<1>2. CASE \E e \in ExecId : RemoveTask(e) \/ \E a \in Agent : AgentStep(e, a)
  BY <1>2 DEF RemoveTask, AgentStep
<1>3. CASE \E k \in RequestId : Start(k)
  BY <1>3, StartRows
<1>4. CASE \E r \in RunId : EnsureCalled(r)
  BY <1>4 DEF EnsureCalled
<1>5. CASE \E r \in RunId : RecoverRun(r)
  <2>1. PICK r \in RunId : RecoverRun(r)
    BY <1>5
  <2>2. runs[r] \in Row /\ Unsettled(runs[r])
    BY <2>1 DEF RecoverRun, TypeInv, WorkerInv, RecoveringIdle
  <2> QED BY <2>1, <2>2 DEF RecoverRun, FailStep
<1>6. CASE \E i \in Incident, m \in Mode : Boot(i, m)
  BY <1>6 DEF Boot
<1>7. CASE RecoverRaises \/ Crash \/ StoreFails \/ StoreReturns \/ UNCHANGED vars
  BY <1>7 DEF RecoverRaises, Crash, LoseProcess, StoreFails, StoreReturns, vars
<1> QED BY <1>1, <1>2, <1>3, <1>4, <1>5, <1>6, <1>7 DEF Next

(***************************************************************************)
(* Part 4: waves and checkpoints.  A checkpoint is only as good as the     *)
(* results of the worker that saves it, so the invariant follows those:    *)
(* between waves a worker holds what its row's snapshot holds, within a    *)
(* wave it has a result for the agents of that wave that are back, and an  *)
(* agent at work has no failed dependency.                                 *)
(***************************************************************************)

\* Agents are skipped exactly when one of their dependencies failed or was skipped.
SkipsIn(results) ==
    \A a \in Agent : results[a] # "none" =>
        (results[a] = "skipped" <=> \E d \in DependsOn[a] : results[d] \in {"failed", "skipped"})

\* There is a result for each agent of the waves before w and for no other.
WholeWaves(results, w) == \A a \in Agent : results[a] # "none" <=> a \in Resolved[w]

RowOk(row) ==
    /\ row.version = row.nextWave /\ row.snapshot.nextWave = row.nextWave
    /\ row.nextWave <= WaveCount
    /\ WholeWaves(row.snapshot.results, row.nextWave)
    /\ SkipsIn(row.snapshot.results)

\* The places of Orchestrator.run outside the loop over the waves' agents.
Closing == {"reconcile", "resolve", "brief", "finish", "settle"}

\* A worker whose memory agrees with its row: nothing was run since the checkpoint.
InStep(x, row, w) == Idle(x) /\ w = row.nextWave /\ x.results = row.snapshot.results

\* A worker within a wave.
InWave(x, row) ==
    /\ x.wave = row.nextWave /\ ~NoWaveLeft(x.wave)
    /\ \A a \in Agent :
          x.results[a] # "none" <=>
              a \in Resolved[x.wave] \/ (a \in Wave(x.wave) /\ x.at[a] = "idle")
    /\ SkipsIn(x.results)
    /\ \A a \in Agent :
          x.at[a] \in {"running", "reasoned", "failing"} => FailedDeps(x.results, a) = {}

\* Agents still at work belong to the wave that was not checkpointed yet.
OfOpenWave(x, row) ==
    \A a \in Agent : x.at[a] # "idle" => a \in Wave(x.wave) /\ x.wave = row.nextWave

CallOk(x, row) ==
    /\ x.pc = "created" => Idle(x)
    /\ x.pc \in {"intro", "wave", "mark"} \union Closing => row.status = "running"
    /\ x.pc = "intro" => InStep(x, row, x.wave)
    /\ x.pc = "mark" => InStep(x, row, x.wave + 1)
    /\ x.pc \in Closing => InStep(x, row, x.wave) /\ NoWaveLeft(x.wave)
    /\ x.pc = "wave" => InWave(x, row)
    /\ OfOpenWave(x, row)

\* Only existing runs have events, and they announce no wave that was not saved.
LogOk(log, row) == \A ev \in log : row \in Row /\ ev.wave <= row.nextWave

ProgressInv ==
    /\ \A r \in RunId : runs[r] \in Row => RowOk(runs[r])
    /\ \A r \in RunId : LogOk(events[r], runs[r])
    /\ \A e \in ExecId : ~Over(e) => CallOk(exec[e], runs[exec[e].run])


---------------------------------------------------------------------------
(* What the operators of the worker do to such a call.                     *)

\* Only a call's place, wave, agents and results matter to CallOk.
LEMMA CallOkAgrees ==
    ASSUME NEW x, NEW y, NEW row, CallOk(x, row),
           y.pc = x.pc, y.wave = x.wave, y.at = x.at, y.results = x.results
    PROVE  CallOk(y, row)
BY DEF CallOk, InStep, InWave, OfOpenWave, Idle

\* Whoever is at work in a call that is not over belongs to its open wave.
LEMMA AtWork ==
    ASSUME NEW x \in Exec, NEW row \in Row, CallOk(x, row), NEW a \in Agent,
           x.at[a] # "idle", x.pc \notin {"done", "gone"}
    PROVE  x.pc \in {"wave", "fail"} /\ a \in Wave(x.wave) /\ x.wave = row.nextWave
<1>1. x.pc \in {"created", "intro", "mark"} \union Closing => Idle(x)
  BY DEF CallOk, InStep
<1> QED BY <1>1 DEF CallOk, OfOpenWave, Idle, Exec, Pc, Closing

\* An agent whose call raises leaves the others where they are; run() leaves the wave.
LEMMA RaisedOk ==
    ASSUME NEW x \in Exec, NEW row \in Row, CallOk(x, row), NEW a \in Agent,
           x.at[a] # "idle", x.pc \notin {"done", "gone"}, NEW y,
           y.pc = (IF x.pc = "wave" THEN "fail" ELSE x.pc), y.wave = x.wave,
           y.at = [x.at EXCEPT ![a] = "idle"]
    PROVE  CallOk(y, row)
<1>1. y.pc = "fail"
  BY AtWork
<1>2. OfOpenWave(y, row)
  BY DEF CallOk, OfOpenWave, Exec
<1> QED BY <1>1, <1>2 DEF CallOk, Closing

\* An agent that starts or goes on has no failed dependency.
LEMMA WorkingOk ==
    ASSUME NEW x \in Exec, NEW row \in Row, CallOk(x, row), NEW a \in Agent,
           x.at[a] # "idle", x.pc \notin {"done", "gone"},
           x.pc = "wave" => FailedDeps(x.results, a) = {},
           NEW at \in {"running", "reasoned", "failing"},
           NEW y, y.pc = x.pc, y.wave = x.wave, y.results = x.results,
           y.at = [x.at EXCEPT ![a] = at]
    PROVE  CallOk(y, row)
<1>1. x.pc \in {"wave", "fail"} /\ a \in Wave(x.wave) /\ x.wave = row.nextWave
  BY AtWork
<1>2. OfOpenWave(y, row)
  BY <1>1 DEF CallOk, OfOpenWave, Exec
<1>3. ASSUME x.pc = "wave" PROVE InWave(y, row)
  <2>1. InWave(x, row)
    BY <1>3 DEF CallOk
  <2>2. \A b \in Agent : y.at[b] = "idle" <=> x.at[b] = "idle"
    BY DEF Exec
  <2>3. \A b \in Agent : y.at[b] = x.at[b] \/ b = a
    BY DEF Exec
  <2> QED BY <1>3, <2>1, <2>2, <2>3 DEF InWave
<1> QED BY <1>1, <1>2, <1>3 DEF CallOk, Closing

\* The agents that depend on each other lie in different waves.
LEMMA WaveApart ==
    ASSUME NEW w \in Nat, NEW a \in Wave(w), NEW b \in Resolved[w + 1]
    PROVE  a \notin DependsOn[b] /\ DependsOn[b] \subseteq Resolved[w]
BY DependenciesFirst DEF Wave

\* The result of an agent fits those of its dependencies.
LEMMA ReturnedOk ==
    ASSUME NEW x \in Exec, NEW row \in Row, CallOk(x, row), NEW a \in Agent,
           x.at[a] # "idle", x.pc \notin {"done", "gone"}, NEW outcome \in Outcome,
           x.pc = "wave" => (outcome = "skipped" <=> FailedDeps(x.results, a) # {}),
           NEW y, y.pc = x.pc, y.wave = x.wave, y.results = [x.results EXCEPT ![a] = outcome],
           y.at = [x.at EXCEPT ![a] = "idle"]
    PROVE  CallOk(y, row)
<1>1. x.pc \in {"wave", "fail"} /\ a \in Wave(x.wave) /\ x.wave = row.nextWave
  BY AtWork
<1>2. OfOpenWave(y, row)
  BY DEF CallOk, OfOpenWave, Exec
<1>3. ASSUME x.pc = "wave" PROVE InWave(y, row)
  <2> DEFINE w == x.wave
  <2>1. InWave(x, row) /\ w \in Nat /\ x.results \in Results /\ y.wave = w
    BY <1>3 DEF CallOk, Exec
  <2>2. \A b \in Agent : /\ y.results[b] = IF b = a THEN outcome ELSE x.results[b]
                         /\ y.at[b] = IF b = a THEN "idle" ELSE x.at[b]
    BY <2>1 DEF Exec, Results
  <2>3. \A b \in Agent : y.results[b] # "none" <=>
           b \in Resolved[w] \/ (b \in Wave(w) /\ y.at[b] = "idle")
    BY <1>1, <2>1, <2>2 DEF InWave, Outcome
  <2>4. \A b \in Agent : y.results[b] # "none" => b \in Resolved[w + 1]
    BY <2>1, <2>3, ResolvedSteps
  <2>5. \A b \in Agent : y.results[b] # "none" =>
           \A d \in DependsOn[b] : d \in Agent /\ d # a /\ y.results[d] = x.results[d]
    BY <1>1, <2>1, <2>2, <2>4, WaveApart, DependsOnAssumption
  <2>6. a \in Resolved[w + 1] /\ a \in Agent
    BY <1>1, <2>1, ResolvedSteps
  <2>7. \A d \in DependsOn[a] : d \in Agent /\ x.results[d] \in {"completed", "failed", "skipped"}
    <3>1. \A d \in DependsOn[a] : d \in Resolved[w] /\ d \in Agent
      BY <2>1, <2>6, <1>1, WaveApart, DependsOnAssumption
    <3> QED BY <2>1, <3>1 DEF InWave, Results, Outcome
  <2>8. outcome = "skipped" <=> \E d \in DependsOn[a] : x.results[d] \in {"failed", "skipped"}
    BY <1>3, <2>7 DEF FailedDeps
  <2>9. SkipsIn(y.results)
    <3> SUFFICES ASSUME NEW b \in Agent, y.results[b] # "none"
                 PROVE  y.results[b] = "skipped" <=>
                           \E d \in DependsOn[b] : y.results[d] \in {"failed", "skipped"}
      BY DEF SkipsIn
    <3>1. \A d \in DependsOn[b] : y.results[d] = x.results[d]
      BY <2>5
    <3>2. CASE b = a
      BY <2>2, <2>8, <3>1, <3>2
    <3>3. CASE b # a
      BY <2>1, <2>2, <3>1, <3>3 DEF InWave, SkipsIn
    <3> QED BY <3>2, <3>3
  <2>10. \A b \in Agent : y.at[b] \in {"running", "reasoned", "failing"} =>
            FailedDeps(y.results, b) = {}
    <3> SUFFICES ASSUME NEW b \in Agent, y.at[b] \in {"running", "reasoned", "failing"}
                 PROVE  FailedDeps(y.results, b) = {}
      OBVIOUS
    <3>1. b # a /\ FailedDeps(x.results, b) = {} /\ b \in Wave(w)
      BY <1>1, <2>1, <2>2 DEF InWave, CallOk, OfOpenWave
    <3>2. b \in Resolved[w + 1]
      BY <2>1, <3>1, ResolvedSteps
    <3>3. \A d \in DependsOn[b] : d \in Agent /\ d # a /\ y.results[d] = x.results[d]
      BY <1>1, <2>1, <2>2, <3>2, WaveApart, DependsOnAssumption
    <3> QED BY <3>1, <3>3 DEF FailedDeps
  <2> QED BY <2>1, <2>3, <2>9, <2>10 DEF InWave
<1> QED BY <1>1, <1>2, <1>3 DEF CallOk, Closing

\* The loop head gathers the wave the row says is next, or leaves the loop.
LEMMA EnterWaveOk ==
    ASSUME NEW x \in Exec, NEW row \in Row, RowOk(row), row.status = "running",
           NEW w \in Nat, InStep(x, row, w)
    PROVE  CallOk(EnterWave(x, w), row)
<1>1. CASE NoWaveLeft(w)
  <2> DEFINE y == EnterWave(x, w)
  <2>1. y.pc = "reconcile" /\ y.wave = w /\ y.at = x.at /\ y.results = x.results
    BY <1>1 DEF EnterWave, Exec
  <2> HIDE DEF y
  <2>2. CallOk(y, row)
    BY <1>1, <2>1 DEF CallOk, Closing, InStep, Idle, OfOpenWave
  <2> QED BY <2>2 DEF y
<1>2. CASE ~NoWaveLeft(w)
  <2> DEFINE y == EnterWave(x, w)
  <2>1. /\ y.pc = "wave" /\ y.wave = w /\ y.results = x.results
        /\ y.at = [a \in Agent |-> IF a \in Wave(w) THEN "begin" ELSE "idle"]
    BY <1>2 DEF EnterWave, Exec
  <2> HIDE DEF y
  <2>2. w = row.nextWave /\ x.results = row.snapshot.results
    BY DEF InStep
  <2>3. WholeWaves(y.results, w) /\ SkipsIn(y.results)
    BY <2>1, <2>2 DEF RowOk
  <2>4. \A a \in Agent : y.at[a] = IF a \in Wave(w) THEN "begin" ELSE "idle"
    BY <2>1
  <2>5. InWave(y, row)
    BY <1>2, <2>1, <2>2, <2>3, <2>4 DEF InWave, WholeWaves
  <2>6. OfOpenWave(y, row)
    BY <2>1, <2>2, <2>4 DEF OfOpenWave
  <2>7. CallOk(y, row)
    BY <2>1, <2>5, <2>6 DEF CallOk, Closing
  <2> QED BY <2>7 DEF y
<1> QED BY <1>1, <1>2

\* The wave all of whose agents are back makes a checkpoint of whole waves.
LEMMA SaveOk ==
    ASSUME NEW x \in Exec, NEW row \in Row, RowOk(row), CallOk(x, row),
           x.pc = "wave", Idle(x)
    PROVE  LET new == SaveCheckpoint(row, x.wave + 1, x.results)
           IN  RowOk(new) /\ CallOk(At(x, "mark"), new)
<1> DEFINE new == SaveCheckpoint(row, x.wave + 1, x.results)
           w == x.wave
<1>1. InWave(x, row) /\ row.status = "running" /\ w \in Nat /\ row.nextWave = w
  BY DEF CallOk, InWave, Exec
<1>2. /\ new.nextWave = w + 1 /\ new.version = row.version + 1 /\ new.status = "running"
      /\ new.snapshot.nextWave = w + 1 /\ new.snapshot.results = x.results
  BY <1>1 DEF SaveCheckpoint, Row
<1>3. new.version = new.nextWave
  BY <1>1, <1>2 DEF RowOk
<1>4. WholeWaves(x.results, w + 1)
  BY <1>1, ResolvedSteps DEF InWave, WholeWaves, Idle
<1>5. w # WaveCount /\ w <= WaveCount
  BY <1>1, WaveCountIsLast DEF InWave, RowOk
<1>6. w + 1 <= WaveCount
  BY <1>1, <1>5, WaveCountIsLast
<1>7. RowOk(new)
  BY <1>1, <1>2, <1>3, <1>4, <1>6 DEF RowOk, InWave
<1> DEFINE y == At(x, "mark")
<1>8. y.pc = "mark" /\ y.wave = w /\ y.at = x.at /\ y.results = x.results
  BY DEF At, Exec
<1> HIDE DEF new, y
<1>9. CallOk(y, new)
  BY <1>2, <1>8 DEF CallOk, Closing, InStep, OfOpenWave, Idle
<1> QED BY <1>7, <1>9 DEF new, y

---------------------------------------------------------------------------
(* The steps of one call.                                                  *)

\* A record leaves its call in `ok` or `bad` but for the number, and adds at most its event.
LEMMA RecordOutcome ==
    ASSUME TypeInv, NEW e \in ExecId, InPlace(e), NEW wave \in Nat,
           NEW ok \in Exec, NEW bad \in Exec, Record(e, wave, ok, bad)
    PROVE  /\ \E y \in {ok, bad} :
                 /\ exec'[e].pc = y.pc /\ exec'[e].wave = y.wave
                 /\ exec'[e].at = y.at /\ exec'[e].results = y.results
           /\ \A q \in RunId \ {exec[e].run} : events'[q] = events[q]
           /\ \/ events' = events
              \/ \E s \in Nat :
                    events'[exec[e].run] = events[exec[e].run] \union {[seq |-> s, wave |-> wave]}
<1> DEFINE s == exec[e].seq + 1
           r == exec[e].run
<1>1. s \in Nat /\ r \in RunId /\ exec \in [ExecId -> Exec] /\ events \in [RunId -> SUBSET Event]
  BY DEF TypeInv, TypeOK, InPlace, Exec
<1>2. \A y \in Exec : LET z == [y EXCEPT !.seq = s]
                      IN  z.pc = y.pc /\ z.wave = y.wave /\ z.at = y.at /\ z.results = y.results
  BY DEF Exec
<1>3. CASE /\ events' = [events EXCEPT ![r] = @ \union {[seq |-> s, wave |-> wave]}]
           /\ exec' = [exec EXCEPT ![e] = [ok EXCEPT !.seq = s]]
  <2>1. exec'[e] = [ok EXCEPT !.seq = s]
    BY <1>1, <1>3
  <2>2. events'[r] = events[r] \union {[seq |-> s, wave |-> wave]}
    BY <1>1, <1>3
  <2>3. \A q \in RunId \ {r} : events'[q] = events[q]
    BY <1>1, <1>3
  <2> QED BY <1>1, <1>2, <2>1, <2>2, <2>3
<1>4. CASE events' = events /\ exec' = [exec EXCEPT ![e] = [bad EXCEPT !.seq = s]]
  <2>1. exec'[e] = [bad EXCEPT !.seq = s]
    BY <1>1, <1>4
  <2> QED BY <1>2, <1>4, <2>1
<1> QED BY <1>3, <1>4 DEF Record

\* What has to hold of the call, its row and its log when a step of its own is done.
LEMMA OwnStepProgress ==
    ASSUME TypeInv, WorkerInv, ProgressInv, NEW e \in ExecId, InPlace(e), OwnStep(e),
           \A q \in RunId \ {exec[e].run} : runs'[q] = runs[q] /\ events'[q] = events[q],
           RowOk(runs'[exec[e].run]),
           LogOk(events'[exec[e].run], runs'[exec[e].run]),
           ~Over(e)' => CallOk(exec'[e], runs'[exec[e].run]),
           runs' = runs \/ ~Over(e)
    PROVE  ProgressInv'
<1> DEFINE r == exec[e].run
<1>1. r \in RunId
  BY DEF InPlace
<1>2. \A q \in RunId : runs'[q] \in Row => RowOk(runs'[q])
  BY DEF ProgressInv
<1>3. \A q \in RunId : LogOk(events'[q], runs'[q])
  BY <1>1 DEF ProgressInv
<1>4. ASSUME NEW f \in ExecId, ~Over(f)'
      PROVE  CallOk(exec'[f], runs'[exec'[f].run])
  <2>1. CASE f = e
    BY <1>4, <2>1 DEF OwnStep
  <2>2. CASE f # e
    <3>1. exec'[f] = exec[f] /\ ~Over(f)
      BY <1>4, <2>2 DEF OwnStep, Over
    <3>2. CallOk(exec[f], runs[exec[f].run]) /\ exec[f].run \in RunId
      BY <3>1, Basics DEF ProgressInv
    <3>3. runs'[exec[f].run] = runs[exec[f].run]
      <4>1. CASE exec[f].run = r
        BY <2>2, <3>1, <4>1 DEF WorkerInv, WorkersRegistered, Registered
      <4>2. CASE exec[f].run # r
        BY <3>2, <4>2
      <4> QED BY <4>1, <4>2
    <3> QED BY <3>1, <3>2, <3>3
  <2> QED BY <2>1, <2>2
<1> QED BY <1>2, <1>3, <1>4 DEF ProgressInv

\* A record of a live call that leaves it fit either way keeps the invariant.
LEMMA RecordProgress ==
    ASSUME TypeInv, WorkerInv, ProgressInv, NEW e \in ExecId, InPlace(e), OwnStep(e),
           runs' = runs, NEW wave \in Nat, wave <= runs[exec[e].run].nextWave,
           NEW ok \in Exec, NEW bad \in Exec, Record(e, wave, ok, bad),
           ok.pc \notin {"done", "gone"} => CallOk(ok, runs[exec[e].run]),
           bad.pc \notin {"done", "gone"} => CallOk(bad, runs[exec[e].run])
    PROVE  ProgressInv'
<1> DEFINE r == exec[e].run
<1>1. r \in RunId /\ runs[r] \in Row
  BY DEF InPlace
<1>2. PICK y \in {ok, bad} :
         /\ exec'[e].pc = y.pc /\ exec'[e].wave = y.wave
         /\ exec'[e].at = y.at /\ exec'[e].results = y.results
  BY RecordOutcome
<1>3. ~Over(e)' => CallOk(exec'[e], runs[r])
  BY <1>2, CallOkAgrees DEF Over
<1>4. LogOk(events'[r], runs[r])
  BY <1>1, RecordOutcome DEF ProgressInv, LogOk
<1>5. \A q \in RunId \ {r} : events'[q] = events[q]
  BY RecordOutcome
<1>6. RowOk(runs[r])
  BY <1>1 DEF ProgressInv
<1> QED BY <1>3, <1>4, <1>5, <1>6, OwnStepProgress

\* A step of a live call that neither records nor touches its row.
LEMMA LocalProgress ==
    ASSUME TypeInv, WorkerInv, ProgressInv, NEW e \in ExecId, InPlace(e), OwnStep(e),
           runs' = runs, events' = events,
           ~Over(e)' => CallOk(exec'[e], runs[exec[e].run])
    PROVE  ProgressInv'
BY OwnStepProgress DEF InPlace, ProgressInv

\* An agent that starts, works, fails or is back leaves the calls and the log as they should be.
LEMMA AgentStepProgress ==
    ASSUME TypeInv, WorkerInv, ProgressInv, NEW e \in ExecId, NEW a \in Agent, AgentStep(e, a)
    PROVE  ProgressInv'
<1> DEFINE x == exec[e]
           row == runs[x.run]
<1>1. InPlace(e) /\ OwnStep(e) /\ runs' = runs /\ x \in Exec /\ row \in Row
  BY AgentStepIsOwnStep DEF AgentStep, InPlace, TypeInv, TypeOK
<1>2. x.at[a] # "idle" /\ x.at \in [Agent -> AgentPc] /\ x.results \in Results
  BY <1>1 DEF AgentStep, AgentSkips, AgentStarts, AgentReasons, AgentRaises, AgentRetries,
         AgentGivesUp, AgentCompletes, Exec
<1>3. 0 \in Nat /\ 0 <= row.nextWave
  BY <1>1 DEF Row
<1>4. x.pc \notin {"done", "gone"} => CallOk(x, row)
  BY DEF ProgressInv, Over
<1>5. x.pc = "wave" /\ x.at[a] \in {"running", "reasoned", "failing"} =>
          FailedDeps(x.results, a) = {}
  BY <1>4 DEF CallOk, InWave
<1> DEFINE Fit(y) == y.pc \notin {"done", "gone"} => CallOk(y, row)
<1>6. ASSUME NEW y, y.pc = (IF x.pc = "wave" THEN "fail" ELSE x.pc), y.wave = x.wave,
             y.at = [x.at EXCEPT ![a] = "idle"]
      PROVE  Fit(y)
  BY <1>1, <1>2, <1>4, <1>6, RaisedOk
<1>7. ASSUME NEW at \in {"running", "reasoned", "failing"},
             x.pc = "wave" => FailedDeps(x.results, a) = {},
             NEW y, y.pc = x.pc, y.wave = x.wave, y.results = x.results,
             y.at = [x.at EXCEPT ![a] = at]
      PROVE  Fit(y)
  BY <1>1, <1>2, <1>4, <1>7, WorkingOk
<1>8. ASSUME NEW outcome \in Outcome,
             x.pc = "wave" => (outcome = "skipped" <=> FailedDeps(x.results, a) # {}),
             NEW y, y.pc = x.pc, y.wave = x.wave,
             y.results = [x.results EXCEPT ![a] = outcome],
             y.at = [x.at EXCEPT ![a] = "idle"]
      PROVE  Fit(y)
  BY <1>1, <1>2, <1>4, <1>8, ReturnedOk
<1>9. ASSUME NEW ok \in Exec, NEW bad \in Exec, Fit(ok), Fit(bad), Record(e, 0, ok, bad)
      PROVE  ProgressInv'
  BY <1>1, <1>3, <1>9, RecordProgress
<1>10. Raised(x, a) \in Exec /\ Fit(Raised(x, a))
  <2> DEFINE y == Raised(x, a)
  <2>1. y \in Exec
    BY <1>1, RaisedType
  <2>2. /\ y.pc = (IF x.pc = "wave" THEN "fail" ELSE x.pc) /\ y.wave = x.wave
        /\ y.at = [x.at EXCEPT ![a] = "idle"]
    BY <1>1 DEF Raised, Exec
  <2> HIDE DEF y, Fit
  <2>3. Fit(y)
    BY <1>6, <2>2
  <2> QED BY <2>1, <2>3 DEF y
<1>11. ASSUME NEW outcome \in Outcome,
              x.pc = "wave" => (outcome = "skipped" <=> FailedDeps(x.results, a) # {})
       PROVE  Returned(x, a, outcome) \in Exec /\ Fit(Returned(x, a, outcome))
  <2> DEFINE y == Returned(x, a, outcome)
  <2>1. y \in Exec
    BY <1>1, ReturnedType
  <2>2. /\ y.pc = x.pc /\ y.wave = x.wave /\ y.at = [x.at EXCEPT ![a] = "idle"]
        /\ y.results = [x.results EXCEPT ![a] = outcome]
    BY <1>1 DEF Returned, Exec
  <2> HIDE DEF y, Fit
  <2>3. Fit(y)
    BY <1>8, <1>11, <2>2
  <2> QED BY <2>1, <2>3 DEF y
<1>12. ASSUME NEW at \in {"running", "reasoned", "failing"}, NEW attempts \in [Agent -> Nat],
              x.pc = "wave" => FailedDeps(x.results, a) = {}
       PROVE  LET y == [x EXCEPT !.at[a] = at, !.attempts = attempts] IN y \in Exec /\ Fit(y)
  <2> DEFINE y == [x EXCEPT !.at[a] = at, !.attempts = attempts]
  <2>1. y \in Exec
    BY <1>1 DEF Exec, AgentPc
  <2>2. /\ y.pc = x.pc /\ y.wave = x.wave /\ y.at = [x.at EXCEPT ![a] = at]
        /\ y.results = x.results
    BY <1>1 DEF Exec
  <2> HIDE DEF y, Fit
  <2>3. Fit(y)
    BY <1>7, <1>12, <2>2
  <2> QED BY <2>1, <2>3 DEF y
<1> HIDE DEF Fit
<1>13. {"completed", "failed", "skipped"} = Outcome
  BY DEF Outcome
<1>14. CASE AgentSkips(e, a)
  BY <1>9, <1>10, <1>11, <1>13, <1>14 DEF AgentSkips
<1>15. CASE AgentStarts(e, a)
  <2> DEFINE attempts == [x.attempts EXCEPT ![a] = 1]
             ok == [x EXCEPT !.at[a] = "running", !.attempts = attempts]
  <2>1. attempts \in [Agent -> Nat]
    BY <1>1 DEF Exec
  <2>2. ok \in Exec /\ Fit(ok)
    BY <1>12, <1>15, <2>1 DEF AgentStarts
  <2>3. Record(e, 0, ok, Raised(x, a))
    BY <1>15 DEF AgentStarts
  <2> HIDE DEF ok
  <2> QED BY <1>9, <1>10, <2>2, <2>3
<1>16. CASE AgentReasons(e, a)
  <2> DEFINE ok == [x EXCEPT !.at[a] = "reasoned"]
             bad == [x EXCEPT !.at[a] = "failing"]
  <2>1. x.attempts \in [Agent -> Nat] /\ x.at[a] = "running"
    BY <1>1, <1>16 DEF Exec, AgentReasons
  <2>2. /\ ok = [x EXCEPT !.at[a] = "reasoned", !.attempts = x.attempts]
        /\ bad = [x EXCEPT !.at[a] = "failing", !.attempts = x.attempts]
    BY <1>1 DEF Exec
  <2>3. ok \in Exec /\ Fit(ok) /\ bad \in Exec /\ Fit(bad)
    BY <1>5, <1>12, <2>1, <2>2
  <2>4. Record(e, 0, ok, bad)
    BY <1>16 DEF AgentReasons
  <2> HIDE DEF ok, bad
  <2> QED BY <1>9, <2>3, <2>4
<1>17. CASE AgentRaises(e, a)
  <2> DEFINE y == [x EXCEPT !.at[a] = "failing"]
  <2>1. x.attempts \in [Agent -> Nat] /\ x.at[a] \in {"running", "reasoned"}
    BY <1>1, <1>17 DEF Exec, AgentRaises
  <2>2. y = [x EXCEPT !.at[a] = "failing", !.attempts = x.attempts]
    BY <1>1 DEF Exec
  <2>3. Fit(y)
    BY <1>5, <1>12, <2>1, <2>2
  <2>4. exec'[e] = y /\ events' = events
    BY <1>17 DEF AgentRaises, TypeInv, TypeOK
  <2> QED BY <1>1, <2>3, <2>4, LocalProgress DEF Fit, Over
<1>18. CASE AgentRetries(e, a)
  <2> DEFINE attempts == [x.attempts EXCEPT ![a] = @ + 1]
             ok == [x EXCEPT !.at[a] = "running", !.attempts = attempts]
  <2>1. attempts \in [Agent -> Nat] /\ x.at[a] = "failing"
    BY <1>1, <1>18 DEF Exec, AgentRetries
  <2>2. ok \in Exec /\ Fit(ok)
    BY <1>5, <1>12, <2>1
  <2>3. Record(e, 0, ok, Raised(x, a))
    BY <1>18 DEF AgentRetries
  <2> HIDE DEF ok
  <2> QED BY <1>9, <1>10, <2>2, <2>3
<1>19. CASE AgentGivesUp(e, a)
  BY <1>5, <1>9, <1>10, <1>11, <1>13, <1>19 DEF AgentGivesUp
<1>20. CASE AgentCompletes(e, a)
  <2> DEFINE ok == Returned(x, a, "completed")
             bad == Raised(ok, a)
  <2>1. ok \in Exec /\ Fit(ok)
    BY <1>5, <1>11, <1>13, <1>20 DEF AgentCompletes
  <2>2. bad \in Exec
    BY <2>1, RaisedType
  <2>3. /\ bad.pc = (IF x.pc = "wave" THEN "fail" ELSE x.pc) /\ bad.wave = x.wave
        /\ bad.at = [x.at EXCEPT ![a] = "idle"]
    BY <1>1, <1>2 DEF Returned, Raised, Exec
  <2>4. Record(e, 0, ok, bad)
    BY <1>20 DEF AgentCompletes
  <2> HIDE DEF ok, bad
  <2>5. Fit(bad)
    BY <1>6, <2>3
  <2> QED BY <1>9, <2>1, <2>2, <2>4, <2>5
<1> QED BY <1>14, <1>15, <1>16, <1>17, <1>18, <1>19, <1>20 DEF AgentStep

\* Moving to another place with the same memory, and leaving the wave.
LEMMA MovedOk ==
    ASSUME NEW x \in Exec, NEW row, CallOk(x, row),
           NEW pc \in Closing \union {"fail", "done"}, pc \in Closing => x.pc \in Closing
    PROVE  CallOk(At(x, pc), row)
<1> DEFINE y == At(x, pc)
<1>1. y.pc = pc /\ y.wave = x.wave /\ y.at = x.at /\ y.results = x.results
  BY DEF At, Exec
<1> HIDE DEF y
<1>2. CallOk(y, row)
  BY <1>1 DEF CallOk, InStep, OfOpenWave, Idle, Closing
<1> QED BY <1>2 DEF y

\* load_checkpoint and claim_run: the call takes over what the snapshot holds.
LEMMA BeginProgress ==
    ASSUME TypeInv, WorkerInv, ProgressInv, NEW e \in ExecId, Begin(e), InPlace(e), OwnStep(e)
    PROVE  ProgressInv'
<1> DEFINE x == exec[e]
           r == x.run
           old == runs[r]
           row == ClaimRun(old)
<1>1. r \in RunId /\ old \in Row /\ x \in Exec /\ x.pc = "created" /\ ~Over(e)
  BY DEF InPlace, TypeInv, TypeOK, Begin, Over
<1>2. /\ exec \in [ExecId -> Exec] /\ runs \in [RunId -> Row \union {NoRow}]
      /\ RowOk(old) /\ LogOk(events[r], old) /\ CallOk(x, old)
  BY <1>1 DEF ProgressInv, TypeInv, TypeOK
<1>3. Idle(x)
  BY <1>1, <1>2 DEF CallOk
<1>4. /\ row \in Row /\ row.snapshot = old.snapshot /\ row.nextWave = old.nextWave
      /\ row.version = old.version
  <2>1. row \in Row
    BY <1>1 DEF ClaimRun, Row, Active, Terminal, Unsettled
  <2> QED BY <1>1, <2>1 DEF ClaimRun, Row
<1>5. row.status = "running"
  <2>1. Unsettled(old)
    BY <1>1 DEF WorkerInv, WorkersRegistered, Registered
  <2> QED BY <1>1, <2>1 DEF ClaimRun, Row
<1> HIDE DEF row
<1>6. RowOk(row) /\ LogOk(events[r], row)
  BY <1>2, <1>4 DEF RowOk, LogOk
<1>7. CASE /\ runs' = [runs EXCEPT ![r] = row] /\ events' = events
           /\ exec' = [exec EXCEPT ![e] = At(@, "done")]
  <2>1. exec'[e].pc = "done"
    BY <1>1, <1>2, <1>7 DEF At, Exec
  <2>2. runs'[r] = row /\ \A q \in RunId \ {r} : runs'[q] = runs[q]
    BY <1>1, <1>2, <1>7
  <2> QED BY <1>1, <1>6, <1>7, <2>1, <2>2, OwnStepProgress DEF Over
<1>8. CASE /\ runs' = [runs EXCEPT ![r] = row] /\ events' = events
           /\ exec' = [exec EXCEPT ![e] =
                  [@ EXCEPT !.pc = "intro", !.seq = LatestSequence(events[r]),
                            !.wave = row.snapshot.nextWave, !.results = row.snapshot.results]]
  <2> DEFINE y == [x EXCEPT !.pc = "intro", !.seq = LatestSequence(events[r]),
                            !.wave = row.snapshot.nextWave, !.results = row.snapshot.results]
  <2>1. /\ y.pc = "intro" /\ y.wave = row.snapshot.nextWave
        /\ y.results = row.snapshot.results /\ y.at = x.at
    BY <1>1 DEF Exec
  <2>2. exec'[e] = y
    BY <1>2, <1>8
  <2> HIDE DEF y
  <2>3. CallOk(y, row)
    BY <1>3, <1>5, <1>6, <2>1 DEF CallOk, RowOk, InStep, OfOpenWave, Idle, Closing
  <2>4. runs'[r] = row /\ \A q \in RunId \ {r} : runs'[q] = runs[q]
    BY <1>1, <1>2, <1>8
  <2> QED BY <1>1, <1>6, <1>8, <2>2, <2>3, <2>4, OwnStepProgress
<1>9. CASE runs' = runs /\ events' = events /\ exec' = [exec EXCEPT ![e] = At(@, "fail")]
  <2>1. exec'[e] = At(x, "fail")
    BY <1>2, <1>9
  <2>2. CallOk(At(x, "fail"), old)
    BY <1>1, <1>2, MovedOk DEF Closing
  <2> QED BY <1>9, <2>1, <2>2, LocalProgress
<1> QED BY <1>7, <1>8, <1>9 DEF Begin, row

\* The wave's checkpoint, or the error that ends the call.
LEMMA CheckpointWaveProgress ==
    ASSUME TypeInv, WorkerInv, ProgressInv, NEW e \in ExecId, CheckpointWave(e),
           InPlace(e), OwnStep(e)
    PROVE  ProgressInv'
<1> DEFINE x == exec[e]
           r == x.run
           row == SaveCheckpoint(runs[r], x.wave + 1, x.results)
<1>1. /\ r \in RunId /\ runs[r] \in Row /\ x \in Exec /\ x.pc = "wave" /\ Idle(x) /\ ~Over(e)
      /\ exec \in [ExecId -> Exec] /\ runs \in [RunId -> Row \union {NoRow}]
  BY DEF InPlace, TypeInv, TypeOK, CheckpointWave, Idle, Over
<1>2. RowOk(runs[r]) /\ LogOk(events[r], runs[r]) /\ CallOk(x, runs[r])
  BY <1>1 DEF ProgressInv
<1>3. RowOk(row) /\ CallOk(At(x, "mark"), row)
  BY <1>1, <1>2, SaveOk
<1>4. row \in Row /\ row.nextWave = runs[r].nextWave + 1
  <2>1. x.wave + 1 \in Nat /\ x.results \in Results /\ x.wave = runs[r].nextWave
    BY <1>1, <1>2 DEF Exec, CallOk, InWave
  <2>2. row \in Row
    BY <1>1, <2>1, RowStatements DEF Terminal
  <2> QED BY <1>1, <2>1, <2>2 DEF SaveCheckpoint, Row
<1> HIDE DEF row
<1>5. LogOk(events[r], row)
  <2>1. \A ev \in events[r] : ev.wave \in Nat /\ ev.wave <= runs[r].nextWave
    BY <1>1, <1>2 DEF LogOk, TypeInv, TypeOK, Event
  <2>2. runs[r].nextWave \in Nat
    BY <1>1 DEF Row
  <2> QED BY <1>4, <2>1, <2>2 DEF LogOk
<1>6. CASE /\ runs' = [runs EXCEPT ![r] = row] /\ events' = events
           /\ exec' = [exec EXCEPT ![e] = At(@, "mark")]
  <2>1. exec'[e] = At(x, "mark")
    BY <1>1, <1>6
  <2>2. runs'[r] = row /\ \A q \in RunId \ {r} : runs'[q] = runs[q]
    BY <1>1, <1>6
  <2> QED BY <1>1, <1>3, <1>5, <1>6, <2>1, <2>2, OwnStepProgress
<1>7. CASE runs' = runs /\ events' = events /\ exec' = [exec EXCEPT ![e] = At(@, "fail")]
  <2>1. exec'[e] = At(x, "fail")
    BY <1>1, <1>7
  <2>2. CallOk(At(x, "fail"), runs[r])
    BY <1>1, <1>2, MovedOk DEF Closing
  <2> QED BY <1>7, <2>1, <2>2, LocalProgress
<1> QED BY <1>6, <1>7 DEF CheckpointWave, row

\* complete_run and fail_run end the call and leave the checkpoint alone.
LEMMA EndProgress ==
    ASSUME TypeInv, WorkerInv, ProgressInv, NEW e \in ExecId, SettleRun(e) \/ AbandonRun(e),
           InPlace(e), OwnStep(e)
    PROVE  ProgressInv'
<1> DEFINE x == exec[e]
           r == x.run
<1>1. /\ r \in RunId /\ runs[r] \in Row /\ x \in Exec /\ ~Over(e)
      /\ exec \in [ExecId -> Exec] /\ runs \in [RunId -> Row \union {NoRow}]
  BY DEF InPlace, TypeInv, TypeOK, SettleRun, AbandonRun, Over
<1>2. RowOk(runs[r]) /\ LogOk(events[r], runs[r]) /\ CallOk(x, runs[r])
  BY <1>1 DEF ProgressInv
<1>3. CASE runs' = runs /\ events' = events /\ exec' = [exec EXCEPT ![e] = At(@, "fail")]
  <2>1. exec'[e] = At(x, "fail")
    BY <1>1, <1>3
  <2>2. CallOk(At(x, "fail"), runs[r])
    BY <1>1, <1>2, MovedOk DEF Closing
  <2> QED BY <1>3, <2>1, <2>2, LocalProgress
<1>4. ASSUME NEW new, runs' = [runs EXCEPT ![r] = new], events' = events,
             new.version = runs[r].version, new.nextWave = runs[r].nextWave,
             new.snapshot = runs[r].snapshot, exec' = [exec EXCEPT ![e] = At(@, "done")]
      PROVE  ProgressInv'
  <2>1. exec'[e].pc = "done"
    BY <1>1, <1>4 DEF At, Exec
  <2>2. runs'[r] = new /\ \A q \in RunId \ {r} : runs'[q] = runs[q]
    BY <1>1, <1>4
  <2>3. new \in Row
    BY <1>1, <2>2 DEF OwnStep
  <2>4. RowOk(new) /\ LogOk(events[r], new)
    BY <1>2, <1>4, <2>3 DEF RowOk, LogOk
  <2> QED BY <1>1, <1>4, <2>1, <2>2, <2>4, OwnStepProgress DEF Over
<1>5. CASE AbandonRun(e)
  <2> DEFINE new == IF Answers /\ Unsettled(runs[r]) THEN FailRun(runs[r]) ELSE runs[r]
  <2>1. /\ runs' = [runs EXCEPT ![r] = new] /\ events' = events
        /\ exec' = [exec EXCEPT ![e] = At(@, "done")]
    BY <1>1, <1>5 DEF AbandonRun
  <2>2. /\ new.version = runs[r].version /\ new.nextWave = runs[r].nextWave
        /\ new.snapshot = runs[r].snapshot
    BY <1>1 DEF FailRun, Row
  <2> HIDE DEF new
  <2> QED BY <1>4, <2>1, <2>2
<1>6. CASE SettleRun(e) /\ runs' # runs
  <2> DEFINE new == CompleteRun(runs[r], FinalStatus(x.results), {ev.seq : ev \in events[r]})
  <2>1. /\ runs' = [runs EXCEPT ![r] = new] /\ events' = events
        /\ exec' = [exec EXCEPT ![e] = At(@, "done")]
    BY <1>6 DEF SettleRun
  <2>2. /\ new.version = runs[r].version /\ new.nextWave = runs[r].nextWave
        /\ new.snapshot = runs[r].snapshot
    BY <1>1 DEF CompleteRun, Row
  <2> HIDE DEF new
  <2> QED BY <1>4, <2>1, <2>2
<1> QED BY <1>3, <1>4, <1>5, <1>6 DEF SettleRun

\* Every step of _execute and Orchestrator.run keeps the invariant.
LEMMA TaskStepProgress ==
    ASSUME TypeInv, WorkerInv, ProgressInv, NEW e \in ExecId, TaskStep(e)
    PROVE  ProgressInv'
<1> DEFINE x == exec[e]
           row == runs[x.run]
<1>1. InPlace(e) /\ OwnStep(e) /\ x \in Exec /\ row \in Row /\ x.run \in RunId
  BY TaskStepIsOwnStep DEF InPlace, TypeInv, TypeOK
<1>2. /\ x.wave \in Nat /\ x.wave + 1 \in Nat /\ 0 \in Nat /\ 0 <= row.nextWave
      /\ row.nextWave \in Nat
  BY <1>1 DEF Exec, Row
<1>3. ~Over(e)
  BY DEF Over, TaskStep, Begin, Introduce, CheckpointWave, MarkCheckpoint, FindConflict,
     Resolve, Brief, Finish, AssemblyRaises, SettleRun, AbandonRun, RecordIn
<1>4. CallOk(x, row) /\ RowOk(row)
  BY <1>1, <1>3 DEF ProgressInv
<1>5. \A pc \in Pc : At(x, pc) \in Exec
  BY <1>1, AtType
<1>6. At(x, "fail") \in Exec /\ CallOk(At(x, "fail"), row)
  BY <1>1, <1>4, <1>5, MovedOk DEF Closing, Pc
<1>7. ASSUME NEW wave \in Nat, wave <= row.nextWave, NEW ok \in Exec, CallOk(ok, row),
             runs' = runs, Record(e, wave, ok, At(x, "fail"))
      PROVE  ProgressInv'
  BY <1>1, <1>6, <1>7, RecordProgress
<1>8. ASSUME NEW w \in Nat, InStep(x, row, w), row.status = "running"
      PROVE  EnterWave(x, w) \in Exec /\ CallOk(EnterWave(x, w), row)
  BY <1>1, <1>4, <1>8, EnterWaveOk, EnterWaveType
<1>9. CASE Begin(e)
  BY <1>1, <1>9, BeginProgress
<1>10. CASE Introduce(e)
  <2>1. InStep(x, row, x.wave) /\ row.status = "running"
    BY <1>4, <1>10 DEF Introduce, RecordIn, CallOk
  <2> QED BY <1>2, <1>7, <1>8, <1>10, <2>1 DEF Introduce, RecordIn
<1>11. CASE CheckpointWave(e)
  BY <1>1, <1>11, CheckpointWaveProgress
<1>12. CASE MarkCheckpoint(e)
  <2>1. InStep(x, row, x.wave + 1) /\ row.status = "running"
    BY <1>4, <1>12 DEF MarkCheckpoint, RecordIn, CallOk
  <2>2. x.wave + 1 <= row.nextWave
    BY <1>2, <2>1 DEF InStep
  <2> QED BY <1>2, <1>7, <1>8, <1>12, <2>1, <2>2 DEF MarkCheckpoint, RecordIn
<1>13. CASE FindConflict(e) \/ Resolve(e) \/ Brief(e) \/ Finish(e)
  <2>1. x.pc \in Closing
    BY <1>13 DEF FindConflict, Resolve, Brief, Finish, RecordIn, Closing
  <2>2. \A pc \in Closing : At(x, pc) \in Exec /\ CallOk(At(x, pc), row)
    BY <1>1, <1>4, <1>5, <2>1, MovedOk DEF Closing, Pc
  <2>3. \E pc \in Closing : runs' = runs /\ Record(e, 0, At(x, pc), At(x, "fail"))
    BY <1>13 DEF FindConflict, Resolve, Brief, Finish, RecordIn, Closing
  <2> QED BY <1>2, <1>7, <2>2, <2>3
<1>14. CASE AssemblyRaises(e)
  <2>1. exec'[e] = At(x, "fail") /\ runs' = runs /\ events' = events
    BY <1>14 DEF AssemblyRaises, TypeInv, TypeOK
  <2> QED BY <1>1, <1>6, <2>1, LocalProgress
<1>15. CASE SettleRun(e) \/ AbandonRun(e)
  BY <1>1, <1>15, EndProgress
<1> QED BY <1>9, <1>10, <1>11, <1>12, <1>13, <1>14, <1>15 DEF TaskStep

\* A new row has no checkpoint: no wave is done and none of the agents has a result.
LEMMA NewRowOk ==
    ASSUME NEW k, NEW i, NEW m
    PROVE  RowOk(NewRow(k, i, m))
<1> DEFINE row == NewRow(k, i, m)
<1>1. /\ row.version = 0 /\ row.nextWave = 0 /\ row.snapshot.nextWave = 0
      /\ \A a \in Agent : row.snapshot.results[a] = "none"
  BY DEF NewRow, NoSnapshot, NoResults
<1> HIDE DEF row
<1>2. RowOk(row)
  BY <1>1, ResolvedSteps, WaveCountIsLast DEF RowOk, WholeWaves, SkipsIn
<1> QED BY <1>2 DEF row

\* A fresh call has no agent at work.
LEMMA NewCallOk == \A r, row : CallOk(NewExec(r), row)
<1> SUFFICES ASSUME NEW r, NEW row PROVE CallOk(NewExec(r), row)
  OBVIOUS
<1>1. NewExec(r).pc = "created" /\ \A a \in Agent : NewExec(r).at[a] = "idle"
  BY DEF NewExec
<1> QED BY <1>1 DEF CallOk, Idle, OfOpenWave, Closing

\* What _ensure_worker, start() and recover() add is fit as well.
LEMMA StartProgress ==
    ASSUME TypeInv, WorkerInv, ProgressInv, NEW k \in RequestId, Start(k)
    PROVE  ProgressInv'
<1>1. UNCHANGED <<events, exec>> /\ \A f \in ExecId : Over(f)' <=> Over(f)
  BY DEF Start, Over
<1>2. CASE runs' = runs
  BY <1>1, <1>2 DEF ProgressInv
<1>3. CASE InsertStep
  <2>1. PICK i \in RequestId, r \in RunId :
           /\ runs[r] = NoRow
           /\ runs' = [runs EXCEPT ![r] = NewRow(i, proc.incident, proc.mode)]
    BY <1>3 DEF InsertStep
  <2>2. RowOk(runs'[r]) /\ \A q \in RunId \ {r} : runs'[q] = runs[q]
    BY <2>1, NewRowOk DEF TypeInv, TypeOK
  <2>3. runs[r] \notin Row
    BY <2>1, RowExists DEF Exists, NoRow
  <2>4. events[r] = {}
    BY <2>3 DEF ProgressInv, LogOk
  <2>5. \A f \in ExecId : ~Over(f) => exec[f].run # r /\ exec[f].run \in RunId
    BY <2>3, Basics
  <2> QED BY <1>1, <2>2, <2>4, <2>5 DEF ProgressInv, LogOk
<1> QED BY <1>2, <1>3, StartRows

\* So does a new worker, which holds nothing of its run yet,
LEMMA EnsureWorkerProgress ==
    ASSUME TypeInv, WorkerInv, ProgressInv, NEW r \in RunId, EnsureWorker(r),
           UNCHANGED <<runs, events>>
    PROVE  ProgressInv'
<1>1. CASE UNCHANGED exec
  BY <1>1 DEF ProgressInv, Over
<1>2. CASE \E e \in ExecId : exec' = [exec EXCEPT ![e] = NewExec(r)]
  <2>1. PICK e \in ExecId : exec' = [exec EXCEPT ![e] = NewExec(r)]
    BY <1>2
  <2>2. exec'[e] = NewExec(r) /\ \A f \in ExecId \ {e} : exec'[f] = exec[f]
    BY <2>1 DEF TypeInv, TypeOK
  <2> QED BY <2>2, NewCallOk DEF ProgressInv, Over
<1> QED BY <1>1, <1>2 DEF EnsureWorker

\* and recover(), which fails a run or hands it to a worker.
LEMMA RecoverRunProgress ==
    ASSUME TypeInv, WorkerInv, ProgressInv, NEW r \in RunId, RecoverRun(r)
    PROVE  ProgressInv'
<1>1. events' = events /\ r \in recovering /\ runs[r] \in Row
  BY DEF RecoverRun, TypeInv
<1>2. CASE runs' = runs /\ EnsureWorker(r)
  BY <1>1, <1>2, EnsureWorkerProgress
<1>3. CASE runs' = [runs EXCEPT ![r] = FailRun(@)] /\ UNCHANGED exec
  <2> DEFINE new == FailRun(runs[r])
  <2>1. /\ new \in Row /\ new.version = runs[r].version /\ new.nextWave = runs[r].nextWave
        /\ new.snapshot = runs[r].snapshot
    BY <1>1 DEF FailRun, Row, Active, Terminal
  <2>2. runs'[r] = new /\ \A q \in RunId \ {r} : runs'[q] = runs[q]
    BY <1>3 DEF TypeInv, TypeOK
  <2> HIDE DEF new
  <2>3. RowOk(new) /\ LogOk(events[r], new)
    BY <1>1, <2>1 DEF ProgressInv, RowOk, LogOk
  <2>4. \A f \in ExecId : ~Over(f) => exec[f].run # r /\ exec[f].run \in RunId
    BY <1>1, Basics DEF WorkerInv, WorkersRegistered, Registered, RecoveringIdle
  <2> QED BY <1>1, <1>3, <2>2, <2>3, <2>4 DEF ProgressInv, Over
<1> QED BY <1>2, <1>3 DEF RecoverRun

\* There are no runs and no calls at first,
LEMMA InitProgress == Init => ProgressInv
<1> SUFFICES ASSUME Init PROVE ProgressInv
  OBVIOUS
<1>1. \A r \in RunId : runs[r] \notin Row /\ events[r] = {}
  BY RowExists DEF Init, Exists, NoRow
<1>2. \A e \in ExecId : Over(e)
  BY VacantType DEF Init, Over
<1> QED BY <1>1, <1>2 DEF ProgressInv, LogOk

\* and every step keeps what the calls hold in line with the rows.
LEMMA NextProgress == TypeInv /\ WorkerInv /\ ProgressInv /\ [Next]_vars => ProgressInv'
<1> SUFFICES ASSUME TypeInv, WorkerInv, ProgressInv, [Next]_vars PROVE ProgressInv'
  OBVIOUS
<1>1. CASE \E e \in ExecId : TaskStep(e)
  BY <1>1, TaskStepProgress
<1>2. CASE \E e \in ExecId, a \in Agent : AgentStep(e, a)
  BY <1>2, AgentStepProgress
<1>3. CASE \E e \in ExecId : RemoveTask(e)
  <2>1. PICK e \in ExecId : RemoveTask(e)
    BY <1>3
  <2>2. exec'[e].pc = "gone" /\ \A f \in ExecId \ {e} : exec'[f] = exec[f]
    BY <2>1, Basics DEF RemoveTask, Exec
  <2>3. UNCHANGED <<runs, events>>
    BY <2>1 DEF RemoveTask
  <2> QED BY <2>2, <2>3 DEF ProgressInv, Over
<1>4. CASE \E k \in RequestId : Start(k)
  BY <1>4, StartProgress
<1>5. CASE \E r \in RunId : EnsureCalled(r)
  <2>1. PICK r \in RunId : EnsureCalled(r)
    BY <1>5
  <2>2. UNCHANGED <<runs, events>> /\ (EnsureWorker(r) \/ UNCHANGED exec)
    BY <2>1 DEF EnsureCalled
  <2>3. CASE EnsureWorker(r)
    BY <2>2, <2>3, EnsureWorkerProgress
  <2>4. CASE UNCHANGED exec
    BY <2>2, <2>4 DEF ProgressInv, Over
  <2> QED BY <2>2, <2>3, <2>4
<1>6. CASE \E r \in RunId : RecoverRun(r)
  BY <1>6, RecoverRunProgress
<1>7. CASE RecoverRaises \/ Crash
  <2>1. UNCHANGED <<runs, events>> /\ \A e \in ExecId : exec'[e] = Vacant
    BY <1>7 DEF RecoverRaises, Crash, LoseProcess
  <2> QED BY <2>1, VacantType DEF ProgressInv, Over
<1>8. CASE \/ \E i \in Incident, m \in Mode : Boot(i, m)
           \/ StoreFails \/ StoreReturns \/ UNCHANGED vars
  <2>1. UNCHANGED <<runs, events, exec>>
    BY <1>8 DEF Boot, StoreFails, StoreReturns, vars
  <2> QED BY <2>1 DEF ProgressInv, Over
<1> QED BY <1>1, <1>2, <1>3, <1>4, <1>5, <1>6, <1>7, <1>8 DEF Next

\* The three invariants together hold in every reachable state.
LEMMA ProgressAlways == Spec => [](TypeInv /\ WorkerInv /\ ProgressInv)
<1>1. Init /\ [][Next]_vars => []ProgressInv
  <2>1. Spec => [](TypeInv /\ WorkerInv)
    BY WorkersAlwaysRegistered
  <2> QED BY <2>1, InitProgress, NextProgress, PTL DEF Spec
<1> QED BY <1>1, WorkersAlwaysRegistered, PTL DEF Spec

---------------------------------------------------------------------------
\* Whatever crashes, outages and stray agents do, a checkpoint holds whole waves.
THEOREM CheckpointsAreWholeWaves == Spec => []CheckpointIsWholeWaves
<1>1. TypeInv /\ ProgressInv => CheckpointIsWholeWaves
  BY RowExists DEF TypeInv, TypeOK, ProgressInv, RowOk, WholeWaves, CheckpointIsWholeWaves
<1> QED BY <1>1, ProgressAlways, PTL

\* In every checkpoint the skipped agents are those with a failed or skipped dependency.
THEOREM FailuresAreIsolated == Spec => []SkipsFollowFailures
<1>1. TypeInv /\ ProgressInv => SkipsFollowFailures
  BY RowExists DEF TypeInv, TypeOK, ProgressInv, RowOk, SkipsIn, SkipsFollowFailures
<1> QED BY <1>1, ProgressAlways, PTL

\* A wave is announced in the log only when its checkpoint has been committed.
THEOREM AnnouncedMeansSaved == Spec => []AnnouncedWavesAreDurable
<1>1. ProgressInv => AnnouncedWavesAreDurable
  BY DEF ProgressInv, LogOk, AnnouncedWavesAreDurable
<1> QED BY <1>1, ProgressAlways, PTL

\* No worker calls an agent again whose wave the log announces as checkpointed.
THEOREM NoAgentRunsTwice == Spec => CompletedWavesStayDone
<1> DEFINE A == \A e \in ExecId, a \in Agent :
                   exec[e].at[a] = "begin" /\ exec'[e].at[a] = "running" /\ ~Over(e) =>
                       \A ev \in events[exec[e].run] : a \notin Resolved[ev.wave]
<1>1. TypeInv /\ ProgressInv => A
  <2> SUFFICES ASSUME TypeInv, ProgressInv, NEW e \in ExecId, NEW a \in Agent,
                      exec[e].at[a] = "begin", ~Over(e), NEW ev \in events[exec[e].run]
               PROVE  a \notin Resolved[ev.wave]
    OBVIOUS
  <2>1. /\ exec[e].run \in RunId /\ runs[exec[e].run] \in Row
        /\ CallOk(exec[e], runs[exec[e].run])
    BY Basics DEF ProgressInv
  <2>2. exec[e] \in Exec /\ exec[e].wave \in Nat /\ ev.wave \in Nat
    BY <2>1 DEF TypeInv, TypeOK, Exec, Event
  <2>3. a \in Wave(exec[e].wave) /\ exec[e].wave = runs[exec[e].run].nextWave
    BY <2>1, <2>2, AtWork DEF Over
  <2>4. ev.wave <= exec[e].wave
    BY <2>1, <2>3 DEF ProgressInv, LogOk
  <2>5. Resolved[ev.wave] \subseteq Resolved[exec[e].wave]
    BY <2>2, <2>4, ResolvedGrows
  <2> QED BY <2>3, <2>5 DEF Wave
<1>2. TypeInv /\ ProgressInv => [A]_vars
  BY <1>1
<1>3. Spec => [][A]_vars
  BY <1>2, ProgressAlways, PTL
<1> QED BY <1>3 DEF CompletedWavesStayDone

(***************************************************************************)
(* Part 5: the log and the results, as long as the store has not failed.   *)
(* The log of a run has no gap because its only recorder counts from the   *)
(* log's own length, and because no agent is left behind by a call that    *)
(* failed: without an outage a call fails between waves only.              *)
(***************************************************************************)
Numbered(log) == IsFiniteSet(log) /\ {ev.seq : ev \in log} = 1..Cardinality(log)

\* The places of a call in which nothing of it may be recording.
Quiet == {"created", "fail", "done", "gone"}

Healthy == outages = 0 => store = "ok" /\ (proc.up => proc.attached)

\* The registry holds calls whose done callback is still to come, each under its run.
TasksPointBack ==
    \A r \in RunId : tasks[r] # NoTask =>
        exec[tasks[r]].run = r /\ exec[tasks[r]].pc # "gone"

LogsNumbered == \A r \in RunId : Numbered(events[r])

ResultsWhole ==
    \A r \in RunId : runs[r] \in Row /\ runs[r].result.present =>
        runs[r].result.history = {ev.seq : ev \in events[r]}

QuietCalls == \A e \in ExecId : exec[e].pc \in Quiet => Idle(exec[e])

RecordersAtEnd ==
    \A e \in ExecId : exec[e].pc \notin Quiet =>
        exec[e].seq = Cardinality(events[exec[e].run])

LogInv ==
    /\ Healthy /\ TasksPointBack
    /\ outages = 0 => LogsNumbered /\ ResultsWhole /\ QuietCalls /\ RecordersAtEnd

Inv == TypeInv /\ WorkerInv /\ ProgressInv

\* A call not in a quiet place is at work on an unsettled run, which is no other call's.
LEMMA LoneWorker ==
    ASSUME Inv, NEW e \in ExecId, ~Over(e)
    PROVE  /\ exec[e].run \in RunId /\ runs[exec[e].run] \in Row
           /\ Unsettled(runs[exec[e].run]) /\ ~runs[exec[e].run].result.present
           /\ \A f \in ExecId \ {e} : ~Over(f) => exec[f].run # exec[e].run
<1>1. exec[e].run \in RunId /\ runs[exec[e].run] \in Row
  BY Basics DEF Inv
<1>2. Unsettled(runs[exec[e].run])
  BY DEF Inv, WorkerInv, WorkersRegistered, Registered
<1>3. ~runs[exec[e].run].result.present
  BY <1>1, <1>2 DEF Inv, WorkerInv, ResultIffAnswered
<1>4. \A f \in ExecId \ {e} : ~Over(f) => exec[f].run # exec[e].run
  BY DEF Inv, WorkerInv, WorkersRegistered, Registered
<1> QED BY <1>1, <1>2, <1>3, <1>4

\* Nothing is in the memory of a process that is down; a running one has a store.
LEMMA WorkerHasStore ==
    ASSUME Inv, LogInv, outages = 0, NEW e \in ExecId, exec[e] # Vacant
    PROVE  Answers
BY DEF Inv, WorkerInv, DownIsEmpty, LogInv, Healthy, Answers

\* One more event with the next number leaves a numbered log.
LEMMA NumberedGrows ==
    ASSUME NEW log \in SUBSET Event, Numbered(log), NEW wave
    PROVE  LET n == Cardinality(log)
               more == log \union {[seq |-> n + 1, wave |-> wave]}
           IN  /\ n \in Nat /\ SequenceFree(log, n + 1)
               /\ Numbered(more) /\ Cardinality(more) = n + 1
<1> DEFINE n == Cardinality(log)
           new == [seq |-> n + 1, wave |-> wave]
           more == log \union {new}
<1>1. n \in Nat /\ IsFiniteSet(log)
  BY FS_CardinalityType DEF Numbered
<1>2. \A ev \in log : ev.seq \in 1..n
  BY DEF Numbered
<1>3. SequenceFree(log, n + 1)
  BY <1>1, <1>2 DEF SequenceFree
<1>4. new.seq = n + 1 /\ new \notin log
  BY <1>3 DEF SequenceFree
<1>5. IsFiniteSet(more) /\ Cardinality(more) = n + 1
  BY <1>1, <1>4, FS_AddElement
<1>6. {ev.seq : ev \in more} = {ev.seq : ev \in log} \union {n + 1}
  BY <1>4
<1>7. {ev.seq : ev \in more} = 1..n + 1
  BY <1>1, <1>6 DEF Numbered
<1> QED BY <1>1, <1>3, <1>5, <1>7 DEF Numbered

\* The last number of a numbered log is its length.
LEMMA LatestIsLength ==
    ASSUME NEW log \in SUBSET Event, Numbered(log)
    PROVE  LatestSequence(log) = Cardinality(log)
<1> DEFINE n == Cardinality(log)
<1>1. n \in Nat
  BY FS_CardinalityType DEF Numbered
<1>2. CASE log = {}
  BY <1>2, FS_EmptySet DEF LatestSequence
<1>3. CASE log # {}
  <2> DEFINE seqs == {ev.seq : ev \in log}
             IsLast(s) == \A ev \in log : ev.seq <= s
  <2>1. seqs = 1..n
    BY DEF Numbered
  <2>2. n # 0
    BY <1>3, FS_EmptySet DEF Numbered
  <2>3. n \in seqs /\ IsLast(n)
    BY <1>1, <2>1, <2>2
  <2>4. \A s \in seqs : IsLast(s) => n <= s
    BY <2>3
  <2>5. \A s \in seqs : s <= n /\ s \in Nat
    BY <1>1, <2>1
  <2> DEFINE last == CHOOSE s \in seqs : IsLast(s)
  <2>6. last \in seqs /\ IsLast(last)
    BY <2>3, Zenon
  <2>7. LatestSequence(log) = last
    BY <1>3 DEF LatestSequence
  <2> HIDE DEF last, seqs, IsLast
  <2>8. last = n
    BY <1>1, <2>4, <2>5, <2>6
  <2> QED BY <2>7, <2>8
<1> QED BY <1>2, <1>3

---------------------------------------------------------------------------
\* Without an outage a record of a call at work is committed under the next number.
LEMMA RecordCommits ==
    ASSUME Inv, LogInv, outages = 0, NEW e \in ExecId, exec[e].pc \notin Quiet,
           NEW wave \in Nat, NEW ok \in Exec, NEW bad \in Exec, Record(e, wave, ok, bad)
    PROVE  LET r == exec[e].run
           IN  /\ Numbered(events'[r]) /\ \A q \in RunId \ {r} : events'[q] = events[q]
               /\ exec'[e].pc = ok.pc /\ exec'[e].at = ok.at
               /\ exec'[e].seq = Cardinality(events'[r])
<1> DEFINE r == exec[e].run
           n == Cardinality(events[r])
           s == exec[e].seq + 1
<1>1. r \in RunId /\ exec \in [ExecId -> Exec] /\ events \in [RunId -> SUBSET Event]
  BY LoneWorker DEF Over, Quiet, Inv, TypeInv, TypeOK
<1>2. exec[e].seq = n /\ Numbered(events[r]) /\ events[r] \in SUBSET Event
  BY <1>1 DEF LogInv, RecordersAtEnd, LogsNumbered
<1>3. /\ SequenceFree(events[r], s)
      /\ Numbered(events[r] \union {[seq |-> s, wave |-> wave]})
      /\ Cardinality(events[r] \union {[seq |-> s, wave |-> wave]}) = s
  BY <1>2, NumberedGrows
<1>4. Answers
  BY WorkerHasStore, VacantType DEF Quiet
<1>5. /\ events' = [events EXCEPT ![r] = @ \union {[seq |-> s, wave |-> wave]}]
      /\ exec' = [exec EXCEPT ![e] = [ok EXCEPT !.seq = s]]
  BY <1>3, <1>4 DEF Record
<1>6. /\ events'[r] = events[r] \union {[seq |-> s, wave |-> wave]}
      /\ \A q \in RunId \ {r} : events'[q] = events[q]
      /\ exec'[e] = [ok EXCEPT !.seq = s]
  BY <1>1, <1>5
<1>7. exec'[e].pc = ok.pc /\ exec'[e].at = ok.at /\ exec'[e].seq = s
  BY <1>6 DEF Exec
<1> QED BY <1>3, <1>6, <1>7

\* What has to hold when a live call has made a step of its own.
LEMMA OwnStepLog ==
    ASSUME Inv, LogInv, NEW e \in ExecId, ~Over(e), OwnStep(e),
           UNCHANGED <<tasks, calls, recovering, world>>,
           \A q \in RunId \ {exec[e].run} : runs'[q] = runs[q] /\ events'[q] = events[q],
           exec'[e].pc # "gone",
           outages = 0 =>
               /\ Numbered(events'[exec[e].run])
               /\ runs'[exec[e].run].result.present =>
                      runs'[exec[e].run].result.history = {ev.seq : ev \in events'[exec[e].run]}
               /\ exec'[e].pc \in Quiet => Idle(exec'[e])
               /\ exec'[e].pc \notin Quiet => exec'[e].seq = Cardinality(events'[exec[e].run])
    PROVE  LogInv'
<1> DEFINE r == exec[e].run
<1>1. Healthy'
  BY DEF LogInv, Healthy, world
<1>2. TasksPointBack'
  <2> SUFFICES ASSUME NEW q \in RunId, tasks[q] # NoTask
               PROVE  exec'[tasks[q]].run = q /\ exec'[tasks[q]].pc # "gone"
    BY DEF TasksPointBack
  <2>1. tasks[q] \in ExecId /\ exec[tasks[q]].run = q /\ exec[tasks[q]].pc # "gone"
    BY DEF LogInv, TasksPointBack, Inv, TypeInv, TypeOK
  <2> QED BY <2>1 DEF OwnStep
<1>3. ASSUME outages = 0 PROVE LogsNumbered' /\ ResultsWhole' /\ QuietCalls'
  <2>1. LogsNumbered' /\ ResultsWhole'
    BY <1>3 DEF LogInv, LogsNumbered, ResultsWhole
  <2>2. QuietCalls'
    BY <1>3 DEF LogInv, QuietCalls, OwnStep
  <2> QED BY <2>1, <2>2
<1>4. ASSUME outages = 0 PROVE RecordersAtEnd'
  <2> SUFFICES ASSUME NEW f \in ExecId, exec'[f].pc \notin Quiet
               PROVE  exec'[f].seq = Cardinality(events'[exec'[f].run])
    BY DEF RecordersAtEnd
  <2>1. CASE f = e
    BY <1>4, <2>1 DEF OwnStep
  <2>2. CASE f # e
    <3>1. exec'[f] = exec[f] /\ ~Over(f)
      BY <2>2 DEF OwnStep, Over, Quiet
    <3>2. exec[f].run \in RunId /\ exec[f].run # r
      BY <2>2, <3>1, LoneWorker
    <3> QED BY <1>4, <3>1, <3>2 DEF LogInv, RecordersAtEnd
  <2> QED BY <2>1, <2>2
<1> QED BY <1>1, <1>2, <1>3, <1>4 DEF LogInv, world

\* A record by a call at work.
LEMMA RecordLog ==
    ASSUME Inv, LogInv, NEW e \in ExecId, exec[e].pc \notin Quiet, OwnStep(e), InPlace(e),
           UNCHANGED <<runs, tasks, calls, recovering, world>>,
           NEW wave \in Nat, NEW ok \in Exec, NEW bad \in Exec, Record(e, wave, ok, bad),
           ok.pc \notin Quiet, bad.pc # "gone"
    PROVE  LogInv'
<1>1. ~Over(e)
  BY DEF Over, Quiet
<1>2. \A q \in RunId \ {exec[e].run} : events'[q] = events[q]
  BY RecordOutcome DEF Inv
<1>3. exec'[e].pc # "gone"
  BY RecordOutcome DEF Inv, Quiet
<1>4. outages = 0 => /\ Numbered(events'[exec[e].run])
                     /\ exec'[e].pc \notin Quiet
                     /\ exec'[e].seq = Cardinality(events'[exec[e].run])
  BY RecordCommits
<1>5. ~runs[exec[e].run].result.present
  BY <1>1, LoneWorker
<1> QED BY <1>1, <1>2, <1>3, <1>4, <1>5, OwnStepLog

\* A step of an agent is a record of its call, or the exception of an attempt.
RecordOfAgent(e) ==
    \E ok \in Exec, bad \in Exec :
        /\ Record(e, 0, ok, bad)
        /\ ok.pc = exec[e].pc /\ bad.pc \in {exec[e].pc, "fail"}

\* A step of an agent records an event, or is the failure that needs none.
LEMMA AgentStepShape ==
    ASSUME Inv, NEW e \in ExecId, NEW a \in Agent, AgentStep(e, a)
    PROVE  exec[e].at[a] # "idle" /\ (RecordOfAgent(e) \/ AgentRaises(e, a))
<1> DEFINE x == exec[e]
<1>1. x \in Exec /\ x.at[a] # "idle"
  BY DEF Inv, TypeInv, TypeOK, AgentStep, AgentSkips, AgentStarts, AgentReasons, AgentRaises,
         AgentRetries, AgentGivesUp, AgentCompletes
<1>2. \A y \in Exec : Raised(y, a) \in Exec /\ Raised(y, a).pc \in {y.pc, "fail"}
  BY RaisedType DEF Raised, Exec
<1>3. \A outcome \in Outcome :
         Returned(x, a, outcome) \in Exec /\ Returned(x, a, outcome).pc = x.pc
  BY <1>1, ReturnedType DEF Returned, Exec
<1>4. Outcome = {"completed", "failed", "skipped"}
  BY DEF Outcome
<1>5. CASE AgentSkips(e, a) \/ AgentGivesUp(e, a) \/ AgentCompletes(e, a)
  BY <1>1, <1>2, <1>3, <1>4, <1>5 DEF AgentSkips, AgentGivesUp, AgentCompletes, RecordOfAgent
<1>6. CASE AgentStarts(e, a)
  <2> DEFINE ok == [x EXCEPT !.at[a] = "running", !.attempts[a] = 1]
  <2>1. ok \in Exec /\ ok.pc = x.pc
    BY <1>1 DEF Exec, AgentPc
  <2>2. Record(e, 0, ok, Raised(x, a))
    BY <1>6 DEF AgentStarts
  <2> HIDE DEF ok
  <2> QED BY <1>1, <1>2, <2>1, <2>2 DEF RecordOfAgent
<1>7. CASE AgentReasons(e, a)
  <2> DEFINE ok == [x EXCEPT !.at[a] = "reasoned"]
             bad == [x EXCEPT !.at[a] = "failing"]
  <2>1. ok \in Exec /\ bad \in Exec /\ ok.pc = x.pc /\ bad.pc = x.pc
    BY <1>1 DEF Exec, AgentPc
  <2>2. Record(e, 0, ok, bad)
    BY <1>7 DEF AgentReasons
  <2> HIDE DEF ok, bad
  <2> QED BY <1>1, <2>1, <2>2 DEF RecordOfAgent
<1>8. CASE AgentRetries(e, a)
  <2> DEFINE attempts == [x.attempts EXCEPT ![a] = @ + 1]
             ok == [x EXCEPT !.at[a] = "running", !.attempts = attempts]
  <2>1. attempts \in [Agent -> Nat]
    BY <1>1 DEF Exec
  <2>2. ok \in Exec /\ ok.pc = x.pc
    BY <1>1, <2>1 DEF Exec, AgentPc
  <2>3. Record(e, 0, ok, Raised(x, a))
    BY <1>8 DEF AgentRetries
  <2> HIDE DEF ok
  <2> QED BY <1>1, <1>2, <2>2, <2>3 DEF RecordOfAgent
<1> QED BY <1>1, <1>5, <1>6, <1>7, <1>8 DEF AgentStep

\* Without an outage no agent of a call in a quiet place is at work; with one, the only
\* thing to keep is that no registered call is gone.
LEMMA AgentStepLog ==
    ASSUME Inv, LogInv, NEW e \in ExecId, NEW a \in Agent, AgentStep(e, a)
    PROVE  LogInv'
<1> DEFINE x == exec[e]
<1>1. InPlace(e) /\ OwnStep(e) /\ UNCHANGED <<runs, tasks, calls, recovering, world>>
  BY AgentStepIsOwnStep DEF Inv, AgentStep
<1>2. x \in Exec /\ x.at[a] # "idle" /\ (RecordOfAgent(e) \/ AgentRaises(e, a))
  BY AgentStepShape DEF Inv, TypeInv, TypeOK
<1>3. ASSUME AgentRaises(e, a)
      PROVE  exec'[e].pc = x.pc /\ exec'[e].seq = x.seq /\ events' = events
  BY <1>2, <1>3 DEF AgentRaises, Inv, TypeInv, TypeOK, Exec
<1>4. CASE outages # 0
  <2>1. exec'[e].pc \in {x.pc, "fail"}
    <3>1. CASE RecordOfAgent(e)
      <4>1. PICK ok \in Exec, bad \in Exec :
               Record(e, 0, ok, bad) /\ ok.pc = x.pc /\ bad.pc \in {x.pc, "fail"}
        BY <3>1 DEF RecordOfAgent
      <4>2. exec'[e].pc \in {ok.pc, bad.pc}
        BY <4>1, RecordPc DEF Inv
      <4> QED BY <4>1, <4>2
    <3> QED BY <1>2, <1>3, <3>1
  <2>2. \A q \in RunId : tasks[q] # NoTask => tasks[q] \in ExecId
    BY DEF Inv, TypeInv, TypeOK
  <2>3. TasksPointBack'
    BY <1>1, <2>1, <2>2 DEF LogInv, TasksPointBack, OwnStep
  <2> QED BY <1>1, <1>4, <2>3 DEF LogInv, Healthy, world
<1>5. CASE outages = 0
  <2>1. x.pc \notin Quiet
    BY <1>2, <1>5 DEF LogInv, QuietCalls, Idle
  <2>2. CASE RecordOfAgent(e)
    <3>1. PICK ok \in Exec, bad \in Exec :
             Record(e, 0, ok, bad) /\ ok.pc = x.pc /\ bad.pc \in {x.pc, "fail"}
      BY <2>2 DEF RecordOfAgent
    <3>2. 0 \in Nat /\ bad.pc # "gone"
      BY <2>1, <3>1 DEF Quiet
    <3> QED BY <1>1, <2>1, <3>1, <3>2, RecordLog
  <2>3. CASE AgentRaises(e, a)
    <3>1. exec'[e].pc = x.pc /\ exec'[e].seq = x.seq /\ events' = events
      BY <1>3, <2>3
    <3>2. ~Over(e) /\ x.pc # "gone"
      BY <2>1 DEF Over, Quiet
    <3>3. x.run \in RunId /\ ~runs[x.run].result.present
      BY <3>2, LoneWorker
    <3>4. Numbered(events[x.run]) /\ x.seq = Cardinality(events[x.run])
      BY <1>5, <2>1, <3>3 DEF LogInv, LogsNumbered, RecordersAtEnd
    <3> QED BY <1>1, <2>1, <3>1, <3>2, <3>3, <3>4, OwnStepLog
  <2> QED BY <1>2, <2>2, <2>3
<1> QED BY <1>4, <1>5

\* What a step of a call itself does to its log, its row's result and its agents.
LEMMA TaskStepLog ==
    ASSUME Inv, LogInv, NEW e \in ExecId, TaskStep(e)
    PROVE  LogInv'
<1> DEFINE x == exec[e]
           r == x.run
<1>1. InPlace(e) /\ OwnStep(e) /\ UNCHANGED <<tasks, calls, recovering, world>>
  BY TaskStepIsOwnStep DEF Inv, TaskStep
<1>2. ~Over(e)
  BY DEF Over, TaskStep, Begin, Introduce, CheckpointWave, MarkCheckpoint, FindConflict,
     Resolve, Brief, Finish, AssemblyRaises, SettleRun, AbandonRun, RecordIn
<1>3. /\ r \in RunId /\ runs[r] \in Row /\ Unsettled(runs[r]) /\ ~runs[r].result.present
      /\ x \in Exec /\ exec \in [ExecId -> Exec] /\ runs \in [RunId -> Row \union {NoRow}]
      /\ events[r] \in SUBSET Event
  BY <1>2, LoneWorker DEF Inv, TypeInv, TypeOK
<1>4. CallOk(x, runs[r])
  BY <1>2 DEF Inv, ProgressInv
<1>5. x.pc \in Quiet \union {"mark", "intro"} \union Closing => (outages = 0 => Idle(x))
  BY <1>4 DEF CallOk, InStep, LogInv, QuietCalls
<1>6. outages = 0 => Numbered(events[r]) /\ (x.pc \notin Quiet => x.seq = Cardinality(events[r]))
  BY <1>3 DEF LogInv, LogsNumbered, RecordersAtEnd
<1>7. \A pc \in Pc : /\ At(x, pc) \in Exec /\ At(x, pc).pc = pc
                     /\ At(x, pc).at = x.at /\ At(x, pc).seq = x.seq
  BY <1>3, AtType DEF At, Exec
<1>8. {"done", "fail", "mark"} \subseteq Pc /\ "mark" \notin Quiet
  BY DEF Pc, Quiet
  \* A step that leaves the log alone and moves to another place, its agents idle.
<1>9. ASSUME NEW pc \in {"done", "fail", "mark"}, events' = events,
             exec' = [exec EXCEPT ![e] = At(@, pc)],
             outages = 0 => Idle(x),
             pc = "mark" => x.pc \notin Quiet,
             NEW new, runs' = [runs EXCEPT ![r] = new],
             new.result.present => new.result.history = {ev.seq : ev \in events[r]}
      PROVE  LogInv'
  <2>1. exec'[e] = At(x, pc) /\ At(x, pc).pc = pc /\ At(x, pc).at = x.at /\ At(x, pc).seq = x.seq
    BY <1>3, <1>7, <1>8, <1>9
  <2>2. runs'[r] = new /\ \A q \in RunId \ {r} : runs'[q] = runs[q]
    BY <1>3, <1>9
  <2>3. exec'[e].pc # "gone" /\ (exec'[e].pc \notin Quiet => x.pc \notin Quiet)
    BY <1>9, <2>1 DEF Quiet
  <2>4. outages = 0 => Idle(exec'[e])
    BY <1>9, <2>1 DEF Idle
  <2>5. exec'[e].seq = x.seq
    BY <2>1
  <2> QED BY <1>1, <1>2, <1>6, <1>9, <2>2, <2>3, <2>4, <2>5, OwnStepLog
  \* A record.
<1>10. ASSUME NEW wave \in Nat, NEW ok \in Exec, ok.pc \notin Quiet, x.pc \notin Quiet,
              runs' = runs, Record(e, wave, ok, At(x, "fail"))
       PROVE  LogInv'
  BY <1>1, <1>7, <1>8, <1>10, RecordLog
<1>11. runs = [runs EXCEPT ![r] = runs[r]]
  BY <1>3
<1>12. CASE Begin(e)
  <2> DEFINE row == ClaimRun(runs[r])
  <2>1. row.result = runs[r].result
    BY <1>3 DEF ClaimRun, Row
  <2>2. x.pc = "created" /\ (outages = 0 => Idle(x))
    BY <1>5, <1>12 DEF Begin, Quiet
  <2>3. CASE /\ runs' = [runs EXCEPT ![r] = row] /\ events' = events
             /\ exec' = [exec EXCEPT ![e] = At(@, "done")]
    <3> HIDE DEF row
    <3> QED BY <1>3, <1>9, <2>1, <2>2, <2>3
  <2>4. CASE runs' = runs /\ events' = events /\ exec' = [exec EXCEPT ![e] = At(@, "fail")]
    BY <1>3, <1>9, <1>11, <2>2, <2>4
  <2>5. CASE /\ runs' = [runs EXCEPT ![r] = row] /\ events' = events
             /\ exec' = [exec EXCEPT ![e] =
                    [@ EXCEPT !.pc = "intro", !.seq = LatestSequence(events[r]),
                              !.wave = row.snapshot.nextWave, !.results = row.snapshot.results]]
    <3>1. exec'[e].pc = "intro" /\ exec'[e].seq = LatestSequence(events[r])
      BY <1>3, <2>5 DEF Exec
    <3>2. outages = 0 => exec'[e].seq = Cardinality(events[r])
      BY <1>3, <1>6, <3>1, LatestIsLength
    <3>3. runs'[r] = row /\ \A q \in RunId \ {r} : runs'[q] = runs[q]
      BY <1>3, <2>5
    <3> HIDE DEF row
    <3> QED BY <1>1, <1>2, <1>3, <1>6, <2>1, <2>5, <3>1, <3>2, <3>3, OwnStepLog DEF Quiet
  <2> QED BY <1>12, <2>3, <2>4, <2>5 DEF Begin
<1>13. CASE Introduce(e) \/ MarkCheckpoint(e)
  <2>1. PICK w \in Nat, wave \in Nat :
           /\ x.pc \in {"intro", "mark"} /\ runs' = runs
           /\ Record(e, wave, EnterWave(x, w), At(x, "fail"))
    <3>1. x.wave \in Nat /\ x.wave + 1 \in Nat /\ 0 \in Nat
      BY <1>3 DEF Exec
    <3> QED BY <1>13, <3>1 DEF Introduce, MarkCheckpoint, RecordIn
  <2>2. EnterWave(x, w) \in Exec /\ EnterWave(x, w).pc \in {"wave", "reconcile"}
    BY <1>3, EnterWaveType DEF EnterWave, Exec
  <2> QED BY <1>10, <2>1, <2>2 DEF Quiet
<1>14. CASE FindConflict(e) \/ Resolve(e) \/ Brief(e) \/ Finish(e)
  <2>1. PICK pc \in {"resolve", "brief", "finish", "settle"} :
           x.pc \in Closing /\ runs' = runs /\ Record(e, 0, At(x, pc), At(x, "fail"))
    BY <1>14 DEF FindConflict, Resolve, Brief, Finish, RecordIn, Closing
  <2>2. pc \in Pc /\ pc \notin Quiet /\ x.pc \notin Quiet /\ 0 \in Nat
    BY <2>1 DEF Pc, Quiet, Closing
  <2>3. At(x, pc) \in Exec /\ At(x, pc).pc = pc
    BY <1>7, <2>2
  <2> QED BY <1>10, <2>1, <2>2, <2>3
<1>15. CASE AssemblyRaises(e)
  <2>1. /\ x.pc \in Closing /\ runs' = runs /\ events' = events
        /\ exec' = [exec EXCEPT ![e] = At(@, "fail")]
    BY <1>15 DEF AssemblyRaises, Closing
  <2> QED BY <1>3, <1>5, <1>9, <1>11, <2>1
<1>16. CASE CheckpointWave(e)
  <2> DEFINE row == SaveCheckpoint(runs[r], x.wave + 1, x.results)
  <2>1. row.result = runs[r].result
    BY <1>3 DEF SaveCheckpoint, Row
  <2>2. x.pc = "wave" /\ Idle(x) /\ x.pc \notin Quiet
    BY <1>16 DEF CheckpointWave, Idle, Quiet
  <2>3. CASE /\ runs' = [runs EXCEPT ![r] = row] /\ events' = events
             /\ exec' = [exec EXCEPT ![e] = At(@, "mark")]
    <3> HIDE DEF row
    <3> QED BY <1>3, <1>9, <2>1, <2>2, <2>3
  <2>4. CASE runs' = runs /\ events' = events /\ exec' = [exec EXCEPT ![e] = At(@, "fail")]
    BY <1>3, <1>9, <1>11, <2>2, <2>4
  <2> QED BY <1>16, <2>3, <2>4 DEF CheckpointWave
<1>17. CASE SettleRun(e)
  <2> DEFINE row == CompleteRun(runs[r], FinalStatus(x.results), {ev.seq : ev \in events[r]})
  <2>1. row.result.history = {ev.seq : ev \in events[r]}
    BY <1>3 DEF CompleteRun, Row
  <2>2. x.pc \in Closing
    BY <1>17 DEF SettleRun, Closing
  <2>3. CASE /\ runs' = [runs EXCEPT ![r] = row] /\ events' = events
             /\ exec' = [exec EXCEPT ![e] = At(@, "done")]
    <3> HIDE DEF row
    <3> QED BY <1>3, <1>5, <1>9, <2>1, <2>2, <2>3
  <2>4. CASE runs' = runs /\ events' = events /\ exec' = [exec EXCEPT ![e] = At(@, "fail")]
    BY <1>3, <1>5, <1>9, <1>11, <2>2, <2>4
  <2> QED BY <1>17, <2>3, <2>4 DEF SettleRun
<1>18. CASE AbandonRun(e)
  <2> DEFINE row == IF Answers /\ Unsettled(runs[r]) THEN FailRun(runs[r]) ELSE runs[r]
  <2>1. row.result = runs[r].result
    BY <1>3 DEF FailRun, Row
  <2>2. /\ x.pc \in Quiet /\ runs' = [runs EXCEPT ![r] = row] /\ events' = events
        /\ exec' = [exec EXCEPT ![e] = At(@, "done")]
    BY <1>18 DEF AbandonRun, Quiet
  <2> HIDE DEF row
  <2> QED BY <1>3, <1>5, <1>9, <2>1, <2>2
<1> QED BY <1>12, <1>13, <1>14, <1>15, <1>16, <1>17, <1>18 DEF TaskStep

\* The done callback leaves the registered calls registered.
LEMMA RemoveTaskLog ==
    ASSUME Inv, LogInv, NEW e \in ExecId, RemoveTask(e)
    PROVE  LogInv'
<1>1. /\ UNCHANGED <<runs, events, world>>
      /\ \A f \in ExecId \ {e} : exec'[f] = exec[f]
      /\ exec'[e].pc = "gone" /\ exec[e].pc = "done"
      /\ exec'[e].at = exec[e].at /\ exec'[e].run = exec[e].run
  BY Basics DEF Inv, RemoveTask, Exec
<1>2. TasksPointBack'
  <2> SUFFICES ASSUME NEW q \in RunId, tasks'[q] # NoTask
               PROVE  exec'[tasks'[q]].run = q /\ exec'[tasks'[q]].pc # "gone"
    BY DEF TasksPointBack
  <2>1. tasks'[q] = tasks[q] /\ (q = exec[e].run => tasks[q] # e)
    BY Basics DEF Inv, RemoveTask
  <2>2. tasks[q] \in ExecId /\ exec[tasks[q]].run = q /\ exec[tasks[q]].pc # "gone"
    BY <2>1, Basics DEF Inv, LogInv, TasksPointBack
  <2>3. tasks[q] # e
    BY <2>1, <2>2
  <2> QED BY <1>1, <2>1, <2>2, <2>3
<1>3. ASSUME outages = 0 PROVE LogsNumbered' /\ ResultsWhole' /\ QuietCalls' /\ RecordersAtEnd'
  <2>1. LogsNumbered' /\ ResultsWhole'
    BY <1>1, <1>3 DEF LogInv, LogsNumbered, ResultsWhole
  <2>2. QuietCalls' /\ RecordersAtEnd'
    BY <1>1, <1>3 DEF LogInv, QuietCalls, RecordersAtEnd, Quiet, Idle
  <2> QED BY <2>1, <2>2
<1> QED BY <1>1, <1>2, <1>3 DEF LogInv, Healthy, world

\* _ensure_worker registers a call that has not begun.
LEMMA EnsureWorkerLog ==
    ASSUME Inv, LogInv, NEW r \in RunId, EnsureWorker(r), UNCHANGED <<runs, events, world>>
    PROVE  LogInv'
<1>1. CASE UNCHANGED <<exec, tasks>>
  BY <1>1 DEF LogInv, Healthy, TasksPointBack, LogsNumbered, ResultsWhole, QuietCalls,
     RecordersAtEnd, world
<1>2. CASE \E e \in ExecId : /\ Free(e) /\ exec' = [exec EXCEPT ![e] = NewExec(r)]
                             /\ tasks' = [tasks EXCEPT ![r] = e]
  <2>1. PICK e \in ExecId : /\ Free(e) /\ exec' = [exec EXCEPT ![e] = NewExec(r)]
                            /\ tasks' = [tasks EXCEPT ![r] = e]
    BY <1>2
  <2>2. /\ exec'[e].run = r /\ exec'[e].pc = "created" /\ Idle(exec'[e])
        /\ tasks'[r] = e /\ exec[e].pc = "gone"
        /\ \A f \in ExecId \ {e} : exec'[f] = exec[f]
        /\ \A q \in RunId \ {r} : tasks'[q] = tasks[q]
    BY <2>1, Basics DEF Inv, NewExec, Idle, Free
  <2>3. TasksPointBack'
    BY <2>2, Basics DEF LogInv, Inv, TasksPointBack
  <2>4. outages = 0 => LogsNumbered' /\ ResultsWhole' /\ QuietCalls' /\ RecordersAtEnd'
    BY <2>2 DEF LogInv, LogsNumbered, ResultsWhole, QuietCalls, RecordersAtEnd, Quiet
  <2> QED BY <2>3, <2>4 DEF LogInv, Healthy, world
<1> QED BY <1>1, <1>2 DEF EnsureWorker

\* The logs are empty at first,
LEMMA InitLog == Init => LogInv
<1> SUFFICES ASSUME Init PROVE LogInv
  OBVIOUS
<1>1. \A r \in RunId : runs[r] \notin Row /\ events[r] = {}
  BY RowExists DEF Init, Exists, NoRow
<1>2. Numbered({})
  BY FS_EmptySet DEF Numbered
<1>3. LogsNumbered /\ ResultsWhole
  BY <1>1, <1>2 DEF LogsNumbered, ResultsWhole
<1>4. QuietCalls /\ RecordersAtEnd
  BY VacantType DEF Init, QuietCalls, RecordersAtEnd, Quiet, Idle
<1>5. Healthy /\ TasksPointBack
  BY DEF Init, Healthy, TasksPointBack
<1> QED BY <1>3, <1>4, <1>5 DEF LogInv

\* every step keeps them numbered and whole,
LEMMA NextLog == Inv /\ LogInv /\ [Next]_vars => LogInv'
<1> SUFFICES ASSUME Inv, LogInv, [Next]_vars PROVE LogInv'
  OBVIOUS
<1>1. CASE \E e \in ExecId : TaskStep(e) \/ RemoveTask(e) \/ \E a \in Agent : AgentStep(e, a)
  BY <1>1, TaskStepLog, RemoveTaskLog, AgentStepLog
<1>2. CASE \E k \in RequestId : Start(k)
  <2>1. UNCHANGED <<events, exec, tasks, world>> /\ (runs' = runs \/ InsertStep)
    BY <1>2, StartRows DEF Inv, Start
  <2>2. \A r \in RunId : runs'[r] = runs[r] \/ ~runs'[r].result.present
    BY <2>1 DEF InsertStep, Inv, TypeInv, TypeOK, NewRow, NoResult
  <2>3. outages = 0 => ResultsWhole'
    BY <2>1, <2>2 DEF LogInv, ResultsWhole
  <2> QED BY <2>1, <2>3 DEF LogInv, Healthy, TasksPointBack, LogsNumbered, QuietCalls,
             RecordersAtEnd, world
<1>3. CASE \E r \in RunId : EnsureCalled(r)
  <2>1. PICK r \in RunId : EnsureCalled(r)
    BY <1>3
  <2>2. UNCHANGED <<runs, events, world>> /\ (EnsureWorker(r) \/ UNCHANGED <<exec, tasks>>)
    BY <2>1 DEF EnsureCalled
  <2>3. CASE EnsureWorker(r)
    BY <2>2, <2>3, EnsureWorkerLog
  <2>4. CASE UNCHANGED <<exec, tasks>>
    BY <2>2, <2>4 DEF LogInv, Healthy, TasksPointBack, LogsNumbered, ResultsWhole, QuietCalls,
       RecordersAtEnd, world
  <2> QED BY <2>2, <2>3, <2>4
<1>4. CASE \E r \in RunId : RecoverRun(r)
  <2>1. PICK r \in RunId : RecoverRun(r)
    BY <1>4
  <2>2. CASE EnsureWorker(r) /\ runs' = runs
    BY <2>1, <2>2, EnsureWorkerLog DEF RecoverRun
  <2>3. CASE runs' = [runs EXCEPT ![r] = FailRun(@)] /\ UNCHANGED <<exec, tasks>>
    <3>1. runs[r] \in Row /\ FailRun(runs[r]).result = runs[r].result
      BY <2>1 DEF RecoverRun, Inv, TypeInv, FailRun, Row
    <3>2. runs'[r].result = runs[r].result /\ \A q \in RunId \ {r} : runs'[q] = runs[q]
      BY <2>3, <3>1 DEF Inv, TypeInv, TypeOK
    <3>3. events' = events /\ UNCHANGED world
      BY <2>1 DEF RecoverRun
    <3>4. outages = 0 => ResultsWhole'
      BY <3>1, <3>2, <3>3 DEF LogInv, ResultsWhole
    <3> QED BY <2>3, <3>3, <3>4 DEF LogInv, Healthy, TasksPointBack, LogsNumbered, QuietCalls,
               RecordersAtEnd, world
  <2> QED BY <2>1, <2>2, <2>3 DEF RecoverRun
<1>5. CASE \E i \in Incident, m \in Mode : Boot(i, m)
  <2>1. UNCHANGED <<runs, events, exec, tasks, store, outages>> /\ proc'.attached = (store = "ok")
    BY <1>5 DEF Boot
  <2> QED BY <2>1 DEF LogInv, Healthy, TasksPointBack, LogsNumbered, ResultsWhole, QuietCalls,
             RecordersAtEnd
<1>6. CASE RecoverRaises \/ Crash
  <2>1. /\ UNCHANGED <<runs, events, store, outages>> /\ ~proc'.up
        /\ \A e \in ExecId : exec'[e] = Vacant
        /\ \A r \in RunId : tasks'[r] = NoTask
    BY <1>6 DEF RecoverRaises, Crash, LoseProcess, Inv, TypeInv, TypeOK
  <2>2. QuietCalls' /\ RecordersAtEnd'
    BY <2>1, VacantType DEF QuietCalls, RecordersAtEnd, Quiet, Idle
  <2> QED BY <2>1, <2>2 DEF LogInv, Healthy, TasksPointBack, LogsNumbered, ResultsWhole
<1>7. CASE StoreFails
  <2>1. outages' # 0 /\ UNCHANGED <<exec, tasks>>
    BY <1>7 DEF StoreFails, Inv, TypeInv, TypeOK
  <2> QED BY <2>1 DEF LogInv, Healthy, TasksPointBack
<1>8. CASE StoreReturns \/ UNCHANGED vars
  <2>1. /\ UNCHANGED <<runs, events, exec, tasks, proc, outages>>
        /\ outages = 0 => store' = store
    BY <1>8 DEF StoreReturns, vars, LogInv, Healthy
  <2> QED BY <2>1 DEF LogInv, Healthy, TasksPointBack, LogsNumbered, ResultsWhole, QuietCalls,
             RecordersAtEnd
<1> QED BY <1>1, <1>2, <1>3, <1>4, <1>5, <1>6, <1>7, <1>8 DEF Next

\* and so they always are.
LEMMA LogAlways == Spec => [](Inv /\ LogInv)
<1>1. Spec => []Inv
  BY ProgressAlways, PTL DEF Inv
<1> QED BY <1>1, InitLog, NextLog, PTL DEF Spec

---------------------------------------------------------------------------
\* Concurrent agents, restarts and retries number a run's events without gap or repetition.
THEOREM EventsAreNumbered == Spec => []LogHasNoGaps
<1>1. LogInv => LogHasNoGaps
  BY DEF LogInv, LogsNumbered, Numbered, LogHasNoGaps
<1> QED BY <1>1, LogAlways, PTL

\* The result of a run carries every event of it, those of earlier processes included.
THEOREM ResultsAreWhole == Spec => []ResultCarriesWholeHistory
<1>1. Inv /\ LogInv => ResultCarriesWholeHistory
  BY RowExists DEF Inv, TypeInv, TypeOK, LogInv, ResultsWhole, ResultCarriesWholeHistory
<1> QED BY <1>1, LogAlways, PTL

(***************************************************************************)
(* Part 6: only an outage strands a run.  While the store answers, whoever *)
(* lets go of an unfinished run hands it on: start() to _ensure_worker,    *)
(* recover() to _ensure_worker, a worker only to a settled row, and a      *)
(* process that is lost to the next one's recover().  The argument looks   *)
(* at one step, so it says of every later step, also after an outage, that *)
(* it strands no further run while the store answers.                      *)
(***************************************************************************)

\* A call that ends while the store answers has settled its run.
LEMMA EndMeansSettled ==
    ASSUME Inv, Answers, NEW e \in ExecId, TaskStep(e), Over(e)'
    PROVE  ~Unsettled(runs'[exec[e].run])
<1> DEFINE x == exec[e]
           r == x.run
<1>1. ~Over(e)
  BY DEF Over, TaskStep, Begin, Introduce, CheckpointWave, MarkCheckpoint, FindConflict,
     Resolve, Brief, Finish, AssemblyRaises, SettleRun, AbandonRun, RecordIn
<1>2. /\ r \in RunId /\ runs[r] \in Row /\ Unsettled(runs[r]) /\ ~runs[r].result.present
      /\ x \in Exec /\ exec \in [ExecId -> Exec] /\ runs \in [RunId -> Row \union {NoRow}]
  BY <1>1, LoneWorker DEF Inv, TypeInv, TypeOK
<1>3. Answers
  OBVIOUS
<1>4. \A pc \in Pc : At(x, pc) \in Exec /\ At(x, pc).pc = pc
  BY <1>2, AtType DEF At, Exec
<1>5. {"fail", "mark", "resolve", "brief", "finish", "settle"} \subseteq Pc
  BY DEF Pc
<1>6. ASSUME exec' = [exec EXCEPT ![e] = At(@, "fail")] \/ exec' = [exec EXCEPT ![e] = At(@, "mark")]
      PROVE  FALSE
  BY <1>2, <1>4, <1>5, <1>6 DEF Over
<1>7. ASSUME NEW wave \in Nat, NEW ok \in Exec, ok.pc \notin {"done", "gone"},
             Record(e, wave, ok, At(x, "fail"))
      PROVE  FALSE
  <2>1. exec'[e].pc \in {ok.pc, At(x, "fail").pc}
    BY <1>4, <1>5, <1>7, RecordPc DEF Inv
  <2> QED BY <1>4, <1>5, <1>7, <2>1 DEF Over
<1>8. x.wave \in Nat /\ x.wave + 1 \in Nat /\ 0 \in Nat
  BY <1>2 DEF Exec
<1>9. CASE Begin(e)
  <2> DEFINE row == ClaimRun(runs[r])
  <2>1. ~row.result.present /\ row.status = "running"
    BY <1>2 DEF ClaimRun, Row
  <2>2. exec' = [exec EXCEPT ![e] =
               [@ EXCEPT !.pc = "intro", !.seq = LatestSequence(events[r]),
                         !.wave = row.snapshot.nextWave, !.results = row.snapshot.results]]
    BY <1>3, <1>9, <2>1 DEF Begin
  <2> HIDE DEF row
  <2>3. exec'[e].pc = "intro"
    BY <1>2, <2>2 DEF Exec
  <2> QED BY <2>3 DEF Over
<1>10. CASE Introduce(e) \/ MarkCheckpoint(e)
  <2>1. \E w \in Nat, wave \in Nat : Record(e, wave, EnterWave(x, w), At(x, "fail"))
    BY <1>8, <1>10 DEF Introduce, MarkCheckpoint, RecordIn
  <2>2. \A w \in Nat : EnterWave(x, w) \in Exec /\ EnterWave(x, w).pc \in {"wave", "reconcile"}
    BY <1>2, EnterWaveType DEF EnterWave, Exec
  <2> QED BY <1>7, <2>1, <2>2
<1>11. CASE FindConflict(e) \/ Resolve(e) \/ Brief(e) \/ Finish(e)
  <2>1. \E pc \in {"resolve", "brief", "finish", "settle"} : Record(e, 0, At(x, pc), At(x, "fail"))
    BY <1>11 DEF FindConflict, Resolve, Brief, Finish, RecordIn
  <2> QED BY <1>4, <1>5, <1>7, <1>8, <2>1
<1>12. CASE CheckpointWave(e) \/ AssemblyRaises(e)
  BY <1>6, <1>12 DEF CheckpointWave, AssemblyRaises
<1>13. CASE SettleRun(e)
  <2> DEFINE row == CompleteRun(runs[r], FinalStatus(x.results), {ev.seq : ev \in events[r]})
  <2>1. row.status \in Terminal
    BY <1>2 DEF CompleteRun, FinalStatus, Row, Terminal
  <2>2. runs'[r] = row
    BY <1>2, <1>3, <1>13 DEF SettleRun
  <2> QED BY <2>1, <2>2 DEF Unsettled, Terminal, Active
<1>14. CASE AbandonRun(e)
  <2>1. runs'[r] = FailRun(runs[r])
    BY <1>2, <1>3, <1>14 DEF AbandonRun
  <2> QED BY <1>2, <2>1 DEF FailRun, Row, Unsettled, Active
<1> QED BY <1>9, <1>10, <1>11, <1>12, <1>13, <1>14 DEF TaskStep

\* _ensure_worker leaves an unsettled run with a worker.
LEMMA EnsureWorkerAttends ==
    ASSUME Inv, LogInv, NEW r \in RunId, EnsureWorker(r), runs[r] \in Row, Unsettled(runs[r])
    PROVE  /\ Attended(r)'
           /\ \A q \in RunId : Attended(q) => Attended(q)'
<1>1. CASE UNCHANGED <<exec, tasks>> /\ ~NeedsWorker(r)
  <2>1. ~runs[r].result.present /\ runs[r].status # "failed"
    BY DEF Inv, WorkerInv, ResultIffAnswered, Unsettled, Active
  <2>2. TaskRunning(r)
    BY <1>1, <2>1 DEF NeedsWorker
  <2>3. tasks[r] \in ExecId /\ exec[tasks[r]].run = r /\ ~Over(tasks[r])
    BY <2>2, Basics DEF TaskRunning, LogInv, TasksPointBack, Inv, Over
  <2> QED BY <1>1, <2>3 DEF Attended, Over
<1>2. CASE \E e \in ExecId : Free(e) /\ exec' = [exec EXCEPT ![e] = NewExec(r)]
  <2>1. PICK e \in ExecId : Free(e) /\ exec' = [exec EXCEPT ![e] = NewExec(r)]
    BY <1>2
  <2>2. /\ exec'[e].run = r /\ exec'[e].pc = "created" /\ Over(e)
        /\ \A f \in ExecId \ {e} : exec'[f] = exec[f]
    BY <2>1, Basics DEF Inv, NewExec, Free, Over
  <2> QED BY <2>2 DEF Attended, Over
<1> QED BY <1>1, <1>2 DEF EnsureWorker

\* While the store answers, no step takes away the last one who attends to a run.
LEMMA NextStranded ==
    ASSUME Inv, LogInv, [Next]_vars, NEW r \in RunId, ~Stranded(r), Answers'
    PROVE  ~Stranded(r)'
<1> SUFFICES ASSUME proc'.up, Unsettled(runs'[r])
             PROVE  r \in calls' \union recovering' \/ Attended(r)'
  BY DEF Stranded
<1>1. Answers'
  OBVIOUS
<1> DEFINE Before == Unsettled(runs[r]) /\ proc.up
<1>2. Before => r \in calls \union recovering \/ Attended(r)
  BY DEF Stranded
<1>3. CASE \E e \in ExecId : TaskStep(e)
  <2>1. PICK e \in ExecId : TaskStep(e)
    BY <1>3
  <2>2. OwnStep(e) /\ UNCHANGED <<calls, recovering, world>>
    BY <2>1, TaskStepIsOwnStep DEF Inv, TaskStep
  <2>3. ~Over(e)
    BY <2>1 DEF Over, TaskStep, Begin, Introduce, CheckpointWave, MarkCheckpoint, FindConflict,
       Resolve, Brief, Finish, AssemblyRaises, SettleRun, AbandonRun, RecordIn
  <2>4. CASE exec[e].run = r
    <3>1. Answers
      BY <1>1, <2>2 DEF Answers, world
    <3>2. ~Over(e)'
      BY <2>1, <2>4, <3>1, EndMeansSettled
    <3> QED BY <2>2, <2>4, <3>2 DEF OwnStep, Attended
  <2>5. CASE exec[e].run # r
    <3>1. runs'[r] = runs[r]
      BY <2>1, <2>5, TaskStepEffect, LoneWorker, <2>3 DEF Inv
    <3>2. Attended(r) => Attended(r)'
      BY <2>2, <2>5 DEF OwnStep, Attended, Over
    <3> QED BY <1>2, <2>2, <3>1, <3>2 DEF world
  <2> QED BY <2>4, <2>5
<1>4. CASE \E e \in ExecId, a \in Agent : AgentStep(e, a)
  <2>1. PICK e \in ExecId, a \in Agent : AgentStep(e, a)
    BY <1>4
  <2>2. OwnStep(e) /\ UNCHANGED <<runs, calls, recovering, world>>
    BY <2>1, AgentStepIsOwnStep DEF Inv, AgentStep
  <2>3. ~Over(e) => ~Over(e)'
    <3>1. RecordOfAgent(e) \/ AgentRaises(e, a)
      BY <2>1, AgentStepShape
    <3>2. exec'[e].pc \in {exec[e].pc, "fail"}
      <4>1. CASE RecordOfAgent(e)
        <5>1. PICK ok \in Exec, bad \in Exec :
                 /\ Record(e, 0, ok, bad) /\ ok.pc = exec[e].pc
                 /\ bad.pc \in {exec[e].pc, "fail"}
          BY <4>1 DEF RecordOfAgent
        <5>2. exec'[e].pc \in {ok.pc, bad.pc}
          BY <5>1, RecordPc DEF Inv
        <5> QED BY <5>1, <5>2
      <4>2. CASE AgentRaises(e, a)
        BY <4>2 DEF AgentRaises, Inv, TypeInv, TypeOK, Exec
      <4> QED BY <3>1, <4>1, <4>2
    <3> QED BY <3>2 DEF Over
  <2>4. Attended(r) => Attended(r)'
    BY <2>2, <2>3 DEF OwnStep, Attended, Over
  <2> QED BY <1>2, <2>2, <2>4 DEF world
<1>5. CASE \E e \in ExecId : RemoveTask(e)
  <2>1. PICK e \in ExecId : RemoveTask(e)
    BY <1>5
  <2>2. /\ Over(e) /\ \A f \in ExecId \ {e} : exec'[f] = exec[f]
        /\ UNCHANGED <<runs, calls, recovering, world>>
    BY <2>1, Basics DEF Inv, RemoveTask, Over
  <2>3. Attended(r) => Attended(r)'
    BY <2>2 DEF Attended, Over
  <2> QED BY <1>2, <2>2, <2>3 DEF world
<1>6. CASE \E k \in RequestId : Start(k)
  <2>1. PICK q \in RunId :
           /\ calls' = calls \union {q} /\ \A p \in RunId \ {q} : runs'[p] = runs[p]
           /\ UNCHANGED <<exec, recovering, world>>
    BY <1>6 DEF Start, CreateRun, ReuseRun, WithKey, Inv, TypeInv, TypeOK
  <2>2. Attended(r) => Attended(r)'
    BY <2>1 DEF Attended, Over
  <2> QED BY <1>2, <2>1, <2>2 DEF world
<1>7. CASE \E q \in RunId : EnsureCalled(q)
  <2>1. PICK q \in RunId : EnsureCalled(q)
    BY <1>7
  <2>2. calls' = calls \ {q} /\ UNCHANGED <<runs, recovering, world>> /\ runs[q] \in Row
    BY <2>1 DEF EnsureCalled, Inv, TypeInv
  <2>3. EnsureWorker(q)
    BY <1>1, <2>1, <2>2 DEF EnsureCalled, Answers, world
  <2>4. (r = q => Attended(r)') /\ (Attended(r) => Attended(r)')
    <3>1. CASE Unsettled(runs[q])
      BY <2>2, <2>3, <3>1, EnsureWorkerAttends
    <3>2. CASE ~Unsettled(runs[q])
      <4>1. r # q
        BY <2>2, <3>2
      <4>2. Attended(r) => Attended(r)'
        BY <2>3 DEF EnsureWorker, Attended, Over, Free, Inv, TypeInv, TypeOK
      <4> QED BY <4>1, <4>2
    <3> QED BY <3>1, <3>2
  <2> QED BY <1>2, <2>2, <2>4 DEF world
<1>8. CASE \E q \in RunId : RecoverRun(q)
  <2>1. PICK q \in RunId : RecoverRun(q)
    BY <1>8
  <2>2. /\ recovering' = recovering \ {q} /\ UNCHANGED <<calls, world>>
        /\ q \in recovering /\ runs[q] \in Row /\ Unsettled(runs[q])
    BY <2>1 DEF RecoverRun, Inv, TypeInv, WorkerInv, RecoveringIdle
  <2>3. CASE runs' = [runs EXCEPT ![q] = FailRun(@)] /\ UNCHANGED <<exec, tasks>>
    <3>1. ~Unsettled(runs'[q]) /\ \A p \in RunId \ {q} : runs'[p] = runs[p]
      BY <2>2, <2>3 DEF FailRun, Row, Unsettled, Active, Inv, TypeInv, TypeOK
    <3>2. Attended(r) => Attended(r)'
      BY <2>3 DEF Attended, Over
    <3> QED BY <1>2, <2>2, <3>1, <3>2 DEF world
  <2>4. CASE EnsureWorker(q) /\ runs' = runs
    <3>1. Attended(q)' /\ (Attended(r) => Attended(r)')
      BY <2>2, <2>4, EnsureWorkerAttends
    <3> QED BY <1>2, <2>2, <2>4, <3>1 DEF world
  <2> QED BY <2>1, <2>3, <2>4 DEF RecoverRun
<1>9. CASE \E i \in Incident, m \in Mode : Boot(i, m)
  <2>1. recovering' = Recoverable(runs) /\ runs' = runs
    BY <1>1, <1>9 DEF Boot, Answers
  <2>2. runs[r] \in Row
    BY <2>1 DEF Unsettled, Active, NoRow, Inv, TypeInv, TypeOK
  <2> QED BY <2>1, <2>2 DEF Recoverable, Inv, WorkerInv, ResultIffAnswered
<1>10. CASE RecoverRaises \/ Crash
  BY <1>10 DEF RecoverRaises, Crash, LoseProcess, Inv, TypeInv, TypeOK
<1>11. CASE StoreFails \/ StoreReturns \/ UNCHANGED vars
  <2>1. UNCHANGED <<runs, exec, calls, recovering, proc>>
    BY <1>11 DEF StoreFails, StoreReturns, vars
  <2> QED BY <1>2, <2>1 DEF Attended, Over
<1> QED BY <1>3, <1>4, <1>5, <1>6, <1>7, <1>8, <1>9, <1>10, <1>11 DEF Next

\* Only an outage of the store takes an unfinished run from everybody who could finish it.
THEOREM OnlyOutagesStrand == Spec => StrandedOnlyByOutage
<1>1. Inv /\ LogInv /\ [Next]_vars
         => [\A r \in RunId : ~Stranded(r) /\ Stranded(r)' => ~Answers']_vars
  BY NextStranded
<1> QED BY <1>1, LogAlways, PTL DEF Spec, StrandedOnlyByOutage

\* Until the store has failed, no step strands a run.
LEMMA NextAttended ==
    ASSUME Inv, LogInv, LogInv', NoStrandedRun, [Next]_vars
    PROVE  NoStrandedRun'
<1> SUFFICES ASSUME NEW r \in RunId, outages' = 0, Stranded(r)' PROVE FALSE
  BY DEF NoStrandedRun
<1>1. outages = 0
  BY DEF Next, TaskStep, RemoveTask, AgentStep, Start, EnsureCalled, RecoverRun, Boot,
     RecoverRaises, Crash, LoseProcess, StoreFails, StoreReturns, vars, world,
     Inv, TypeInv, TypeOK
<1>2. ~Stranded(r)
  BY <1>1 DEF NoStrandedRun
<1>3. Answers'
  BY DEF Stranded, LogInv, Healthy, Answers
<1> QED BY <1>2, <1>3, NextStranded

\* Somebody is always there to finish an unfinished run, unless the store has failed.
THEOREM NoRunIsStranded == Spec => []NoStrandedRun
<1>1. Init => NoStrandedRun
  BY DEF Init, NoStrandedRun, Stranded
<1>2. Inv /\ LogInv /\ LogInv' /\ NoStrandedRun /\ [Next]_vars => NoStrandedRun'
  BY NextAttended
<1> QED BY <1>1, <1>2, LogAlways, PTL DEF Spec

(***************************************************************************)
(* Part 7: the service implements the abstract durable run of DurableRun.  *)
(* Every step that writes a row writes one, and is the abstract step of    *)
(* that run, or one that shows nothing to the clients.                     *)
(***************************************************************************)

\* What the refinement mapping shows of a run's row.
ShownWave(row) == IF Exists(row) THEN row.nextWave ELSE 0
ShownAnswer(row) == Exists(row) /\ row.result.present

Statuses == [r \in RunId |-> runs[r].status]
ShownWaves == [r \in RunId |-> ShownWave(runs[r])]
ShownAnswers == [r \in RunId |-> ShownAnswer(runs[r])]

\* Writing one row changes what is shown of that run only.
LEMMA WriteShown ==
    ASSUME runs \in [RunId -> Row \union {NoRow}], NEW r \in RunId, NEW new,
           runs' = [runs EXCEPT ![r] = new]
    PROVE  /\ Statuses' = [Statuses EXCEPT ![r] = new.status]
           /\ ShownWaves' = [ShownWaves EXCEPT ![r] = ShownWave(new)]
           /\ ShownAnswers' = [ShownAnswers EXCEPT ![r] = ShownAnswer(new)]
<1>1. \A q \in RunId : runs'[q] = IF q = r THEN new ELSE runs[q]
  OBVIOUS
<1>2. Statuses' = [Statuses EXCEPT ![r] = new.status]
  BY <1>1 DEF Statuses
<1>3. ShownWaves' = [ShownWaves EXCEPT ![r] = ShownWave(new)]
  BY <1>1 DEF ShownWaves
<1>4. ShownAnswers' = [ShownAnswers EXCEPT ![r] = ShownAnswer(new)]
  BY <1>1, Zenon DEF ShownAnswers
<1> QED BY <1>2, <1>3, <1>4

\* What is unchanged by a write to a run's row is unchanged in what is shown of it.
LEMMA SameShown ==
    ASSUME NEW r \in RunId
    PROVE  /\ [Statuses EXCEPT ![r] = runs[r].status] = Statuses
           /\ [ShownWaves EXCEPT ![r] = ShownWave(runs[r])] = ShownWaves
           /\ [ShownAnswers EXCEPT ![r] = ShownAnswer(runs[r])] = ShownAnswers
BY DEF Statuses, ShownWaves, ShownAnswers

\* A new row is an accepted run.
LEMMA InsertAccepts ==
    ASSUME Inv, InsertStep
    PROVE  \E r \in RunId : Durable!Accept(r)
<1>1. runs \in [RunId -> Row \union {NoRow}]
  BY DEF Inv, TypeInv, TypeOK
<1>2. PICK k \in RequestId, r \in RunId :
         /\ runs[r] = NoRow
         /\ runs' = [runs EXCEPT ![r] = NewRow(k, proc.incident, proc.mode)]
  BY DEF InsertStep
<1> DEFINE new == NewRow(k, proc.incident, proc.mode)
<1>3. new.status = "pending" /\ ShownWave(new) = 0 /\ ShownAnswer(new) = FALSE
  BY DEF NewRow, ShownWave, ShownAnswer, Exists, NoResult
<1>4. runs[r].status = "absent" /\ ShownWave(runs[r]) = 0 /\ ShownAnswer(runs[r]) = FALSE
  BY <1>2 DEF NoRow, ShownWave, ShownAnswer, Exists
<1>5. runs' = [runs EXCEPT ![r] = new]
  BY <1>2
<1> HIDE DEF new
<1>6. /\ Statuses' = [Statuses EXCEPT ![r] = new.status]
      /\ ShownWaves' = [ShownWaves EXCEPT ![r] = ShownWave(new)]
      /\ ShownAnswers' = [ShownAnswers EXCEPT ![r] = ShownAnswer(new)]
  BY <1>1, <1>5, WriteShown
<1>7. ShownWaves' = ShownWaves /\ ShownAnswers' = ShownAnswers
  BY <1>3, <1>4, <1>6, SameShown
<1> QED BY <1>3, <1>4, <1>6, <1>7 DEF Durable!Accept, Durable!Move, Statuses, ShownWaves,
       ShownAnswers, ShownWave, ShownAnswer

\* A failed run is one that was not settled, without a result, and keeps its wave.
LEMMA FailFails ==
    ASSUME Inv, NEW r \in RunId, runs[r] \in Row, FailStep(r)
    PROVE  Durable!Fail(r)
<1> DEFINE new == FailRun(runs[r])
<1>1. runs \in [RunId -> Row \union {NoRow}]
  BY DEF Inv, TypeInv, TypeOK
<1>2. /\ new.status = "failed" /\ ShownWave(new) = ShownWave(runs[r])
      /\ ShownAnswer(new) = ShownAnswer(runs[r])
  BY RowExists DEF Row, FailRun, ShownWave, ShownAnswer, Exists
<1>3. runs[r].status \in {"pending", "running"} /\ runs' = [runs EXCEPT ![r] = new]
  BY DEF FailStep, Unsettled, Active
<1> HIDE DEF new
<1>4. /\ Statuses' = [Statuses EXCEPT ![r] = new.status]
      /\ ShownWaves' = [ShownWaves EXCEPT ![r] = ShownWave(new)]
      /\ ShownAnswers' = [ShownAnswers EXCEPT ![r] = ShownAnswer(new)]
  BY <1>1, <1>3, WriteShown
<1>5. ShownWaves' = ShownWaves /\ ShownAnswers' = ShownAnswers
  BY <1>2, <1>4, SameShown
<1> QED BY <1>2, <1>3, <1>4, <1>5 DEF Durable!Fail, Durable!Move, Statuses, ShownWaves,
       ShownAnswers, ShownWave, ShownAnswer

\* claim_run claims a pending run; a running one is claimed again without a trace.
LEMMA ClaimClaims ==
    ASSUME Inv, NEW e \in ExecId, WorkerStatement(e), ClaimStep(e),
           NEW r \in RunId, r = exec[e].run
    PROVE  Durable!Claim(r) \/ UNCHANGED Durable!vars
<1> DEFINE new == ClaimRun(runs[r])
<1>1. /\ runs \in [RunId -> Row \union {NoRow}]
      /\ r \in RunId /\ runs[r] \in Row /\ Unsettled(runs[r])
  BY DEF Inv, TypeInv, TypeOK, WorkerStatement
<1>2. /\ new.status = "running" /\ ShownWave(new) = ShownWave(runs[r])
      /\ ShownAnswer(new) = ShownAnswer(runs[r])
  BY <1>1 DEF Row, ClaimRun, ShownWave, ShownAnswer, Exists, Unsettled, Active
<1>3. runs[r].status \in {"pending", "running"} /\ runs' = [runs EXCEPT ![r] = new]
  BY <1>1 DEF ClaimStep, Unsettled, Active
<1> HIDE DEF new
<1>4. /\ Statuses' = [Statuses EXCEPT ![r] = new.status]
      /\ ShownWaves' = [ShownWaves EXCEPT ![r] = ShownWave(new)]
      /\ ShownAnswers' = [ShownAnswers EXCEPT ![r] = ShownAnswer(new)]
  BY <1>1, <1>3, WriteShown
<1>5. ShownWaves' = ShownWaves /\ ShownAnswers' = ShownAnswers
  BY <1>1, <1>2, <1>4, SameShown
<1>6. CASE runs[r].status = "pending"
  BY <1>1, <1>2, <1>4, <1>5, <1>6 DEF Durable!Claim, Durable!Move, Statuses, ShownWaves,
     ShownAnswers, ShownWave, ShownAnswer
<1>7. CASE runs[r].status = "running"
  <2>1. Statuses' = Statuses
    BY <1>1, <1>2, <1>4, <1>7, SameShown
  <2> QED BY <1>5, <2>1 DEF Durable!vars, Statuses, ShownWaves, ShownAnswers, ShownWave,
       ShownAnswer
<1> QED BY <1>3, <1>6, <1>7

\* save_checkpoint advances a running run by one wave, and never past the last.
LEMMA SaveAdvances ==
    ASSUME Inv, NEW e \in ExecId, WorkerStatement(e), SaveStep(e),
           NEW r \in RunId, r = exec[e].run
    PROVE  Durable!Advance(r)
<1> DEFINE x == exec[e]
           new == SaveCheckpoint(runs[r], x.wave + 1, x.results)
<1>1. /\ runs \in [RunId -> Row \union {NoRow}]
      /\ r \in RunId /\ runs[r] \in Row
      /\ x.pc = "wave" /\ ~Over(e) /\ runs[r].nextWave \in Nat
  BY DEF Inv, TypeInv, TypeOK, WorkerStatement, SaveStep, Row
<1>2. /\ CallOk(x, runs[r]) /\ RowOk(runs[r])
  BY <1>1 DEF Inv, ProgressInv
<1>3. runs[r].status = "running" /\ x.wave = runs[r].nextWave /\ ~NoWaveLeft(x.wave)
  BY <1>1, <1>2 DEF CallOk, InWave
<1>4. runs[r].nextWave < WaveCount
  <2>1. runs[r].nextWave <= WaveCount /\ runs[r].nextWave # WaveCount
    BY <1>2, <1>3, WaveCountIsLast DEF RowOk
  <2> QED BY <1>1, <2>1, WaveCountIsLast
<1>5. /\ new.status = runs[r].status /\ ShownWave(new) = ShownWave(runs[r]) + 1
      /\ ShownAnswer(new) = ShownAnswer(runs[r]) /\ ShownWave(runs[r]) = runs[r].nextWave
  BY <1>1, <1>3 DEF Row, SaveCheckpoint, ShownWave, ShownAnswer, Exists
<1>6. runs' = [runs EXCEPT ![r] = new]
  BY DEF SaveStep
<1> HIDE DEF x, new
<1>7. /\ Statuses' = [Statuses EXCEPT ![r] = new.status]
      /\ ShownWaves' = [ShownWaves EXCEPT ![r] = ShownWave(new)]
      /\ ShownAnswers' = [ShownAnswers EXCEPT ![r] = ShownAnswer(new)]
  BY <1>1, <1>6, WriteShown
<1>8. Statuses' = Statuses /\ ShownAnswers' = ShownAnswers
  BY <1>1, <1>5, <1>7, SameShown
<1>9. ShownWaves' = [ShownWaves EXCEPT ![r] = @ + 1]
  BY <1>1, <1>5, <1>7 DEF ShownWaves
<1>10. Statuses[r] = "running" /\ ShownWaves[r] < WaveCount
  BY <1>1, <1>3, <1>4, <1>5 DEF Statuses, ShownWaves
<1> QED BY <1>8, <1>9, <1>10 DEF Durable!Advance, Statuses, ShownWaves, ShownAnswers,
       ShownWave, ShownAnswer

\* complete_run answers a running run whose last wave was saved.
LEMMA CompleteAnswers ==
    ASSUME Inv, NEW e \in ExecId, WorkerStatement(e), CompleteStep(e),
           NEW r \in RunId, r = exec[e].run
    PROVE  Durable!Answer(r)
<1> DEFINE x == exec[e]
           new == CompleteRun(runs[r], FinalStatus(x.results), {ev.seq : ev \in events[r]})
<1>1. /\ runs \in [RunId -> Row \union {NoRow}]
      /\ r \in RunId /\ runs[r] \in Row
      /\ x.pc = "settle" /\ ~Over(e) /\ runs[r].nextWave \in Nat
  BY DEF Inv, TypeInv, TypeOK, WorkerStatement, CompleteStep, Row
<1>2. /\ CallOk(x, runs[r]) /\ RowOk(runs[r])
  BY <1>1 DEF Inv, ProgressInv
<1>3. runs[r].status = "running" /\ x.wave = runs[r].nextWave /\ NoWaveLeft(x.wave)
  BY <1>1, <1>2 DEF CallOk, Closing, InStep
<1>4. runs[r].nextWave = WaveCount
  BY <1>1, <1>2, <1>3, WaveCountIsLast DEF RowOk
<1>5. /\ new.status \in {"completed", "failed"} /\ ShownWave(new) = ShownWave(runs[r])
      /\ ShownAnswer(new) = TRUE /\ ShownWave(runs[r]) = runs[r].nextWave
  BY <1>1, <1>3 DEF Row, CompleteRun, FinalStatus, ShownWave, ShownAnswer, Exists
<1>6. runs' = [runs EXCEPT ![r] = new]
  BY DEF CompleteStep
<1> HIDE DEF x, new
<1>7. /\ Statuses' = [Statuses EXCEPT ![r] = new.status]
      /\ ShownWaves' = [ShownWaves EXCEPT ![r] = ShownWave(new)]
      /\ ShownAnswers' = [ShownAnswers EXCEPT ![r] = ShownAnswer(new)]
  BY <1>1, <1>6, WriteShown
<1>8. ShownWaves' = ShownWaves
  BY <1>1, <1>5, <1>7, SameShown
<1>9. Statuses[r] = "running" /\ ShownWaves[r] = WaveCount
  BY <1>1, <1>3, <1>4, <1>5 DEF Statuses, ShownWaves
<1>10. ShownAnswers' = [ShownAnswers EXCEPT ![r] = TRUE]
  BY <1>5, <1>7
<1> QED BY <1>5, <1>7, <1>8, <1>9, <1>10 DEF Durable!Answer, Durable!Move, Statuses,
       ShownWaves, ShownAnswers, ShownWave, ShownAnswer

\* Every step of the service is a step of the abstract run or shows nothing.
LEMMA NextRefines ==
    ASSUME Inv, [Next]_vars
    PROVE  [Durable!Next]_(Durable!vars)
<1>1. CASE runs' = runs
  BY <1>1 DEF Durable!vars
<1>2. CASE InsertStep
  BY <1>2, InsertAccepts DEF Durable!Next
<1>3. CASE \E e \in ExecId : WorkerStatement(e)
  <2>1. PICK e \in ExecId : WorkerStatement(e)
    BY <1>3
  <2>2. PICK r \in RunId : r = exec[e].run /\ runs[r] \in Row
    BY <2>1 DEF WorkerStatement
  <2>3. CASE ClaimStep(e)
    BY <2>1, <2>2, <2>3, ClaimClaims DEF Durable!Next
  <2>4. CASE SaveStep(e)
    BY <2>1, <2>2, <2>4, SaveAdvances DEF Durable!Next
  <2>5. CASE CompleteStep(e)
    BY <2>1, <2>2, <2>5, CompleteAnswers DEF Durable!Next
  <2>6. CASE FailStep(exec[e].run)
    BY <2>2, <2>6, FailFails DEF Durable!Next
  <2> QED BY <2>1, <2>3, <2>4, <2>5, <2>6 DEF WorkerStatement
<1>4. CASE \E r \in RunId : runs[r] \in Row /\ FailStep(r)
  BY <1>4, FailFails DEF Durable!Next
<1> QED BY <1>1, <1>2, <1>3, <1>4, NextRows DEF Inv

\* Whatever its requests, tasks, crashes and outages do, the service keeps what DurableRun
\* promises: accepted once, one wave at a time, answered at most once and after the last.
THEOREM ServiceImplementsDurableRun == Spec => RefinesDurableRun
<1>1. Init => Durable!Init
  <2> SUFFICES ASSUME Init PROVE Durable!Init
    OBVIOUS
  <2>1. \A r \in RunId : runs[r].status = "absent" /\ ~Exists(runs[r])
    BY DEF Init, NoRow, Exists
  <2>2. [r \in RunId |-> Exists(runs[r]) /\ runs[r].result.present] = [r \in RunId |-> FALSE]
    BY <2>1, Zenon
  <2> QED BY <2>1, <2>2 DEF Durable!Init
<1>2. Inv /\ [Next]_vars => [Durable!Next]_(Durable!vars)
  BY NextRefines
<1> QED BY <1>1, <1>2, ProgressAlways, PTL DEF Spec, RefinesDurableRun, Durable!Spec, Inv
=============================================================================
