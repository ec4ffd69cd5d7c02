------------------------ MODULE AgentPipelineProofs ------------------------
(***************************************************************************)
(* Proofs about the nine agents on their blackboard, for any suppliers and *)
(* any number of attempts, faults and crashes.                             *)
(*                                                                         *)
(* The checkpoint and the running process are kept in line by saying of    *)
(* every agent what its result stands for (Backed): what a completed agent *)
(* wrote, found and remembered, and that an agent that was skipped or is   *)
(* still to come has written nothing.  It is said of the checkpoint        *)
(* (SavedOk) and of the process (LiveOk), and of an agent at work as far   *)
(* as its attempt has come (Left).  What one agent leaves no other one     *)
(* disturbs, because each entry of the blackboard has one writer.          *)
(***************************************************************************)
EXTENDS AgentPipeline, AgentGraphProofs, TLAPS

Value == {"absent", "empty", "full"}

Checkpoint ==
    [wave : 0..WaveCount, board : [Key -> Value], results : Results,
     extracted : Supplier \union {None}]

PipelineTypeOK ==
    /\ incident \in [blank : BOOLEAN, affected : BOOLEAN]
    /\ run \in {"running", "down", "assembled"}
    /\ wave \in 0..WaveCount /\ board \in [Key -> Value] /\ results \in Results
    /\ at \in [Agent -> Nat] /\ returned \in SUBSET Agent
    /\ extracted \in Supplier \union {None}
    /\ seen \in [Agent -> SUBSET Key] /\ \A a \in Agent : seen[a] \subseteq Reads[a]
    /\ told \in [Agent -> {"pending", "running", "completed", "failed"}]
    /\ saved \in Checkpoint

\* The entries that are not empty once they are written.
Full == {k \in Key : Produced(k) = "full"}

\* deriveAgentStates() has this of an agent with such a result.
Tells(status) == IF status = "completed" THEN "completed" ELSE "failed"

\* What a has put on the blackboard b and has found there.
Wrote(a, b, full) == \A k \in Writes[a] : b[k] = "full" <=> k \in full
Unwritten(a, b) == \A k \in Writes[a] : b[k] # "full"
FoundAll(a, found, full) == found = Reads[a] \intersect full

\* Records(a), by the supplier x of the extraction and what a has found.
RecordsOf(a, x, found) ==
    CASE a = "Extraction" -> {<<"supplier_alias", s>> : s \in {x} \ {None}}
      [] a = "Inventory"  -> {<<"supplier_alias", "inventory">>}
      [] a = "Memory"     -> {<<"decision", "incident">>} \union
                             (IF "decisions" \in found THEN {<<"false_positive", "row">>} ELSE {})

Remembered(a, x, found, known) == a \in Remembering => RecordsOf(a, x, found) \subseteq known

\* What the result of an agent says of the blackboard and the extraction it comes with.
Backed(a, status, b, x, found, full, known) ==
    /\ status = "completed" =>
          Wrote(a, b, full) /\ FoundAll(a, found, full) /\ Remembered(a, x, found, known)
    /\ status \in {"none", "skipped"} => Unwritten(a, b)

\* At step i of its run() an agent has such a step behind it, and what those steps leave.
Passed(a, i, step) == \E j \in DOMAIN Program[a] : j < i /\ Program[a][j] = step

Left(a, i, b, x, found, full, known) ==
    /\ Passed(a, i, "write") => Wrote(a, b, full)
    /\ Passed(a, i, "read") => FoundAll(a, found, full)
    /\ Passed(a, i, "remember") => Remembered(a, x, found, known)

SavedOf(a) ==
    /\ saved.results[a] # "none" <=> a \in Resolved[saved.wave]
    /\ Backed(a, saved.results[a], saved.board, saved.extracted, seen[a], Full, memory)
    /\ a \in Resolved[saved.wave] => told[a] = Tells(saved.results[a])

LiveOf(a) ==
    /\ results[a] # "none" <=> a \in Resolved[wave] \union returned
    /\ a \in Resolved[wave] => results[a] = saved.results[a]
    /\ a \in returned => told[a] = Tells(results[a])
    /\ at[a] > 0 => /\ a \in Wave(wave) /\ a \notin returned
                    /\ \A d \in DependsOn[a] : results[d] = "completed"
                    /\ Left(a, at[a], board, extracted, seen[a], Full, memory)
    /\ at[a] = 0 => Backed(a, results[a], board, extracted, seen[a], Full, memory)

SavedOk == \A a \in Agent : SavedOf(a)

LiveOk ==
    run # "down" => /\ wave = saved.wave /\ returned \subseteq Wave(wave)
                    /\ \A a \in Agent : LiveOf(a)

DownOk == run = "down" => results = NoResults /\ returned = {} /\ at = Idle

AssembledOk ==
    run = "assembled" => wave = WaveCount /\ analysis = {k \in AnalysisKeys : board[k] = "full"}

PipelineInv == PipelineTypeOK /\ SavedOk /\ LiveOk /\ DownOk /\ AssembledOk

-----------------------------------------------------------------------------
(* Facts about the nine agents.                                            *)

\* There are nine of them, and each has its run().
LEMMA ProgramIs ==
    /\ Agent = {"Intake", "Extraction", "Inventory", "Vision", "Risk", "Memory",
                "Operations", "Communications", "Compliance"}
    /\ Program["Intake"] = <<"check", "reason", "write">>
    /\ Program["Extraction"] = <<"ask", "write", "reason", "remember">>
    /\ Program["Inventory"] = <<"remember", "reason", "write">>
    /\ Program["Vision"] = <<"inspect", "write", "reason">>
    /\ Program["Memory"] = <<"read", "remember", "write", "reason">>
    /\ Program["Compliance"] = <<"write", "reason">>
    /\ Program["Risk"] = <<"read", "write", "reason">>
    /\ Program["Operations"] = <<"read", "write", "reason">>
    /\ Program["Communications"] = <<"read", "write", "reason">>
<1>1. Agent = {"Intake", "Extraction", "Inventory", "Vision", "Risk", "Memory",
               "Operations", "Communications", "Compliance"}
  BY SpecialistsAssumption DEF Specialist
<1>2. Program["Intake"] = <<"check", "reason", "write">>
  BY <1>1 DEF Program, DefaultAgent, RecallIntakeAgent
<1>3. Program["Extraction"] = <<"ask", "write", "reason", "remember">>
  BY <1>1 DEF Program, DefaultAgent, DocumentExtractionAgent
<1>4. Program["Inventory"] = <<"remember", "reason", "write">>
  BY <1>1 DEF Program, DefaultAgent, InventoryMatchingAgent
<1>5. Program["Vision"] = <<"inspect", "write", "reason">>
  BY <1>1 DEF Program, DefaultAgent, ShelfVisionAgent
<1>6. Program["Memory"] = <<"read", "remember", "write", "reason">>
  BY <1>1 DEF Program, DefaultAgent, MemoryAgent
<1>7. Program["Compliance"] = <<"write", "reason">>
  BY <1>1 DEF Program, DefaultAgent, ComplianceEvidenceAgent
<1>8. Program["Risk"] = <<"read", "write", "reason">>
  BY <1>1 DEF Program, DefaultAgent, RiskScoringAgent
<1>9. Program["Operations"] = <<"read", "write", "reason">>
  BY <1>1 DEF Program, DefaultAgent, OperationsTaskAgent
<1>10. Program["Communications"] = <<"read", "write", "reason">>
  BY <1>1 DEF Program, DefaultAgent, CommunicationsAgent
<1> QED BY <1>1, <1>2, <1>3, <1>4, <1>5, <1>6, <1>7, <1>8, <1>9, <1>10

\* Every run() writes, and where it matters it reads before it remembers.
LEMMA ProgramOrder ==
    ASSUME NEW a \in Agent
    PROVE  /\ DOMAIN Program[a] = 1..Len(Program[a]) /\ Len(Program[a]) \in Nat
           /\ \E i \in DOMAIN Program[a] : Program[a][i] = "write"
           /\ a \in Remembering => \E i \in DOMAIN Program[a] : Program[a][i] = "remember"
           /\ a \in {"Risk", "Memory", "Operations", "Communications"} =>
                 \E i \in DOMAIN Program[a] : Program[a][i] = "read"
           /\ \A i, j \in DOMAIN Program[a] :
                 Program[a][i] = "remember" /\ Program[a][j] \in {"ask", "read"} => j < i
           /\ \A i \in DOMAIN Program[a] : Program[a][i] = "ask" => a = "Extraction"
<1>1. CASE a = "Intake"
  BY <1>1, ProgramIs DEF Remembering
<1>2. CASE a = "Extraction"
  BY <1>2, ProgramIs DEF Remembering
<1>3. CASE a = "Inventory"
  BY <1>3, ProgramIs DEF Remembering
<1>4. CASE a = "Vision"
  BY <1>4, ProgramIs DEF Remembering
<1>5. CASE a = "Memory"
  BY <1>5, ProgramIs DEF Remembering
<1>6. CASE a = "Compliance"
  BY <1>6, ProgramIs DEF Remembering
<1>7. CASE a \in {"Risk", "Operations", "Communications"}
  <2>1. Program[a] = <<"read", "write", "reason">>
    BY <1>7, ProgramIs
  <2> QED BY <1>7, <2>1 DEF Remembering
<1> QED BY <1>1, <1>2, <1>3, <1>4, <1>5, <1>6, <1>7, ProgramIs

\* The agent that writes an entry.
Writer(k) ==
    CASE k = "intake_valid" -> "Intake"
      [] k = "extraction" -> "Extraction"
      [] k \in {"decisions", "affected_decisions", "affected_stores", "affected_items",
                "supplier_aliases"} -> "Inventory"
      [] k = "inspection" -> "Vision"
      [] k = "risk" -> "Risk"
      [] k = "insights" -> "Memory"
      [] k = "tasks" -> "Operations"
      [] k = "customer_notice" -> "Communications"
      [] k \in {"evidence", "evidence_progress"} -> "Compliance"

\* Each entry of the blackboard has one.
LEMMA OneWriter ==
    ASSUME NEW a \in Agent
    PROVE  Writes[a] \subseteq Key /\ \A k \in Writes[a] : Writer(k) = a
<1>0. Writes[a] \subseteq Key
  BY DEF Key
<1>1. CASE a = "Intake"
  BY <1>0, <1>1 DEF Writes, DefaultAgent, RecallIntakeAgent, Writer
<1>2. CASE a = "Extraction"
  BY <1>0, <1>2 DEF Writes, DefaultAgent, DocumentExtractionAgent, Writer
<1>3. CASE a = "Inventory"
  BY <1>0, <1>3 DEF Writes, DefaultAgent, InventoryMatchingAgent, Writer
<1>4. CASE a = "Vision"
  BY <1>0, <1>4 DEF Writes, DefaultAgent, ShelfVisionAgent, Writer
<1>5. CASE a = "Memory"
  BY <1>0, <1>5 DEF Writes, DefaultAgent, MemoryAgent, Writer
<1>6. CASE a = "Compliance"
  BY <1>0, <1>6 DEF Writes, DefaultAgent, ComplianceEvidenceAgent, Writer
<1>7. CASE a = "Risk"
  BY <1>0, <1>7 DEF Writes, DefaultAgent, RiskScoringAgent, Writer
<1>8. CASE a = "Operations"
  BY <1>0, <1>8 DEF Writes, DefaultAgent, OperationsTaskAgent, Writer
<1>9. CASE a = "Communications"
  BY <1>0, <1>9 DEF Writes, DefaultAgent, CommunicationsAgent, Writer
<1> QED BY <1>1, <1>2, <1>3, <1>4, <1>5, <1>6, <1>7, <1>8, <1>9, ProgramIs

\* Who reads the blackboard reads what Inventory wrote, and depends on it.
LEMMA ReadersDepend ==
    ASSUME NEW a \in Agent
    PROVE  /\ Reads[a] \subseteq Key
           /\ Reads[a] # {} => /\ a \in {"Risk", "Memory", "Operations", "Communications"}
                               /\ "Inventory" \in DependsOn[a] /\ "Inventory" \in Agent
                               /\ Reads[a] \subseteq Writes["Inventory"]
<1>1. CASE a \in {"Intake", "Extraction", "Inventory", "Vision", "Compliance"}
  <2>1. Reads[a] = {}
    BY <1>1 DEF Reads, DefaultAgent, RecallIntakeAgent, DocumentExtractionAgent,
                InventoryMatchingAgent, ShelfVisionAgent, ComplianceEvidenceAgent
  <2> QED BY <2>1
<1>2. ASSUME a \in {"Risk", "Memory", "Operations", "Communications"}
      PROVE  Reads[a] \subseteq {"decisions", "affected_stores", "affected_items"}
  BY <1>2 DEF Reads, DefaultAgent, RiskScoringAgent, MemoryAgent, OperationsTaskAgent,
              CommunicationsAgent
<1>3. "Inventory" \in Agent
  BY ProgramIs
<1>4. {"decisions", "affected_stores", "affected_items"} \subseteq Writes["Inventory"]
  BY <1>3 DEF Writes, DefaultAgent, InventoryMatchingAgent
<1>5. Writes["Inventory"] \subseteq Key
  BY <1>3, OneWriter
<1>6. ASSUME a \in {"Risk", "Memory", "Operations", "Communications"}
      PROVE  "Inventory" \in DependsOn[a]
  <2>1. DependsOn[a] = SpecialistDependsOn[a] /\ a \in Specialist
    BY SpecialistsAssumption
  <2>2. CASE a = "Risk"
    BY <2>1, <2>2 DEF SpecialistDependsOn
  <2>3. CASE a = "Memory"
    BY <2>1, <2>3 DEF SpecialistDependsOn
  <2>4. CASE a \in {"Operations", "Communications"}
    BY <2>1, <2>4 DEF SpecialistDependsOn
  <2> QED BY <1>6, <2>2, <2>3, <2>4
<1> QED BY <1>1, <1>2, <1>3, <1>4, <1>5, <1>6, ProgramIs

-----------------------------------------------------------------------------
(* What the pieces of the invariant depend on.                             *)

\* The waves of the schedule.
LEMMA WavesAre ==
    ASSUME NEW w \in 0..WaveCount
    PROVE  /\ Stage[w] = Wave(w) /\ Before[w] = Resolved[w] /\ w \in Nat
           /\ Resolved[w] \subseteq Agent /\ Wave(w) \subseteq Agent
           /\ Wave(w) \intersect Resolved[w] = {}
           /\ \A a \in Wave(w) : DependsOn[a] \subseteq Resolved[w]
           /\ Resolved[w + 1] = Resolved[w] \union Wave(w)
           /\ w = WaveCount => Resolved[w] = Agent
<1>1. WaveCount \in Nat /\ Agent \subseteq Resolved[WaveCount]
  BY WaveCountIsLast DEF NoWaveLeft
<1>2. w \in Nat
  BY <1>1
<1>3. Stage[w] = Wave(w) /\ Before[w] = Resolved[w]
  BY DEF Stage, Before
<1>4. Resolved[w] \subseteq Agent /\ Resolved[w + 1] = Resolved[w] \union Wave(w)
  BY <1>2, ResolvedSteps
<1> QED BY <1>1, <1>2, <1>3, <1>4 DEF Wave

\* Which entries are full when they are written is settled by the incident.
LEMMA FullStays == ASSUME incident' = incident PROVE Full' = Full
BY DEF Full, Produced

\* A blackboard matters by its full entries of the agent itself.
LEMMA BackedByBoard ==
    ASSUME NEW a \in Agent, NEW status, NEW b, NEW c, NEW x, NEW found, NEW full, NEW known,
           \A k \in Writes[a] : b[k] = "full" <=> c[k] = "full",
           Backed(a, status, b, x, found, full, known)
    PROVE  Backed(a, status, c, x, found, full, known)
BY DEF Backed, Wrote, Unwritten

\* Memory only grows, and the extraction is one agent's own.
LEMMA BackedByMore ==
    ASSUME NEW a \in Agent, NEW status, NEW b, NEW c, NEW x, NEW y, NEW found, NEW full,
           NEW known, NEW more,
           \A k \in Writes[a] : c[k] = b[k], known \subseteq more, x = y \/ a # "Extraction"
    PROVE  /\ Backed(a, status, b, x, found, full, known) =>
                 Backed(a, status, c, y, found, full, more)
           /\ \A i : Left(a, i, b, x, found, full, known) => Left(a, i, c, y, found, full, more)
<1>1. Wrote(a, b, full) => Wrote(a, c, full)
  BY DEF Wrote
<1>2. Unwritten(a, b) => Unwritten(a, c)
  BY DEF Unwritten
<1>3. Remembered(a, x, found, known) => Remembered(a, y, found, more)
  <2>1. a \in Remembering => RecordsOf(a, x, found) = RecordsOf(a, y, found)
    BY DEF RecordsOf, Remembering
  <2> QED BY <2>1 DEF Remembered
<1> QED BY <1>1, <1>2, <1>3 DEF Backed, Left

\* An agent whose run() is behind it has done all that it should.
LEMMA AllPassed ==
    ASSUME NEW a \in Agent, NEW i \in Nat, i > Len(Program[a]), NEW b, NEW x,
           NEW found \in SUBSET Reads[a], NEW full, NEW known,
           Left(a, i, b, x, found, full, known)
    PROVE  Backed(a, "completed", b, x, found, full, known)
<1>1. \A j \in DOMAIN Program[a] : j < i
  BY ProgramOrder
<1>2. Wrote(a, b, full)
  BY <1>1, ProgramOrder DEF Left, Passed
<1>3. FoundAll(a, found, full)
  <2>1. CASE Reads[a] = {}
    BY <2>1 DEF FoundAll
  <2>2. CASE Reads[a] # {}
    <3>1. \E j \in DOMAIN Program[a] : Program[a][j] = "read"
      BY <2>2, ReadersDepend, ProgramOrder
    <3> QED BY <1>1, <3>1 DEF Left, Passed
  <2> QED BY <2>1, <2>2
<1>4. Remembered(a, x, found, known)
  <2>1. CASE a \in Remembering
    <3>1. \E j \in DOMAIN Program[a] : Program[a][j] = "remember"
      BY <2>1, ProgramOrder
    <3> QED BY <1>1, <3>1 DEF Left, Passed
  <2>2. CASE a \notin Remembering
    BY <2>2 DEF Remembered
  <2> QED BY <2>1, <2>2
<1> QED BY <1>2, <1>3, <1>4 DEF Backed

\* At its first step it has done nothing yet.
LEMMA NonePassed ==
    \A a \in Agent : \A b, x, found, full, known : Left(a, 1, b, x, found, full, known)
<1> SUFFICES ASSUME NEW a \in Agent, NEW step PROVE ~Passed(a, 1, step)
  BY DEF Left
<1> QED BY ProgramOrder DEF Passed

-----------------------------------------------------------------------------
(* A step of one agent.                                                    *)

\* An agent of the wave that is not back has no result, here or in the checkpoint.
LEMMA StillOut ==
    ASSUME PipelineInv, run = "running", NEW a \in Agent, a \in Wave(wave), a \notin returned
    PROVE  /\ results[a] = "none" /\ saved.results[a] = "none"
           /\ a \notin Resolved[wave] /\ a \notin Resolved[saved.wave] /\ wave = saved.wave
<1>1. wave = saved.wave /\ wave \in 0..WaveCount /\ LiveOf(a) /\ SavedOf(a)
  BY DEF PipelineInv, PipelineTypeOK, LiveOk, SavedOk
<1>2. a \notin Resolved[wave]
  BY <1>1, WavesAre
<1> QED BY <1>1, <1>2 DEF LiveOf, SavedOf

\* It is enough that a's own part holds: a step of a leaves the other agents' entries, what
\* they have found and what they remembered.
LEMMA OwnPart ==
    ASSUME PipelineInv, run = "running", NEW a \in Agent, a \in Wave(wave), a \notin returned,
           UNCHANGED <<run, wave, incident, saved>>,
           returned' \in {returned, returned \union {a}},
           \A b \in Agent \ {a} : /\ results'[b] = results[b] /\ at'[b] = at[b]
                                  /\ told'[b] = told[b] /\ seen'[b] = seen[b],
           \A k \in Key \ Writes[a] : board'[k] = board[k],
           memory \subseteq memory', extracted' = extracted \/ a = "Extraction",
           PipelineTypeOK', LiveOf(a)'
    PROVE  PipelineInv'
<1>1. /\ wave = saved.wave /\ returned \subseteq Wave(wave) /\ wave \in 0..WaveCount
      /\ \A b \in Agent : LiveOf(b) /\ SavedOf(b)
  BY DEF PipelineInv, PipelineTypeOK, LiveOk, SavedOk
<1>2. /\ results[a] = "none" /\ saved.results[a] = "none"
      /\ a \notin Resolved[wave] /\ a \notin Resolved[saved.wave]
  BY StillOut
<1>3. Full' = Full
  BY FullStays
<1>4. ASSUME NEW b \in Agent \ {a}
      PROVE  SavedOf(b)' /\ LiveOf(b)'
  <2>1. \A k \in Writes[b] : board'[k] = board[k]
    BY OneWriter
  <2>2. extracted' = extracted \/ b # "Extraction"
    OBVIOUS
  <2>3. Backed(b, saved.results[b], saved.board, saved.extracted, seen[b], Full, memory')
    BY <1>1, BackedByMore DEF SavedOf
  <2>4. SavedOf(b)'
    BY <1>1, <1>3, <2>3 DEF SavedOf
  <2>5. at[b] = 0 => Backed(b, results[b], board', extracted', seen[b], Full, memory')
    BY <1>1, <2>1, <2>2, BackedByMore DEF LiveOf
  <2>6. at[b] > 0 => Left(b, at[b], board', extracted', seen[b], Full, memory')
    BY <1>1, <2>1, <2>2, BackedByMore DEF LiveOf
  <2>7. at[b] > 0 => \A d \in DependsOn[b] : d # a /\ results'[d] = "completed"
    <3> SUFFICES ASSUME at[b] > 0, NEW d \in DependsOn[b]
                 PROVE  d # a /\ results'[d] = "completed"
      OBVIOUS
    <3>1. results[d] = "completed" /\ d \in Agent
      BY <1>1, DependsOnAssumption DEF LiveOf
    <3> QED BY <1>2, <3>1
  <2>8. LiveOf(b)'
    BY <1>1, <1>3, <2>5, <2>6, <2>7 DEF LiveOf
  <2> QED BY <2>4, <2>8
<1>5. SavedOf(a)'
  <2>1. Backed(a, "none", saved.board, saved.extracted, seen'[a], Full, memory')
    BY <1>1, <1>2 DEF SavedOf, Backed
  <2> QED BY <1>1, <1>2, <1>3, <2>1 DEF SavedOf
<1>6. returned' \subseteq Wave(wave)
  BY <1>1
<1> QED BY <1>1, <1>4, <1>5, <1>6 DEF PipelineInv, SavedOk, LiveOk, DownOk, AssembledOk

\* An agent of the wave that is free to begin or to be skipped.
LEMMA WaitingIs ==
    ASSUME PipelineInv, NEW a \in Agent, Waiting(a)
    PROVE  /\ run = "running" /\ at[a] = 0 /\ a \in Wave(wave) /\ a \notin returned
           /\ \A d \in DependsOn[a] : d \in Agent /\ results[d] # "none"
           /\ Unwritten(a, board)
<1>1. run = "running" /\ at[a] = 0 /\ a \notin returned /\ a \in Stage[wave]
  BY DEF Waiting
<1>2. wave \in 0..WaveCount /\ LiveOf(a) /\ \A d \in Agent : LiveOf(d)
  BY <1>1 DEF PipelineInv, PipelineTypeOK, LiveOk
<1>3. a \in Wave(wave) /\ DependsOn[a] \subseteq Resolved[wave] /\ Resolved[wave] \subseteq Agent
  BY <1>1, <1>2, WavesAre
<1>4. results[a] = "none"
  BY <1>1, <1>3, StillOut
<1>5. Unwritten(a, board)
  BY <1>1, <1>2, <1>4 DEF LiveOf, Backed
<1>6. \A d \in DependsOn[a] : d \in Agent /\ results[d] # "none"
  BY <1>2, <1>3 DEF LiveOf
<1> QED BY <1>1, <1>3, <1>5, <1>6

\* An agent at work.
LEMMA RunningIs ==
    ASSUME PipelineInv, NEW a \in Agent, Running(a)
    PROVE  /\ run = "running" /\ at[a] \in Nat /\ at[a] > 0 /\ a \in Wave(wave) /\ a \notin returned
           /\ \A d \in DependsOn[a] : d \in Agent /\ results[d] = "completed"
           /\ Left(a, at[a], board, extracted, seen[a], Full, memory)
<1>1. run = "running" /\ at[a] > 0 /\ at[a] \in Nat
  BY DEF Running, PipelineInv, PipelineTypeOK
<1>2. LiveOf(a)
  BY <1>1 DEF PipelineInv, LiveOk
<1>3. DependsOn[a] \subseteq Agent
  BY DependsOnAssumption
<1> QED BY <1>1, <1>2, <1>3 DEF LiveOf

\* _run_agent() returns: the result must be backed.
LEMMA ReturnKeeps ==
    ASSUME PipelineInv, run = "running", NEW a \in Agent, a \in Wave(wave), a \notin returned,
           NEW status \in Outcome, Return(a, status),
           Backed(a, status, board, extracted, seen[a], Full, memory),
           UNCHANGED <<run, wave, incident, saved, board, seen, memory, extracted, analysis>>
    PROVE  PipelineInv'
<1>1. /\ results \in [Agent -> Outcome \union {"none"}] /\ at \in [Agent -> Nat]
      /\ told \in [Agent -> {"pending", "running", "completed", "failed"}]
      /\ returned \in SUBSET Agent /\ wave \in 0..WaveCount
  BY DEF PipelineInv, PipelineTypeOK, Results
<1>2. /\ results' = [results EXCEPT ![a] = status] /\ told' = [told EXCEPT ![a] = Tells(status)]
      /\ at' = [at EXCEPT ![a] = 0] /\ returned' = returned \union {a}
  BY DEF Return, Tells
<1>3. Tells(status) \in {"completed", "failed"}
  BY DEF Tells
<1>4. PipelineTypeOK'
  BY <1>1, <1>2, <1>3 DEF PipelineInv, PipelineTypeOK, Results
<1>5. results'[a] = status /\ told'[a] = Tells(status) /\ at'[a] = 0 /\ a \in returned'
  BY <1>1, <1>2
<1>6. Full' = Full
  BY FullStays
<1>7. a \notin Resolved[wave]
  BY StillOut
<1>8. LiveOf(a)'
  BY <1>5, <1>6, <1>7 DEF LiveOf, Outcome
<1>9. \A b \in Agent \ {a} : /\ results'[b] = results[b] /\ at'[b] = at[b]
                             /\ told'[b] = told[b] /\ seen'[b] = seen[b]
  BY <1>1, <1>2
<1> QED BY <1>2, <1>4, <1>8, <1>9, OwnPart

\* Where an attempt begins, it owes nothing.
LEMMA AttemptKeeps ==
    ASSUME PipelineInv, run = "running", NEW a \in Agent, a \in Wave(wave), a \notin returned,
           \A d \in DependsOn[a] : results[d] = "completed",
           at' = [at EXCEPT ![a] = 1],
           told' \in {told, [told EXCEPT ![a] = "running"]},
           UNCHANGED <<run, wave, incident, saved, board, seen, memory, extracted, analysis,
                       results, returned>>
    PROVE  PipelineInv'
<1>1. /\ at \in [Agent -> Nat] /\ wave \in 0..WaveCount
      /\ told \in [Agent -> {"pending", "running", "completed", "failed"}]
  BY DEF PipelineInv, PipelineTypeOK
<1>2. PipelineTypeOK'
  BY <1>1 DEF PipelineInv, PipelineTypeOK
<1>3. at'[a] = 1 /\ results[a] = "none" /\ a \notin Resolved[wave]
  BY <1>1, StillOut
<1>4. Left(a, 1, board, extracted, seen[a], Full', memory)
  BY NonePassed
<1>5. LiveOf(a)'
  BY <1>3, <1>4 DEF LiveOf
<1>6. \A b \in Agent \ {a} : /\ results'[b] = results[b] /\ at'[b] = at[b]
                             /\ told'[b] = told[b] /\ seen'[b] = seen[b]
  BY <1>1
<1> QED BY <1>2, <1>5, <1>6, OwnPart

\* The steps around run().
LEMMA AroundKeeps ==
    ASSUME PipelineInv, NEW a \in Agent, Skip(a) \/ Begin(a) \/ Raise(a) \/ Finish(a)
    PROVE  PipelineInv'
<1>1. CASE Skip(a)
  <2>1. Waiting(a) /\ Return(a, "skipped")
        /\ UNCHANGED <<run, wave, incident, saved, board, seen, memory, extracted, analysis>>
    BY <1>1 DEF Skip
  <2>2. Backed(a, "skipped", board, extracted, seen[a], Full, memory)
    BY <2>1, WaitingIs DEF Backed
  <2>3. "skipped" \in Outcome
    BY DEF Outcome
  <2> QED BY <2>1, <2>2, <2>3, WaitingIs, ReturnKeeps
<1>2. CASE Begin(a)
  <2>1. /\ Waiting(a) /\ FailedDeps(results, a) = {} /\ at' = [at EXCEPT ![a] = 1]
        /\ told' = [told EXCEPT ![a] = "running"]
        /\ UNCHANGED <<run, wave, incident, saved, board, seen, memory, extracted, analysis,
                       results, returned>>
    BY <1>2 DEF Begin, progress
  <2>2. \A d \in DependsOn[a] : results[d] = "completed"
    BY <2>1, WaitingIs DEF FailedDeps
  <2> QED BY <2>1, <2>2, WaitingIs, AttemptKeeps
<1>3. CASE Raise(a)
  <2>1. /\ Running(a)
        /\ UNCHANGED <<run, wave, incident, saved, board, seen, memory, extracted, analysis>>
    BY <1>3 DEF Raise, Raises
  <2>2. CASE Retry(a)
    <3>1. at' = [at EXCEPT ![a] = 1] /\ UNCHANGED <<results, told, returned>>
      BY <2>2 DEF Retry
    <3> QED BY <2>1, <3>1, RunningIs, AttemptKeeps
  <2>3. CASE GiveUp(a)
    <3>1. Return(a, "failed")
      BY <2>3 DEF GiveUp
    <3>2. Backed(a, "failed", board, extracted, seen[a], Full, memory) /\ "failed" \in Outcome
      BY DEF Backed, Outcome
    <3> QED BY <2>1, <3>1, <3>2, RunningIs, ReturnKeeps
  <2> QED BY <1>3, <2>2, <2>3 DEF Raise
<1>4. CASE Finish(a)
  <2>1. /\ Running(a) /\ at[a] > Len(Program[a]) /\ Return(a, "completed")
        /\ UNCHANGED <<run, wave, incident, saved, board, seen, memory, extracted, analysis>>
    BY <1>4 DEF Finish
  <2>2. seen[a] \in SUBSET Reads[a]
    BY DEF PipelineInv, PipelineTypeOK
  <2>3. Backed(a, "completed", board, extracted, seen[a], Full, memory)
    BY <2>1, <2>2, RunningIs, AllPassed
  <2>4. "completed" \in Outcome
    BY DEF Outcome
  <2> QED BY <2>1, <2>3, <2>4, RunningIs, ReturnKeeps
<1> QED BY <1>1, <1>2, <1>3, <1>4

\* What the step of run() that a is at leaves.
LEMMA StepLeaves ==
    ASSUME PipelineInv, NEW a \in Agent, Step(a)
    PROVE  Left(a, at[a] + 1, board', extracted', seen'[a], Full, memory')
<1> DEFINE i == at[a]
           step == Program[a][i]
<1>1. /\ Running(a) /\ i <= Len(Program[a])
      /\ IF step = "ask" THEN extracted' \in Supplier \union {None} ELSE extracted' = extracted
      /\ board' = IF step = "write"
                  THEN [k \in Key |-> IF k \in Writes[a] THEN Produced(k) ELSE board[k]]
                  ELSE board
      /\ memory' = IF step = "remember" THEN memory \union Records(a) ELSE memory
      /\ seen' = IF step = "read"
                 THEN [seen EXCEPT ![a] = {k \in Reads[a] : board[k] = "full"}] ELSE seen
  BY DEF Step
<1>2. /\ i \in Nat /\ i > 0 /\ \A d \in DependsOn[a] : d \in Agent /\ results[d] = "completed"
      /\ Left(a, i, board, extracted, seen[a], Full, memory) /\ run = "running"
  BY <1>1, RunningIs
<1>3. i \in DOMAIN Program[a] /\ DOMAIN Program[a] \subseteq Nat
  BY <1>1, <1>2, ProgramOrder
<1>4. seen \in [Agent -> SUBSET Key]
  BY DEF PipelineInv, PipelineTypeOK
<1> HIDE DEF i, step
<1>5. \A s : Passed(a, i + 1, s) <=> Passed(a, i, s) \/ step = s
  <2>1. \A j \in DOMAIN Program[a] : j < i + 1 <=> j < i \/ j = i
    BY <1>2, <1>3
  <2> QED BY <1>3, <2>1 DEF Passed, step
<1>6. ASSUME Passed(a, i + 1, "write") PROVE Wrote(a, board', Full)
  <2>1. CASE step = "write"
    <3>1. Writes[a] \subseteq Key
      BY OneWriter
    <3>2. \A k \in Writes[a] : board'[k] = Produced(k)
      BY <1>1, <2>1, <3>1
    <3> QED BY <3>1, <3>2 DEF Wrote, Full
  <2>2. CASE step # "write"
    BY <1>1, <1>2, <1>5, <1>6, <2>2 DEF Left
  <2> QED BY <2>1, <2>2
<1>7. ASSUME Passed(a, i + 1, "read") PROVE FoundAll(a, seen'[a], Full)
  <2>1. CASE step = "read"
    <3>1. seen'[a] = {k \in Reads[a] : board[k] = "full"}
      BY <1>1, <1>4, <2>1
    <3>2. ASSUME NEW k \in Reads[a] PROVE board[k] = "full" <=> k \in Full
      <4>1. "Inventory" \in DependsOn[a] /\ "Inventory" \in Agent /\ k \in Writes["Inventory"]
        BY ReadersDepend
      <4>2. results["Inventory"] = "completed" /\ LiveOf("Inventory")
        BY <1>2, <4>1 DEF PipelineInv, LiveOk
      <4>3. at["Inventory"] = 0
        <5> SUFFICES ASSUME at["Inventory"] # 0 PROVE FALSE
          OBVIOUS
        <5>1. at["Inventory"] > 0
          BY <4>1 DEF PipelineInv, PipelineTypeOK
        <5>2. "Inventory" \in Wave(wave) /\ "Inventory" \notin returned
          BY <4>2, <5>1 DEF LiveOf
        <5> QED BY <1>2, <4>1, <4>2, <5>2, StillOut
      <4>4. Wrote("Inventory", board, Full)
        BY <4>2, <4>3 DEF LiveOf, Backed
      <4> QED BY <4>1, <4>4 DEF Wrote
    <3> QED BY <3>1, <3>2 DEF FoundAll
  <2>2. CASE step # "read"
    BY <1>1, <1>2, <1>5, <1>7, <2>2 DEF Left
  <2> QED BY <2>1, <2>2
<1>8. ASSUME Passed(a, i + 1, "remember") PROVE Remembered(a, extracted', seen'[a], memory')
  <2>1. CASE step = "remember"
    <3>1. extracted' = extracted /\ seen' = seen /\ memory' = memory \union Records(a)
      BY <1>1, <2>1
    <3>2. a \in Remembering => Records(a) = RecordsOf(a, extracted, seen[a])
      BY DEF Records, RecordsOf, Remembering
    <3> QED BY <3>1, <3>2 DEF Remembered
  <2>2. CASE step # "remember"
    <3>1. PICK j \in DOMAIN Program[a] : j < i /\ Program[a][j] = "remember"
      BY <1>5, <1>8, <2>2 DEF Passed
    <3>2. step # "ask" /\ step # "read"
      BY <1>2, <1>3, <3>1, ProgramOrder DEF step
    <3>3. extracted' = extracted /\ seen' = seen /\ memory' = memory
      BY <1>1, <2>2, <3>2
    <3>4. Passed(a, i, "remember")
      BY <3>1 DEF Passed
    <3> QED BY <1>2, <3>3, <3>4 DEF Left
  <2> QED BY <2>1, <2>2
<1>9. Left(a, i + 1, board', extracted', seen'[a], Full, memory')
  BY <1>6, <1>7, <1>8 DEF Left
<1> QED BY <1>9 DEF i

\* A step of run() that succeeds.
LEMMA StepKeeps == ASSUME PipelineInv, NEW a \in Agent, Step(a) PROVE PipelineInv'
<1> DEFINE step == Program[a][at[a]]
<1>1. /\ Running(a) /\ at' = [at EXCEPT ![a] = @ + 1]
      /\ UNCHANGED <<incident, told, saved, analysis, run, wave, results, returned>>
      /\ IF step = "ask" THEN extracted' \in Supplier \union {None} ELSE extracted' = extracted
      /\ board' = IF step = "write"
                  THEN [k \in Key |-> IF k \in Writes[a] THEN Produced(k) ELSE board[k]]
                  ELSE board
      /\ memory' = IF step = "remember" THEN memory \union Records(a) ELSE memory
      /\ seen' = IF step = "read"
                 THEN [seen EXCEPT ![a] = {k \in Reads[a] : board[k] = "full"}] ELSE seen
  BY DEF Step
<1>2. /\ run = "running" /\ at[a] \in Nat /\ at[a] > 0 /\ a \in Wave(wave) /\ a \notin returned
      /\ \A d \in DependsOn[a] : results[d] = "completed"
  BY <1>1, RunningIs
<1>3. step = "ask" => a = "Extraction"
  <2>1. at[a] \in DOMAIN Program[a]
    BY <1>2, ProgramOrder DEF Step
  <2> QED BY <2>1, ProgramOrder
<1>4. /\ at \in [Agent -> Nat] /\ board \in [Key -> Value] /\ seen \in [Agent -> SUBSET Key]
      /\ extracted \in Supplier \union {None} /\ \A b \in Agent : seen[b] \subseteq Reads[b]
  BY DEF PipelineInv, PipelineTypeOK
<1> HIDE DEF step
<1>5. board' \in [Key -> Value] /\ \A k \in Key \ Writes[a] : board'[k] = board[k]
  <2>1. \A k \in Key : Produced(k) \in Value
    BY DEF Produced, Value
  <2> QED BY <1>1, <1>4, <2>1
<1>6. seen' \in [Agent -> SUBSET Key] /\ \A b \in Agent : seen'[b] \subseteq Reads[b]
  <2>1. {k \in Reads[a] : board[k] = "full"} \in SUBSET Key
    BY ReadersDepend
  <2> QED BY <1>1, <1>4, <2>1
<1>7. at' \in [Agent -> Nat] /\ at'[a] = at[a] + 1 /\ extracted' \in Supplier \union {None}
  BY <1>1, <1>2, <1>4
<1>8. PipelineTypeOK'
  BY <1>1, <1>5, <1>6, <1>7 DEF PipelineInv, PipelineTypeOK
<1>9. Left(a, at[a] + 1, board', extracted', seen'[a], Full, memory')
  BY StepLeaves
<1>10. results[a] = "none" /\ a \notin Resolved[wave] /\ Full' = Full
  BY <1>1, <1>2, StillOut, FullStays
<1>11. LiveOf(a)'
  BY <1>1, <1>2, <1>7, <1>9, <1>10 DEF LiveOf
<1>12. \A b \in Agent \ {a} : /\ results'[b] = results[b] /\ at'[b] = at[b]
                              /\ told'[b] = told[b] /\ seen'[b] = seen[b]
  BY <1>1, <1>4
<1>13. memory \subseteq memory' /\ (extracted' = extracted \/ a = "Extraction")
  BY <1>1, <1>3
<1> QED BY <1>1, <1>2, <1>5, <1>8, <1>11, <1>12, <1>13, OwnPart

-----------------------------------------------------------------------------
(* The steps of run().                                                     *)

\* Through a checkpoint and back no entry of the blackboard becomes full, or ceases to be.
LEMMA RuntimeIs ==
    ASSUME NEW b \in [Key -> Value]
    PROVE  /\ FromRuntime(b) \in [Key -> Value] /\ ToRuntime(b) \in [Key -> Value]
           /\ \A k \in Key : /\ b[k] = "full" <=> FromRuntime(b)[k] = "full"
                             /\ b[k] = "full" <=> ToRuntime(b)[k] = "full"
BY DEF FromRuntime, ToRuntime, Value

\* The end of a wave: everybody is back, and what their results stand for is checkpointed.
LEMMA EndWaveKeeps == ASSUME PipelineInv, EndWave PROVE PipelineInv'
<1>1. /\ run = "running" /\ wave < WaveCount /\ Stage[wave] \subseteq returned
      /\ wave' = wave + 1 /\ returned' = {}
      /\ saved' = [wave |-> wave + 1, board |-> FromRuntime(board), results |-> results,
                   extracted |-> extracted]
      /\ UNCHANGED <<incident, told, memory, analysis, seen, run, board, results, at, extracted>>
  BY DEF EndWave
<1>2. /\ wave = saved.wave /\ wave \in 0..WaveCount /\ returned \subseteq Wave(wave)
      /\ \A a \in Agent : LiveOf(a) /\ SavedOf(a)
  BY <1>1 DEF PipelineInv, PipelineTypeOK, LiveOk, SavedOk
<1>3. /\ returned = Wave(wave) /\ Resolved[wave + 1] = Resolved[wave] \union Wave(wave)
      /\ wave + 1 \in 0..WaveCount
  <2>1. Stage[wave] = Wave(wave) /\ Resolved[wave + 1] = Resolved[wave] \union Wave(wave)
    BY <1>2, WavesAre
  <2>2. WaveCount \in Nat /\ wave \in Nat
    BY <1>2, WaveCountIsLast
  <2>3. wave + 1 \in 0..WaveCount
    BY <1>1, <2>2
  <2> QED BY <1>1, <1>2, <2>1, <2>3
<1>4. board \in [Key -> Value] /\ results \in Results /\ extracted \in Supplier \union {None}
      /\ at \in [Agent -> Nat]
  BY DEF PipelineInv, PipelineTypeOK
<1>5. /\ saved'.wave = wave + 1 /\ saved'.board = FromRuntime(board)
      /\ saved'.results = results /\ saved'.extracted = extracted /\ saved' \in Checkpoint
  <2>1. FromRuntime(board) \in [Key -> Value]
    BY <1>4, RuntimeIs
  <2> QED BY <1>1, <1>3, <1>4, <2>1 DEF Checkpoint
<1>6. PipelineTypeOK'
  BY <1>1, <1>3, <1>5 DEF PipelineInv, PipelineTypeOK
<1>7. Full' = Full
  BY <1>1, FullStays
<1>8. ASSUME NEW a \in Agent PROVE SavedOf(a)' /\ LiveOf(a)'
  <2>1. at[a] = 0
    BY <1>2, <1>3, <1>4 DEF LiveOf
  <2>2. Backed(a, results[a], board, extracted, seen[a], Full, memory)
    BY <1>2, <2>1 DEF LiveOf
  <2>3. Backed(a, results[a], FromRuntime(board), extracted, seen[a], Full, memory)
    BY <1>4, <2>2, BackedByBoard, OneWriter, RuntimeIs
  <2>4. /\ results[a] # "none" <=> a \in Resolved[wave + 1]
        /\ a \in Resolved[wave + 1] => told[a] = Tells(results[a])
    BY <1>2, <1>3 DEF LiveOf, SavedOf
  <2>5. SavedOf(a)'
    BY <1>1, <1>5, <1>7, <2>3, <2>4 DEF SavedOf
  <2>6. LiveOf(a)'
    BY <1>1, <1>5, <1>7, <2>1, <2>2, <2>4 DEF LiveOf
  <2> QED BY <2>5, <2>6
<1> QED BY <1>1, <1>5, <1>6, <1>8 DEF PipelineInv, SavedOk, LiveOk, DownOk, AssembledOk

\* The analysis is put together.
LEMMA AssembleKeeps == ASSUME PipelineInv, Assemble PROVE PipelineInv'
<1>1. /\ run = "running" /\ wave = WaveCount /\ run' = "assembled"
      /\ analysis' = {k \in AnalysisKeys : board[k] = "full"}
      /\ UNCHANGED <<wave, board, results, returned, extracted, incident, told, memory, saved,
                     seen, at>>
  BY DEF Assemble, progress
<1>2. PipelineTypeOK'
  BY <1>1 DEF PipelineInv, PipelineTypeOK
<1>3. Full' = Full
  BY <1>1, FullStays
<1>4. ASSUME NEW a \in Agent PROVE SavedOf(a)' /\ LiveOf(a)'
  <2>1. SavedOf(a) /\ LiveOf(a)
    BY <1>1 DEF PipelineInv, SavedOk, LiveOk
  <2> QED BY <1>1, <1>3, <2>1 DEF SavedOf, LiveOf
<1>5. wave = saved.wave /\ returned \subseteq Wave(wave)
  BY <1>1 DEF PipelineInv, LiveOk
<1> QED BY <1>1, <1>2, <1>4, <1>5 DEF PipelineInv, SavedOk, LiveOk, DownOk, AssembledOk

\* The process stops: only the checkpoint is left.
LEMMA CrashKeeps == ASSUME PipelineInv, Crash PROVE PipelineInv'
<1>1. /\ run' = "down" /\ wave' = 0 /\ board' = NoBoard /\ results' = NoResults
      /\ returned' = {} /\ extracted' = None /\ at' = Idle
      /\ UNCHANGED <<incident, told, memory, saved, analysis, seen>>
  BY DEF Crash, durable
<1>2. 0 \in 0..WaveCount
  BY WaveCountIsLast
<1>3. NoBoard \in [Key -> Value] /\ NoResults \in Results /\ Idle \in [Agent -> Nat]
  BY DEF NoBoard, Value, NoResults, Results, Idle
<1>4. PipelineTypeOK'
  BY <1>1, <1>2, <1>3 DEF PipelineInv, PipelineTypeOK
<1>5. Full' = Full
  BY <1>1, FullStays
<1>6. \A a \in Agent : SavedOf(a)'
  BY <1>1, <1>5 DEF PipelineInv, SavedOk, SavedOf
<1> QED BY <1>1, <1>4, <1>6 DEF PipelineInv, SavedOk, LiveOk, DownOk, AssembledOk

\* A run that is resumed goes on from what its checkpoint stands for.
LEMMA ResumeKeeps == ASSUME PipelineInv, Resume PROVE PipelineInv'
<1>1. /\ run = "down" /\ run' = "running" /\ wave' = saved.wave
      /\ board' = ToRuntime(saved.board) /\ results' = saved.results
      /\ extracted' = saved.extracted
      /\ UNCHANGED <<incident, told, memory, saved, analysis, seen, at, returned>>
  BY DEF Resume, durable
<1>2. returned = {} /\ at = Idle
  BY <1>1 DEF PipelineInv, DownOk
<1>3. saved \in Checkpoint
  BY DEF PipelineInv, PipelineTypeOK
<1>4. /\ saved.wave \in 0..WaveCount /\ saved.board \in [Key -> Value]
      /\ saved.results \in Results /\ saved.extracted \in Supplier \union {None}
  BY <1>3 DEF Checkpoint
<1>5. ToRuntime(saved.board) \in [Key -> Value]
  BY <1>4, RuntimeIs
<1>6. PipelineTypeOK'
  BY <1>1, <1>4, <1>5 DEF PipelineInv, PipelineTypeOK
<1>7. Full' = Full
  BY <1>1, FullStays
<1>8. ASSUME NEW a \in Agent PROVE SavedOf(a)' /\ LiveOf(a)'
  <2>1. SavedOf(a) /\ at[a] = 0
    BY <1>2 DEF PipelineInv, SavedOk, Idle
  <2>2. Backed(a, saved.results[a], ToRuntime(saved.board), saved.extracted, seen[a], Full, memory)
    BY <1>4, <2>1, BackedByBoard, OneWriter, RuntimeIs DEF SavedOf
  <2> QED BY <1>1, <1>2, <1>7, <2>1, <2>2 DEF SavedOf, LiveOf
<1> QED BY <1>1, <1>2, <1>6, <1>8 DEF PipelineInv, SavedOk, LiveOk, DownOk, AssembledOk

\* A new run has no results, and nothing on its blackboard.
LEMMA PipelineStarts == Init => PipelineInv
<1> SUFFICES ASSUME Init PROVE PipelineInv
  OBVIOUS
<1>1. 0 \in 0..WaveCount /\ Resolved[0] = {}
  BY WaveCountIsLast, ResolvedSteps
<1>2. NoBoard \in [Key -> Value] /\ NoResults \in Results /\ Idle \in [Agent -> Nat]
  BY DEF NoBoard, Value, NoResults, Results, Idle
<1>3. [k \in Key |-> "empty"] \in [Key -> Value]
  BY DEF Value
<1>4. PipelineTypeOK
  BY <1>1, <1>2, <1>3 DEF Init, PipelineTypeOK, Checkpoint
<1>5. ASSUME NEW a \in Agent PROVE SavedOf(a) /\ LiveOf(a)
  <2>1. /\ saved.wave = 0 /\ saved.results = NoResults /\ results = NoResults /\ wave = 0
        /\ saved.board = [k \in Key |-> "empty"] /\ board = NoBoard /\ at = Idle /\ returned = {}
    BY DEF Init
  <2>2. results[a] = "none" /\ saved.results[a] = "none" /\ at[a] = 0
    BY <2>1 DEF NoResults, Idle
  <2>3. Unwritten(a, board) /\ Unwritten(a, saved.board)
    BY <2>1, OneWriter DEF Unwritten, NoBoard
  <2> QED BY <1>1, <2>1, <2>2, <2>3 DEF SavedOf, LiveOf, Backed
<1> QED BY <1>4, <1>5 DEF Init, PipelineInv, SavedOk, LiveOk, DownOk, AssembledOk

\* Every step keeps the invariant.
LEMMA PipelineHolds == Spec => []PipelineInv
<1>1. PipelineInv /\ [Next]_vars => PipelineInv'
  <2> SUFFICES ASSUME PipelineInv, [Next]_vars PROVE PipelineInv'
    OBVIOUS
  <2>1. CASE UNCHANGED vars
    <3>1. UNCHANGED <<wave, board, results, returned, extracted, incident, told, memory, saved,
                      analysis, seen, run, at>>
      BY <2>1 DEF vars, progress, durable
    <3>2. Full' = Full
      BY <3>1, FullStays
    <3>3. ASSUME NEW a \in Agent
          PROVE  (SavedOf(a) => SavedOf(a)') /\ (LiveOf(a) => LiveOf(a)')
      <4>1. SavedOf(a) => SavedOf(a)'
        BY <3>1, <3>2 DEF SavedOf
      <4>2. LiveOf(a) => LiveOf(a)'
        BY <3>1, <3>2 DEF LiveOf
      <4> QED BY <4>1, <4>2
    <3>4. PipelineTypeOK'
      BY <3>1 DEF PipelineInv, PipelineTypeOK
    <3>5. DownOk' /\ AssembledOk'
      BY <3>1 DEF PipelineInv, DownOk, AssembledOk
    <3>6. SavedOk' /\ LiveOk'
      BY <3>1, <3>3 DEF PipelineInv, SavedOk, LiveOk
    <3> QED BY <3>4, <3>5, <3>6 DEF PipelineInv
  <2> QED BY <2>1, AroundKeeps, StepKeeps, EndWaveKeeps, AssembleKeeps, CrashKeeps, ResumeKeeps
          DEF Next, Proceed
<1> QED BY <1>1, PipelineStarts, PTL DEF Spec

\* What a result of the run in memory stands for.
LEMMA ResultsAreBacked ==
    ASSUME PipelineInv, NEW a \in Agent, results[a] # "none"
    PROVE  run # "down" /\ Backed(a, results[a], board, extracted, seen[a], Full, memory)
<1>1. run # "down"
  BY DEF PipelineInv, DownOk, NoResults
<1>2. LiveOf(a) /\ wave \in 0..WaveCount /\ at[a] \in Nat
  BY <1>1 DEF PipelineInv, PipelineTypeOK, LiveOk
<1>3. at[a] = 0
  BY <1>2, WavesAre DEF LiveOf
<1> QED BY <1>1, <1>2, <1>3 DEF LiveOf

(***************************************************************************)
(* The events of _run_agent() and the checkpoint of run() never disagree   *)
(* about an agent of a checkpointed wave, whatever crashed in between.     *)
(***************************************************************************)
THEOREM EventsAndCheckpointAgree == Spec => []EventsTellTheResult
<1>1. PipelineInv => EventsTellTheResult
  <2> SUFFICES ASSUME PipelineInv, NEW a \in Before[saved.wave]
               PROVE  told[a] = Tells(saved.results[a])
    BY DEF EventsTellTheResult, Tells
  <2>1. saved.wave \in 0..WaveCount
    BY DEF PipelineInv, PipelineTypeOK, Checkpoint
  <2>2. a \in Resolved[saved.wave] /\ a \in Agent
    BY <2>1, WavesAre
  <2> QED BY <2>2 DEF PipelineInv, SavedOk, SavedOf
<1> QED BY <1>1, PipelineHolds, PTL

(***************************************************************************)
(* A completed agent has worked from all that Inventory found, though the  *)
(* blackboard was replaced and its entries put through a checkpoint.       *)
(***************************************************************************)
THEOREM ReadersAreServed == Spec => []ReadersSeeTheirWriters
<1>1. PipelineInv => ReadersSeeTheirWriters
  <2> SUFFICES ASSUME PipelineInv, NEW a \in Agent, results[a] = "completed"
               PROVE  seen[a] = {k \in Reads[a] : Produced(k) = "full"}
    BY DEF ReadersSeeTheirWriters
  <2>1. seen[a] = Reads[a] \intersect Full
    BY ResultsAreBacked DEF Backed, FoundAll
  <2> QED BY <2>1, ReadersDepend DEF Full
<1> QED BY <1>1, PipelineHolds, PTL

(***************************************************************************)
(* _assemble_analysis() has the work of every agent that completed and     *)
(* none of an agent that was skipped.                                      *)
(***************************************************************************)
THEOREM AnalysisIsTheWorkDone == Spec => []AnalysisMatchesResults
<1>1. PipelineInv => AnalysisMatchesResults
  <2> DEFINE own(a) == {k \in Writes[a] \intersect AnalysisKeys : Produced(k) = "full"}
  <2> SUFFICES ASSUME PipelineInv, run = "assembled", NEW a \in Agent
               PROVE  /\ results[a] = "completed" => own(a) \subseteq analysis
                      /\ results[a] = "skipped" => own(a) \intersect analysis = {}
    BY DEF AnalysisMatchesResults
  <2>1. analysis = {k \in AnalysisKeys : board[k] = "full"}
    BY DEF PipelineInv, AssembledOk
  <2>2. results[a] = "completed" => Wrote(a, board, Full)
    BY ResultsAreBacked DEF Backed
  <2>3. results[a] = "skipped" => Unwritten(a, board)
    BY ResultsAreBacked DEF Backed
  <2>4. \A k \in Writes[a] : k \in Full <=> Produced(k) = "full"
    BY OneWriter DEF Full
  <2> QED BY <2>1, <2>2, <2>3, <2>4 DEF Wrote, Unwritten
<1> QED BY <1>1, PipelineHolds, PTL

(***************************************************************************)
(* An agent completes only once the memory store has taken its records.    *)
(***************************************************************************)
THEOREM RecordsAreTaken == Spec => []CompletedAgentsAreRemembered
<1>1. PipelineInv => CompletedAgentsAreRemembered
  <2> SUFFICES ASSUME PipelineInv, NEW a \in Remembering, results[a] = "completed"
               PROVE  Records(a) \subseteq memory
    BY DEF CompletedAgentsAreRemembered
  <2>1. a \in Agent
    BY ProgramIs DEF Remembering
  <2>2. RecordsOf(a, extracted, seen[a]) \subseteq memory
    BY <2>1, ResultsAreBacked DEF Backed, Remembered
  <2>3. Records(a) = RecordsOf(a, extracted, seen[a])
    BY DEF Records, RecordsOf, Remembering
  <2> QED BY <2>2, <2>3
<1> QED BY <1>1, PipelineHolds, PTL
====
