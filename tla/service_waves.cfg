SPECIFICATION Spec
CONSTANTS
  a1 = a1
  a2 = a2
  a3 = a3
  Agent = {a1, a2, a3}
  DependsOn <- Fork
  RunId = {r1}
  RequestId = {k1}
  Incident = {i1}
  Mode = {m1}
  ExecId = {e1, e2}
  NoTask = NoTask
  MaxAttempts = 1
  MaxCrashes = 1
  MaxOutages = 1
SYMMETRY ForkSymmetry
INVARIANTS OneWorkerPerRun CheckpointIsWholeWaves AnnouncedWavesAreDurable
           LogHasNoGaps ResultCarriesWholeHistory
PROPERTIES CompletedWavesStayDone StrandedOnlyByOutage RefinesDurableRun
CHECK_DEADLOCK FALSE
