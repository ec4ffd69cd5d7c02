-------------------- MODULE MissionControlSessionProofs --------------------
(***************************************************************************)
(* Proofs about the browser's session of a run, for any number of request  *)
(* ids, events, mounts and faults.                                         *)
(*                                                                         *)
(* None of the promises is inductive.  That the screen speaks of one run   *)
(* needs that the start awaited is the one whose key the tab holds         *)
(* (OneStart); that it shows the log, that the EventSource has read just   *)
(* what is on screen and that a listing has all that was recorded when the *)
(* stream opened (ScreenFollows); that runs are asked for, a balance in    *)
(* which a failed start that the page has yet to hear of already stands    *)
(* for the request id that may follow it (IdsArePaidFor).                  *)
(***************************************************************************)
EXTENDS MissionControlSession, FiniteSetTheorems, TLAPS

Starts == [RequestId -> {"none", "sent", "accepted", "failed"}]

Sources ==
    [run : RequestId \union {None}, lastId : Nat, listed : Nat, since : Nat,
     state : {"none", "connecting", "open", "closed", "refused"}]

SessionTypeOK ==
    /\ tab \in [request : RequestId \union {None}, accepted : RequestId \union {None, Malformed}]
    /\ starts \in Starts /\ orphans \subseteq RequestId
    /\ awaited \in RequestId \union {None}
    /\ source \in Sources
    /\ session \in [accepted : RequestId \union {None}, events : SUBSET Nat,
                    connection : {"idle", "starting", "streaming", "reconnecting"} \union Outcome]
    /\ runs \in [RequestId -> [status : {"none", "running"} \union Outcome, last : Nat]]
    /\ used \subseteq RequestId /\ chosen \in RequestId \union {None}
    /\ mounts \in Nat /\ reruns \in Nat /\ faults \in Nat /\ failures \in Nat

\* The start that is awaited is the one whose key is in the tab, and a tab that has a key
\* has no run.
OneStart ==
    /\ awaited = tab.request
    /\ tab.request # None => tab.accepted = None
    /\ source.state # "none" => session.accepted # None

\* What is on screen is what the source has read of its run, and what it is listed is newer
\* than its opening.
ScreenFollows ==
    /\ session.accepted = None => session.events = {}
    /\ session.accepted # None =>
          /\ session.events = 1..source.lastId
          /\ source.lastId <= runs[session.accepted].last
          /\ source.state = "open" =>
                source.since <= source.listed /\ source.listed <= runs[session.accepted].last
          /\ Settled(session.connection) =>
                /\ source.state = "closed" /\ source.since <= source.lastId
                /\ session.connection = runs[session.accepted].status

\* Requests have ids that were handed out, and so have runs.
IdsInUse ==
    /\ IsFiniteSet(used) /\ orphans \subseteq used /\ Created \subseteq used
    /\ \A k \in RequestId : starts[k] # "none" => k \in used
    /\ tab.request # None => tab.request \in used

\* The tab will make the next effect hand out an id: now, or once the page has heard that
\* its start has failed.
Asks(t) == t.request = None /\ t.accepted \notin RequestId
WillAsk(t, ss) == t.request # None /\ ss[t.request] = "failed"
Due(t, ss) == IF Asks(t) \/ WillAsk(t, ss) THEN 1 ELSE 0

IdsArePaidFor == Cardinality(used) + Due(tab, starts) <= 1 + reruns + failures

SessionInv ==
    /\ SessionTypeOK /\ OneRunOnScreen /\ OneStart /\ ScreenFollows
    /\ IdsInUse /\ IdsArePaidFor

---------------------------------------------------------------------------
\* The two ways an effect goes: it follows the stored run, or waits for a start.
Follows(storage, pending) ==
    \E r \in RequestId :
        /\ storage.accepted = r /\ Connect(r, StartingSession)
        /\ starts' = pending /\ used' = used /\ chosen' = r

Waits(storage, pending) ==
    \E k \in RequestId :
        /\ storage.accepted \notin RequestId
        /\ storage.request = k \/ (storage.request = None /\ k \notin used)
        /\ tab' = [request |-> k, accepted |-> None]
        /\ used' = used \union {k}
        /\ starts' = [pending EXCEPT ![k] = IF @ = "none" THEN "sent" ELSE @]
        /\ awaited' = k /\ chosen' = k /\ source' = NoSource /\ session' = StartingSession

\* An effect does one or the other, and the rest is what the action around it does.
LEMMA MountGoes ==
    ASSUME NEW storage \in [request : RequestId \union {None},
                            accepted : RequestId \union {None, Malformed}],
           NEW pending \in Starts, Mount(storage, pending)
    PROVE  Follows(storage, pending) \/ Waits(storage, pending)
<1>1. CASE storage.accepted \in RequestId
  BY <1>1 DEF Mount, Follows
<1>2. CASE storage.accepted \notin RequestId
  <2>1. StartRunOnce(storage, pending)
    BY <1>2 DEF Mount
  <2>2. PICK k \in IF storage.request # None THEN {storage.request} ELSE RequestId \ used :
          /\ tab' = [EmptyTab EXCEPT !.request = k]
          /\ used' = used \union {k}
          /\ starts' = [pending EXCEPT ![k] = IF @ = "none" THEN "sent" ELSE @]
          /\ awaited' = k /\ chosen' = k /\ source' = NoSource /\ session' = StartingSession
    BY <2>1 DEF StartRunOnce
  <2>3. k \in RequestId /\ (storage.request = k \/ (storage.request = None /\ k \notin used))
    BY <2>2
  <2>4. tab' = [request |-> k, accepted |-> None]
    BY <2>2 DEF EmptyTab
  <2> QED BY <1>2, <2>2, <2>3, <2>4 DEF Waits
<1> QED BY <1>1, <1>2

\* The ways an effect comes to run: what it reads, and which starts are still pending.
Mounting(storage, pending) ==
    /\ Mount(storage, pending)
    /\ \/ storage = tab /\ reruns' = reruns
       \/ storage = EmptyTab /\ reruns' = reruns + 1
    /\ pending \in Starts /\ \A k \in RequestId : pending[k] \in {"none", starts[k]}
    /\ orphans' \in {orphans, orphans \union {k \in RequestId : starts[k] = "sent"}}
    /\ UNCHANGED <<runs, faults, failures>>

\* Opening or reloading the page, running the effect again and "Run again" are such ways.
LEMMA EffectsMount ==
    ASSUME SessionTypeOK, Load \/ Remount \/ Rerun
    PROVE  \E storage \in {tab, EmptyTab}, pending \in Starts : Mounting(storage, pending)
<1>1. CASE Load
  <2> DEFINE pending == [k \in RequestId |-> "none"]
  <2>1. pending \in Starts
    BY DEF Starts
  <2>2. Mounting(tab, pending)
    BY <1>1, <2>1 DEF Load, Mounting
  <2> QED BY <2>1, <2>2
<1>2. CASE Remount
  <2>1. Mounting(tab, starts)
    BY <1>2 DEF Remount, Mounting, SessionTypeOK
  <2> QED BY <2>1 DEF SessionTypeOK
<1>3. CASE Rerun
  <2>1. Mounting(EmptyTab, starts)
    BY <1>3 DEF Rerun, Mounting, SessionTypeOK
  <2> QED BY <2>1 DEF SessionTypeOK
<1> QED BY <1>1, <1>2, <1>3

\* The tab, as it is or cleared for "Run again", and what an effect that follows it writes.
LEMMA MountedTypes ==
    ASSUME SessionTypeOK, NEW storage \in {tab, EmptyTab}
    PROVE  /\ storage \in [request : RequestId \union {None},
                           accepted : RequestId \union {None, Malformed}]
           /\ storage.accepted \in RequestId => storage = tab
BY SessionBoundsAssumption DEF SessionTypeOK, EmptyTab

\* An effect keeps the types.
LEMMA MountKeepsTypes ==
    ASSUME SessionTypeOK, NEW storage \in {tab, EmptyTab}, NEW pending \in Starts,
           Mounting(storage, pending)
    PROVE  SessionTypeOK'
<1>1. Follows(storage, pending) \/ Waits(storage, pending)
  BY MountGoes, MountedTypes DEF Mounting
<1>2. /\ mounts' \in Nat /\ reruns' \in Nat /\ faults' \in Nat /\ failures' \in Nat
      /\ orphans' \subseteq RequestId
      /\ runs' \in [RequestId -> [status : {"none", "running"} \union Outcome, last : Nat]]
  BY DEF Mounting, Mount, SessionTypeOK
<1>3. CASE Follows(storage, pending)
  <2>1. PICK r \in RequestId : /\ Connect(r, StartingSession)
                               /\ starts' = pending /\ used' = used /\ chosen' = r
    BY <1>3 DEF Follows
  <2>2. tab' \in [request : RequestId \union {None}, accepted : RequestId \union {None, Malformed}]
    BY <2>1 DEF Connect, SessionTypeOK
  <2>3. session' \in [accepted : RequestId \union {None}, events : SUBSET Nat,
                      connection : {"idle", "starting", "streaming", "reconnecting"} \union Outcome]
    BY <2>1 DEF Connect, StartingSession, InitialSession
  <2>4. source' \in Sources
    BY <2>1 DEF Connect, NoSource, Sources
  <2> QED BY <1>2, <2>1, <2>2, <2>3, <2>4 DEF SessionTypeOK, Connect
<1>4. CASE Waits(storage, pending)
  <2>1. PICK k \in RequestId :
          /\ tab' = [request |-> k, accepted |-> None]
          /\ used' = used \union {k}
          /\ starts' = [pending EXCEPT ![k] = IF @ = "none" THEN "sent" ELSE @]
          /\ awaited' = k /\ chosen' = k /\ source' = NoSource /\ session' = StartingSession
    BY <1>4 DEF Waits
  <2>2. starts' \in Starts
    BY <2>1 DEF Starts
  <2>3. session' \in [accepted : RequestId \union {None}, events : SUBSET Nat,
                      connection : {"idle", "starting", "streaming", "reconnecting"} \union Outcome]
    BY <2>1 DEF StartingSession, InitialSession
  <2>4. source' \in Sources
    BY <2>1 DEF NoSource, Sources
  <2> QED BY <1>2, <2>1, <2>2, <2>3, <2>4 DEF SessionTypeOK
<1> QED BY <1>1, <1>3, <1>4

\* After an effect, tab, session and source speak of what it has chosen.
LEMMA MountShowsOneRun ==
    ASSUME SessionTypeOK, OneStart, NEW storage \in {tab, EmptyTab}, NEW pending \in Starts,
           Mounting(storage, pending)
    PROVE  (OneRunOnScreen /\ OneStart /\ ScreenFollows)'
<1>1. Follows(storage, pending) \/ Waits(storage, pending)
  BY MountGoes, MountedTypes DEF Mounting
<1>2. CASE Follows(storage, pending)
  <2>1. PICK r \in RequestId : /\ storage.accepted = r /\ Connect(r, StartingSession)
                               /\ chosen' = r
    BY <1>2 DEF Follows
  <2>2. tab.accepted = r /\ r # None /\ tab.request = None
    BY <2>1, MountedTypes, SessionBoundsAssumption DEF OneStart
  <2>3. tab'.request = None /\ tab'.accepted = r
    BY <2>1, <2>2 DEF Connect, SessionTypeOK
  <2>4. /\ session'.accepted = r /\ session'.events = {} /\ session'.connection = "streaming"
        /\ source'.run = r /\ source'.lastId = 0 /\ source'.state = "connecting"
        /\ awaited' = None
    BY <2>1 DEF Connect, StartingSession, InitialSession, NoSource
  <2>5. runs'[r].last \in Nat
    BY DEF Mounting, SessionTypeOK
  <2> QED BY <2>1, <2>2, <2>3, <2>4, <2>5
          DEF OneRunOnScreen, OneStart, ScreenFollows, Settled, Outcome
<1>3. CASE Waits(storage, pending)
  <2>1. PICK k \in RequestId :
          /\ tab' = [request |-> k, accepted |-> None]
          /\ awaited' = k /\ chosen' = k /\ source' = NoSource /\ session' = StartingSession
    BY <1>3 DEF Waits
  <2> QED BY <2>1 DEF OneRunOnScreen, OneStart, ScreenFollows, StartingSession, InitialSession,
             NoSource
<1> QED BY <1>1, <1>2, <1>3

\* An effect hands out an id only where the tab will have one made.
LEMMA MountPays ==
    ASSUME SessionTypeOK, IdsInUse, IdsArePaidFor, NEW storage \in {tab, EmptyTab},
           NEW pending \in Starts, Mounting(storage, pending)
    PROVE  (IdsInUse /\ IdsArePaidFor)'
<1>1. Follows(storage, pending) \/ Waits(storage, pending)
  BY MountGoes, MountedTypes DEF Mounting
<1>2. /\ Cardinality(used) \in Nat /\ failures \in Nat /\ reruns \in Nat /\ reruns' \in Nat
      /\ failures' = failures /\ reruns' >= reruns
  BY FS_CardinalityType DEF IdsInUse, SessionTypeOK, Mounting
<1>3. /\ Created' = Created /\ orphans' \subseteq used
      /\ \A k \in RequestId : pending[k] \in {"none", starts[k]}
  BY DEF Mounting, Created, IdsInUse
<1>4. CASE Follows(storage, pending)
  <2>1. PICK r \in RequestId : /\ storage.accepted = r /\ Connect(r, StartingSession)
                               /\ starts' = pending /\ used' = used
    BY <1>4 DEF Follows
  <2>2. tab'.accepted = r /\ tab'.request \in {None, tab.request}
    BY <2>1 DEF Connect, SessionTypeOK
  <2>3. IdsInUse'
    BY <1>3, <2>1, <2>2 DEF IdsInUse
  <2>4. Due(tab', starts') <= Due(tab, starts)
    BY <1>3, <2>1, <2>2 DEF Due, Asks, WillAsk, SessionTypeOK
  <2> QED BY <1>2, <2>1, <2>3, <2>4 DEF IdsArePaidFor, Due
<1>5. CASE Waits(storage, pending)
  <2>1. PICK k \in RequestId :
          /\ storage.accepted \notin RequestId
          /\ storage.request = k \/ (storage.request = None /\ k \notin used)
          /\ tab' = [request |-> k, accepted |-> None] /\ used' = used \union {k}
          /\ starts' = [pending EXCEPT ![k] = IF @ = "none" THEN "sent" ELSE @]
    BY <1>5 DEF Waits
  <2>2. /\ starts'[k] = IF pending[k] = "none" THEN "sent" ELSE pending[k]
        /\ \A q \in RequestId \ {k} : starts'[q] = pending[q]
    BY <2>1 DEF Starts
  <2>3. IsFiniteSet(used') /\ Cardinality(used') \in Nat
        /\ Cardinality(used') = IF k \in used THEN Cardinality(used) ELSE Cardinality(used) + 1
    BY <2>1, FS_AddElement, FS_CardinalityType DEF IdsInUse
  <2>4. IdsInUse'
    BY <1>3, <2>1, <2>2, <2>3 DEF IdsInUse
  <2>5. k # None
    BY SessionBoundsAssumption
  <2>6. CASE k \in used
    <3>1. storage = tab /\ tab.request = k
      BY <2>1, <2>5, <2>6 DEF EmptyTab
    <3>2. Due(tab', starts') <= Due(tab, starts)
      BY <1>3, <2>1, <2>2, <2>5, <3>1 DEF Due, Asks, WillAsk
    <3> QED BY <1>2, <2>3, <2>4, <2>6, <3>2 DEF IdsArePaidFor, Due
  <2>7. CASE k \notin used
    <3>1. storage.request = None
      BY <2>1, <2>5, <2>7 DEF IdsInUse, EmptyTab
    <3>2. starts[k] = "none"
      BY <2>7 DEF IdsInUse
    <3>3. Due(tab', starts') = 0
      BY <1>3, <2>1, <2>2, <2>5, <3>2 DEF Due, Asks, WillAsk
    <3>4. Due(tab, starts) = 1 \/ reruns' = reruns + 1
      BY <2>1, <3>1 DEF Mounting, Due, Asks
    <3> QED BY <1>2, <2>3, <2>4, <2>7, <3>3, <3>4 DEF IdsArePaidFor, Due
  <2> QED BY <2>6, <2>7
<1> QED BY <1>1, <1>4, <1>5

---------------------------------------------------------------------------
\* create_run leaves a run of its request id, and the others alone.
LEMMA CreateMakes ==
    ASSUME SessionTypeOK, NEW k \in RequestId, Create(k)
    PROVE  /\ runs' \in [RequestId -> [status : {"none", "running"} \union Outcome, last : Nat]]
           /\ \A q \in RequestId : runs'[q] = runs[q] \/ (q = k /\ runs[q] = NoRun)
           /\ \A q \in RequestId : runs'[q].last = runs[q].last
           /\ Created' \subseteq Created \union {k}
<1>1. \A q \in RequestId : runs'[q] =
          IF q = k /\ runs[q] = NoRun THEN [runs[q] EXCEPT !.status = "running"] ELSE runs[q]
  BY DEF Create, SessionTypeOK
<1>2. \A q \in RequestId : runs'[q] \in [status : {"none", "running"} \union Outcome, last : Nat]
  <2> SUFFICES ASSUME NEW q \in RequestId
               PROVE  runs'[q] \in [status : {"none", "running"} \union Outcome, last : Nat]
    OBVIOUS
  <2>1. runs[q] \in [status : {"none", "running"} \union Outcome, last : Nat]
    BY DEF SessionTypeOK
  <2>2. [runs[q] EXCEPT !.status = "running"]
            \in [status : {"none", "running"} \union Outcome, last : Nat]
    BY <2>1
  <2> QED BY <1>1, <2>1, <2>2
<1>3. runs' = [q \in RequestId |-> runs'[q]]
  BY DEF Create, SessionTypeOK
<1>4. runs' \in [RequestId -> [status : {"none", "running"} \union Outcome, last : Nat]]
  BY <1>2, <1>3
<1>5. \A q \in RequestId : runs'[q].last = runs[q].last
  BY <1>1 DEF SessionTypeOK
<1>6. Created' \subseteq Created \union {k}
  BY <1>1 DEF Created
<1> QED BY <1>1, <1>4, <1>5, <1>6

\* A run that is on screen loses nothing when another or it is created, or left as it is.
LEMMA CreateKeepsScreen ==
    ASSUME SessionTypeOK, ScreenFollows, NEW k \in RequestId, Create(k) \/ runs' = runs,
           UNCHANGED <<source, session>>
    PROVE  ScreenFollows'
<1>1. /\ \A q \in RequestId : runs'[q] = runs[q] \/ runs[q] = NoRun
      /\ \A q \in RequestId : runs'[q].last = runs[q].last
  BY CreateMakes
<1>2. CASE session.accepted = None
  BY <1>2, SessionBoundsAssumption DEF ScreenFollows
<1>3. CASE session.accepted # None
  <2>1. session.accepted \in RequestId
    BY <1>3 DEF SessionTypeOK
  <2>2. runs[session.accepted] = NoRun => ~Settled(session.connection)
    BY <1>3 DEF ScreenFollows, NoRun, Settled, Outcome
  <2> QED BY <1>1, <1>3, <2>1, <2>2 DEF ScreenFollows
<1> QED BY <1>2, <1>3

\* The API takes a start, of this page or of one that is gone, or answers it with an error.
LEMMA ServeKeeps ==
    ASSUME SessionInv, NEW k \in RequestId, Serve(k) \/ ServeOrphan(k) \/ Fail(k)
    PROVE  SessionInv'
<1>1. /\ UNCHANGED <<tab, awaited, source, session, used, chosen, mounts, reruns>>
      /\ Create(k) \/ runs' = runs
      /\ k \in used
  BY DEF Serve, ServeOrphan, Fail, page, SessionInv, IdsInUse
<1>2. /\ runs' \in [RequestId -> [status : {"none", "running"} \union Outcome, last : Nat]]
      /\ Created' \subseteq Created \union {k}
  BY <1>1, CreateMakes DEF SessionInv, SessionTypeOK, Created
<1>3. ScreenFollows'
  BY <1>1, CreateKeepsScreen DEF SessionInv
<1>4. /\ starts' \in Starts /\ orphans' \subseteq orphans
      /\ \A q \in RequestId \ {k} : starts'[q] = starts[q]
      /\ \/ failures' = failures + 1
         \/ failures' = failures /\ (starts' = starts \/ starts'[k] = "accepted")
  BY DEF Serve, ServeOrphan, Fail, page, SessionInv, SessionTypeOK, Starts
<1>5. SessionTypeOK'
  <2>1. faults' \in Nat
    BY DEF Serve, ServeOrphan, Fail, Fault, SessionInv, SessionTypeOK
  <2> QED BY <1>1, <1>2, <1>4, <2>1 DEF SessionInv, SessionTypeOK
<1>6. IdsInUse'
  BY <1>1, <1>2, <1>4 DEF SessionInv, IdsInUse
<1>7. IdsArePaidFor'
  <2>1. Cardinality(used) \in Nat /\ failures \in Nat /\ reruns \in Nat
    BY FS_CardinalityType DEF SessionInv, IdsInUse, SessionTypeOK
  <2>2. tab.request \in RequestId \union {None}
    BY DEF SessionInv, SessionTypeOK
  <2>3. Due(tab, starts') <= Due(tab, starts) \/ failures' = failures + 1
    BY <1>4, <2>2 DEF Due, Asks, WillAsk
  <2> QED BY <1>1, <1>4, <2>1, <2>3 DEF SessionInv, IdsArePaidFor, Due
<1>8. (OneRunOnScreen /\ OneStart)'
  BY <1>1 DEF SessionInv, OneRunOnScreen, OneStart
<1> QED BY <1>3, <1>5, <1>6, <1>7, <1>8 DEF SessionInv

\* An accepted start that is awaited is followed; any other is forgotten.
LEMMA AcceptKeeps ==
    ASSUME SessionInv, NEW k \in RequestId, Accept(k)
    PROVE  SessionInv'
<1>1. /\ UNCHANGED <<orphans, runs, used, chosen, mounts, reruns, faults, failures>>
      /\ starts[k] = "accepted" /\ starts' \in Starts /\ starts'[k] = "none"
      /\ \A q \in RequestId \ {k} : starts'[q] = starts[q]
  BY DEF Accept, SessionInv, SessionTypeOK, Starts
<1>2. k # None
  BY SessionBoundsAssumption
<1>3. CASE awaited = k
  <2>1. /\ Connect(k, session) /\ tab.request = k /\ chosen = k /\ session = StartingSession
    BY <1>2, <1>3 DEF Accept, SessionInv, OneRunOnScreen, OneStart
  <2>2. tab' = [request |-> None, accepted |-> k]
    BY <2>1 DEF Connect, SessionInv, SessionTypeOK
  <2>3. /\ session' = [accepted |-> k, events |-> {}, connection |-> "streaming"]
        /\ source' = [run |-> k, state |-> "connecting", lastId |-> 0, listed |-> 0, since |-> 0]
        /\ awaited' = None
    BY <2>1 DEF Connect, StartingSession, InitialSession, NoSource
  <2>4. SessionTypeOK'
    <3>1. source' \in Sources
      BY <2>3 DEF Sources
    <3> QED BY <1>1, <2>2, <2>3, <3>1 DEF SessionInv, SessionTypeOK
  <2>5. (OneRunOnScreen /\ OneStart)'
    BY <1>1, <1>2, <2>1, <2>2, <2>3 DEF OneRunOnScreen, OneStart
  <2>6. ScreenFollows'
    BY <1>1, <1>2, <2>3, <2>4 DEF ScreenFollows, Settled, Outcome, SessionTypeOK
  <2>7. IdsInUse'
    BY <1>1, <2>2 DEF SessionInv, IdsInUse, Created
  <2>8. IdsArePaidFor'
    <3>1. Due(tab', starts') = 0
      BY <1>2, <2>2 DEF Due, Asks, WillAsk
    <3>2. Cardinality(used) \in Nat /\ failures \in Nat /\ reruns \in Nat
      BY FS_CardinalityType DEF SessionInv, IdsInUse, SessionTypeOK
    <3> QED BY <1>1, <3>1, <3>2 DEF SessionInv, IdsArePaidFor, Due
  <2> QED BY <2>4, <2>5, <2>6, <2>7, <2>8 DEF SessionInv
<1>4. CASE awaited # k
  <2>1. UNCHANGED <<tab, awaited, source, session>> /\ tab.request # k
    BY <1>4 DEF Accept, SessionInv, OneStart
  <2>2. SessionTypeOK'
    BY <1>1, <2>1 DEF SessionInv, SessionTypeOK
  <2>3. (OneRunOnScreen /\ OneStart /\ ScreenFollows)'
    BY <1>1, <2>1 DEF SessionInv, OneRunOnScreen, OneStart, ScreenFollows
  <2>4. IdsInUse'
    BY <1>1, <2>1 DEF SessionInv, IdsInUse, Created
  <2>5. tab.request \in RequestId \union {None}
    BY DEF SessionInv, SessionTypeOK
  <2>6. Due(tab', starts') = Due(tab, starts)
    BY <1>1, <2>1, <2>5 DEF Due, Asks, WillAsk
  <2>7. IdsArePaidFor'
    BY <1>1, <2>1, <2>6 DEF SessionInv, IdsArePaidFor
  <2> QED BY <2>2, <2>3, <2>4, <2>7 DEF SessionInv
<1> QED BY <1>3, <1>4

\* A start that has failed frees the tab's key, if it is the tab's.
LEMMA RejectKeeps ==
    ASSUME SessionInv, NEW k \in RequestId, Reject(k)
    PROVE  SessionInv'
<1>1. /\ UNCHANGED <<orphans, source, runs, used, chosen, mounts, reruns, faults, failures>>
      /\ starts[k] = "failed" /\ starts' \in Starts /\ starts'[k] = "none"
      /\ \A q \in RequestId \ {k} : starts'[q] = starts[q]
  BY DEF Reject, SessionInv, SessionTypeOK, Starts
<1>2. k # None
  BY SessionBoundsAssumption
<1>3. tab'.accepted = tab.accepted /\ tab'.request = IF tab.request = k THEN None ELSE tab.request
  BY DEF Reject, SessionInv, SessionTypeOK
<1>4. /\ awaited' = tab'.request
      /\ session'.accepted = session.accepted /\ session'.events = session.events
      /\ session'.connection = session.connection \/ (awaited = k /\ awaited' = None)
      /\ awaited' # None => awaited' = awaited /\ session' = session
  BY <1>2, <1>3 DEF Reject, SessionInv, SessionTypeOK, OneStart
<1>5. SessionTypeOK'
  <2>1. tab' \in [request : RequestId \union {None}, accepted : RequestId \union {None, Malformed}]
    BY DEF Reject, SessionInv, SessionTypeOK
  <2>2. session' \in [accepted : RequestId \union {None}, events : SUBSET Nat,
                      connection : {"idle", "starting", "streaming", "reconnecting"} \union Outcome]
    BY DEF Reject, SessionInv, SessionTypeOK, Outcome
  <2>3. awaited' \in RequestId \union {None}
    BY <1>4, <2>1
  <2> QED BY <1>1, <2>1, <2>2, <2>3 DEF SessionInv, SessionTypeOK
<1>6. awaited = k => session.accepted = None
  BY <1>2 DEF SessionInv, OneRunOnScreen, StartingSession, InitialSession
<1>7. (OneRunOnScreen /\ OneStart)'
  <2>1. OneRunOnScreen'
    BY <1>1, <1>3, <1>4 DEF SessionInv, OneRunOnScreen
  <2>2. OneStart'
    BY <1>1, <1>3, <1>4 DEF SessionInv, OneStart
  <2> QED BY <2>1, <2>2
<1>8. ScreenFollows'
  BY <1>1, <1>4, <1>6 DEF SessionInv, ScreenFollows
<1>9. IdsInUse'
  BY <1>1, <1>3 DEF SessionInv, IdsInUse, Created
<1>10. IdsArePaidFor'
  <2>1. Cardinality(used) \in Nat /\ failures \in Nat /\ reruns \in Nat
    BY FS_CardinalityType DEF SessionInv, IdsInUse, SessionTypeOK
  <2>2. tab.request \in RequestId \union {None}
    BY DEF SessionInv, SessionTypeOK
  <2>3. Due(tab', starts') <= Due(tab, starts)
    BY <1>1, <1>2, <1>3, <2>2 DEF Due, Asks, WillAsk
  <2> QED BY <1>1, <2>1, <2>3 DEF SessionInv, IdsArePaidFor, Due
<1> QED BY <1>5, <1>7, <1>8, <1>9, <1>10 DEF SessionInv

\* The run records an event or settles: what is on screen stays a part of its log, and a
\* settled run does not settle again.
LEMMA RunKeeps ==
    ASSUME SessionInv, NEW k \in RequestId, Work(k) \/ Settle(k)
    PROVE  SessionInv'
<1>1. /\ UNCHANGED <<page, orphans, mounts, reruns, faults, failures>>
      /\ runs[k].status # "none"
      /\ runs'[k].status # runs[k].status => runs[k].status = "running"
      /\ runs'[k].status # "none"
      /\ \A q \in RequestId \ {k} : runs'[q] = runs[q]
      /\ runs'[k].last \in Nat /\ runs'[k].last >= runs[k].last
      /\ runs' \in [RequestId -> [status : {"none", "running"} \union Outcome, last : Nat]]
  <2>1. CASE Work(k)
    BY <2>1 DEF Work, SessionInv, SessionTypeOK
  <2>2. CASE Settle(k)
    BY <2>2 DEF Settle, SessionInv, SessionTypeOK, Outcome
  <2> QED BY <2>1, <2>2
<1>2. SessionTypeOK'
  BY <1>1 DEF page, SessionInv, SessionTypeOK
<1>3. Created' = Created
  <2>1. runs[k] # NoRun
    BY <1>1 DEF NoRun
  <2>2. runs'[k] # NoRun
    BY <1>1 DEF NoRun
  <2> QED BY <1>1, <2>1, <2>2 DEF Created
<1>4. ScreenFollows'
  <2>1. CASE session.accepted = k
    <3>1. /\ session.accepted # None /\ source.lastId <= runs[k].last
          /\ source.state = "open" =>
                source.since <= source.listed /\ source.listed <= runs[k].last
      BY <2>1, SessionBoundsAssumption DEF SessionInv, ScreenFollows
    <3>2. Settled(session.connection) => runs'[k].status = runs[k].status
      BY <1>1, <2>1, <3>1 DEF SessionInv, ScreenFollows, Settled, Outcome
    <3>3. /\ source.lastId \in Nat /\ source.listed \in Nat /\ source.since \in Nat
          /\ runs[k].last \in Nat
      BY DEF SessionInv, SessionTypeOK, Sources
    <3> QED BY <1>1, <2>1, <3>1, <3>2, <3>3 DEF page, SessionInv, ScreenFollows
  <2>2. CASE session.accepted # k
    BY <1>1, <2>2 DEF page, SessionInv, SessionTypeOK, ScreenFollows
  <2> QED BY <2>1, <2>2
<1>5. (IdsInUse /\ IdsArePaidFor)'
  BY <1>1, <1>3 DEF page, SessionInv, IdsInUse, IdsArePaidFor
<1>6. (OneRunOnScreen /\ OneStart)'
  BY <1>1 DEF page, SessionInv, OneRunOnScreen, OneStart
<1> QED BY <1>2, <1>4, <1>5, <1>6 DEF SessionInv

\* What the source reports is of the run on screen, in the order of its log.
LEMMA StreamKeeps ==
    ASSUME SessionInv, Open \/ List \/ ReceiveEvent \/ ReceiveOutcome \/ Break \/ RefuseStream
    PROVE  SessionInv'
<1>1. StreamStep /\ source.state \in {"connecting", "open"}
  BY DEF Open, List, ReceiveEvent, ReceiveOutcome, Break, RefuseStream
<1>2. /\ session.accepted \in RequestId /\ session.accepted # None
      /\ source.run = session.accepted /\ awaited = None
  BY <1>1, SessionBoundsAssumption
  DEF SessionInv, SessionTypeOK, OneStart, OneRunOnScreen, StartingSession, InitialSession
<1>3. source \in Sources /\ runs[source.run].last \in Nat
  BY <1>2 DEF SessionInv, SessionTypeOK
<1>4. /\ session'.accepted = session.accepted /\ source' \in Sources
      /\ source'.run = source.run /\ source'.state # "none"
  <2>1. CASE Open \/ List
    BY <2>1, <1>2, <1>3 DEF Open, List, Sources
  <2>2. CASE ReceiveEvent
    <3>1. source.lastId + 1 \in Nat /\ source.state = "open"
      BY <2>2, <1>3 DEF ReceiveEvent, Sources
    <3>2. source' = [source EXCEPT !.lastId = source.lastId + 1]
      BY <2>2 DEF ReceiveEvent
    <3>3. source' \in Sources /\ source'.run = source.run /\ source'.state = source.state
      BY <1>3, <3>1, <3>2 DEF Sources
    <3>4. session'.accepted = session.accepted
      BY <2>2 DEF ReceiveEvent, SessionInv, SessionTypeOK
    <3> QED BY <3>1, <3>3, <3>4
  <2>3. CASE ReceiveOutcome \/ Break \/ RefuseStream
    BY <2>3, <1>3 DEF ReceiveOutcome, Break, RefuseStream, SessionInv, SessionTypeOK, Sources
  <2> QED BY <2>1, <2>2, <2>3
<1>5. (OneRunOnScreen /\ OneStart)'
  <2>1. OneRunOnScreen'
    BY <1>1, <1>2, <1>4 DEF StreamStep, SessionInv, OneRunOnScreen
  <2>2. OneStart'
    BY <1>1, <1>2, <1>4 DEF StreamStep, SessionInv, OneStart
  <2> QED BY <2>1, <2>2
<1>6. (IdsInUse /\ IdsArePaidFor)'
  BY <1>1 DEF StreamStep, SessionInv, IdsInUse, IdsArePaidFor, Created
<1>7. /\ session.events = 1..source.lastId /\ source.lastId <= runs[source.run].last
      /\ source.state = "open" =>
            source.since <= source.listed /\ source.listed <= runs[source.run].last
      /\ ~Settled(session.connection)
  BY <1>1, <1>2 DEF SessionInv, ScreenFollows
<1>8. source.lastId \in Nat /\ source.listed \in Nat /\ source.since \in Nat
  BY <1>3 DEF Sources
<1>9. SessionTypeOK'
  <2>1. session' \in [accepted : RequestId \union {None}, events : SUBSET Nat,
                      connection : {"idle", "starting", "streaming", "reconnecting"} \union Outcome]
    <3>1. session.events \union {source.lastId + 1} \in SUBSET Nat
      BY <1>8 DEF SessionInv, SessionTypeOK
    <3> QED BY <1>2, <3>1
        DEF Open, List, ReceiveEvent, ReceiveOutcome, Break, RefuseStream, Settled, SessionInv,
            SessionTypeOK
  <2>2. faults' \in Nat
    BY DEF Open, List, ReceiveEvent, ReceiveOutcome, Break, RefuseStream, Fault, SessionInv,
           SessionTypeOK
  <2> QED BY <1>1, <1>4, <2>1, <2>2 DEF StreamStep, SessionInv, SessionTypeOK
<1>10. ScreenFollows'
  <2>1. CASE Open \/ List
    <3>1. /\ source'.lastId = source.lastId /\ source'.state = "open" /\ session' = session
          /\ source'.listed = runs[source.run].last
          /\ source'.since \in {source.since, runs[source.run].last}
      BY <2>1, <1>3 DEF Open, List, Sources
    <3>2. source'.since <= source'.listed
      <4>1. CASE Open
        BY <4>1, <1>3 DEF Open, Sources
      <4>2. CASE List
        <5>1. source'.since = source.since /\ source.listed < runs[source.run].last
          BY <4>2, <1>3 DEF List, Sources
        <5>2. source.since <= source.listed
          BY <4>2, <1>7 DEF List
        <5> QED BY <1>3, <1>8, <3>1, <5>1, <5>2
      <4> QED BY <2>1, <4>1, <4>2
    <3>3. source'.listed <= runs[source.run].last
      BY <1>3, <3>1
    <3>4. session' = session /\ runs' = runs /\ source'.lastId = source.lastId
      BY <1>1, <3>1 DEF StreamStep
    <3> QED BY <1>2, <1>7, <3>2, <3>3, <3>4 DEF ScreenFollows
  <2>2. CASE ReceiveEvent
    <3>1. /\ source'.lastId = source.lastId + 1 /\ source.lastId < source.listed
          /\ source'.state = "open" /\ source.state = "open"
          /\ source'.listed = source.listed /\ source'.since = source.since
          /\ session'.events = session.events \union {source.lastId + 1}
          /\ session'.connection = "streaming"
      BY <2>2, <1>3 DEF ReceiveEvent, Sources, SessionInv, SessionTypeOK
    <3>2. session'.events = 1..source'.lastId
      BY <1>7, <1>8, <3>1
    <3>3. source'.lastId <= runs[source.run].last
      BY <1>3, <1>7, <1>8, <3>1
    <3> QED BY <1>1, <1>2, <1>4, <1>7, <3>1, <3>2, <3>3
        DEF ScreenFollows, StreamStep, Settled, Outcome
  <2>3. CASE ReceiveOutcome
    <3>1. /\ source'.lastId = source.lastId /\ source'.state = "closed" /\ source.state = "open"
          /\ source.lastId = source.listed /\ source'.since = source.since
          /\ session'.events = session.events
          /\ session'.connection = runs[source.run].status
      BY <2>3, <1>3 DEF ReceiveOutcome, Sources, SessionInv, SessionTypeOK
    <3> QED BY <1>1, <1>2, <1>4, <1>7, <3>1 DEF ScreenFollows, StreamStep
  <2>4. CASE Break \/ RefuseStream
    <3>1. /\ source'.lastId = source.lastId /\ source'.state # "open"
          /\ session'.events = session.events /\ session'.connection = "reconnecting"
      BY <2>4, <1>3 DEF Break, RefuseStream, Sources, SessionInv, SessionTypeOK
    <3> QED BY <1>1, <1>2, <1>4, <1>7, <3>1 DEF ScreenFollows, StreamStep, Settled, Outcome
  <2> QED BY <2>1, <2>2, <2>3, <2>4
<1> QED BY <1>5, <1>6, <1>9, <1>10 DEF SessionInv

---------------------------------------------------------------------------
\* A tab that nobody has opened the page in may have one run made.
LEMMA InitSession == Init => SessionInv
<1> SUFFICES ASSUME Init PROVE SessionInv
  OBVIOUS
<1>1. SessionTypeOK
  BY DEF Init, SessionTypeOK, Sources, Starts, EmptyTab, InitialSession, NoSource, NoRun, Malformed
<1>2. OneRunOnScreen /\ OneStart /\ ScreenFollows
  BY DEF Init, OneRunOnScreen, OneStart, ScreenFollows, EmptyTab, InitialSession, NoSource
<1>3. Cardinality(used) = 0 /\ IsFiniteSet(used)
  BY FS_EmptySet DEF Init
<1>4. IdsInUse /\ IdsArePaidFor
  BY <1>3 DEF Init, IdsInUse, IdsArePaidFor, Due, Created, EmptyTab
<1> QED BY <1>1, <1>2, <1>4 DEF SessionInv

\* Every step of the page, the API and the network keeps the invariant.
LEMMA NextSession == SessionInv /\ [Next]_vars => SessionInv'
<1> SUFFICES ASSUME SessionInv, [Next]_vars PROVE SessionInv'
  OBVIOUS
<1>1. CASE Load \/ Remount \/ Rerun
  BY <1>1, EffectsMount, MountKeepsTypes, MountShowsOneRun, MountPays DEF SessionInv
<1>2. CASE \E k \in RequestId : Serve(k) \/ ServeOrphan(k) \/ Fail(k)
  BY <1>2, ServeKeeps
<1>3. CASE \E k \in RequestId : Accept(k)
  BY <1>3, AcceptKeeps
<1>4. CASE \E k \in RequestId : Reject(k)
  BY <1>4, RejectKeeps
<1>5. CASE \E k \in RequestId : Work(k) \/ Settle(k)
  BY <1>5, RunKeeps
<1>6. CASE Open \/ List \/ ReceiveEvent \/ ReceiveOutcome \/ Break \/ RefuseStream
  BY <1>6, StreamKeeps
<1>7. CASE UNCHANGED vars
  <2>1. UNCHANGED <<page, orphans, runs, mounts, reruns, faults, failures>>
    BY <1>7 DEF vars
  <2>2. SessionTypeOK' /\ OneRunOnScreen' /\ OneStart'
    BY <2>1 DEF page, SessionInv, SessionTypeOK, OneRunOnScreen, OneStart
  <2>3. ScreenFollows' /\ IdsInUse' /\ IdsArePaidFor'
    BY <2>1 DEF page, SessionInv, ScreenFollows, IdsInUse, IdsArePaidFor, Created
  <2> QED BY <2>2, <2>3 DEF SessionInv
<1> QED BY <1>1, <1>2, <1>3, <1>4, <1>5, <1>6, <1>7 DEF Next, Reply, Follow

\* The invariant holds in every state of the session.
LEMMA SessionHolds == Spec => []SessionInv
BY InitSession, NextSession, PTL DEF Spec

\* Late answers, remounts and reloads never mix two runs: tab, session and source speak of
\* the one the page chose last.
THEOREM OneRunAtATime == Spec => []OneRunOnScreen
BY SessionHolds, PTL DEF SessionInv

\* What the dashboard shows is the beginning of the run's log, and with the outcome at least
\* what was recorded before its stream was opened.
THEOREM TheLogIsShown == Spec => []ScreenShowsTheLog
<1>1. SessionInv => ScreenShowsTheLog
  <2> SUFFICES ASSUME SessionInv PROVE ScreenShowsTheLog
    OBVIOUS
  <2>1. CASE session.accepted = None
    <3>1. session.events = {} /\ Cardinality({}) = 0
      BY <2>1, FS_EmptySet DEF SessionInv, ScreenFollows
    <3> QED BY <2>1, <3>1 DEF ScreenShowsTheLog
  <2>2. CASE session.accepted # None
    <3>1. source.lastId \in Nat /\ session.events = 1..source.lastId
      BY <2>2 DEF SessionInv, SessionTypeOK, Sources, ScreenFollows
    <3>2. Cardinality(session.events) = source.lastId
      BY <3>1, FS_Interval
    <3>3. source.lastId <= runs[session.accepted].last
      BY <2>2 DEF SessionInv, ScreenFollows
    <3>4. Settled(session.connection) =>
            source.lastId >= source.since /\ session.connection = runs[session.accepted].status
      <4>1. source.since \in Nat
        BY DEF SessionInv, SessionTypeOK, Sources
      <4>2. Settled(session.connection) =>
              source.since <= source.lastId /\ session.connection = runs[session.accepted].status
        BY <2>2 DEF SessionInv, ScreenFollows
      <4> QED BY <3>1, <4>1, <4>2
    <3> QED BY <2>2, <3>1, <3>2, <3>3, <3>4 DEF ScreenShowsTheLog
  <2> QED BY <2>1, <2>2
<1> QED BY <1>1, SessionHolds, PTL

\* However often the page is reloaded or the effect runs, it makes no run nobody asked for.
THEOREM NoRunUnasked == Spec => []RunsAreAskedFor
<1>1. SessionInv => RunsAreAskedFor
  <2> SUFFICES ASSUME SessionInv PROVE RunsAreAskedFor
    OBVIOUS
  <2>1. Cardinality(Created) <= Cardinality(used) /\ IsFiniteSet(Created)
    BY FS_Subset DEF SessionInv, IdsInUse
  <2>2. Cardinality(Created) \in Nat /\ Cardinality(used) \in Nat
    BY <2>1, FS_CardinalityType DEF SessionInv, IdsInUse
  <2>3. reruns \in Nat /\ failures \in Nat
    BY DEF SessionInv, SessionTypeOK
  <2> QED BY <2>1, <2>2, <2>3 DEF SessionInv, IdsArePaidFor, Due, RunsAreAskedFor
<1> QED BY <1>1, SessionHolds, PTL
=============================================================================
