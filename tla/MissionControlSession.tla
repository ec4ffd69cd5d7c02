------------------------ MODULE MissionControlSession ------------------------
(***************************************************************************)
(* The browser's side of a run: useOrchestrationRun with the session       *)
(* storage of its tab, the starts its page has in flight, the EventSource  *)
(* and the session the reducer builds from what arrives.  The API is kept  *)
(* to its promises: one run per request id (the unique key of its table),  *)
(* by which a run is named here, and a stream that resumes after           *)
(* Last-Event-ID (ReceivedIsLogPrefix).  The stream tells of an outcome    *)
(* when the events of its last listing are sent, and there may be newer    *)
(* ones by then (event_stream_tail).                                       *)
(*                                                                         *)
(* Every callback of the page runs to its end, with the promise reactions  *)
(* it queues: a reply stores, forgets and connects in one step.            *)
(***************************************************************************)
EXTENDS Naturals, FiniteSets

CONSTANTS
    RequestId,   \* request ids crypto.randomUUID() may return
    None,        \* null
    RerunFrom,   \* connection states from which rerun() is called
    MaxEvents,   \* events of a run (a bound)
    MaxMounts,   \* times the hook's effect runs (a bound)
    MaxFaults    \* refused or lost answers, broken or refused streams (a bound)

ASSUME SessionBoundsAssumption ==
    MaxEvents \in Nat /\ MaxMounts \in Nat /\ MaxFaults \in Nat /\ None \notin RequestId

VARIABLES
    tab,       \* sessionStorage: the request key and the accepted run
    starts,    \* starts of this page: pendingStarts, and where each one is
    orphans,   \* starts of pages that are gone, which the API may still get
    awaited,   \* the start the active effect waits for
    source,    \* the active effect's EventSource: the last id it has received, how far the
               \* server's last listing goes, and how long the log was when it opened
    session,   \* the reducer's state; its connection is idle, starting, streaming,
               \* reconnecting, completed or failed
    runs,      \* the API's runs
    used,      \* request ids handed out
    mounts, reruns, faults,
    failures,  \* starts answered with an error
    chosen     \* the request whose run the last effect chose

page == <<tab, starts, awaited, source, session, used, chosen>>
vars == <<page, orphans, runs, mounts, reruns, faults, failures>>

Outcome == {"completed", "failed"}
Malformed == "malformed"    \* what restoreAcceptedRun cannot read

EmptyTab == [request |-> None, accepted |-> None]
InitialSession == [accepted |-> None, events |-> {}, connection |-> "idle"]
StartingSession == [InitialSession EXCEPT !.connection = "starting"]
NoSource == [run |-> None, state |-> "none", lastId |-> 0, listed |-> 0, since |-> 0]
NoRun == [status |-> "none", last |-> 0]

Settled(connection) == connection \in Outcome

Init ==
    /\ \E left \in {None, Malformed} : tab = [EmptyTab EXCEPT !.accepted = left]
    /\ starts = [k \in RequestId |-> "none"] /\ orphans = {} /\ awaited = None
    /\ source = NoSource /\ session = InitialSession
    /\ runs = [k \in RequestId |-> NoRun] /\ used = {}
    /\ mounts = 0 /\ reruns = 0 /\ faults = 0 /\ failures = 0
    /\ chosen = None

---------------------------------------------------------------------------
(* The effect of useOrchestrationRun.                                      *)

\* A plausible bug: the stream is asked for what follows the session's last sequence, which
\* the effect has just reset.
ConnectAfterLastSequence(run, s) ==
    /\ tab' = [tab EXCEPT !.accepted = run]
    /\ session' = [s EXCEPT !.accepted = run, !.connection = "streaming"]
    /\ source' = [NoSource EXCEPT !.run = run, !.state = "connecting",
                                  !.lastId = Cardinality(session.events)]
    /\ awaited' = None

\* connect(accepted), the session being s at the time.
Connect(run, s) ==
    /\ tab' = [tab EXCEPT !.accepted = run,
                          !.request = IF @ = run THEN None ELSE @]
    /\ session' = [s EXCEPT !.accepted = run, !.connection = "streaming"]
    /\ source' = [NoSource EXCEPT !.run = run, !.state = "connecting"]
    /\ awaited' = None

\* A plausible bug: every effect makes an id of its own.
StartAnew(storage, pending) ==
    \E k \in RequestId \ used :
        /\ tab' = [EmptyTab EXCEPT !.request = k]
        /\ used' = used \union {k}
        /\ starts' = [pending EXCEPT ![k] = "sent"]
        /\ awaited' = k /\ chosen' = k /\ source' = NoSource /\ session' = StartingSession

\* startRunOnce: the tab's request id if it has one, and its start in flight if there is one.
StartRunOnce(storage, pending) ==
    \E k \in IF storage.request # None THEN {storage.request} ELSE RequestId \ used :
        /\ tab' = [EmptyTab EXCEPT !.request = k]
        /\ used' = used \union {k}
        /\ starts' = [pending EXCEPT ![k] = IF @ = "none" THEN "sent" ELSE @]
        /\ awaited' = k /\ chosen' = k /\ source' = NoSource /\ session' = StartingSession

\* The body of the effect, after the cleanup of the one before it has closed its source and
\* left its callbacks without effect: the stored run, or a start.
Mount(storage, pending) ==
    /\ mounts < MaxMounts /\ mounts' = mounts + 1
    /\ IF storage.accepted \in RequestId
       THEN /\ Connect(storage.accepted, StartingSession)
            /\ starts' = pending /\ used' = used /\ chosen' = storage.accepted
       ELSE StartRunOnce(storage, pending)

\* The page is opened, or reloaded: what it had in flight may still reach the API.
Load ==
    /\ Mount(tab, [k \in RequestId |-> "none"])
    /\ orphans' = orphans \union {k \in RequestId : starts[k] = "sent"}
    /\ UNCHANGED <<runs, reruns, faults, failures>>

\* Strict Mode and hot updates run the effect again in the same page.
Remount ==
    /\ mounts > 0 /\ Mount(tab, starts)
    /\ UNCHANGED <<orphans, runs, reruns, faults, failures>>

\* rerun(), "Run again".
Rerun ==
    /\ session.connection \in RerunFrom
    /\ Mount(EmptyTab, starts) /\ reruns' = reruns + 1
    /\ UNCHANGED <<orphans, runs, faults, failures>>

---------------------------------------------------------------------------
(* A start and its answer.                                                 *)

Fault == faults < MaxFaults /\ faults' = faults + 1

\* create_run: the request id's run, old or new.
Create(k) == runs' = [runs EXCEPT ![k] = IF @ = NoRun THEN [@ EXCEPT !.status = "running"] ELSE @]

Serve(k) ==
    /\ starts[k] = "sent"
    /\ Create(k)
    /\ starts' = [starts EXCEPT ![k] = "accepted"]
    /\ UNCHANGED <<tab, orphans, awaited, source, session, used, chosen, mounts, reruns, faults, failures>>

ServeOrphan(k) ==
    /\ k \in orphans /\ orphans' = orphans \ {k}
    /\ Create(k)
    /\ UNCHANGED <<page, mounts, reruns, faults, failures>>

\* 429, 500, 503 or no connection: the API has the run or it has not.
Fail(k) ==
    /\ starts[k] = "sent" /\ Fault
    /\ starts' = [starts EXCEPT ![k] = "failed"]
    /\ failures' = failures + 1
    /\ Create(k) \/ runs' = runs
    /\ UNCHANGED <<tab, orphans, awaited, source, session, used, chosen, mounts, reruns>>

\* A plausible bug: an effect that is no longer active connects all the same.
AcceptRegardless(k) ==
    /\ starts[k] = "accepted"
    /\ starts' = [starts EXCEPT ![k] = "none"]
    /\ tab' = [tab EXCEPT !.accepted = k]
    /\ session' = [session EXCEPT !.accepted = k, !.connection = "streaming"]
    /\ source' = [NoSource EXCEPT !.run = k, !.state = "connecting"]
    /\ awaited' = IF awaited = k THEN None ELSE awaited
    /\ UNCHANGED <<orphans, runs, used, chosen, mounts, reruns, faults, failures>>

\* The accepted run goes to the tab if it still has the request key, and to the active
\* effect if it waits for it.
Accept(k) ==
    /\ starts[k] = "accepted"
    /\ starts' = [starts EXCEPT ![k] = "none"]
    /\ IF awaited = k
       THEN Connect(k, session)
       ELSE /\ tab' = IF tab.request = k THEN [EmptyTab EXCEPT !.accepted = k] ELSE tab
            /\ UNCHANGED <<awaited, source, session>>
    /\ UNCHANGED <<orphans, runs, used, chosen, mounts, reruns, faults, failures>>

\* The catch of startRunOnce forgets the request key; the effect's shows the failure.
Reject(k) ==
    /\ starts[k] = "failed"
    /\ starts' = [starts EXCEPT ![k] = "none"]
    /\ tab' = [tab EXCEPT !.request = IF @ = k THEN None ELSE @]
    /\ IF awaited = k
       THEN awaited' = None /\ session' = [session EXCEPT !.connection = "failed"]
       ELSE UNCHANGED <<awaited, session>>
    /\ UNCHANGED <<orphans, source, runs, used, chosen, mounts, reruns, faults, failures>>

---------------------------------------------------------------------------
(* The run and its stream.                                                 *)

\* An event is recorded; agents that gather() left behind do so beyond the run's end.
Work(k) ==
    /\ runs[k].status # "none" /\ runs[k].last < MaxEvents
    /\ runs' = [runs EXCEPT ![k].last = @ + 1]
    /\ UNCHANGED <<page, orphans, mounts, reruns, faults, failures>>

Settle(k) ==
    /\ runs[k].status = "running"
    /\ \E outcome \in Outcome : runs' = [runs EXCEPT ![k].status = outcome]
    /\ UNCHANGED <<page, orphans, mounts, reruns, faults, failures>>

StreamStep == UNCHANGED <<tab, starts, orphans, awaited, runs, used, chosen, mounts, reruns, failures>>

\* The stream begins, or begins again after the last id, with a first listing.
Open ==
    /\ source.state = "connecting"
    /\ source' = [source EXCEPT !.state = "open", !.listed = runs[source.run].last,
                                !.since = runs[source.run].last]
    /\ UNCHANGED <<session, faults>> /\ StreamStep

\* The server lists again, which it does when it has sent all it had listed.
List ==
    /\ source.state = "open" /\ source.listed < runs[source.run].last
    /\ source' = [source EXCEPT !.listed = runs[source.run].last]
    /\ UNCHANGED <<session, faults>> /\ StreamStep

ReceiveEvent ==
    /\ source.state = "open" /\ source.lastId < source.listed
    /\ source' = [source EXCEPT !.lastId = @ + 1]
    /\ session' = [session EXCEPT !.events = @ \union {source.lastId + 1},
                                  !.connection = "streaming"]
    /\ UNCHANGED faults /\ StreamStep

\* "result" or "run-error" follows what was listed, and the page closes its source.  The
\* history in the result is not merged into the session's events.
ReceiveOutcome ==
    /\ source.state = "open"
    /\ source.lastId = source.listed /\ Settled(runs[source.run].status)
    /\ source' = [source EXCEPT !.state = "closed"]
    /\ session' = [session EXCEPT !.connection = runs[source.run].status]
    /\ UNCHANGED faults /\ StreamStep

\* A plausible bug: the error handler closes the source.
BreakForGood ==
    /\ source.state = "open" /\ Fault
    /\ source' = [source EXCEPT !.state = "closed"]
    /\ session' = [session EXCEPT !.connection = "reconnecting"]
    /\ StreamStep

\* The connection breaks: the EventSource connects again by itself.
Break ==
    /\ source.state = "open" /\ Fault
    /\ source' = [source EXCEPT !.state = "connecting"]
    /\ session' = [session EXCEPT !.connection = "reconnecting"]
    /\ StreamStep

\* An answer other than 200 (404, 429, 503) ends an EventSource for good, which onerror
\* cannot tell from a broken connection.
RefuseStream ==
    /\ source.state = "connecting" /\ Fault
    /\ source' = [source EXCEPT !.state = "refused"]
    /\ session' = [session EXCEPT !.connection = "reconnecting"]
    /\ StreamStep

Reply == \E k \in RequestId : Serve(k) \/ Accept(k) \/ Reject(k)
Follow == Open \/ List \/ ReceiveEvent \/ ReceiveOutcome
Next ==
    \/ Load \/ Remount \/ Rerun
    \/ Reply \/ \E k \in RequestId : ServeOrphan(k) \/ Fail(k) \/ Work(k) \/ Settle(k)
    \/ Follow \/ Break \/ RefuseStream

Spec == Init /\ [][Next]_vars

\* The API answers, its runs settle (EveryRunSettles) and the network delivers.
FairSpec == Spec /\ WF_vars(Reply) /\ WF_vars(Follow)
                 /\ \A k \in RequestId : WF_vars(Settle(k))

---------------------------------------------------------------------------
(* Properties.                                                             *)

\* However pages are reloaded, effects remounted and answers delayed, the tab, the session
\* and the source speak of one run: the one the page chose last, never an earlier one whose
\* answer came late.
OneRunOnScreen ==
    /\ session.accepted # None =>
          session.accepted = chosen /\ tab.accepted = chosen /\ source.run = chosen
    /\ awaited # None => awaited = chosen /\ session = StartingSession /\ source = NoSource

\* The events on screen are the beginning of that run's log: no event is missing in between,
\* and none is left from another run.  Once the outcome is shown, everything is there that was
\* recorded before the stream was opened, so that a reload shows what the first stream missed.
ScreenShowsTheLog ==
    LET shown == Cardinality(session.events)
    IN  /\ session.events = 1..shown
        /\ session.accepted = None => shown = 0
        /\ session.accepted # None =>
              /\ shown <= runs[session.accepted].last
              /\ Settled(session.connection) =>
                    /\ shown >= source.since
                    /\ session.connection = runs[session.accepted].status

Created == {k \in RequestId : runs[k] # NoRun}

\* Reloads and remounts make no runs: each run beyond the first is one "Run again" or one
\* start that was answered with an error.
RunsAreAskedFor == Cardinality(Created) <= 1 + reruns + failures

\* A tab that has a run gets to its outcome, across broken connections, unless it moves on
\* to another run or its stream is refused.
OutcomeIsShown ==
    \A k \in RequestId : tab.accepted = k ~>
        \/ session.accepted = k /\ Settled(session.connection)
        \/ tab.accepted # k \/ source.state = "refused"
=============================================================================
