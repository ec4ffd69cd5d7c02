----------------------------- MODULE EventStream -----------------------------
(***************************************************************************)
(* How the events and the outcome of one run reach the people waiting for  *)
(* them: the SSE generator OrchestrationService.stream with the browser's  *)
(* EventSource at the other end of an unreliable connection, and the       *)
(* synchronous wait_for_result.  Both sleep on the run's asyncio.Condition *)
(* and are woken by _notify after each commit.                             *)
(*                                                                         *)
(* The log is abstracted to its last number: the events are 1..last        *)
(* (LogHasNoGaps of OrchestrationService).  A step ends where the code can *)
(* be suspended: at a yield, at the condition's lock, in wait().           *)
(***************************************************************************)
EXTENDS Naturals, Sequences

CONSTANTS
    MaxEvents,   \* events of the run (a bound)
    MaxDrops     \* lost connections (a bound)

ASSUME StreamBoundsAssumption == MaxEvents \in Nat /\ MaxDrops \in Nat

VARIABLES
    last,      \* number of the last committed event
    status,    \* status of the run's row
    unwoken,   \* a commit whose notify_all is still to come
    server,    \* the stream() generator of the open connection
    wire,      \* SSE frames sent and not yet received
    client,    \* the browser's EventSource
    waiter,    \* a call of wait_for_result
    drops

vars == <<last, status, unwoken, server, wire, client, waiter, drops>>

Outcome == {"completed", "failed"}
NoOutcome == "none"

\* A frame: an event with its number as SSE id, or the outcome of the run, without an id.
EventFrame(n) == [id |-> n, outcome |-> NoOutcome]
OutcomeFrame(outcome) == [id |-> 0, outcome |-> outcome]

\* The generator is at "list", "yield", "check" or "waiting"; there is no connection
\* ("none"), or it has returned ("closed").
NoServer == [pc |-> "none", cursor |-> 0, listed |-> 0]

Init ==
    /\ last = 0 /\ status = "running" /\ unwoken = FALSE
    /\ server = NoServer /\ wire = <<>>
    /\ client = [got |-> <<>>, lastId |-> 0, outcome |-> NoOutcome]
    /\ waiter = "check" /\ drops = 0

---------------------------------------------------------------------------
(* The worker: every commit is followed by _notify.                        *)

\* A failed run may still get events, from agents that outlive their orchestrator.
AppendEvent ==
    /\ status # "completed" /\ last < MaxEvents
    /\ last' = last + 1 /\ unwoken' = TRUE
    /\ UNCHANGED <<status, server, wire, client, waiter, drops>>

\* complete_run or fail_run.
SettleRun ==
    /\ status = "running"
    /\ status' \in Outcome /\ unwoken' = TRUE
    /\ UNCHANGED <<last, server, wire, client, waiter, drops>>

\* A plausible bug: notify() in place of notify_all().
NotifyOne ==
    /\ unwoken /\ unwoken' = FALSE
    /\ \/ /\ waiter = "waiting"
          /\ waiter' = "check" /\ server' = server
       \/ /\ server.pc = "waiting"
          /\ waiter' = waiter /\ server' = [server EXCEPT !.pc = "list"]
       \/ /\ waiter # "waiting" /\ server.pc # "waiting"
          /\ UNCHANGED <<waiter, server>>
    /\ UNCHANGED <<last, status, wire, client, drops>>

\* Both sleepers look again.
Notify ==
    /\ unwoken /\ unwoken' = FALSE
    /\ server' = [server EXCEPT !.pc = IF @ = "waiting" THEN "list" ELSE @]
    /\ waiter' = IF waiter = "waiting" THEN "check" ELSE waiter
    /\ UNCHANGED <<last, status, wire, client, drops>>

---------------------------------------------------------------------------
(* OrchestrationService.stream.  It is suspended at each yield, so what    *)
(* was listed may be old by the time the row is read.                      *)

\* The next of the listed events.
SendEvent(listed) ==
    /\ wire' = Append(wire, EventFrame(server.cursor + 1))
    /\ server' = [server EXCEPT !.pc = "yield", !.cursor = @ + 1, !.listed = listed]

\* A plausible bug: the stream ends with the worker's last event, not with its row.
PollAhead ==
    \/ /\ status \in Outcome \/ last = MaxEvents
       /\ wire' = Append(wire, OutcomeFrame("completed"))
       /\ server' = [server EXCEPT !.pc = "closed"]
    \/ /\ status \notin Outcome /\ last # MaxEvents
       /\ wire' = wire
       /\ server' = [server EXCEPT !.pc = "check"]

\* get_run after the listed events: the terminal frame, if there is one to send.
PollRun ==
    \/ /\ status \in Outcome
       /\ wire' = Append(wire, OutcomeFrame(status))
       /\ server' = [server EXCEPT !.pc = "closed"]
    \/ /\ status \notin Outcome
       /\ wire' = wire
       /\ server' = [server EXCEPT !.pc = "check"]

\* list_events_after(run_id, cursor), up to the first yield or past an empty list.
ListEvents ==
    /\ server.pc = "list"
    /\ \/ last > server.cursor /\ SendEvent(last)
       \/ last = server.cursor /\ PollRun
    /\ UNCHANGED <<last, status, unwoken, client, waiter, drops>>

\* Resumed after a yield: the next listed event, or on to the row.
Resume ==
    /\ server.pc = "yield"
    /\ \/ server.listed > server.cursor /\ SendEvent(server.listed)
       \/ server.listed = server.cursor /\ PollRun
    /\ UNCHANGED <<last, status, unwoken, client, waiter, drops>>

\* A plausible bug: the condition is awaited without looking again under its lock.
SleepUnchecked ==
    /\ server.pc = "check"
    /\ server' = [server EXCEPT !.pc = "waiting"]
    /\ UNCHANGED <<last, status, unwoken, wire, client, waiter, drops>>

\* Under the condition's lock: look again, and sleep only if nothing is new.
CheckOrSleep ==
    /\ server.pc = "check"
    /\ server' = [server EXCEPT !.pc =
           IF last > server.cursor \/ status \in Outcome THEN "list" ELSE "waiting"]
    /\ UNCHANGED <<last, status, unwoken, wire, client, waiter, drops>>

\* The 15 second timeout: a heartbeat, which carries no id, and another turn.
Heartbeat ==
    /\ server.pc = "waiting"
    /\ server' = [server EXCEPT !.pc = "list"]
    /\ UNCHANGED <<last, status, unwoken, wire, client, waiter, drops>>

---------------------------------------------------------------------------
(* The browser: EventSource reconnects with Last-Event-ID by itself.       *)

\* A plausible bug: the subscription is resumed from the run's start.
ConnectFromStart ==
    /\ server.pc = "none" /\ client.outcome = NoOutcome
    /\ server' = [pc |-> "list", cursor |-> 0, listed |-> 0]
    /\ UNCHANGED <<last, status, unwoken, wire, client, waiter, drops>>

\* The first connection and every reconnection: Last-Event-ID is the server's cursor.
Connect ==
    /\ server.pc = "none" /\ client.outcome = NoOutcome
    /\ server' = [pc |-> "list", cursor |-> client.lastId, listed |-> client.lastId]
    /\ UNCHANGED <<last, status, unwoken, wire, client, waiter, drops>>

Receive ==
    /\ wire # <<>> /\ client.outcome = NoOutcome
    /\ wire' = Tail(wire)
    /\ LET frame == Head(wire)
       IN  \/ /\ frame.outcome \in Outcome
              /\ client' = [client EXCEPT !.outcome = frame.outcome]
           \/ /\ frame.outcome = NoOutcome
              /\ client' = [client EXCEPT !.got = Append(@, frame.id), !.lastId = frame.id]
    /\ UNCHANGED <<last, status, unwoken, server, waiter, drops>>

\* The connection breaks with everything in flight; the server drops the generator.
Drop ==
    /\ server.pc # "none" /\ client.outcome = NoOutcome /\ drops < MaxDrops
    /\ server' = NoServer /\ wire' = <<>> /\ drops' = drops + 1
    /\ UNCHANGED <<last, status, unwoken, client, waiter>>

---------------------------------------------------------------------------
(* OrchestrationService.wait_for_result.                                   *)

\* A plausible bug: only a completed run ends the wait.
WaitForCompletion ==
    /\ waiter = "check"
    /\ waiter' = IF status = "completed" THEN status ELSE "waiting"
    /\ UNCHANGED <<last, status, unwoken, server, wire, client, drops>>

WaitForResult ==
    /\ waiter = "check"
    /\ waiter' = IF status \in Outcome THEN status ELSE "waiting"
    /\ UNCHANGED <<last, status, unwoken, server, wire, client, drops>>

WaitTimeout ==
    /\ waiter = "waiting"
    /\ waiter' = "check"
    /\ UNCHANGED <<last, status, unwoken, server, wire, client, drops>>

Worker == AppendEvent \/ SettleRun \/ Notify
Server == ListEvents \/ Resume \/ CheckOrSleep \/ Heartbeat
Browser == Connect \/ Receive
Next == Worker \/ Server \/ Browser \/ Drop \/ WaitForResult \/ WaitTimeout

Spec == Init /\ [][Next]_vars

(* The event loop runs what is ready, the network delivers and the browser *)
(* reconnects.  The worker need not go on, and no sleeper is helped by its *)
(* timeout: a wakeup must come from _notify.                               *)
Fairness ==
    /\ WF_vars(Notify)
    /\ WF_vars(ListEvents) /\ WF_vars(Resume) /\ WF_vars(CheckOrSleep)
    /\ WF_vars(Connect) /\ WF_vars(Receive)
    /\ WF_vars(WaitForResult)

FairSpec == Spec /\ Fairness

---------------------------------------------------------------------------
(* Properties.                                                             *)

\* Across lost connections the client receives the events in order, none twice and none
\* left out in between: what it has is always the log's beginning.
ReceivedIsLogPrefix ==
    /\ Len(client.got) <= last
    /\ \A i \in 1..Len(client.got) : client.got[i] = i

\* No lost wakeup: whoever sleeps on the condition has seen everything committed, unless
\* the notification for it is still to come.
SleepersAreCurrent ==
    ~unwoken => /\ server.pc = "waiting" => server.cursor = last /\ status = "running"
                /\ waiter = "waiting" => status = "running"

\* A terminal frame repeats what the row says: results are persisted before they are sent.
OutcomePersistedFirst ==
    /\ client.outcome # NoOutcome => client.outcome = status
    /\ waiter \in Outcome => waiter = status

\* Every committed event is shown, or the stream ends before it, without anybody's timeout.
EventsReachClient ==
    \A n \in 1..MaxEvents : last >= n ~> (Len(client.got) >= n \/ client.outcome # NoOutcome)

\* A settled run's outcome reaches the subscriber and the synchronous caller.
OutcomeReachesAll == status \in Outcome ~> (client.outcome = status /\ waiter = status)

\* When a completed run's terminal frame arrives, every event of the run has arrived
\* before it: a subscriber receives every later event exactly once.
EveryEventBeforeOutcome == client.outcome = "completed" => Len(client.got) = last
=============================================================================
