----------------------------- MODULE ReviewLedger -----------------------------
(***************************************************************************)
(* Human review of an evidence packet: the endpoints that read the review  *)
(* and record a decision, ReviewService, the append-only table behind      *)
(* SQLiteReviewRepository and the projection of its rows (review_trail).   *)
(*                                                                         *)
(* The endpoints are plain functions, so each call runs on a thread of its *)
(* own and calls interleave between their statements.  A call is one HTTP  *)
(* request: a client that retries makes another call with the same         *)
(* request id.  The packet's version is a digest of its content, so that   *)
(* only a restart with other evidence changes it.                          *)
(***************************************************************************)
EXTENDS Naturals, FiniteSets, SequencesExt

CONSTANTS
    Call,         \* HTTP requests to the two endpoints
    RequestId,    \* request ids the clients choose
    Packet,       \* packet versions
    MaxTime,      \* the last reading of the clock (a bound)
    MaxRestarts,  \* restarts of the API (a bound)
    MaxErrors     \* statements the store fails to run (a bound)

ASSUME ReviewBoundsAssumption ==
    MaxTime \in Nat /\ MaxRestarts \in Nat /\ MaxErrors \in Nat

VARIABLES
    ledger,    \* the rows of review_decisions, by sequence
    call,      \* where each call stands, and its answer
    packet,    \* version of the packet this process builds
    now,       \* the wall clock
    restarts, errors

vars == <<ledger, call, packet, now, restarts, errors>>

\* The decision stands for the whole content: decision, reviewer and note.
Decision == {"approved", "needs-changes"}

\* The request id of a call that only reads.
NoRequest == "none"

\* list_for_packet: the packet's rows, in the order of the table.
RowsIn(table, version) ==
    FoldLeft(LAMBDA rows, row : IF row.packet = version THEN Append(rows, row) ELSE rows,
             <<>>, table)

RowsOf(version) == RowsIn(ledger, version)
RowsWith(request) == {i \in DOMAIN ledger : ledger[i].request = request}

---------------------------------------------------------------------------
(* review_trail: the review as a fold of the decisions over the base state *)

BaseChecklist ==
    [report |-> "passed", inventory |-> "passed", customer |-> "blocked",
     supplier |-> "passed", disposal |-> "blocked", regulatory |-> "attention"]
Blockers(checklist) == Cardinality({i \in DOMAIN checklist : checklist[i] = "blocked"})

BaseState(generated) ==
    [status |-> "needs-changes", ready |-> FALSE, checklist |-> BaseChecklist,
     generated |-> generated, trail |-> <<>>]

\* A plausible bug: changes are requested on the checklist the approval left.
ApplyDecisionToCurrent(base, current, row) ==
    [base EXCEPT
        !.status = row.decision,
        !.ready = row.decision = "approved",
        !.checklist = IF row.decision = "approved"
                      THEN [i \in DOMAIN @ |-> "passed"] ELSE current.checklist,
        !.trail = Append(current.trail, row)]

\* A decision replaces the earlier one's outcome, and is added to its trail.
ApplyDecision(base, current, row) ==
    [base EXCEPT
        !.status = row.decision,
        !.ready = row.decision = "approved",
        !.checklist = IF row.decision = "approved" THEN [i \in DOMAIN @ |-> "passed"] ELSE @,
        !.trail = Append(current.trail, row)]

\* A plausible bug: the audit events carry the time this packet was built at.
StateAtBuildTime(rows, built) ==
    FoldLeft(LAMBDA state, row : ApplyDecision(BaseState(built), state, row),
             BaseState(built), rows)

\* get_state: the first decision's packet time is the audit time of all of them.
State(rows, built) ==
    LET base == BaseState(IF rows = <<>> THEN built ELSE rows[1].at)
    IN  FoldLeft(LAMBDA state, row : ApplyDecision(base, state, row), base, rows)

---------------------------------------------------------------------------
(* One call, statement by statement.                                       *)

NoAnswer == "none"
Idle == [pc |-> "idle", asked |-> NoAnswer, floor |-> 0, answer |-> NoAnswer]

Init ==
    /\ ledger = <<>> /\ call = [c \in Call |-> Idle]
    /\ packet \in Packet /\ now = 0 /\ restarts = 0 /\ errors = 0

\* The longest trail of this packet some call has already answered with.
Answered(version) ==
    {Len(call[c].answer.trail) : c \in {d \in Call : call[d].pc = "answered"
                                                     /\ call[d].asked.packet = version}}
Floor(version) == CHOOSE n \in Answered(version) \union {0} :
                      \A m \in Answered(version) : m <= n

\* The endpoint builds the packet and, for a decision, reads the clock before the insert.
\* What is invalid (a blank reviewer or note) is answered 400 and goes no further.
Receive(c) ==
    /\ call[c].pc = "idle"
    /\ \E request \in RequestId \union {NoRequest}, decision \in Decision :
          /\ request = NoRequest => decision = "approved"    \* a read has no decision
          /\ call' = [call EXCEPT ![c] =
               [pc |-> IF request = NoRequest THEN "list" ELSE "insert",
                asked |-> [request |-> request, decision |-> decision, packet |-> packet, at |-> now],
                floor |-> Floor(packet), answer |-> NoAnswer]]
    /\ UNCHANGED <<ledger, packet, now, restarts, errors>>

\* append: request_id is UNIQUE, so that the second insert of it is an IntegrityError.
Insert(c) ==
    /\ call[c].pc = "insert"
    /\ IF RowsWith(call[c].asked.request) = {}
       THEN /\ ledger' = Append(ledger, call[c].asked)
            /\ call' = [call EXCEPT ![c].pc = "list"]
       ELSE /\ ledger' = ledger
            /\ call' = [call EXCEPT ![c].pc = "resolve"]
    /\ UNCHANGED <<packet, now, restarts, errors>>

SameRequest(row, asked) ==
    row.request = asked.request /\ row.packet = asked.packet /\ row.decision = asked.decision

\* A plausible bug: every integrity error passes for a retry.
ResolveAsRetry(c) ==
    /\ call[c].pc = "resolve"
    /\ call' = [call EXCEPT ![c].pc = "list"]
    /\ UNCHANGED <<ledger, packet, now, restarts, errors>>

\* A plausible bug: the records are compared whole, with the time each was taken at.
ResolveExactly(c) ==
    /\ call[c].pc = "resolve"
    /\ call' = [call EXCEPT ![c].pc = IF call[c].asked \in ToSet(ledger) THEN "list" ELSE "conflict"]
    /\ UNCHANGED <<ledger, packet, now, restarts, errors>>

\* _resolve_integrity_conflict: a retry goes on to the state, anything else is a 409.
Resolve(c) ==
    /\ call[c].pc = "resolve"
    /\ LET row == ledger[CHOOSE i \in RowsWith(call[c].asked.request) : TRUE]
       IN  call' = [call EXCEPT ![c].pc =
                        IF SameRequest(row, call[c].asked) THEN "list" ELSE "conflict"]
    /\ UNCHANGED <<ledger, packet, now, restarts, errors>>

\* A plausible bug: a decision is answered from what its thread knew before the insert.
AnswerFromFloor(c) ==
    /\ call[c].pc = "list"
    /\ LET rows == SubSeq(RowsOf(call[c].asked.packet), 1, call[c].floor)
       IN  call' = [call EXCEPT ![c].pc = "answered", ![c].answer =
                        State(rows \o (IF call[c].asked.request = NoRequest THEN <<>>
                                       ELSE <<call[c].asked>>), call[c].asked.at)]
    /\ UNCHANGED <<ledger, packet, now, restarts, errors>>

\* list_for_packet and the projection.
Answer(c) ==
    /\ call[c].pc = "list"
    /\ call' = [call EXCEPT ![c].pc = "answered",
                            ![c].answer = State(RowsOf(call[c].asked.packet), call[c].asked.at)]
    /\ UNCHANGED <<ledger, packet, now, restarts, errors>>

\* Any statement may fail: the call is answered 503, whatever it had committed before.
StoreFails(c) ==
    /\ call[c].pc \in {"insert", "resolve", "list"} /\ errors < MaxErrors
    /\ call' = [call EXCEPT ![c].pc = "unavailable"]
    /\ errors' = errors + 1
    /\ UNCHANGED <<ledger, packet, now, restarts>>

\* The API is restarted, perhaps with other evidence; calls in progress are never answered.
Restart ==
    /\ restarts < MaxRestarts /\ restarts' = restarts + 1
    /\ packet' \in Packet
    /\ call' = [c \in Call |-> IF call[c].pc \in {"insert", "resolve", "list"}
                               THEN [call[c] EXCEPT !.pc = "lost"] ELSE call[c]]
    /\ UNCHANGED <<ledger, now, errors>>

Tick ==
    /\ now < MaxTime /\ now' = now + 1
    /\ UNCHANGED <<ledger, call, packet, restarts, errors>>

Next ==
    \/ \E c \in Call : Receive(c) \/ Insert(c) \/ Resolve(c) \/ Answer(c) \/ StoreFails(c)
    \/ Restart \/ Tick

Spec == Init /\ [][Next]_vars

---------------------------------------------------------------------------
(* Properties.                                                             *)

Outcome(c) == call[c].pc
Contradicts(c, d) ==
    Outcome(d) # "idle" /\ call[d].asked.request = call[c].asked.request
    /\ ~SameRequest(call[d].asked, call[c].asked)

\* However often a request is sent, at once or again after a lost answer or a restart, the
\* decision is in the ledger once, and whoever gets the review back sees it in the trail.
AnsweredDecisionIsRecordedOnce ==
    \A c \in Call : Outcome(c) = "answered" /\ call[c].asked.request # NoRequest =>
        /\ Cardinality(RowsWith(call[c].asked.request)) = 1
        /\ \E i \in DOMAIN call[c].answer.trail : SameRequest(call[c].answer.trail[i], call[c].asked)

\* A retry is never refused as a conflict: a 409 takes another call that used the request
\* id for another decision or packet, and then the ledger holds what that call asked for.
ConflictsAreContradictions ==
    \A c \in Call : Outcome(c) = "conflict" =>
        \E d \in Call \ {c} : Contradicts(c, d)
            /\ \E i \in RowsWith(call[c].asked.request) : SameRequest(ledger[i], call[d].asked)

\* All answers agree on one history: of two trails of a packet one begins with the other,
\* and no call shows less than was answered before it was made.
TrailsAgree ==
    \A c \in Call : Outcome(c) = "answered" =>
        /\ Len(call[c].answer.trail) >= call[c].floor
        /\ \A d \in Call : Outcome(d) = "answered" /\ call[d].asked.packet = call[c].asked.packet =>
              \/ IsPrefix(call[c].answer.trail, call[d].answer.trail)
              \/ IsPrefix(call[d].answer.trail, call[c].answer.trail)

\* The packet is ready to submit exactly when its latest decision is an approval, and then
\* nothing blocks it: changes requested after an approval bring the blockers back.
ReadyMeansApproved ==
    \A c \in Call : Outcome(c) = "answered" =>
        LET answer == call[c].answer
        IN  /\ answer.ready = (answer.trail # <<>> /\ Last(answer.trail).decision = "approved")
            /\ answer.ready = (Blockers(answer.checklist) = 0)

\* Once a packet has a decision, every answer about it gives the audit events one and the
\* same time, across restarts that build the packet anew.
PacketTimeStable ==
    \A c, d \in Call :
        /\ Outcome(c) = "answered" /\ Outcome(d) = "answered"
        /\ call[c].asked.packet = call[d].asked.packet
        /\ call[c].answer.trail # <<>> /\ call[d].answer.trail # <<>>
        => call[c].answer.generated = call[d].answer.generated
=============================================================================
