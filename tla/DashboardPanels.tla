--------------------------- MODULE DashboardPanels ---------------------------
(***************************************************************************)
(* The evidence and inspection panels of one page of App.tsx: what is in   *)
(* flight, what each panel shows and which controls it offers, against a   *)
(* review ledger that other reviewers write to as well.  Answers overtake  *)
(* each other and fail, with or without effect at the API.                 *)
(*                                                                         *)
(* A review answer is the number of decisions it was projected from: the   *)
(* trails of all answers are prefixes of one ledger (TrailsAgree).         *)
(***************************************************************************)
EXTENDS Integers, Sequences

CONSTANTS
    MaxCalls,    \* requests of the page (a bound)
    MaxOthers,   \* decisions other reviewers make (a bound)
    MaxFaults    \* requests that are not answered (a bound)

VARIABLES
    ledger,    \* the decisions recorded for the packet, and who made them
    call,      \* the page's requests, in the order they were sent
    panel,     \* each panel's state, and the answer it shows
    others, faults

vars == <<ledger, call, panel, others, faults>>

Panel == {"review", "packet", "inspection"}
Decision == {"approved", "needs-changes"}
Nothing == -1

\* The recorded decision after n of them; without any the packet needs changes.
Status(n) == IF n = 0 THEN "needs-changes" ELSE ledger[n].decision

\* Requests go out and their panels are loading.
Ask(asks) ==
    /\ Len(call) + Len(asks) <= MaxCalls
    /\ call' = call \o [i \in DOMAIN asks |->
           [panel |-> asks[i][1], what |-> asks[i][2], state |-> "sent", answer |-> Nothing]]
    /\ panel' = [p \in Panel |-> IF \E i \in DOMAIN asks : asks[i][1] = p
                                 THEN [panel[p] EXCEPT !.state = "loading"] ELSE panel[p]]

Init ==
    /\ ledger = <<>> /\ call = <<>>
    /\ panel = [p \in Panel |-> [state |-> "idle", shown |-> Nothing]]
    /\ others = 0 /\ faults = 0

---------------------------------------------------------------------------
(* The page.  Its effect runs once: Strict Mode, which runs it twice, is   *)
(* without effect in a production build.                                   *)

Mount ==
    /\ call = <<>>
    /\ Ask(<< <<"inspection", "demo">>, <<"packet", "read">>, <<"review", "read">> >>)
    /\ UNCHANGED <<ledger, others, faults>>

\* Refresh is disabled while packet or review is loading.
Refresh ==
    /\ call # <<>> /\ panel["packet"].state # "loading" /\ panel["review"].state # "loading"
    /\ Ask(<< <<"packet", "read">>, <<"review", "read">> >>)
    /\ UNCHANGED <<ledger, others, faults>>

\* A button of EvidenceReviewGate: disabled while the review is loading, and for the
\* decision that stands.
Decide(decision) ==
    /\ panel["review"].shown # Nothing /\ panel["review"].state # "loading"
    /\ Status(panel["review"].shown) # decision
    /\ Ask(<< <<"review", decision>> >>)
    /\ UNCHANGED <<ledger, others, faults>>

\* The demo button and the file input of the inspection panel are never disabled.
Inspect ==
    /\ call # <<>>
    /\ \E what \in {"demo", "upload"} : Ask(<< <<"inspection", what>> >>)
    /\ UNCHANGED <<ledger, others, faults>>

\* The reply of whichever request: its result is shown, or its error beside the old result.
Deliver(i) ==
    /\ call[i].state \in {"served", "failed"}
    /\ call' = [call EXCEPT ![i].state = "done"]
    /\ panel' = [panel EXCEPT ![call[i].panel] =
           IF call[i].state = "served" THEN [state |-> "ready", shown |-> call[i].answer]
                                       ELSE [@ EXCEPT !.state = "error"]]
    /\ UNCHANGED <<ledger, others, faults>>

---------------------------------------------------------------------------
(* The API and the other reviewers.                                        *)

Recorded(i) == IF call[i].what \in Decision
               THEN Append(ledger, [decision |-> call[i].what, by |-> i]) ELSE ledger

\* An inspection is its own answer: each request's is another one.
Serve(i) ==
    /\ call[i].state = "sent"
    /\ ledger' = Recorded(i)
    /\ call' = [call EXCEPT ![i].state = "served",
                            ![i].answer = IF call[i].panel = "inspection" THEN i ELSE Len(ledger')]
    /\ UNCHANGED <<panel, others, faults>>

\* An error, a refusal or a lost reply: a decision may have been recorded.
Fail(i) ==
    /\ call[i].state = "sent" /\ faults < MaxFaults /\ faults' = faults + 1
    /\ ledger' \in {ledger, Recorded(i)}
    /\ call' = [call EXCEPT ![i].state = "failed"]
    /\ UNCHANGED <<panel, others>>

OtherDecides(decision) ==
    /\ others < MaxOthers /\ others' = others + 1
    /\ ledger' = Append(ledger, [decision |-> decision, by |-> 0])
    /\ UNCHANGED <<call, panel, faults>>

Next ==
    \/ Mount \/ Refresh \/ Inspect
    \/ \E decision \in Decision : Decide(decision) \/ OtherDecides(decision)
    \/ \E i \in DOMAIN call : Serve(i) \/ Fail(i) \/ Deliver(i)

Spec == Init /\ [][Next]_vars

---------------------------------------------------------------------------
(* Properties.                                                             *)

\* No late answer takes a decision back off the screen: what the review shows only grows.
ReviewNeverGoesBack == [][panel["review"].shown <= panel'["review"].shown]_vars

\* One click is one decision: the page does not record what already stands, unless it has
\* lost an answer and does not know that it stands.
NoDecisionTwice ==
    \A n \in DOMAIN ledger : ledger[n].by # 0 /\ Status(n - 1) = ledger[n].decision =>
        faults > 0 \/ others > 0

-----------------------------------------------------------------------------
(* Why, as an invariant that every step keeps.                             *)

Entry == [decision : Decision, by : Nat]

Request == [panel : Panel, what : {"read", "demo", "upload"} \union Decision,
            state : {"sent", "served", "failed", "done"}, answer : Int]

PanelTypeOK ==
    /\ ledger \in Seq(Entry)
    /\ call \in Seq(Request)
    /\ panel \in [Panel -> [state : {"idle", "loading", "ready", "error"}, shown : Int]]
    /\ others \in Nat /\ faults \in Nat

\* A review is under way.
Reviewing(i) == i \in DOMAIN call /\ call[i].panel = "review" /\ call[i].state # "done"

\* At most one is, and its panel shows it.
OneReview ==
    /\ \A i, j \in DOMAIN call : Reviewing(i) /\ Reviewing(j) => i = j
    /\ \A i \in DOMAIN call : Reviewing(i) => panel["review"].state = "loading"

\* A decision is made on the review panel.
DecisionsAreReviews ==
    \A i \in DOMAIN call : call[i].what \in Decision => call[i].panel = "review"

\* An answer under way lies between what is shown and the ledger.
Between ==
    /\ panel["review"].shown <= Len(ledger)
    /\ \A i \in DOMAIN call : Reviewing(i) /\ call[i].state = "served" =>
          panel["review"].shown <= call[i].answer /\ call[i].answer <= Len(ledger)

\* While no answer is lost and nobody else decides, what is shown or under way is the ledger.
Undisturbed ==
    /\ \A n \in DOMAIN ledger : Status(n - 1) # ledger[n].decision
    /\ \/ \E i \in DOMAIN call : Reviewing(i)
       \/ panel["review"].shown \in {Nothing, Len(ledger)}
    /\ \A i \in DOMAIN call : Reviewing(i) =>
          /\ call[i].state = "sent" /\ call[i].what \in Decision =>
                Status(Len(ledger)) # call[i].what
          /\ call[i].state = "served" => call[i].answer = Len(ledger)
          /\ call[i].state # "failed"

PanelInv ==
    /\ PanelTypeOK /\ OneReview /\ DecisionsAreReviews /\ Between
    /\ faults = 0 /\ others = 0 => Undisturbed
=============================================================================
