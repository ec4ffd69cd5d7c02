--------------------------- MODULE DashboardProofs ---------------------------
(***************************************************************************)
(* Proofs about the evidence panel, for any number of requests, faults and *)
(* other reviewers.  At most one review request is under way (OneReview),  *)
(* its answer lies between what is shown and the ledger (Between), and     *)
(* while nobody and nothing interferes the two are the same (Undisturbed). *)
(***************************************************************************)
EXTENDS DashboardPanels, TLAPS

-----------------------------------------------------------------------------
What == {"read", "demo", "upload"} \union Decision

Asks == Seq(Panel \X What)

\* A sequence of requests with others behind it.
LEMMA Appended ==
    ASSUME NEW s \in Seq(Request), NEW t \in Seq(Request)
    PROVE  /\ s \o t \in Seq(Request) /\ Len(s \o t) = Len(s) + Len(t)
           /\ \A i \in 1..Len(s) : (s \o t)[i] = s[i]
           /\ \A k \in 1..Len(t) : (s \o t)[Len(s) + k] = t[k]
<1>1. s \o t \in Seq(Request) /\ Len(s \o t) = Len(s) + Len(t)
  OBVIOUS
<1>2. \A i \in 1..Len(s) : (s \o t)[i] = s[i]
  OBVIOUS
<1>3. ASSUME NEW k \in 1..Len(t)
      PROVE  (s \o t)[Len(s) + k] = t[k]
  <2>1. Len(s) + k \in 1..(Len(s) + Len(t)) /\ ~(Len(s) + k <= Len(s)) /\ Len(s) + k - Len(s) = k
    OBVIOUS
  <2> QED
    BY <2>1
<1> QED
  BY <1>1, <1>2, <1>3

\* Asking adds requests behind those there are, and leaves what is shown.
LEMMA AskAppends ==
    ASSUME PanelTypeOK, NEW asks \in Asks, Ask(asks)
    PROVE  /\ call' \in Seq(Request) /\ Len(call') = Len(call) + Len(asks)
           /\ \A i \in 1..Len(call) : call'[i] = call[i]
           /\ \A k \in 1..Len(asks) :
                 call'[Len(call) + k] = [panel |-> asks[k][1], what |-> asks[k][2],
                                         state |-> "sent", answer |-> Nothing]
           /\ panel' \in [Panel -> [state : {"idle", "loading", "ready", "error"}, shown : Int]]
           /\ panel'["review"].shown = panel["review"].shown
           /\ panel'["review"].state =
                 IF \E k \in 1..Len(asks) : asks[k][1] = "review" THEN "loading"
                 ELSE panel["review"].state
<1> DEFINE new == [i \in DOMAIN asks |-> [panel |-> asks[i][1], what |-> asks[i][2],
                                          state |-> "sent", answer |-> Nothing]]
<1>1. DOMAIN asks = 1..Len(asks) /\ Len(asks) \in Nat
  BY DEF Asks
<1>2. \A k \in 1..Len(asks) : asks[k][1] \in Panel /\ asks[k][2] \in What
  BY <1>1 DEF Asks
<1>3. \A k \in 1..Len(asks) : new[k] \in Request
  BY <1>1, <1>2 DEF Request, What, Nothing
<1>4. new \in Seq(Request) /\ Len(new) = Len(asks)
  <2>1. new \in [1..Len(asks) -> Request]
    BY <1>1, <1>3
  <2> HIDE DEF new
  <2> QED BY <1>1, <2>1
<1>5. call \in Seq(Request) /\ call' = call \o new
  BY DEF PanelTypeOK, Ask
<1>6. \A k \in 1..Len(asks) :
         new[k] = [panel |-> asks[k][1], what |-> asks[k][2], state |-> "sent", answer |-> Nothing]
  BY <1>1
<1> HIDE DEF new
<1>7. /\ call' \in Seq(Request) /\ Len(call') = Len(call) + Len(asks)
      /\ \A i \in 1..Len(call) : call'[i] = call[i]
      /\ \A k \in 1..Len(asks) : call'[Len(call) + k] = new[k]
  <2>1. /\ call \o new \in Seq(Request) /\ Len(call \o new) = Len(call) + Len(new)
        /\ \A i \in 1..Len(call) : (call \o new)[i] = call[i]
        /\ \A k \in 1..Len(new) : (call \o new)[Len(call) + k] = new[k]
    BY <1>4, <1>5, Appended
  <2> QED BY <1>4, <1>5, <2>1
<1>8. panel' = [p \in Panel |-> IF \E i \in DOMAIN asks : asks[i][1] = p
                                THEN [panel[p] EXCEPT !.state = "loading"] ELSE panel[p]]
  BY DEF Ask
<1>9. \A p \in Panel : panel[p] \in [state : {"idle", "loading", "ready", "error"}, shown : Int]
  BY DEF PanelTypeOK
<1>10. \A p \in Panel : [panel[p] EXCEPT !.state = "loading"]
          \in [state : {"idle", "loading", "ready", "error"}, shown : Int]
  BY <1>9
<1>11. "review" \in Panel
  BY DEF Panel
<1>12. panel'["review"] = IF \E k \in 1..Len(asks) : asks[k][1] = "review"
                          THEN [panel["review"] EXCEPT !.state = "loading"] ELSE panel["review"]
  BY <1>1, <1>8, <1>11
<1>13. panel' \in [Panel -> [state : {"idle", "loading", "ready", "error"}, shown : Int]]
  BY <1>8, <1>9, <1>10
<1> QED
  BY <1>6, <1>7, <1>9, <1>11, <1>12, <1>13

\* Asking keeps the invariant when no review request is under way, and when a
\* decision that is asked for does not stand in an undisturbed ledger.
LEMMA AskKeeps ==
    ASSUME PanelInv, NEW asks \in Asks, Ask(asks), UNCHANGED <<ledger, others, faults>>,
           \A k \in 1..Len(asks) : asks[k][2] \in Decision =>
               /\ asks[k][1] = "review"
               /\ faults = 0 /\ others = 0 => Status(Len(ledger)) # asks[k][2],
           \A k, l \in 1..Len(asks) : asks[k][1] = "review" /\ asks[l][1] = "review" => k = l,
           \A k \in 1..Len(asks) : asks[k][1] = "review" => \A i \in DOMAIN call : ~Reviewing(i)
    PROVE  PanelInv'
<1>0. PanelTypeOK /\ OneReview /\ DecisionsAreReviews /\ Between
  BY DEF PanelInv
<1>1. call \in Seq(Request) /\ ledger \in Seq(Entry) /\ Len(call) \in Nat /\ Len(asks) \in Nat
      /\ DOMAIN call = 1..Len(call)
  BY <1>0 DEF PanelTypeOK, Asks
<1>2. /\ call' \in Seq(Request) /\ Len(call') = Len(call) + Len(asks)
      /\ \A i \in 1..Len(call) : call'[i] = call[i]
      /\ \A k \in 1..Len(asks) :
            call'[Len(call) + k] = [panel |-> asks[k][1], what |-> asks[k][2],
                                    state |-> "sent", answer |-> Nothing]
      /\ panel' \in [Panel -> [state : {"idle", "loading", "ready", "error"}, shown : Int]]
      /\ panel'["review"].shown = panel["review"].shown
      /\ panel'["review"].state = IF \E k \in 1..Len(asks) : asks[k][1] = "review" THEN "loading"
                                  ELSE panel["review"].state
  BY <1>0, AskAppends
<1>3. DOMAIN call' = 1..Len(call')
  BY <1>2
<1>4. ASSUME NEW i \in DOMAIN call'
      PROVE  \/ i \in DOMAIN call /\ call'[i] = call[i]
             \/ \E k \in 1..Len(asks) :
                   /\ i = Len(call) + k
                   /\ call'[i] = [panel |-> asks[k][1], what |-> asks[k][2],
                                  state |-> "sent", answer |-> Nothing]
  <2>1. i \in 1..Len(call) \/ (i - Len(call)) \in 1..Len(asks)
    BY <1>1, <1>2, <1>3
  <2>2. CASE i \in 1..Len(call)
    BY <1>1, <1>2, <2>2
  <2>3. CASE (i - Len(call)) \in 1..Len(asks)
    <3> DEFINE k == i - Len(call)
    <3>1. k \in 1..Len(asks) /\ i = Len(call) + k
      BY <1>1, <1>2, <1>3, <2>3
    <3> HIDE DEF k
    <3> QED
      BY <1>2, <3>1
  <2> QED
    BY <2>1, <2>2, <2>3
<1>5. ASSUME NEW i \in DOMAIN call', Reviewing(i)'
      PROVE  \/ i \in DOMAIN call /\ Reviewing(i) /\ call'[i] = call[i]
             \/ \E k \in 1..Len(asks) :
                   /\ i = Len(call) + k /\ asks[k][1] = "review"
                   /\ call'[i].what = asks[k][2] /\ call'[i].state = "sent"
  BY <1>4, <1>5 DEF Reviewing
<1>6. PanelTypeOK'
  BY <1>0, <1>2 DEF PanelTypeOK
<1>7. OneReview'
  <2>1. \A i, j \in DOMAIN call' : Reviewing(i)' /\ Reviewing(j)' => i = j
    BY <1>0, <1>5 DEF OneReview
  <2>2. \A i \in DOMAIN call' : Reviewing(i)' => panel'["review"].state = "loading"
    BY <1>0, <1>2, <1>5 DEF OneReview
  <2> QED
    BY <2>1, <2>2 DEF OneReview
<1>8. DecisionsAreReviews'
  BY <1>0, <1>4 DEF DecisionsAreReviews
<1>9. Between'
  BY <1>0, <1>2, <1>5 DEF Between
<1>10. ASSUME faults' = 0, others' = 0
       PROVE  Undisturbed'
  <2>1. Undisturbed /\ ledger' = ledger
    BY <1>10 DEF PanelInv
  <2>2. \A n \in DOMAIN ledger' : Status(n - 1)' # ledger'[n].decision
    BY <2>1 DEF Undisturbed, Status
  <2>3. \/ \E i \in DOMAIN call' : Reviewing(i)'
        \/ panel'["review"].shown \in {Nothing, Len(ledger')}
    <3>1. \A i \in DOMAIN call : Reviewing(i) => i \in DOMAIN call' /\ Reviewing(i)'
      BY <1>1, <1>2, <1>3 DEF Reviewing
    <3> QED
      BY <1>2, <2>1, <3>1 DEF Undisturbed, Nothing
  <2>4. ASSUME NEW i \in DOMAIN call', Reviewing(i)'
        PROVE  /\ call'[i].state = "sent" /\ call'[i].what \in Decision =>
                      Status(Len(ledger))' # call'[i].what
               /\ call'[i].state = "served" => call'[i].answer = Len(ledger')
               /\ call'[i].state # "failed"
    <3>1. Status(Len(ledger))' = Status(Len(ledger))
      BY <2>1 DEF Status
    <3> QED
      BY <1>5, <1>10, <2>1, <2>4, <3>1 DEF Undisturbed
  <2> QED
    BY <2>2, <2>3, <2>4 DEF Undisturbed
<1> QED
  BY <1>6, <1>7, <1>8, <1>9, <1>10 DEF PanelInv

\* Recording appends at most one entry, and leaves the others as they are.
LEMMA LedgerGrows ==
    ASSUME ledger \in Seq(Entry), NEW e \in Entry, ledger' \in {ledger, Append(ledger, e)}
    PROVE  /\ ledger' \in Seq(Entry) /\ Len(ledger') \in {Len(ledger), Len(ledger) + 1}
           /\ Len(ledger) \in Nat /\ DOMAIN ledger = 1..Len(ledger)
           /\ DOMAIN ledger' = 1..Len(ledger')
           /\ \A n \in 1..Len(ledger) : ledger'[n] = ledger[n]
  OBVIOUS

\* Answers, on their way and on the screen, are numbers.
LEMMA AnswersAreNumbers ==
    ASSUME PanelTypeOK
    PROVE  /\ panel["review"].shown \in Int
           /\ \A i \in DOMAIN call : call[i].answer \in Int
<1>1. panel["review"] \in [state : {"idle", "loading", "ready", "error"}, shown : Int]
  BY DEF PanelTypeOK, Panel
<1>2. \A i \in DOMAIN call : call[i] \in Request
  BY DEF PanelTypeOK
<1>3. \A r \in Request : r.answer \in Int
  BY DEF Request
<1> QED
  BY <1>1, <1>2, <1>3

\* Something that interferes leaves only OneReview and Between to keep.
LEMMA DisturbedKeeps ==
    ASSUME PanelInv, NEW e \in Entry, ledger' \in {ledger, Append(ledger, e)},
           PanelTypeOK', panel' = panel, DOMAIN call' = DOMAIN call,
           \A i \in DOMAIN call :
              /\ call'[i].panel = call[i].panel /\ call'[i].what = call[i].what
              /\ call'[i].state = "done" <=> call[i].state = "done"
              /\ call'[i].state = "served" => call'[i] = call[i],
           faults' # 0 \/ others' # 0
    PROVE  PanelInv'
<1>0. PanelTypeOK /\ OneReview /\ DecisionsAreReviews /\ Between
  BY DEF PanelInv
<1>1. Len(ledger) <= Len(ledger') /\ Len(ledger) \in Nat /\ Len(ledger') \in Nat
  BY <1>0, LedgerGrows DEF PanelTypeOK
<1>2. \A i \in DOMAIN call : Reviewing(i)' = Reviewing(i)
  BY DEF Reviewing
<1>3. OneReview' /\ DecisionsAreReviews'
  BY <1>0, <1>2 DEF OneReview, DecisionsAreReviews
<1>4. panel["review"].shown \in Int /\ \A i \in DOMAIN call : call[i].answer \in Int
  BY <1>0, AnswersAreNumbers
<1>5. Between'
  BY <1>0, <1>1, <1>2, <1>4 DEF Between
<1> QED
  BY <1>3, <1>5 DEF PanelInv

\* An answer is projected from the ledger as the request leaves it.
LEMMA ServeKeeps ==
    ASSUME PanelInv, NEW i \in DOMAIN call, Serve(i)
    PROVE  PanelInv'
<1>0. PanelTypeOK /\ OneReview /\ DecisionsAreReviews /\ Between
  BY DEF PanelInv
<1>1. /\ call \in Seq(Request) /\ ledger \in Seq(Entry) /\ DOMAIN call = 1..Len(call)
      /\ Len(call) \in Nat /\ i \in Nat
  BY <1>0 DEF PanelTypeOK
<1> DEFINE e == [decision |-> call[i].what, by |-> i]
           grown == call[i].what \in Decision
<1>2. ledger' = IF grown THEN Append(ledger, e) ELSE ledger
  BY DEF Serve, Recorded
<1>3. grown => e \in Entry
  BY <1>1 DEF Entry
<1> HIDE DEF e
<1>4. /\ ledger' \in Seq(Entry) /\ Len(ledger) \in Nat
      /\ Len(ledger') = IF grown THEN Len(ledger) + 1 ELSE Len(ledger)
      /\ DOMAIN ledger = 1..Len(ledger) /\ DOMAIN ledger' = 1..Len(ledger')
      /\ \A n \in 1..Len(ledger) : ledger'[n] = ledger[n]
      /\ grown => ledger'[Len(ledger')] = e
  <2>1. CASE grown
    BY <1>1, <1>2, <1>3, <2>1
  <2>2. CASE ~grown
    BY <1>1, <1>2, <2>2
  <2> QED
    BY <2>1, <2>2
<1> DEFINE answer == IF call[i].panel = "inspection" THEN i ELSE Len(ledger')
<1>5. call' = [call EXCEPT ![i] = [@ EXCEPT !.state = "served", !.answer = answer]]
  BY DEF Serve
<1>6. answer \in Int
  BY <1>1, <1>4
<1> HIDE DEF answer
<1>7. call[i] \in Request
  BY <1>1
<1>8. /\ call'[i].panel = call[i].panel /\ call'[i].what = call[i].what
      /\ call'[i].state = "served" /\ call'[i].answer = answer /\ call'[i] \in Request
  BY <1>1, <1>5, <1>6, <1>7 DEF Request
<1>9. /\ DOMAIN call' = DOMAIN call /\ call' \in Seq(Request)
      /\ \A j \in DOMAIN call : j # i => call'[j] = call[j]
  BY <1>1, <1>5, <1>8
<1>10. UNCHANGED <<panel, others, faults>> /\ call[i].state = "sent"
  BY DEF Serve
<1>11. PanelTypeOK'
  BY <1>0, <1>4, <1>9, <1>10 DEF PanelTypeOK
<1>12. \A j \in DOMAIN call : Reviewing(j)' = Reviewing(j)
  BY <1>8, <1>9, <1>10 DEF Reviewing
<1>13. OneReview' /\ DecisionsAreReviews'
  BY <1>0, <1>8, <1>9, <1>10, <1>12 DEF OneReview, DecisionsAreReviews
<1>14. Reviewing(i) => answer = Len(ledger')
  BY DEF Reviewing, answer
<1>15. panel["review"].shown \in Int /\ \A j \in DOMAIN call : call[j].answer \in Int
  BY <1>0, AnswersAreNumbers
<1>16. Between'
  <2>1. panel'["review"].shown <= Len(ledger')
    BY <1>0, <1>4, <1>10, <1>15 DEF Between
  <2>2. ASSUME NEW j \in DOMAIN call', Reviewing(j)', call'[j].state = "served"
        PROVE  panel'["review"].shown <= call'[j].answer /\ call'[j].answer <= Len(ledger')
    <3>1. CASE j = i
      BY <1>4, <1>8, <1>9, <1>12, <1>14, <2>1, <2>2, <3>1
    <3>2. CASE j # i
      BY <1>0, <1>4, <1>9, <1>10, <1>12, <1>15, <2>2, <3>2 DEF Between
    <3> QED
      BY <3>1, <3>2
  <2> QED
    BY <2>1, <2>2 DEF Between
<1>17. ASSUME faults' = 0, others' = 0
       PROVE  Undisturbed'
  <2>1. Undisturbed
    BY <1>10, <1>17 DEF PanelInv
  <2>2. grown => Reviewing(i) /\ Status(Len(ledger)) # call[i].what
    BY <1>0, <1>10, <2>1 DEF DecisionsAreReviews, Reviewing, Undisturbed
  <2>3. \A n \in 0..Len(ledger) : Status(n)' = Status(n)
    BY <1>4 DEF Status
  <2>4. ASSUME NEW n \in DOMAIN ledger'
        PROVE  Status(n - 1)' # ledger'[n].decision
    <3>1. CASE n \in DOMAIN ledger
      <4>1. n - 1 \in 0..Len(ledger) /\ ledger'[n] = ledger[n]
        BY <1>4, <3>1
      <4> QED
        BY <2>1, <2>3, <3>1, <4>1 DEF Undisturbed
    <3>2. CASE n \notin DOMAIN ledger
      <4>1. grown /\ n = Len(ledger') /\ n - 1 = Len(ledger)
        BY <1>4, <3>2
      <4>2. ledger'[n].decision = call[i].what
        BY <1>4, <4>1 DEF e
      <4> QED
        BY <1>4, <2>2, <2>3, <4>1, <4>2
    <3> QED
      BY <3>1, <3>2
  <2>5. CASE Reviewing(i)
    <3>1. \A j \in DOMAIN call' : Reviewing(j)' => j = i
      BY <1>0, <1>9, <1>12, <2>5 DEF OneReview
    <3>2. \E j \in DOMAIN call' : Reviewing(j)'
      BY <1>9, <1>12, <2>5
    <3> QED
      BY <1>8, <1>14, <2>4, <2>5, <3>1, <3>2 DEF Undisturbed
  <2>6. CASE ~Reviewing(i)
    <3>1. ledger' = ledger
      BY <1>2, <2>2, <2>6
    <3>2. \A j \in DOMAIN call' : Reviewing(j)' => Reviewing(j) /\ call'[j] = call[j]
      BY <1>9, <1>12, <2>6
    <3>3. \A j \in DOMAIN call : Reviewing(j) => j \in DOMAIN call' /\ Reviewing(j)'
      BY <1>9, <1>12
    <3>4. Status(Len(ledger))' = Status(Len(ledger))
      BY <3>1 DEF Status
    <3> QED
      BY <1>9, <1>10, <2>1, <2>4, <3>1, <3>2, <3>3, <3>4 DEF Undisturbed
  <2> QED
    BY <2>5, <2>6
<1> QED
  BY <1>11, <1>13, <1>16, <1>17 DEF PanelInv

\* A reply is shown, or its error is; it was between the screen and the ledger.
LEMMA DeliverKeeps ==
    ASSUME PanelInv, NEW i \in DOMAIN call, Deliver(i)
    PROVE  PanelInv' /\ panel["review"].shown <= panel'["review"].shown
<1>0. PanelTypeOK /\ OneReview /\ DecisionsAreReviews /\ Between
  BY DEF PanelInv
<1>1. /\ call \in Seq(Request) /\ call[i] \in Request /\ DOMAIN call = 1..Len(call)
      /\ panel \in [Panel -> [state : {"idle", "loading", "ready", "error"}, shown : Int]]
  BY <1>0 DEF PanelTypeOK
<1> DEFINE p == call[i].panel
           shows == IF call[i].state = "served" THEN [state |-> "ready", shown |-> call[i].answer]
                    ELSE [panel[p] EXCEPT !.state = "error"]
<1>2. /\ call[i].state \in {"served", "failed"} /\ UNCHANGED <<ledger, others, faults>>
      /\ call' = [call EXCEPT ![i] = [@ EXCEPT !.state = "done"]]
      /\ panel' = [panel EXCEPT ![p] = shows]
  BY DEF Deliver
<1>3. /\ p \in Panel /\ "review" \in Panel
      /\ shows \in [state : {"idle", "loading", "ready", "error"}, shown : Int]
  BY <1>1 DEF Request, Panel
<1> HIDE DEF shows
<1>4. /\ call'[i].panel = call[i].panel /\ call'[i].what = call[i].what
      /\ call'[i].state = "done" /\ call'[i] \in Request
  BY <1>1, <1>2 DEF Request
<1>5. /\ DOMAIN call' = DOMAIN call /\ call' \in Seq(Request)
      /\ \A j \in DOMAIN call : j # i => call'[j] = call[j]
  BY <1>1, <1>2, <1>4
<1>6. /\ panel' \in [Panel -> [state : {"idle", "loading", "ready", "error"}, shown : Int]]
      /\ panel'["review"] = IF p = "review" THEN shows ELSE panel["review"]
  BY <1>1, <1>2, <1>3
<1>7. PanelTypeOK'
  BY <1>0, <1>2, <1>5, <1>6 DEF PanelTypeOK
<1>8. ~Reviewing(i)' /\ \A j \in DOMAIN call : j # i => Reviewing(j)' = Reviewing(j)
  BY <1>4, <1>5 DEF Reviewing
<1>9. DecisionsAreReviews'
  BY <1>0, <1>4, <1>5 DEF DecisionsAreReviews
<1>10. panel["review"].shown \in Int /\ \A j \in DOMAIN call : call[j].answer \in Int
  BY <1>0, AnswersAreNumbers
<1>11. CASE p = "review"
  <2>1. Reviewing(i)
    BY <1>2, <1>11 DEF Reviewing
  <2>2. \A j \in DOMAIN call' : ~Reviewing(j)'
    BY <1>0, <1>5, <1>8, <2>1 DEF OneReview
  <2>3. OneReview'
    BY <2>2 DEF OneReview
  <2>4. panel'["review"] = shows
    BY <1>6, <1>11
  <2>5. /\ call[i].state = "served" => panel'["review"].shown = call[i].answer
        /\ call[i].state # "served" => panel'["review"].shown = panel["review"].shown
    <3>1. panel["review"] \in [state : {"idle", "loading", "ready", "error"}, shown : Int]
      BY <1>1, <1>3
    <3> QED
      BY <1>11, <2>4, <3>1 DEF shows
  <2>6. /\ panel["review"].shown <= panel'["review"].shown
        /\ panel'["review"].shown <= Len(ledger)
    BY <1>0, <1>10, <2>1, <2>5 DEF Between
  <2>7. Between'
    BY <1>2, <2>2, <2>6 DEF Between
  <2>8. ASSUME faults' = 0, others' = 0
        PROVE  Undisturbed'
    <3>1. Undisturbed
      BY <1>2, <2>8 DEF PanelInv
    <3>2. panel'["review"].shown = Len(ledger')
      BY <1>2, <2>1, <2>5, <3>1 DEF Undisturbed
    <3>3. \A n \in DOMAIN ledger' : Status(n - 1)' # ledger'[n].decision
      BY <1>2, <3>1 DEF Undisturbed, Status
    <3> QED
      BY <2>2, <3>2, <3>3 DEF Undisturbed
  <2> QED
    BY <1>7, <1>9, <2>3, <2>6, <2>7, <2>8 DEF PanelInv
<1>12. CASE p # "review"
  <2>1. ~Reviewing(i) /\ panel'["review"] = panel["review"]
    BY <1>6, <1>12 DEF Reviewing
  <2>2. \A j \in DOMAIN call' : Reviewing(j)' => j # i /\ Reviewing(j) /\ call'[j] = call[j]
    BY <1>5, <1>8
  <2>3. \A j \in DOMAIN call : Reviewing(j) => j \in DOMAIN call' /\ Reviewing(j)'
    BY <1>5, <1>8, <2>1
  <2>4. OneReview'
    BY <1>0, <1>5, <2>1, <2>2 DEF OneReview
  <2>5. Between'
    BY <1>0, <1>2, <1>5, <2>1, <2>2 DEF Between
  <2>6. ASSUME faults' = 0, others' = 0
        PROVE  Undisturbed'
    <3>1. Undisturbed
      BY <1>2, <2>6 DEF PanelInv
    <3>2. \A n \in DOMAIN ledger' : Status(n - 1)' # ledger'[n].decision
      BY <1>2, <3>1 DEF Undisturbed, Status
    <3>3. Status(Len(ledger))' = Status(Len(ledger))
      BY <1>2 DEF Status
    <3> QED
      BY <1>2, <1>5, <2>1, <2>2, <2>3, <3>1, <3>2, <3>3 DEF Undisturbed
  <2> QED
    BY <1>7, <1>9, <1>10, <2>1, <2>4, <2>5, <2>6 DEF PanelInv
<1> QED
  BY <1>11, <1>12

\* A request that fails may have recorded its decision.
LEMMA FailKeeps ==
    ASSUME PanelInv, NEW i \in DOMAIN call, Fail(i)
    PROVE  PanelInv'
<1>0. PanelTypeOK /\ call \in Seq(Request) /\ call[i] \in Request /\ i \in Nat
  BY DEF PanelInv, PanelTypeOK
<1> DEFINE e == IF call[i].what \in Decision THEN [decision |-> call[i].what, by |-> i]
                ELSE [decision |-> "approved", by |-> i]
<1>1. e \in Entry
  BY <1>0 DEF Entry, Decision
<1>2. ledger' \in {ledger, Append(ledger, e)}
  BY DEF Fail, Recorded
<1> HIDE DEF e
<1>3. /\ call[i].state = "sent" /\ faults' = faults + 1 /\ UNCHANGED <<panel, others>>
      /\ call' = [call EXCEPT ![i] = [@ EXCEPT !.state = "failed"]]
  BY DEF Fail
<1>4. /\ call'[i].panel = call[i].panel /\ call'[i].what = call[i].what
      /\ call'[i].state = "failed" /\ call'[i] \in Request
  BY <1>0, <1>3 DEF Request
<1>5. /\ DOMAIN call' = DOMAIN call /\ call' \in Seq(Request)
      /\ \A j \in DOMAIN call : j # i => call'[j] = call[j]
  BY <1>0, <1>3, <1>4
<1>6. ledger' \in Seq(Entry)
  BY <1>0, <1>1, <1>2, LedgerGrows DEF PanelTypeOK
<1>7. PanelTypeOK' /\ faults' # 0
  BY <1>0, <1>3, <1>5, <1>6 DEF PanelTypeOK
<1>8. \A j \in DOMAIN call :
         /\ call'[j].panel = call[j].panel /\ call'[j].what = call[j].what
         /\ call'[j].state = "done" <=> call[j].state = "done"
         /\ call'[j].state = "served" => call'[j] = call[j]
  BY <1>3, <1>4, <1>5
<1> QED
  BY <1>1, <1>2, <1>3, <1>5, <1>7, <1>8, DisturbedKeeps

\* Other reviewers decide what they like.
LEMMA OtherKeeps ==
    ASSUME PanelInv, NEW decision \in Decision, OtherDecides(decision)
    PROVE  PanelInv'
<1> DEFINE e == [decision |-> decision, by |-> 0]
<1>1. e \in Entry
  BY DEF Entry
<1>2. /\ ledger' = Append(ledger, e) /\ others' = others + 1
      /\ UNCHANGED <<call, panel, faults>>
  BY DEF OtherDecides
<1> HIDE DEF e
<1>3. PanelTypeOK
  BY DEF PanelInv
<1>4. ledger' \in Seq(Entry)
  BY <1>1, <1>2, <1>3, LedgerGrows DEF PanelTypeOK
<1>5. PanelTypeOK' /\ others' # 0
  BY <1>2, <1>3, <1>4 DEF PanelTypeOK
<1> QED
  BY <1>1, <1>2, <1>5, DisturbedKeeps

\* The invariant holds at the start and is kept by every step, and no step
\* shows an older review.
LEMMA PanelStep ==
    ASSUME PanelInv, [Next]_vars
    PROVE  PanelInv' /\ panel["review"].shown <= panel'["review"].shown
<1>0. PanelTypeOK /\ OneReview
  BY DEF PanelInv
<1>1. panel["review"].shown \in Int
  BY <1>0, AnswersAreNumbers
<1>2. ASSUME NEW asks \in Asks, Ask(asks)
      PROVE  panel'["review"].shown = panel["review"].shown
  BY <1>0, <1>2, AskAppends
<1>3. CASE Mount
  <2> DEFINE asks == << <<"inspection", "demo">>, <<"packet", "read">>, <<"review", "read">> >>
  <2>1. Ask(asks) /\ UNCHANGED <<ledger, others, faults>> /\ DOMAIN call = {}
    BY <1>3 DEF Mount
  <2>2. /\ asks \in Asks /\ Len(asks) = 3
        /\ asks[1] = <<"inspection", "demo">> /\ asks[2] = <<"packet", "read">>
        /\ asks[3] = <<"review", "read">>
    BY DEF Asks, Panel, What
  <2> HIDE DEF asks
  <2>3. PanelInv'
    <3>1. \A k \in 1..Len(asks) : asks[k][2] \notin Decision
      BY <2>2 DEF Decision
    <3>2. \A k, l \in 1..Len(asks) : asks[k][1] = "review" /\ asks[l][1] = "review" => k = l
      BY <2>2
    <3> QED BY <2>1, <2>2, <3>1, <3>2, AskKeeps
  <2>4. panel'["review"].shown = panel["review"].shown
    BY <1>2, <2>1, <2>2
  <2> QED
    BY <1>1, <2>3, <2>4
<1>4. CASE Refresh
  <2> DEFINE asks == << <<"packet", "read">>, <<"review", "read">> >>
  <2>1. /\ Ask(asks) /\ UNCHANGED <<ledger, others, faults>>
        /\ \A i \in DOMAIN call : ~Reviewing(i)
    BY <1>0, <1>4 DEF Refresh, OneReview
  <2>2. /\ asks \in Asks /\ Len(asks) = 2
        /\ asks[1] = <<"packet", "read">> /\ asks[2] = <<"review", "read">>
    BY DEF Asks, Panel, What
  <2> HIDE DEF asks
  <2>3. PanelInv'
    BY <2>1, <2>2, AskKeeps DEF Decision
  <2> QED
    BY <1>1, <1>2, <2>1, <2>2, <2>3
<1>5. CASE Inspect
  <2>1. PICK what \in {"demo", "upload"} : Ask(<< <<"inspection", what>> >>)
    BY <1>5 DEF Inspect
  <2> DEFINE asks == << <<"inspection", what>> >>
  <2>2. asks \in Asks /\ Len(asks) = 1 /\ asks[1] = <<"inspection", what>>
    BY DEF Asks, Panel, What
  <2>3. Ask(asks) /\ UNCHANGED <<ledger, others, faults>>
    BY <1>5, <2>1 DEF Inspect
  <2> HIDE DEF asks
  <2>4. PanelInv'
    BY <2>2, <2>3, AskKeeps DEF Decision
  <2> QED
    BY <1>1, <1>2, <2>2, <2>3, <2>4
<1>6. ASSUME NEW decision \in Decision, Decide(decision)
      PROVE  PanelInv' /\ panel["review"].shown <= panel'["review"].shown
  <2> DEFINE asks == << <<"review", decision>> >>
  <2>1. /\ Ask(asks) /\ UNCHANGED <<ledger, others, faults>>
        /\ panel["review"].shown # Nothing /\ Status(panel["review"].shown) # decision
        /\ \A i \in DOMAIN call : ~Reviewing(i)
    BY <1>0, <1>6 DEF Decide, OneReview
  <2>2. asks \in Asks /\ Len(asks) = 1 /\ asks[1] = <<"review", decision>>
    BY DEF Asks, Panel, What
  <2> HIDE DEF asks
  <2>3. faults = 0 /\ others = 0 => Status(Len(ledger)) # decision
    BY <2>1 DEF PanelInv, Undisturbed
  <2>4. PanelInv'
    BY <2>1, <2>2, <2>3, AskKeeps
  <2> QED
    BY <1>1, <1>2, <2>1, <2>2, <2>4
<1>7. ASSUME NEW decision \in Decision, OtherDecides(decision)
      PROVE  PanelInv' /\ panel["review"].shown <= panel'["review"].shown
  BY <1>1, <1>7, OtherKeeps DEF OtherDecides
<1>8. ASSUME NEW i \in DOMAIN call, Serve(i)
      PROVE  PanelInv' /\ panel["review"].shown <= panel'["review"].shown
  <2>1. panel' = panel
    BY <1>8 DEF Serve
  <2>2. PanelInv'
    BY <1>8, ServeKeeps
  <2> QED
    BY <1>1, <2>1, <2>2
<1>9. ASSUME NEW i \in DOMAIN call, Fail(i)
      PROVE  PanelInv' /\ panel["review"].shown <= panel'["review"].shown
  <2>1. panel' = panel
    BY <1>9 DEF Fail
  <2>2. PanelInv'
    BY <1>9, FailKeeps
  <2> QED
    BY <1>1, <2>1, <2>2
<1>10. ASSUME NEW i \in DOMAIN call, Deliver(i)
       PROVE  PanelInv' /\ panel["review"].shown <= panel'["review"].shown
  BY <1>10, DeliverKeeps
<1>11. CASE UNCHANGED vars
  BY <1>1, <1>11 DEF vars, PanelInv, PanelTypeOK, OneReview, DecisionsAreReviews, Between,
                     Undisturbed, Reviewing, Status
<1> QED
  BY <1>3, <1>4, <1>5, <1>6, <1>7, <1>8, <1>9, <1>10, <1>11 DEF Next

\* PanelInv is an invariant.
LEMMA PanelHolds == Spec => []PanelInv
<1>1. Init => PanelInv
  <2> SUFFICES ASSUME Init PROVE PanelInv
    OBVIOUS
  <2>1. /\ ledger = <<>> /\ call = <<>> /\ panel["review"].shown = Nothing
        /\ others = 0 /\ faults = 0 /\ Len(ledger) = 0 /\ DOMAIN ledger = {} /\ DOMAIN call = {}
    BY DEF Init, Panel
  <2>2. PanelTypeOK
    BY <2>1 DEF Init, PanelTypeOK, Nothing
  <2> QED
    BY <2>1, <2>2 DEF PanelInv, OneReview, DecisionsAreReviews, Between, Undisturbed, Nothing
<1>2. PanelInv /\ [Next]_vars => PanelInv'
  BY PanelStep
<1> QED
  BY <1>1, <1>2, PTL DEF Spec

(***************************************************************************)
(* However answers overtake each other, no reply of the API takes a review *)
(* off the screen that is newer than its own.                              *)
(***************************************************************************)
THEOREM ScreenOnlyAdvances == Spec => ReviewNeverGoesBack
<1>1. PanelInv /\ [Next]_vars => [panel["review"].shown <= panel'["review"].shown]_vars
  BY PanelStep
<1> QED
  BY <1>1, PanelHolds, PTL DEF Spec, ReviewNeverGoesBack

(***************************************************************************)
(* The controls of the page never record a decision that already stands,   *)
(* unless an answer was lost or somebody else decides as well.             *)
(***************************************************************************)
THEOREM OneClickOneDecision == Spec => []NoDecisionTwice
<1>1. PanelInv => NoDecisionTwice
  <2> SUFFICES ASSUME PanelInv, ~(faults > 0 \/ others > 0)
               PROVE  \A n \in DOMAIN ledger : Status(n - 1) # ledger[n].decision
    BY DEF NoDecisionTwice
  <2>1. faults \in Nat /\ others \in Nat
    BY DEF PanelInv, PanelTypeOK
  <2> QED
    BY <2>1 DEF PanelInv, Undisturbed
<1> QED
  BY <1>1, PanelHolds, PTL
=============================================================================
