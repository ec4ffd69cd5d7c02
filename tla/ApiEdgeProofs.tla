--------------------------- MODULE ApiEdgeProofs ---------------------------
(***************************************************************************)
(* Proofs about the edges of the service: what it admits, what it asks of  *)
(* its provider and what it streams to the browser, for every set of       *)
(* clients, every limit and setting and every bound.                       *)
(*                                                                         *)
(* Part 1, the rate limiter and the telemetry: the cap per minute is not   *)
(* inductive, it needs to know how much of it the current entry of the     *)
(* client stands for (Headroom) and that no entry exceeds the limit or     *)
(* what was admitted (EntriesCount).                                       *)
(*                                                                         *)
(* Part 2, the question to Qwen: the bound on requests follows from how    *)
(* many the attempts begun so far account for (Budget).                    *)
(*                                                                         *)
(* Part 3, the edge as both of them side by side.                          *)
(*                                                                         *)
(* Part 4, the event stream: what the client has is tied to the log by     *)
(* what is still on the wire, the frames in flight being the events        *)
(* between the client's last id and the server's cursor, and behind them   *)
(* the terminal frame once the generator has returned (InFlight).          *)
(***************************************************************************)
EXTENDS ApiEdge, EventStream, TLAPS

\* What a client may still have had in window w beyond the adjustments'
\* quota: the limit in a past minute, its entry's count in this one.
Share(c, w) == IF w < window THEN limit ELSE IF w = window THEN Count(c) ELSE 0

Headroom ==
    Limited => \A c \in Client, w \in Window : admitted[c][w] + limit <= quota + Share(c, w)

EntriesCount ==
    Limited => \A c \in Client :
        /\ windows[c].count <= limit
        /\ windows[c].window \in Window => windows[c].count <= admitted[c][windows[c].window]
        /\ windows[c].window \notin Window => windows[c].count = 0

LimiterInv ==
    /\ LimiterTypeOK /\ Headroom /\ EntriesCount
    /\ RefusedOnlyAtLimit /\ TelemetryAccounts
    /\ refused # {} => Limited

\* Counting a request leaves the counters natural numbers.
LEMMA CountersType ==
    ASSUME NEW r \in [requests : Nat, rate_limited : Nat]
    PROVE  /\ [r EXCEPT !.requests = @ + 1] \in [requests : Nat, rate_limited : Nat]
           /\ [r EXCEPT !.rate_limited = @ + 1] \in [requests : Nat, rate_limited : Nat]
  OBVIOUS

\* The limiter's steps keep the types of its variables.
LEMMA TypeStep ==
    ASSUME LimiterTypeOK, [LimiterNext]_limiterVars
    PROVE  LimiterTypeOK'
<1> USE LimiterAssumption DEF LimiterTypeOK, Window
<1>1. CASE PassFree
  BY <1>1 DEF PassFree
<1>2. CASE Done
  <2>1. counters' \in [requests : Nat, rate_limited : Nat]
    BY <1>2, CountersType DEF Done
  <2>2. inApp' \in Nat
    BY <1>2 DEF Done
  <2>3. UNCHANGED <<limit, window, windows, arrived, admitted, refused, back, quota>>
    BY <1>2 DEF Done
  <2> QED
    BY <2>1, <2>2, <2>3
<1>3. CASE Tick
  BY <1>3 DEF Tick
<1>4. CASE SetBack
  BY <1>4 DEF SetBack
<1>5. ASSUME NEW c \in Client, Admit(c)
      PROVE  LimiterTypeOK'
  <2>1. Count(c) \in Nat
    BY DEF Count
  <2>2. [window |-> window, count |-> Count(c) + 1] \in [window : Window \union {-1}, count : Nat]
    BY <2>1
  <2>3. windows' \in [Client -> [window : Window \union {-1}, count : Nat]]
    BY <1>5, <2>2 DEF Admit
  <2>4. admitted' \in [Client -> [Window -> Nat]]
    BY <1>5 DEF Admit
  <2> QED
    BY <1>5, <2>3, <2>4 DEF Admit
<1>6. ASSUME NEW c \in Client, Refuse(c)
      PROVE  LimiterTypeOK'
  <2>1. Count(c) \in Nat
    BY DEF Count
  <2>2. windows' \in [Client -> [window : Window \union {-1}, count : Nat]]
    BY <1>6, <2>1 DEF Refuse
  <2>3. refused' \subseteq Client \X Window
    BY <1>6 DEF Refuse
  <2>4. counters' \in [requests : Nat, rate_limited : Nat]
    <3>1. counters' = [counters EXCEPT !.rate_limited = @ + 1]
      BY <1>6 DEF Refuse
    <3>2. counters \in [requests : Nat, rate_limited : Nat]
      OBVIOUS
    <3> HIDE DEF LimiterTypeOK
    <3> QED
      BY <3>1, <3>2, CountersType
  <2>5. arrived' \in 0..MaxRequests
    BY <1>6 DEF Refuse
  <2>6. UNCHANGED <<limit, window, inApp, admitted, back, quota>>
    BY <1>6 DEF Refuse
  <2> QED
    BY <2>2, <2>3, <2>4, <2>5, <2>6
<1>7. CASE UNCHANGED limiterVars
  BY <1>7 DEF limiterVars
<1> QED
  BY <1>1, <1>2, <1>3, <1>4, <1>5, <1>6, <1>7 DEF LimiterNext

\* The limiter starts in its invariant.
LEMMA InvInit == LimiterInit => LimiterInv
<1> SUFFICES ASSUME LimiterInit PROVE LimiterInv
  OBVIOUS
<1> USE LimiterAssumption DEF LimiterInit, NoEntry, Window
<1>1. LimiterTypeOK
  BY DEF LimiterTypeOK
<1>2. Headroom /\ EntriesCount
  BY <1>1 DEF LimiterTypeOK, Headroom, EntriesCount, Share, Count, Limited
<1>3. RefusedOnlyAtLimit /\ TelemetryAccounts
  BY DEF RefusedOnlyAtLimit, TelemetryAccounts
<1> QED
  BY <1>1, <1>2, <1>3 DEF LimiterInv

\* The cap: no step lets a client have more of a minute than is left of it.
LEMMA HeadroomStep ==
    ASSUME LimiterInv, LimiterTypeOK', [LimiterNext]_limiterVars
    PROVE  Headroom'
<1> SUFFICES ASSUME Limited', NEW c \in Client, NEW w \in Window
             PROVE  admitted'[c][w] + limit' <= quota' + Share(c, w)'
  BY DEF Headroom
<1> USE LimiterAssumption DEF LimiterInv
<1>1. limit' = limit /\ Limited /\ limit \in Int /\ limit > 0
  <2>1. limit' = limit
    BY DEF LimiterNext, limiterVars, PassFree, Done, Tick, SetBack, Admit, Refuse
  <2>2. limit' > 0 /\ limit \in Int
    BY DEF Limited, LimiterTypeOK
  <2> QED
    BY <2>1, <2>2 DEF Limited
<1>2. /\ admitted[c][w] \in Nat /\ quota \in Int /\ window \in Int /\ w \in Int
      /\ Count(c) \in Nat /\ Count(c) <= limit
  <2>1. LimiterTypeOK /\ EntriesCount
    OBVIOUS
  <2>2. admitted[c][w] \in Nat /\ quota \in Int /\ window \in Int /\ w \in Int
    BY <2>1 DEF LimiterTypeOK, Window
  <2>3. windows[c].count \in Nat /\ windows[c].count <= limit
    BY <1>1, <2>1 DEF LimiterTypeOK, EntriesCount
  <2> QED
    BY <1>1, <2>2, <2>3 DEF Count
<1>3. admitted[c][w] + limit <= quota + Share(c, w)
  BY <1>1 DEF Headroom
<1>4. CASE PassFree \/ Done \/ UNCHANGED limiterVars
  BY <1>3, <1>4 DEF PassFree, Done, limiterVars, Share, Count
<1>5. Share(c, w) \in Nat /\ Share(c, w) <= limit /\ Share(c, w)' \in Nat
  <2>1. Count(c)' \in Nat /\ limit' \in Nat
    BY <1>1 DEF LimiterTypeOK, Count
  <2> QED
    BY <1>1, <1>2, <2>1 DEF Share
<1>6. CASE Tick
  <2>1. /\ window' = window + 1 /\ quota' = quota /\ admitted' = admitted
        /\ windows' = windows
    BY <1>6 DEF Tick
  <2>2. Share(c, w)' >= Share(c, w)
    BY <1>1, <1>2, <1>5, <2>1 DEF Share
  <2> QED
    BY <1>1, <1>2, <1>3, <1>5, <2>1, <2>2
<1>7. CASE SetBack
  <2>1. quota' = quota + limit /\ admitted' = admitted
    BY <1>7 DEF SetBack
  <2> QED
    BY <1>1, <1>2, <1>3, <1>5, <2>1
<1>8. ASSUME NEW d \in Client, Admit(d)
      PROVE  admitted'[c][w] + limit' <= quota' + Share(c, w)'
  <2>1. window' = window /\ quota' = quota
    BY <1>8 DEF Admit
  <2>2. CASE c = d /\ w = window
    <3>1. admitted'[c][w] = admitted[c][w] + 1
      BY <1>8, <2>2 DEF Admit, LimiterTypeOK
    <3>2. Count(c)' = Count(c) + 1
      BY <1>8, <2>2 DEF Admit, Count, LimiterTypeOK
    <3> QED
      BY <1>1, <1>2, <1>3, <2>1, <2>2, <3>1, <3>2 DEF Share
  <2>3. CASE ~(c = d /\ w = window)
    <3>1. admitted'[c][w] = admitted[c][w]
      BY <1>8, <2>3 DEF Admit, LimiterTypeOK
    <3>2. w = window => Count(c)' = Count(c)
      BY <1>8, <2>3 DEF Admit, Count, LimiterTypeOK
    <3> QED
      BY <1>1, <1>2, <1>3, <2>1, <3>1, <3>2 DEF Share
  <2> QED
    BY <2>2, <2>3
<1>9. ASSUME NEW d \in Client, Refuse(d)
      PROVE  admitted'[c][w] + limit' <= quota' + Share(c, w)'
  <2>1. window' = window /\ quota' = quota /\ admitted' = admitted
    BY <1>9 DEF Refuse
  <2>2. Count(c)' = Count(c)
    BY <1>9 DEF Refuse, Count, LimiterTypeOK
  <2> QED
    BY <1>1, <1>3, <2>1, <2>2 DEF Share
<1> QED
  BY <1>4, <1>6, <1>7, <1>8, <1>9 DEF LimiterNext

\* An entry counts requests that were admitted, at most the limit.
LEMMA EntriesStep ==
    ASSUME LimiterInv, LimiterTypeOK', [LimiterNext]_limiterVars
    PROVE  EntriesCount'
<1> SUFFICES ASSUME Limited', NEW c \in Client
             PROVE  /\ windows'[c].count <= limit'
                    /\ windows'[c].window \in Window =>
                           windows'[c].count <= admitted'[c][windows'[c].window]
                    /\ windows'[c].window \notin Window => windows'[c].count = 0
  BY DEF EntriesCount, Window
<1> USE LimiterAssumption DEF LimiterInv
<1>1. limit' = limit /\ Limited /\ limit \in Int /\ limit > 0
  BY DEF LimiterNext, limiterVars, PassFree, Done, Tick, SetBack, Admit, Refuse, Limited, LimiterTypeOK
<1>2. /\ windows[c].count <= limit
      /\ windows[c].window \in Window => windows[c].count <= admitted[c][windows[c].window]
      /\ windows[c].window \notin Window => windows[c].count = 0
  BY <1>1 DEF EntriesCount
<1>3. CASE PassFree \/ Done \/ Tick \/ SetBack \/ UNCHANGED limiterVars
  BY <1>1, <1>2, <1>3 DEF PassFree, Done, Tick, SetBack, limiterVars
<1>4. /\ window \in Window /\ Count(c) \in Nat /\ admitted[c][window] \in Nat
      /\ Count(c) <= admitted[c][window]
  BY <1>2 DEF Count, LimiterTypeOK
<1>5. ASSUME NEW d \in Client, Admit(d) \/ Refuse(d), d # c
      PROVE  windows'[c] = windows[c] /\ admitted'[c] = admitted[c]
  BY <1>5 DEF Admit, Refuse, LimiterTypeOK
<1>6. CASE Admit(c)
  <2>1. windows'[c] = [window |-> window, count |-> Count(c) + 1]
    BY <1>6 DEF Admit, LimiterTypeOK
  <2>2. admitted'[c][window] = admitted[c][window] + 1
    BY <1>6, <1>4 DEF Admit, LimiterTypeOK
  <2>3. Count(c) < limit
    BY <1>6 DEF Admit
  <2> QED
    BY <1>1, <1>4, <2>1, <2>2, <2>3
<1>7. CASE Refuse(c)
  <2>1. windows'[c] = [window |-> window, count |-> Count(c)] /\ admitted' = admitted
    BY <1>7 DEF Refuse, LimiterTypeOK
  <2>2. Count(c) <= limit
    BY <1>1, <1>2 DEF Count
  <2> QED
    BY <1>1, <1>4, <2>1, <2>2
<1> QED
  BY <1>1, <1>2, <1>3, <1>5, <1>6, <1>7 DEF LimiterNext

\* A refusal finds the limit used up, and what was admitted stays admitted.
LEMMA RefusedStep ==
    ASSUME LimiterInv, LimiterTypeOK', [LimiterNext]_limiterVars
    PROVE  RefusedOnlyAtLimit' /\ (refused' # {} => Limited')
<1> USE LimiterAssumption DEF LimiterInv
<1>1. limit' = limit /\ limit \in Int
  BY DEF LimiterNext, limiterVars, PassFree, Done, Tick, SetBack, Admit, Refuse, LimiterTypeOK
<1>2. ASSUME NEW c \in Client, NEW w \in Window
      PROVE  admitted'[c][w] >= admitted[c][w]
  <2>1. admitted[c][w] \in Nat
    BY DEF LimiterTypeOK
  <2>2. ASSUME NEW d \in Client, Admit(d)
        PROVE  admitted'[c][w] \in {admitted[c][w], admitted[c][w] + 1}
    <3>1. admitted' = [admitted EXCEPT ![d][window] = @ + 1]
      BY <2>2 DEF Admit
    <3> QED
      BY <3>1 DEF LimiterTypeOK
  <2>3. admitted' = admitted \/ \E d \in Client : Admit(d)
    BY DEF LimiterNext, limiterVars, PassFree, Done, Tick, SetBack, Refuse
  <2> QED
    BY <2>1, <2>2, <2>3
<1>3. ASSUME NEW r \in refused'
      PROVE  admitted'[r[1]][r[2]] >= limit' /\ Limited'
  <2>1. CASE r \in refused
    <3>1. r[1] \in Client /\ r[2] \in Window
      BY <2>1 DEF LimiterTypeOK
    <3>2. admitted[r[1]][r[2]] >= limit /\ Limited
      BY <2>1 DEF RefusedOnlyAtLimit
    <3>3. admitted[r[1]][r[2]] \in Nat /\ admitted'[r[1]][r[2]] \in Nat
      BY <3>1 DEF LimiterTypeOK
    <3> QED
      BY <1>1, <1>2, <3>1, <3>2, <3>3 DEF Limited
  <2>2. CASE r \notin refused
    <3>1. PICK c \in Client : Refuse(c)
      BY <1>3, <2>2 DEF LimiterNext, limiterVars, PassFree, Done, Tick, SetBack, Admit
    <3>2. r = <<c, window>> /\ admitted' = admitted /\ Limited /\ Count(c) >= limit
      BY <1>3, <2>2, <3>1 DEF Refuse
    <3>3. windows[c].window = window /\ windows[c].count >= limit
      BY <1>1, <3>2 DEF Count, Limited
    <3>4. windows[c].count <= admitted[c][window]
      BY <3>2, <3>3 DEF EntriesCount, LimiterTypeOK
    <3>5. admitted[c][window] \in Nat /\ windows[c].count \in Nat
      BY DEF LimiterTypeOK
    <3> QED
      BY <1>1, <3>2, <3>3, <3>4, <3>5 DEF Limited
  <2> QED
    BY <2>1, <2>2
<1> QED
  BY <1>3 DEF RefusedOnlyAtLimit

\* No request is counted twice, and none is forgotten.
LEMMA TelemetryStep ==
    ASSUME LimiterInv, [LimiterNext]_limiterVars
    PROVE  TelemetryAccounts'
<1> USE DEF LimiterInv, LimiterTypeOK, TelemetryAccounts
<1>1. /\ counters.requests \in Nat /\ counters.rate_limited \in Nat
      /\ inApp \in Nat /\ arrived \in Int
      /\ counters.requests + counters.rate_limited + inApp = arrived
  BY LimiterAssumption
<1>2. CASE Done
  <2>1. counters'.requests = counters.requests + 1 /\ counters'.rate_limited = counters.rate_limited
    BY <1>2 DEF Done
  <2> QED
    BY <1>1, <1>2, <2>1 DEF Done
<1>3. ASSUME NEW c \in Client, Refuse(c)
      PROVE  TelemetryAccounts'
  <2>1. counters'.requests = counters.requests /\ counters'.rate_limited = counters.rate_limited + 1
    BY <1>3 DEF Refuse
  <2> QED
    BY <1>1, <1>3, <2>1 DEF Refuse
<1>4. CASE PassFree \/ (\E c \in Client : Admit(c))
  BY <1>1, <1>4 DEF PassFree, Admit
<1>5. CASE Tick \/ SetBack \/ UNCHANGED limiterVars
  BY <1>1, <1>5 DEF Tick, SetBack, limiterVars
<1> QED
  BY <1>2, <1>3, <1>4, <1>5 DEF LimiterNext

\* The invariant of the limiter is inductive.
LEMMA InvStep == LimiterInv /\ [LimiterNext]_limiterVars => LimiterInv'
<1> SUFFICES ASSUME LimiterInv, [LimiterNext]_limiterVars PROVE LimiterInv'
  OBVIOUS
<1>1. LimiterTypeOK'
  BY TypeStep DEF LimiterInv
<1> QED
  BY <1>1, HeadroomStep, EntriesStep, RefusedStep, TelemetryStep DEF LimiterInv

\* The limiter's invariant holds in every state it reaches.
LEMMA InvHolds == LimiterSpec => []LimiterInv
  BY InvInit, InvStep, PTL DEF LimiterSpec

(***************************************************************************)
(* However many clients call, whatever the limit is: none of them is       *)
(* admitted more often than the limit within one minute of the wall clock, *)
(* and once more as often for each time the clock was set back.            *)
(***************************************************************************)
THEOREM ClientsAreCapped == LimiterSpec => []WindowCap
<1>1. LimiterInv => WindowCap
  <2> SUFFICES ASSUME LimiterInv, Limited, NEW c \in Client, NEW w \in Window
               PROVE  admitted[c][w] <= quota
    BY DEF WindowCap
  <2>1. /\ limit \in Int /\ quota \in Int /\ window \in Int /\ w \in Int
        /\ admitted[c][w] \in Nat /\ limit > 0 /\ Count(c) <= limit /\ Count(c) \in Nat
    BY LimiterAssumption DEF LimiterInv, LimiterTypeOK, Window, Limited, Count, EntriesCount
  <2>2. admitted[c][w] + limit <= quota + Share(c, w)
    BY DEF LimiterInv, Headroom
  <2>3. Share(c, w) \in Int /\ Share(c, w) <= limit
    BY <2>1 DEF Share
  <2> QED
    BY <2>1, <2>2, <2>3
<1> QED
  BY <1>1, InvHolds, PTL

(***************************************************************************)
(* A client that is refused has had its limit in that very minute.         *)
(***************************************************************************)
THEOREM RefusalsAreEarned == LimiterSpec => []RefusedOnlyAtLimit
<1>1. LimiterInv => RefusedOnlyAtLimit
  BY DEF LimiterInv
<1> QED
  BY <1>1, InvHolds, PTL

(***************************************************************************)
(* Every request is in the telemetry or still being answered.              *)
(***************************************************************************)
THEOREM RequestsAreAccounted == LimiterSpec => []TelemetryAccounts
<1>1. LimiterInv => TelemetryAccounts
  BY DEF LimiterInv
<1> QED
  BY <1>1, InvHolds, PTL

(***************************************************************************)
(* Part 2: the question to Qwen.                                           *)
(***************************************************************************)
Phase == {"asked", "posting", "posted", "sleeping", "settled"}

GatewayTypeOK ==
    /\ configured \in BOOLEAN /\ setting \in 0..MaxSetting /\ caller \in Caller
    /\ phase \in Phase /\ posts \in Nat
    /\ attempt \in 1..Attempts /\ tries \in 1..Attempts
    /\ tries > 1 => caller = VisionAgent

\* The requests that the attempts begun so far account for.
Spent ==
    (tries - 1) * Attempts + (IF phase \in {"asked", "posting"} THEN attempt - 1 ELSE attempt)

Budget ==
    /\ posts <= Spent
    /\ phase = "asked" => attempt = 1
    /\ phase = "sleeping" => attempt < Attempts

\* A value is given where the code has settled, and nothing is sent without a key.
OutcomeTold ==
    /\ phase # "settled" => outcome = None
    /\ phase \in {"posting", "posted", "sleeping"} => configured
    /\ posts > 0 => configured

\* The inductive invariant of a question.
GatewayInv ==
    /\ GatewayTypeOK /\ Budget /\ OutcomeTold
    /\ TextTasksNeverFail /\ SourceIsHonest

\* A question takes at least one attempt.
LEMMA AttemptsPositive == setting \in 0..MaxSetting => Attempts \in Nat \ {0}
BY GatewayAssumption DEF Attempts

\* A question before anything is sent.
LEMMA GatewayInitInv == GatewayInit => GatewayInv
<1> SUFFICES ASSUME GatewayInit PROVE GatewayInv
  OBVIOUS
<1>1. Attempts \in Nat \ {0}
  BY AttemptsPositive DEF GatewayInit
<1>2. GatewayTypeOK
  BY <1>1 DEF GatewayInit, GatewayTypeOK, Phase
<1>3. Budget
  BY <1>1 DEF GatewayInit, Budget, Spent
<1> QED BY <1>2, <1>3, GatewayAssumption DEF GatewayInit, GatewayInv, OutcomeTold,
       TextTasksNeverFail, SourceIsHonest

\* What an answer, or its absence, can lead to.
Sleeps ==
    /\ attempt < Attempts /\ phase' = "sleeping"
    /\ UNCHANGED <<attempt, tries, outcome>>

IsSettled(result) == phase' = "settled" /\ outcome' = result /\ UNCHANGED <<attempt, tries>>

AsksAgain ==
    /\ caller = VisionAgent /\ tries < Attempts
    /\ tries' = tries + 1 /\ attempt' = 1 /\ phase' = "asked" /\ outcome' = outcome

\* A typed task ends with a value, honestly marked; only the others end with an error.
LEMMA ReceiveLeadsTo ==
    ASSUME GatewayTypeOK, NEW answer \in ProviderAnswer, ReceiveAnswer(answer)
    PROVE  /\ phase = "posted" /\ reply' = answer /\ UNCHANGED <<config, posts>>
           /\ \/ Sleeps
              \/ AsksAgain
              \/ answer \in Object /\ IsSettled("qwen")
              \/ answer # "valid" /\ IsSettled("fallback")
              \/ /\ caller \notin TextTask
                 /\ \E error \in {"failed", "http_502", "http_400"} : IsSettled(error)
<1>1. phase = "posted" /\ reply' = answer /\ UNCHANGED config
  BY DEF ReceiveAnswer, Settle, Catch, TryAgain
<1>2. CASE Retried(answer)
  BY <1>1, <1>2 DEF ReceiveAnswer, Retried, Sleeps
<1>3. CASE ~Retried(answer) /\ Accepted(answer)
  BY <1>1, <1>3 DEF ReceiveAnswer, Accepted, Settle, IsSettled, Object
<1>4. CASE ~Retried(answer) /\ ~Accepted(answer)
  <2>1. answer # "valid" /\ Catch(Raised(answer))
    BY <1>4 DEF ReceiveAnswer, Accepted
  <2>2. CASE caller \in TextTask
    <3>1. Settle("fallback")
      BY <2>1, <2>2 DEF Catch, TextTask, VisionAgent
    <3> QED BY <1>1, <2>1, <3>1 DEF Settle, IsSettled
  <2>3. CASE caller = VisionAgent
    <3>1. caller \notin TextTask
      BY <2>3 DEF TextTask, VisionAgent
    <3>2. TryAgain \/ Settle("failed")
      BY <2>1, <2>3, <3>1 DEF Catch
    <3> QED BY <1>1, <2>3, <3>1, <3>2 DEF TryAgain, AsksAgain, Settle, IsSettled
  <2>4. CASE caller \notin TextTask \union {VisionAgent}
    <3>1. Settle("http_502") \/ Settle("http_400")
      BY <2>1, <2>4 DEF Catch
    <3> QED BY <1>1, <2>4, <3>1 DEF Settle, IsSettled
  <2> QED BY <2>2, <2>3, <2>4
<1> QED BY <1>2, <1>3, <1>4

\* The steps of a question, by what they do to its bookkeeping.
LEMMA GatewayStepInv == GatewayInv /\ [GatewayNext]_gatewayVars => GatewayInv'
<1> SUFFICES ASSUME GatewayInv, [GatewayNext]_gatewayVars PROVE GatewayInv'
  OBVIOUS
<1>1. Attempts \in Nat \ {0} /\ attempt \in Nat /\ tries \in Nat /\ posts \in Nat
  BY AttemptsPositive DEF GatewayInv, GatewayTypeOK
<1>2. Attempts' = Attempts /\ UNCHANGED config
  <2>1. CASE Ask \/ Post \/ Wake
    BY <2>1 DEF Ask, Post, Wake, Settle, config, Attempts
  <2>2. CASE Answer \/ TimeOut
    BY <2>2 DEF Answer, TimeOut, ReceiveAnswer, Catch, TryAgain, Settle, config, Attempts
  <2> QED BY <2>1, <2>2 DEF GatewayNext, gatewayVars, config, Attempts
<1>3. CASE UNCHANGED gatewayVars
  BY <1>2, <1>3 DEF gatewayVars, config, GatewayInv, GatewayTypeOK, Budget, Spent, OutcomeTold,
     TextTasksNeverFail, SourceIsHonest
<1>4. CASE Ask
  <2>1. /\ phase = "asked" /\ UNCHANGED <<attempt, tries, posts, reply>>
        /\ \/ configured /\ phase' = "posting" /\ outcome' = outcome
           \/ ~configured /\ phase' = "settled" /\ outcome' = "fallback"
    BY <1>4 DEF Ask, Settle
  <2>2. GatewayTypeOK' /\ Budget'
    BY <1>1, <1>2, <2>1 DEF config, GatewayInv, GatewayTypeOK, Phase, Budget, Spent
  <2>3. (OutcomeTold /\ TextTasksNeverFail /\ SourceIsHonest)'
    BY <1>2, <2>1, GatewayAssumption DEF config, GatewayInv, OutcomeTold, TextTasksNeverFail,
       SourceIsHonest
  <2> QED BY <2>2, <2>3 DEF GatewayInv
<1>5. CASE Post
  BY <1>1, <1>2, <1>5 DEF Post, config, GatewayInv, GatewayTypeOK, Phase, Budget, Spent,
     OutcomeTold, TextTasksNeverFail, SourceIsHonest
<1>6. CASE Wake
  BY <1>1, <1>2, <1>6 DEF Wake, config, GatewayInv, GatewayTypeOK, Phase, Budget, Spent,
     OutcomeTold, TextTasksNeverFail, SourceIsHonest
<1>7. CASE Answer \/ TimeOut
  <2>1. PICK answer \in ProviderAnswer : ReceiveAnswer(answer)
    BY <1>7 DEF Answer, TimeOut, ProviderAnswer, Transient
  <2>2. /\ phase = "posted" /\ reply' = answer /\ UNCHANGED <<config, posts>>
        /\ outcome = None /\ configured
    BY <2>1, ReceiveLeadsTo DEF GatewayInv, OutcomeTold
  <2>3. CASE Sleeps
    BY <1>1, <1>2, <2>2, <2>3, GatewayAssumption DEF Sleeps, config, GatewayInv, GatewayTypeOK,
       Phase, Budget, Spent, OutcomeTold, TextTasksNeverFail, SourceIsHonest
  <2>4. CASE AsksAgain
    BY <1>1, <1>2, <2>2, <2>4, GatewayAssumption DEF AsksAgain, config, GatewayInv,
       GatewayTypeOK, Phase, Budget, Spent, OutcomeTold, TextTasksNeverFail, SourceIsHonest
  <2>5. CASE \E result : IsSettled(result)
    <3>1. GatewayTypeOK' /\ Budget'
      BY <1>1, <1>2, <2>2, <2>5 DEF IsSettled, config, GatewayInv, GatewayTypeOK, Phase, Budget,
         Spent
    <3>2. OutcomeTold'
      BY <1>2, <2>2, <2>5 DEF IsSettled, OutcomeTold, config
    <3>3. TextTasksNeverFail' /\ SourceIsHonest'
      BY <1>2, <2>1, <2>2, <2>5, ReceiveLeadsTo DEF IsSettled, Sleeps, AsksAgain, config,
         GatewayInv, TextTasksNeverFail, SourceIsHonest
    <3> QED BY <3>1, <3>2, <3>3 DEF GatewayInv
  <2> QED BY <2>1, <2>3, <2>4, <2>5, ReceiveLeadsTo DEF GatewayInv
<1> QED BY <1>3, <1>4, <1>5, <1>6, <1>7 DEF GatewayNext

(***************************************************************************)
(* Part 3: the edge.  It is a question and a limiter side by side: each of *)
(* its steps is one of the limiter's, of the question's, or both stand     *)
(* still, so that each keeps its promises behind the other.                *)
(***************************************************************************)
LEMMA EdgeStep ==
    ASSUME [EdgeNext]_edgeVars
    PROVE  [LimiterNext]_limiterVars /\ [GatewayNext]_gatewayVars
<1>1. CASE AskingRequestArrives
  BY <1>1 DEF AskingRequestArrives, LetIn, LimiterNext
<1>2. CASE AskingRequestIsDone
  BY <1>2 DEF AskingRequestIsDone, LimiterNext
<1>3. CASE OtherRequests
  BY <1>3 DEF OtherRequests, LimiterNext
<1>4. CASE Questioning(GatewayNext)
  BY <1>4 DEF Questioning
<1>5. CASE UNCHANGED edgeVars
  BY <1>5 DEF edgeVars
<1> QED BY <1>1, <1>2, <1>3, <1>4, <1>5 DEF EdgeNext

\* The limiter keeps its invariant whatever is asked behind it, and the question keeps its
\* own whatever else arrives.
LEMMA EdgeInvHolds == FairEdgeSpec => [](LimiterInv /\ GatewayInv)
<1>1. EdgeInit => LimiterInv /\ GatewayInv
  BY InvInit, GatewayInitInv DEF EdgeInit
<1>2. LimiterInv /\ GatewayInv /\ [EdgeNext]_edgeVars => (LimiterInv /\ GatewayInv)'
  BY EdgeStep, InvStep, GatewayStepInv
<1> QED BY <1>1, <1>2, PTL DEF FairEdgeSpec

\* The API with questions in it is still the rate limiter of LimiterSpec: what is proved of
\* the limiter holds of the whole edge.
THEOREM EdgeImplementsLimiter == FairEdgeSpec => LimiterSpec
<1>1. EdgeInit => LimiterInit
  BY DEF EdgeInit
<1>2. [EdgeNext]_edgeVars => [LimiterNext]_limiterVars
  BY EdgeStep
<1> QED BY <1>1, <1>2, PTL DEF FairEdgeSpec, LimiterSpec

\* A question costs at most the configured requests, the agent's at most their square.
THEOREM RetriesAreBounded == FairEdgeSpec => []PostsAreBounded
<1>1. GatewayInv => PostsAreBounded
  <2> SUFFICES ASSUME GatewayInv PROVE PostsAreBounded
    OBVIOUS
  <2>1. /\ Attempts \in Nat \ {0} /\ posts \in Nat /\ attempt \in 1..Attempts
        /\ tries \in 1..Attempts /\ posts <= Spent
    BY AttemptsPositive DEF GatewayInv, GatewayTypeOK, Budget
  <2>2. Spent <= tries * Attempts
    BY <2>1 DEF Spent
  <2>3. tries * Attempts <= Attempts * Attempts
    BY <2>1
  <2>4. caller # VisionAgent => tries * Attempts = Attempts
    BY <2>1 DEF GatewayInv, GatewayTypeOK
  <2>5. Spent \in Int /\ tries * Attempts \in Int /\ Attempts * Attempts \in Int
    BY <2>1 DEF Spent
  <2> QED BY <2>1, <2>2, <2>3, <2>4, <2>5 DEF PostsAreBounded
<1> QED BY <1>1, EdgeInvHolds, PTL

\* No answer of the provider, and no silence, fails a typed task.
THEOREM TypedTasksAlwaysGiveAValue == FairEdgeSpec => []TextTasksNeverFail
BY EdgeInvHolds, PTL DEF GatewayInv

\* What is marked as Qwen's comes from Qwen, and what is not has a reason.
THEOREM SourcesAreHonest == FairEdgeSpec => []SourceIsHonest
BY EdgeInvHolds, PTL DEF GatewayInv

(***************************************************************************)
(* Part 4: the event stream.                                               *)
(***************************************************************************)

Frame == [id : Nat, outcome : Outcome \union {NoOutcome}]

Generator ==
    [pc : {"none", "list", "yield", "check", "waiting", "closed"}, cursor : Nat, listed : Nat]

Subscriber == [got : Seq(Nat), lastId : Nat, outcome : Outcome \union {NoOutcome}]

StreamTypeOK ==
    /\ last \in Nat /\ status \in Outcome \union {"running"} /\ unwoken \in BOOLEAN
    /\ server \in Generator /\ wire \in Seq(Frame) /\ client \in Subscriber
    /\ waiter \in Outcome \union {"check", "waiting"}

\* The client's id is the number of events it has, which are committed.
ClientKnowsItsPlace ==
    /\ client.lastId = Len(client.got) /\ client.lastId <= last
    /\ \A i \in 1..Len(client.got) : client.got[i] = i

\* The server lists and sends what is committed.
CursorIsCommitted ==
    /\ server.pc # "none" => server.cursor <= last
    /\ server.pc = "yield" => server.cursor <= server.listed /\ server.listed <= last

\* The first n frames on the wire are the events after the client's last id.
Carries(n) == \A i \in 1..n : wire[i] = EventFrame(client.lastId + i)

InFlight ==
    /\ server.pc = "none" => wire = <<>>
    /\ server.pc \notin {"none", "closed"} =>
          server.cursor = client.lastId + Len(wire) /\ Carries(Len(wire))
    /\ server.pc = "closed" => status \in Outcome
    /\ server.pc = "closed" /\ client.outcome = NoOutcome =>
          /\ Len(wire) > 0 /\ Carries(Len(wire) - 1)
          /\ wire[Len(wire)] = OutcomeFrame(status)
          /\ server.cursor = client.lastId + Len(wire) - 1
    /\ client.outcome # NoOutcome => server.pc = "closed" /\ client.outcome = status

StreamInv ==
    /\ StreamTypeOK /\ ClientKnowsItsPlace /\ CursorIsCommitted /\ InFlight
    /\ SleepersAreCurrent
    /\ waiter \in Outcome => waiter = status

-----------------------------------------------------------------------------
\* Nobody is connected at first.
LEMMA StreamStarts == Init => StreamInv
<1> SUFFICES ASSUME Init PROVE StreamInv
  OBVIOUS
<1>1. /\ server.pc = "none" /\ client.got = <<>> /\ client.lastId = 0
      /\ client.outcome = NoOutcome
  BY DEF Init, NoServer
<1>2. server \in Generator
  BY DEF Init, NoServer, Generator
<1>3. client \in Subscriber
  BY DEF Init, Subscriber
<1>4. StreamTypeOK
  <2>1. wire \in Seq(Frame)
    BY DEF Init
  <2> QED
    BY <1>2, <1>3, <2>1 DEF Init, StreamTypeOK, Outcome
<1>5. ClientKnowsItsPlace
  BY <1>1 DEF Init, ClientKnowsItsPlace
<1>6. CursorIsCommitted /\ InFlight /\ SleepersAreCurrent
  BY <1>1 DEF Init, CursorIsCommitted, InFlight, SleepersAreCurrent
<1> QED
  BY <1>4, <1>5, <1>6 DEF Init, StreamInv, Outcome

\* Commits and notifications leave the connection as it is.
LEMMA WorkerKeeps ==
    ASSUME StreamInv, Worker
    PROVE  StreamInv'
<1>1. CASE AppendEvent
  <2>1. last' = last + 1 /\ unwoken' /\ UNCHANGED <<status, server, wire, client, waiter>>
    BY <1>1 DEF AppendEvent
  <2>2. StreamTypeOK'
    BY <2>1 DEF StreamInv, StreamTypeOK
  <2>3. ClientKnowsItsPlace' /\ CursorIsCommitted'
    BY <2>1 DEF StreamInv, StreamTypeOK, Generator, Subscriber, ClientKnowsItsPlace,
                CursorIsCommitted
  <2>4. InFlight' /\ SleepersAreCurrent'
    BY <2>1 DEF StreamInv, InFlight, Carries, SleepersAreCurrent
  <2> QED
    BY <2>1, <2>2, <2>3, <2>4 DEF StreamInv
<1>2. CASE SettleRun
  <2>1. /\ status = "running" /\ status' \in Outcome /\ unwoken'
        /\ UNCHANGED <<last, server, wire, client, waiter>>
    BY <1>2 DEF SettleRun
  <2>2. /\ server.pc # "closed" /\ client.outcome = NoOutcome /\ waiter \notin Outcome
    BY <2>1 DEF StreamInv, InFlight, Outcome
  <2>3. StreamTypeOK' /\ ClientKnowsItsPlace' /\ CursorIsCommitted' /\ SleepersAreCurrent'
    BY <2>1 DEF StreamInv, StreamTypeOK, ClientKnowsItsPlace, CursorIsCommitted,
                SleepersAreCurrent
  <2>4. InFlight'
    BY <2>1, <2>2 DEF StreamInv, InFlight, Carries
  <2> QED
    BY <2>1, <2>2, <2>3, <2>4 DEF StreamInv
<1>3. CASE Notify
  <2>1. /\ server' = [server EXCEPT !.pc = IF @ = "waiting" THEN "list" ELSE @]
        /\ waiter' = IF waiter = "waiting" THEN "check" ELSE waiter
        /\ UNCHANGED <<last, status, wire, client>> /\ unwoken' = FALSE
    BY <1>3 DEF Notify
  <2>2. /\ server' \in Generator /\ server'.cursor = server.cursor
        /\ server'.listed = server.listed
        /\ server'.pc = IF server.pc = "waiting" THEN "list" ELSE server.pc
    BY <2>1 DEF StreamInv, StreamTypeOK, Generator
  <2>3. waiter' \in Outcome \union {"check", "waiting"} /\ unwoken' \in BOOLEAN
    BY <2>1 DEF StreamInv, StreamTypeOK
  <2>4. StreamTypeOK' /\ ClientKnowsItsPlace' /\ CursorIsCommitted'
    BY <2>1, <2>2, <2>3 DEF StreamInv, StreamTypeOK, ClientKnowsItsPlace, CursorIsCommitted
  <2>5. SleepersAreCurrent'
    BY <2>1, <2>2 DEF SleepersAreCurrent
  <2>6. InFlight'
    BY <2>1, <2>2 DEF StreamInv, InFlight, Carries
  <2> QED
    BY <2>1, <2>4, <2>5, <2>6 DEF StreamInv, Outcome
<1> QED
  BY <1>1, <1>2, <1>3 DEF Worker

\* A listed event goes behind those in flight.
LEMMA SendEventKeeps ==
    ASSUME StreamInv, NEW listed \in Nat, SendEvent(listed),
           server.pc \in {"list", "yield"}, server.cursor < listed, listed <= last,
           UNCHANGED <<last, status, unwoken, client, waiter, drops>>
    PROVE  StreamInv'
<1>1. server.cursor \in Nat /\ client.lastId \in Nat /\ Len(wire) \in Nat /\ last \in Nat
  BY DEF StreamInv, StreamTypeOK, Generator, Subscriber
<1>2. EventFrame(server.cursor + 1) \in Frame
  BY <1>1 DEF EventFrame, Frame
<1>3. /\ wire' \in Seq(Frame) /\ Len(wire') = Len(wire) + 1
      /\ \A i \in 1..Len(wire) : wire'[i] = wire[i]
      /\ wire'[Len(wire) + 1] = EventFrame(server.cursor + 1)
  BY <1>2 DEF SendEvent, StreamInv, StreamTypeOK
<1>4. /\ server'.pc = "yield" /\ server'.cursor = server.cursor + 1 /\ server'.listed = listed
      /\ server' \in Generator
  <2>1. /\ server' = [server EXCEPT !.pc = "yield", !.cursor = server.cursor + 1,
                                   !.listed = listed]
        /\ server \in Generator
    BY DEF SendEvent, StreamInv, StreamTypeOK
  <2>2. server.cursor + 1 \in Nat
    BY <1>1
  <2> QED
    BY <2>1, <2>2 DEF Generator
<1>5. InFlight'
  <2>1. /\ server.cursor = client.lastId + Len(wire) /\ Carries(Len(wire))
        /\ client.outcome = NoOutcome
    BY DEF StreamInv, InFlight
  <2>2. server'.cursor = client'.lastId + Len(wire')
    <3>1. /\ server'.cursor = server.cursor + 1 /\ client'.lastId = client.lastId
          /\ Len(wire') = Len(wire) + 1 /\ server.cursor = client.lastId + Len(wire)
      BY <1>3, <1>4, <2>1
    <3> QED
      BY <1>1, <3>1
  <2>3. ASSUME NEW i \in 1..Len(wire') PROVE wire'[i] = EventFrame(client'.lastId + i)
    <3>1. CASE i \in 1..Len(wire)
      BY <1>3, <2>1, <3>1 DEF Carries
    <3>2. CASE i = Len(wire) + 1
      <4>1. server.cursor + 1 = client'.lastId + i
        BY <1>1, <2>1, <3>2
      <4> QED
        BY <1>3, <3>2, <4>1
    <3> QED
      BY <1>1, <1>3, <3>1, <3>2
  <2> QED
    BY <1>4, <2>1, <2>2, <2>3 DEF InFlight, Carries
<1>6. ClientKnowsItsPlace' /\ CursorIsCommitted'
  BY <1>1, <1>4 DEF StreamInv, ClientKnowsItsPlace, CursorIsCommitted
<1>7. StreamTypeOK' /\ SleepersAreCurrent'
  BY <1>3, <1>4 DEF StreamInv, StreamTypeOK, SleepersAreCurrent
<1> QED
  BY <1>5, <1>6, <1>7 DEF StreamInv

\* A turn of the generator that sends nothing, and goes to sleep only under the lock.
LEMMA QuietTurnKeeps ==
    ASSUME StreamInv, NEW pc \in {"list", "yield", "check", "waiting"},
           server' = [server EXCEPT !.pc = pc], server.pc \notin {"none", "closed"},
           pc # "yield", pc = "waiting" => server.cursor >= last /\ status \notin Outcome,
           UNCHANGED <<last, status, unwoken, wire, client, waiter, drops>>
    PROVE  StreamInv'
<1>1. /\ server' \in Generator /\ server'.pc = pc /\ server'.cursor = server.cursor
      /\ server'.listed = server.listed
  BY DEF StreamInv, StreamTypeOK, Generator
<1>2. server.cursor \in Nat /\ last \in Nat /\ server.cursor <= last
  BY DEF StreamInv, StreamTypeOK, Generator, CursorIsCommitted
<1>3. StreamTypeOK' /\ ClientKnowsItsPlace' /\ CursorIsCommitted'
  BY <1>1 DEF StreamInv, StreamTypeOK, ClientKnowsItsPlace, CursorIsCommitted
<1>4. InFlight'
  BY <1>1 DEF StreamInv, InFlight, Carries
<1>5. SleepersAreCurrent'
  BY <1>1, <1>2 DEF StreamInv, StreamTypeOK, SleepersAreCurrent
<1> QED
  BY <1>3, <1>4, <1>5 DEF StreamInv

\* The terminal frame goes behind all events that were listed.
LEMMA PollRunKeeps ==
    ASSUME StreamInv, PollRun, server.pc \in {"list", "yield"},
           UNCHANGED <<last, status, unwoken, client, waiter, drops>>
    PROVE  StreamInv'
<1>1. CASE status \in Outcome
  <2>1. OutcomeFrame(status) \in Frame
    BY <1>1 DEF OutcomeFrame, Frame
  <2>2. /\ wire' \in Seq(Frame) /\ Len(wire') = Len(wire) + 1
        /\ \A i \in 1..Len(wire) : wire'[i] = wire[i]
        /\ wire'[Len(wire) + 1] = OutcomeFrame(status)
    BY <1>1, <2>1 DEF PollRun, StreamInv, StreamTypeOK
  <2>3. /\ server' \in Generator /\ server'.pc = "closed" /\ server'.cursor = server.cursor
        /\ server'.listed = server.listed
    BY <1>1 DEF PollRun, StreamInv, StreamTypeOK, Generator
  <2>4. Len(wire) \in Nat /\ client.lastId \in Nat
    BY DEF StreamInv, StreamTypeOK, Subscriber
  <2>5. /\ server.cursor = client.lastId + Len(wire) /\ Carries(Len(wire))
        /\ client.outcome = NoOutcome
    BY DEF StreamInv, InFlight
  <2>6. Len(wire') - 1 = Len(wire) /\ Carries(Len(wire) - 1)'
    BY <2>2, <2>4, <2>5 DEF Carries
  <2>7. InFlight'
    BY <1>1, <2>2, <2>3, <2>4, <2>5, <2>6 DEF InFlight, Outcome, NoOutcome
  <2>8. StreamTypeOK' /\ ClientKnowsItsPlace' /\ CursorIsCommitted' /\ SleepersAreCurrent'
    BY <2>2, <2>3 DEF StreamInv, StreamTypeOK, ClientKnowsItsPlace, CursorIsCommitted,
                      SleepersAreCurrent
  <2> QED
    BY <2>7, <2>8 DEF StreamInv
<1>2. CASE status \notin Outcome
  BY <1>2, QuietTurnKeeps DEF PollRun
<1> QED
  BY <1>1, <1>2

\* The generator's own steps keep all of it,
LEMMA ServerKeeps ==
    ASSUME StreamInv, Server
    PROVE  StreamInv'
<1>1. last \in Nat /\ server.pc # "none" => server.cursor <= last
  BY DEF StreamInv, StreamTypeOK, CursorIsCommitted
<1>2. server.cursor \in Nat /\ server.listed \in Nat /\ last \in Nat
  BY DEF StreamInv, StreamTypeOK, Generator
<1>3. CASE ListEvents
  <2>1. CASE last > server.cursor /\ SendEvent(last)
    BY <1>2, <1>3, <2>1, SendEventKeeps DEF ListEvents
  <2>2. CASE last = server.cursor /\ PollRun
    BY <1>3, <2>2, PollRunKeeps DEF ListEvents
  <2> QED
    BY <1>3, <2>1, <2>2 DEF ListEvents
<1>4. CASE Resume
  <2>1. CASE server.listed > server.cursor /\ SendEvent(server.listed)
    <3>1. server.listed <= last
      BY <1>4 DEF Resume, StreamInv, CursorIsCommitted
    <3> QED
      BY <1>2, <1>4, <2>1, <3>1, SendEventKeeps DEF Resume
  <2>2. CASE server.listed = server.cursor /\ PollRun
    BY <1>4, <2>2, PollRunKeeps DEF Resume
  <2> QED
    BY <1>4, <2>1, <2>2 DEF Resume
<1>5. CASE CheckOrSleep
  <2> DEFINE pc == IF last > server.cursor \/ status \in Outcome THEN "list" ELSE "waiting"
  <2>1. /\ pc \in {"list", "yield", "check", "waiting"} /\ pc # "yield"
        /\ pc = "waiting" => server.cursor >= last /\ status \notin Outcome
    BY <1>2
  <2>2. /\ server' = [server EXCEPT !.pc = pc] /\ server.pc \notin {"none", "closed"}
        /\ UNCHANGED <<last, status, unwoken, wire, client, waiter, drops>>
    BY <1>5 DEF CheckOrSleep
  <2> HIDE DEF pc
  <2> QED
    BY <2>1, <2>2, QuietTurnKeeps
<1>6. CASE Heartbeat
  BY <1>6, QuietTurnKeeps DEF Heartbeat
<1> QED
  BY <1>3, <1>4, <1>5, <1>6 DEF Server

\* The first frame on the wire is the next event, or all events have arrived.
LEMMA ReceiveKeeps ==
    ASSUME StreamInv, Receive
    PROVE  StreamInv'
<1> DEFINE n == client.lastId + 1
<1>1. /\ wire \in Seq(Frame) /\ Len(wire) \in Nat /\ Len(wire) > 0 /\ Head(wire) = wire[1]
      /\ wire' \in Seq(Frame) /\ Len(wire') = Len(wire) - 1
      /\ \A i \in 1..Len(wire') : wire'[i] = wire[i + 1]
  BY DEF Receive, StreamInv, StreamTypeOK
<1>2. /\ client.outcome = NoOutcome /\ UNCHANGED <<last, status, unwoken, server, waiter>>
      /\ server.pc # "none"
  BY <1>1 DEF Receive, StreamInv, InFlight
<1>3. /\ client.lastId \in Nat /\ client.got \in Seq(Nat) /\ client.lastId = Len(client.got)
      /\ last \in Nat /\ server.cursor \in Nat /\ server.cursor <= last
  BY <1>2 DEF StreamInv, StreamTypeOK, Generator, Subscriber, ClientKnowsItsPlace,
              CursorIsCommitted
<1>4. CursorIsCommitted' /\ SleepersAreCurrent'
  BY <1>2 DEF StreamInv, CursorIsCommitted, SleepersAreCurrent
<1>5. CASE server.pc = "closed" /\ Len(wire) = 1
  <2>1. wire[1] = OutcomeFrame(status) /\ status \in Outcome
    BY <1>1, <1>2, <1>5 DEF StreamInv, InFlight
  <2>2. client' = [client EXCEPT !.outcome = status]
    BY <1>1, <2>1 DEF Receive, OutcomeFrame, Outcome, NoOutcome
  <2>3. /\ client' \in Subscriber /\ client'.outcome = status
        /\ client'.got = client.got /\ client'.lastId = client.lastId
    BY <2>1, <2>2 DEF StreamInv, StreamTypeOK, Subscriber
  <2>4. StreamTypeOK' /\ ClientKnowsItsPlace'
    BY <1>1, <1>2, <2>3 DEF StreamInv, StreamTypeOK, ClientKnowsItsPlace
  <2>5. InFlight'
    BY <1>2, <1>5, <2>1, <2>3 DEF InFlight, Outcome, NoOutcome
  <2> QED
    BY <1>2, <1>4, <2>4, <2>5 DEF StreamInv
<1>6. CASE ~(server.pc = "closed" /\ Len(wire) = 1)
  <2>1. PICK m \in Nat : /\ 0 < m /\ m <= Len(wire)
                         /\ m = IF server.pc = "closed" THEN Len(wire) - 1 ELSE Len(wire)
    BY <1>1, <1>6
  <2>2. server.cursor = client.lastId + m /\ Carries(m)
    BY <1>1, <1>2, <2>1 DEF StreamInv, InFlight
  <2>3. wire[1] = EventFrame(n) /\ n <= server.cursor
    BY <1>3, <2>1, <2>2 DEF Carries
  <2>4. client' = [client EXCEPT !.got = Append(@, n), !.lastId = n]
    <3>1. Head(wire).id = n /\ Head(wire).outcome = NoOutcome /\ NoOutcome \notin Outcome
      BY <1>1, <2>3 DEF EventFrame, Outcome, NoOutcome
    <3> QED
      BY <3>1 DEF Receive
  <2>5. /\ client' \in Subscriber /\ client'.outcome = client.outcome
        /\ client'.got = Append(client.got, n) /\ client'.lastId = n
    <3>1. n \in Nat /\ Append(client.got, n) \in Seq(Nat) /\ client \in Subscriber
      BY <1>3 DEF StreamInv, StreamTypeOK
    <3> HIDE DEF n
    <3> QED
      BY <2>4, <3>1 DEF Subscriber
  <2>6. StreamTypeOK'
    BY <1>1, <1>2, <2>5 DEF StreamInv, StreamTypeOK
  <2>7. ClientKnowsItsPlace'
    BY <1>2, <1>3, <2>3, <2>5 DEF StreamInv, ClientKnowsItsPlace
  <2>8. server'.cursor = client'.lastId + (m - 1) /\ m - 1 \in Nat
    <3>1. server'.cursor = server.cursor /\ client'.lastId = client.lastId + 1
      BY <1>2, <2>5
    <3>2. m \in Nat /\ 0 < m /\ client.lastId \in Nat /\ server.cursor = client.lastId + m
      BY <1>3, <2>1, <2>2
    <3> QED
      BY <3>1, <3>2
  <2>9. Carries(m - 1)'
    <3> SUFFICES ASSUME NEW i \in 1..(m - 1) PROVE wire'[i] = EventFrame(client'.lastId + i)
      BY DEF Carries
    <3>1. i + 1 \in 1..m /\ client.lastId + (i + 1) = n + i /\ i \in 1..Len(wire')
      <4>1. /\ i \in Nat /\ 1 <= i /\ i <= m - 1 /\ m \in Nat /\ m <= Len(wire)
            /\ client.lastId \in Nat /\ Len(wire) \in Nat /\ Len(wire') = Len(wire) - 1
        BY <1>1, <1>3, <2>1
      <4> QED
        BY <4>1
    <3> QED
      BY <1>1, <2>2, <2>5, <3>1 DEF Carries
  <2>10. InFlight'
    BY <1>1, <1>2, <1>6, <2>1, <2>5, <2>8, <2>9 DEF StreamInv, InFlight
  <2> QED
    BY <1>2, <1>4, <2>6, <2>7, <2>10 DEF StreamInv
<1> QED
  BY <1>5, <1>6

\* A connection that is made anew begins behind the client's last id.
LEMMA ConnectKeeps ==
    ASSUME StreamInv, Connect
    PROVE  StreamInv'
<1>1. /\ client.outcome = NoOutcome /\ wire = <<>> /\ client.lastId \in Nat
      /\ client.lastId <= last
  BY DEF Connect, StreamInv, StreamTypeOK, Subscriber, InFlight, ClientKnowsItsPlace
<1>2. /\ server'.pc = "list" /\ server'.cursor = client.lastId /\ server' \in Generator
      /\ UNCHANGED <<last, status, unwoken, wire, client, waiter>>
  BY <1>1 DEF Connect, Generator
<1>3. InFlight'
  BY <1>1, <1>2 DEF InFlight, Carries
<1>4. StreamTypeOK' /\ ClientKnowsItsPlace' /\ CursorIsCommitted' /\ SleepersAreCurrent'
  BY <1>1, <1>2 DEF StreamInv, StreamTypeOK, ClientKnowsItsPlace, CursorIsCommitted,
                    SleepersAreCurrent
<1> QED
  BY <1>2, <1>3, <1>4 DEF StreamInv

\* What is lost with a connection lies behind the client's last id.
LEMMA DropKeeps ==
    ASSUME StreamInv, Drop
    PROVE  StreamInv'
<1>1. /\ client.outcome = NoOutcome /\ server'.pc = "none" /\ server' \in Generator
      /\ wire' = <<>> /\ UNCHANGED <<last, status, unwoken, client, waiter>>
  BY DEF Drop, NoServer, Generator
<1>2. InFlight'
  BY <1>1 DEF InFlight
<1>3. StreamTypeOK' /\ ClientKnowsItsPlace' /\ CursorIsCommitted' /\ SleepersAreCurrent'
  BY <1>1 DEF StreamInv, StreamTypeOK, ClientKnowsItsPlace, CursorIsCommitted,
              SleepersAreCurrent
<1> QED
  BY <1>1, <1>2, <1>3 DEF StreamInv

\* and so does whoever waits for the outcome.
LEMMA WaiterKeeps ==
    ASSUME StreamInv, WaitForResult \/ WaitTimeout
    PROVE  StreamInv'
  BY DEF WaitForResult, WaitTimeout, StreamInv, StreamTypeOK, ClientKnowsItsPlace,
         CursorIsCommitted, InFlight, Carries, SleepersAreCurrent, Outcome

\* So it always holds.
LEMMA StreamHolds == Spec => []StreamInv
<1>1. StreamInv /\ [Next]_vars => StreamInv'
  <2> SUFFICES ASSUME StreamInv, [Next]_vars PROVE StreamInv'
    OBVIOUS
  <2>1. CASE UNCHANGED vars
    BY <2>1 DEF vars, StreamInv, StreamTypeOK, ClientKnowsItsPlace, CursorIsCommitted, InFlight,
                Carries, SleepersAreCurrent
  <2> QED
    BY <2>1, WorkerKeeps, ServerKeeps, ReceiveKeeps, ConnectKeeps, DropKeeps, WaiterKeeps
    DEF Next, Browser
<1> QED
  BY <1>1, StreamStarts, PTL DEF Spec

-----------------------------------------------------------------------------
(***************************************************************************)
(* Through any number of lost connections the client has the beginning of  *)
(* the log, each event once and in order.                                  *)
(***************************************************************************)
THEOREM NothingIsSkippedOrRepeated == Spec => []ReceivedIsLogPrefix
<1>1. StreamInv => ReceivedIsLogPrefix
  BY DEF StreamInv, ClientKnowsItsPlace, ReceivedIsLogPrefix
<1> QED
  BY <1>1, StreamHolds, PTL

(***************************************************************************)
(* Nobody sleeps through a commit: the second look under the condition's   *)
(* lock closes the gap between the listing and the wait.                   *)
(***************************************************************************)
THEOREM NoWakeupIsLost == Spec => []SleepersAreCurrent
<1>1. StreamInv => SleepersAreCurrent
  BY DEF StreamInv
<1> QED
  BY <1>1, StreamHolds, PTL

(***************************************************************************)
(* An outcome that a subscriber or a synchronous caller gets is the one in *)
(* the run's row.                                                          *)
(***************************************************************************)
THEOREM OutcomesArePersisted == Spec => []OutcomePersistedFirst
<1>1. StreamInv => OutcomePersistedFirst
  BY DEF StreamInv, InFlight, OutcomePersistedFirst
<1> QED
  BY <1>1, StreamHolds, PTL
=============================================================================
