---------------------------- MODULE RateLimiter ----------------------------
(***************************************************************************)
(* ObservabilityMiddleware: every HTTP request passes the fixed-window     *)
(* limiter of its client and is counted by the telemetry when it is        *)
(* refused or when the application is done with it.                        *)
(*                                                                         *)
(* Time is the minute of time.time(), the wall clock: it moves forward,    *)
(* and an adjustment of the system's clock may set it back.                *)
(***************************************************************************)
EXTENDS Integers, FiniteSets

CONSTANTS
    Client,       \* client addresses
    Limits,       \* values of RATE_LIMIT_PER_MINUTE
    MaxWindow,    \* the last minute (a bound)
    MaxBack,      \* times the clock is set back (a bound)
    MaxRequests   \* requests that arrive (a bound)

ASSUME LimiterAssumption ==
    Limits \subseteq Int /\ MaxWindow \in Nat /\ MaxBack \in Nat /\ MaxRequests \in Nat

VARIABLES
    limit,       \* _limit
    window,      \* int(time.time() // 60)
    windows,     \* _windows: the window and the count of each client
    inApp,       \* requests the application is busy with
    counters,    \* Telemetry._counters
    arrived,     \* requests that arrived
    admitted,    \* limited requests admitted, by client and window
    refused,     \* the clients and windows with a refused request
    back,        \* times the clock was set back
    quota        \* what these adjustments let a client have in one window

limiterVars == <<limit, window, windows, inApp, counters, arrived, admitted, refused, back, quota>>

Window == 0..MaxWindow

\* No entry: as with an entry of another window, get() and the turn of the
\* window give the current window and a count of 0.
NoEntry == [window |-> -1, count |-> 0]

LimiterInit ==
    /\ limit \in Limits
    /\ window = 0
    /\ windows = [c \in Client |-> NoEntry]
    /\ inApp = 0
    /\ counters = [requests |-> 0, rate_limited |-> 0]
    /\ arrived = 0
    /\ admitted = [c \in Client |-> [w \in Window |-> 0]]
    /\ refused = {}
    /\ back = 0 /\ quota = limit

-----------------------------------------------------------------------------
\* The requests of c counted in the current window.
Count(c) == IF windows[c].window = window THEN windows[c].count ELSE 0

Limited == limit > 0

\* The path is exempt, or there is no limit: the application takes the request.
PassFree ==
    /\ arrived < MaxRequests
    /\ arrived' = arrived + 1 /\ inApp' = inApp + 1
    /\ UNCHANGED <<limit, window, windows, counters, admitted, refused, back, quota>>

\* A plausible bug: the limit is compared after the request is counted.
AdmitOneMore(c) ==
    /\ arrived < MaxRequests /\ Limited /\ Count(c) <= limit
    /\ windows' = [windows EXCEPT ![c] = [window |-> window, count |-> Count(c) + 1]]
    /\ admitted' = [admitted EXCEPT ![c][window] = @ + 1]
    /\ arrived' = arrived + 1 /\ inApp' = inApp + 1
    /\ UNCHANGED <<limit, window, counters, refused, back, quota>>

\* allow() answers True.
Admit(c) ==
    /\ arrived < MaxRequests /\ Limited /\ Count(c) < limit
    /\ windows' = [windows EXCEPT ![c] = [window |-> window, count |-> Count(c) + 1]]
    /\ admitted' = [admitted EXCEPT ![c][window] = @ + 1]
    /\ arrived' = arrived + 1 /\ inApp' = inApp + 1
    /\ UNCHANGED <<limit, window, counters, refused, back, quota>>

\* allow() answers False: the request ends with 429.
Refuse(c) ==
    /\ arrived < MaxRequests /\ Limited /\ Count(c) >= limit
    /\ windows' = [windows EXCEPT ![c] = [window |-> window, count |-> Count(c)]]
    /\ counters' = [counters EXCEPT !.rate_limited = @ + 1]
    /\ refused' = refused \union {<<c, window>>}
    /\ arrived' = arrived + 1
    /\ UNCHANGED <<limit, window, inApp, admitted, back, quota>>

\* The application answers or raises: the finally block counts the request.
Done ==
    /\ inApp > 0
    /\ inApp' = inApp - 1
    /\ counters' = [counters EXCEPT !.requests = @ + 1]
    /\ UNCHANGED <<limit, window, windows, arrived, admitted, refused, back, quota>>

\* The next minute begins.
Tick ==
    /\ window < MaxWindow
    /\ window' = window + 1
    /\ UNCHANGED <<limit, windows, inApp, counters, arrived, admitted, refused, back, quota>>

\* The system's clock is set back into the minute before.
SetBack ==
    /\ window > 0 /\ back < MaxBack
    /\ window' = window - 1
    /\ back' = back + 1 /\ quota' = quota + limit
    /\ UNCHANGED <<limit, windows, inApp, counters, arrived, admitted, refused>>

LimiterNext ==
    \/ PassFree \/ Done \/ Tick \/ SetBack
    \/ \E c \in Client : Admit(c) \/ Refuse(c)

LimiterSpec == LimiterInit /\ [][LimiterNext]_limiterVars

-----------------------------------------------------------------------------
(***************************************************************************)
(* The types of the variables.                                             *)
(***************************************************************************)
LimiterTypeOK ==
    /\ limit \in Limits
    /\ window \in Window
    /\ windows \in [Client -> [window : Window \union {-1}, count : Nat]]
    /\ inApp \in Nat
    /\ counters \in [requests : Nat, rate_limited : Nat]
    /\ arrived \in 0..MaxRequests
    /\ admitted \in [Client -> [Window -> Nat]]
    /\ refused \subseteq Client \X Window
    /\ back \in 0..MaxBack
    /\ quota \in Int

(***************************************************************************)
(* No client is admitted more often than the limit in any one minute, also *)
(* at the turn of the minute and after refusals; each time the clock is    *)
(* set back may at most let it have the limit once more.                   *)
(***************************************************************************)
WindowCap == Limited => \A c \in Client, w \in Window : admitted[c][w] <= quota

(***************************************************************************)
(* A client is refused only when it has been admitted as often as the      *)
(* limit in this very minute: neither what other clients did, nor earlier  *)
(* minutes, nor its refused requests count against it.                     *)
(***************************************************************************)
RefusedOnlyAtLimit == \A r \in refused : admitted[r[1]][r[2]] >= limit

(***************************************************************************)
(* The telemetry accounts for every request: those that arrived are        *)
(* refused, done or still with the application.                            *)
(***************************************************************************)
TelemetryAccounts == counters.requests + counters.rate_limited + inApp = arrived
=============================================================================
