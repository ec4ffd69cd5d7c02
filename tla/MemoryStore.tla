---------------------------- MODULE MemoryStore ----------------------------
(***************************************************************************)
(* What the agents remember, on top of the stores that create_app opens:   *)
(* remember() of SQLiteMemoryRepository, or of InMemoryMemoryRepository    *)
(* when the file did not open, through errors, crashes and restarts.       *)
(*                                                                         *)
(* Agents call remember() without an await in between and one process      *)
(* serves the file, so a call is one step: the SELECT outside of the       *)
(* transaction cannot be overtaken by another call.  The rows of           *)
(* agent_checkpoints are written and never read: they are left out.        *)
(***************************************************************************)
EXTENDS StoreSchema, FiniteSetsExt

CONSTANTS
    Key,          \* pairs of a kind and a key
    Text,         \* values and details
    NoDetail,     \* the empty detail
    Confidence,   \* confidences
    MaxTime,      \* the clock, _now(), by the end of a behaviour (a bound)
    MaxCalls      \* calls of remember() (a bound)

ASSUME MemoryAssumption ==
    Confidence \subseteq Nat /\ NoDetail \notin Text /\ MaxTime \in Nat /\ MaxCalls \in Nat

Observation ==
    [key : Key, value : Text, detail : Text \union {NoDetail}, confidence : Confidence]

Record ==
    [value : Text, detail : Text \union {NoDetail}, confidence : Confidence,
     occurrences : Nat \ {0}, first_seen : Nat, last_seen : Nat]

NoRecord == [occurrences |-> 0]

\* The two repositories, each by the mode in which it serves: the file of
\* SQLiteMemoryRepository, and _records of InMemoryMemoryRepository.
OnFile == "open"
InCells == "volatile"
Repository == {OnFile, InCells}

VARIABLES
    records,   \* by repository and key
    clock,
    kept,      \* history: the observations each repository has taken, with their times
    answered,  \* history: how many calls for a key the file's remember() has answered
    calls

memory == <<records, clock, kept, answered, calls>>
allVars == <<vars, memory>>

NoRecords == [k \in Key |-> NoRecord]

MemoryInit ==
    /\ Init
    /\ records = [r \in Repository |-> NoRecords]
    /\ clock = 0
    /\ kept = [r \in Repository |-> <<>>]
    /\ answered = [k \in Key |-> 0]
    /\ calls = 0

-----------------------------------------------------------------------------
Insert(o) ==
    [value |-> o.value, detail |-> o.detail, confidence |-> o.confidence,
     occurrences |-> 1, first_seen |-> clock, last_seen |-> clock]

Higher(a, b) == IF a > b THEN a ELSE b

\* A plausible bug: an observation without a detail erases the one on record.
UpdateDetail(existing, o) ==
    [value |-> o.value, detail |-> o.detail,
     confidence |-> Higher(existing.confidence, o.confidence),
     occurrences |-> existing.occurrences + 1,
     first_seen |-> existing.first_seen, last_seen |-> clock]

Update(existing, o) ==
    [value |-> o.value, detail |-> IF o.detail = NoDetail THEN existing.detail ELSE o.detail,
     confidence |-> Higher(existing.confidence, o.confidence),
     occurrences |-> existing.occurrences + 1,
     first_seen |-> existing.first_seen, last_seen |-> clock]

Upserted(existing, o) == IF existing = NoRecord THEN Insert(o) ELSE Update(existing, o)

\* The repository of this process takes the observation.
Take(o) ==
    /\ records' = [records EXCEPT ![mode["memory"]][o.key] = Upserted(@, o)]
    /\ kept' = [kept EXCEPT ![mode["memory"]] = Append(@, [observation |-> o, time |-> clock])]

Answer(o) ==
    answered' = IF mode["memory"] = OnFile THEN [answered EXCEPT ![o.key] = @ + 1] ELSE answered

Call ==
    /\ at.phase = "serving" /\ mode["memory"] \in Repository
    /\ calls < MaxCalls /\ calls' = calls + 1

\* remember() returns.
Remember(o) ==
    /\ Call /\ Take(o) /\ Answer(o)
    /\ UNCHANGED <<vars, clock>>

\* A plausible bug: a statement that fails is passed over.
RememberIgnored(o) ==
    /\ Call /\ mode["memory"] = OnFile /\ Answer(o)
    /\ errors < MaxErrors /\ errors' = errors + 1
    /\ UNCHANGED <<file, tx, mode, at, faulted, crashes, records, kept, clock>>

\* A statement of the file's remember() fails: nothing is committed, and the
\* caller gets MemoryStoreUnavailable.
RememberRaises(o) ==
    /\ Call /\ mode["memory"] = OnFile
    /\ errors < MaxErrors /\ errors' = errors + 1
    /\ UNCHANGED <<file, tx, mode, at, faulted, crashes, records, kept, answered, clock>>

\* The process stops: what the dictionary held is gone.
Forget(recs, taken) ==
    /\ Crash
    /\ records' = [recs EXCEPT ![InCells] = NoRecords]
    /\ kept' = [taken EXCEPT ![InCells] = <<>>]

Stop == Forget(records, kept) /\ UNCHANGED <<clock, answered, calls>>

\* It stops between the commit and the return of remember().
StopAfterCommit(o) ==
    /\ Call /\ mode["memory"] = OnFile
    /\ Forget([records EXCEPT ![OnFile][o.key] = Upserted(@, o)],
              [kept EXCEPT ![OnFile] = Append(@, [observation |-> o, time |-> clock])])
    /\ UNCHANGED <<clock, answered>>

Tick ==
    /\ at.phase = "serving" /\ clock < MaxTime /\ clock' = clock + 1
    /\ UNCHANGED <<vars, records, kept, answered, calls>>

\* create_app goes on as if nobody had anything to remember.
OpenStores == (Start \/ Open \/ Fault) /\ UNCHANGED memory

MemoryNext ==
    \/ \E o \in Observation : Remember(o) \/ RememberRaises(o) \/ StopAfterCommit(o)
    \/ Stop \/ Tick \/ OpenStores

MemorySpec == MemoryInit /\ [][MemoryNext]_allVars

\* The process runs on and is started again; nobody need remember anything.
FairMemorySpec ==
    MemorySpec /\ WF_allVars(Start /\ UNCHANGED memory) /\ WF_allVars(Open /\ UNCHANGED memory)

-----------------------------------------------------------------------------
(***************************************************************************)
(* The types of the variables.                                             *)
(***************************************************************************)
MemoryTypeOK ==
    /\ records \in [Repository -> [Key -> Record \union {NoRecord}]]
    /\ clock \in Nat
    /\ kept \in [Repository -> Seq([observation : Observation, time : Nat])]
    /\ answered \in [Key -> Nat]
    /\ calls \in Nat

\* Where a key was observed.
Seen(history, k) == {i \in DOMAIN history : history[i].observation.key = k}

\* What a record should be, from all observations of its key at once.
Summary(history, seen) ==
    LET said == {i \in seen : history[i].observation.detail # NoDetail} IN
    IF seen = {} THEN NoRecord
    ELSE [value |-> history[Max(seen)].observation.value,
          detail |-> IF said = {} THEN NoDetail ELSE history[Max(said)].observation.detail,
          confidence |-> Max({history[i].observation.confidence : i \in seen}),
          occurrences |-> Cardinality(seen),
          first_seen |-> history[Min(seen)].time, last_seen |-> history[Max(seen)].time]

(***************************************************************************)
(* The upserts add up: whatever was interrupted or refused, each record of *)
(* either repository is the summary of the observations it has taken, with *)
(* the last value, the last detail that said something, the highest        *)
(* confidence, and every observation counted.                              *)
(***************************************************************************)
RecordsAreSummaries ==
    \A r \in Repository : \A k \in Key :
        records[r][k] = Summary(kept[r], Seen(kept[r], k))

(***************************************************************************)
(* What the file's remember() has answered is in the file and stays there, *)
(* counted, through every later error, crash and restart.                  *)
(***************************************************************************)
AnsweredIsOnFile == \A k \in Key : records[OnFile][k].occurrences >= answered[k]

(***************************************************************************)
(* A record of the file is never lost, its confidence and its count never  *)
(* sink, and it stays first seen when it was.                              *)
(***************************************************************************)
RecordsOnlyGrow ==
    [][\A k \in Key :
         LET old == records[OnFile][k]
             new == records'[OnFile][k] IN
         old # NoRecord =>
            /\ new # NoRecord
            /\ new.confidence >= old.confidence /\ new.occurrences >= old.occurrences
            /\ new.first_seen = old.first_seen]_allVars
=============================================================================
