----------------------------- MODULE StoreSchema -----------------------------
(***************************************************************************)
(* How create_app opens its three SQLite files: initialize() of the        *)
(* review, memory and orchestration repositories, one after the other, and *)
(* what the application serves when one of them cannot be opened.          *)
(*                                                                         *)
(* sqlite3 begins a transaction by itself only before INSERT, UPDATE and   *)
(* DELETE, and executescript() begins none.  So a CREATE or ALTER, and a   *)
(* PRAGMA outside a transaction, is durable at once, and `with connection` *)
(* commits or rolls back only what came after an UPDATE.                   *)
(***************************************************************************)
EXTENDS Naturals, SequencesExt

CONSTANTS
    MaxCrashes,   \* crashes of the process (a bound)
    MaxErrors     \* statements that fail for want of disk, lock or rights (a bound)

ASSUME SchemaBoundsAssumption == MaxCrashes \in Nat /\ MaxErrors \in Nat

VARIABLES
    file,     \* each store's file as a crash leaves it
    tx,       \* the statements of the open transaction
    mode,     \* what the application has for each store: closed, open, unavailable, volatile
    at,       \* the store and the statement create_app is at
    faulted,  \* stores a statement failed for in this start
    crashes, errors

vars == <<file, tx, mode, at, faulted, crashes, errors>>

Store == {"review", "memory", "orchestration"}
OpeningOrder == <<"review", "memory", "orchestration">>
SchemaVersion == [review |-> 2, memory |-> 1, orchestration |-> 1]

\* A table, index or column that a schema has.  A review table of version 1 lacks the
\* packet time, and its rows have none until they are filled.
Schema ==
    [review |-> {"review_decisions", "packet_sequence", "packet_generated_at"},
     memory |-> {"memory_records", "agent_checkpoints"},
     orchestration |-> {"orchestration_runs", "orchestration_events", "run_sequence"}]

\* A file some release of the service left behind: new, of an earlier version, or newer.
Fresh == [version |-> 0, objects |-> {}, filled |-> TRUE]
Current(s) == [version |-> SchemaVersion[s], objects |-> Schema[s], filled |-> TRUE]
Newer(s) == [Current(s) EXCEPT !.version = @ + 1]
FirstReview == [version |-> 1, objects |-> {"review_decisions", "packet_sequence"}, filled |-> FALSE]
Found(s) == {Fresh, Current(s), Newer(s)} \union (IF s = "review" THEN {FirstReview} ELSE {})

---------------------------------------------------------------------------
(* The statements of initialize().                                         *)

Create(objects) == [kind |-> "create", objects |-> objects, version |-> 0]
Fill == [kind |-> "fill", objects |-> {}, version |-> 0]
SetVersion(version) == [kind |-> "version", objects |-> {}, version |-> version]

\* A plausible bug: the new version is recorded before the rows are filled.
ScriptVersionFirst(s, version) ==
    IF s = "review" /\ version = 1
    THEN <<Create({"packet_generated_at"}), SetVersion(2), Fill>>
    ELSE IF version = 0 THEN <<Create(Schema[s]), SetVersion(SchemaVersion[s])>> ELSE <<>>

\* What initialize() runs on a file of this version.
Script(s, version) ==
    CASE s = "review" /\ version = 0 ->
            <<Create({"review_decisions", "packet_generated_at"}), Create({"packet_sequence"}),
              SetVersion(2)>>
      [] s = "review" /\ version = 1 -> <<Create({"packet_generated_at"}), Fill, SetVersion(2)>>
      [] s = "memory" /\ version = 0 ->
            <<Create({"memory_records"}), Create({"agent_checkpoints"}), SetVersion(1)>>
      [] s = "orchestration" /\ version = 0 ->
            <<Create({"orchestration_runs"}), Create({"orchestration_events"}),
              Create({"run_sequence"}), SetVersion(1)>>
      [] OTHER -> <<>>

Apply(statement, f) ==
    CASE statement.kind = "create" -> [f EXCEPT !.objects = @ \union statement.objects]
      [] statement.kind = "fill" -> [f EXCEPT !.filled = TRUE]
      [] statement.kind = "version" -> [f EXCEPT !.version = statement.version]

\* All statements of a transaction, in their order.
ApplyAll(statements, f) == FoldLeft(LAMBDA g, statement : Apply(statement, g), f, statements)

---------------------------------------------------------------------------
(* create_app.                                                             *)

\* create_app is down, reads the version of store number at.store, runs its script or
\* serves; it has at.script left to run there.
At(phase, store, script) == [phase |-> phase, store |-> store, script |-> script]
Down == At("down", 0, <<>>)
Opening == OpeningOrder[at.store]

Init ==
    /\ \E r \in Found("review"), m \in Found("memory"), o \in Found("orchestration") :
          file = [review |-> r, memory |-> m, orchestration |-> o]
    /\ tx = <<>> /\ mode = [s \in Store |-> "closed"] /\ at = Down
    /\ faulted = {} /\ crashes = 0 /\ errors = 0

Start ==
    /\ at = Down
    /\ at' = At("version", 1, <<>>)
    /\ UNCHANGED <<file, tx, mode, faulted, crashes, errors>>

\* The next store, or the application is complete.
GoOn == at' = IF at.store = 3 THEN At("serving", 0, <<>>) ELSE At("version", at.store + 1, <<>>)

\* A plausible bug: an application without its store is not started.
SettleOrStop(outcome) ==
    /\ mode' = [mode EXCEPT ![Opening] = outcome]
    /\ IF outcome = "open" THEN GoOn ELSE at' = at
    /\ tx' = <<>>

\* A store is settled for this process, open or not; what was uncommitted is rolled back.
Settle(outcome) ==
    /\ mode' = [mode EXCEPT ![Opening] = outcome]
    /\ GoOn
    /\ tx' = <<>>

\* create_app puts an object in the place of a store that did not open: one that refuses
\* every call, or for the memory one that forgets at the next restart.
Substitute(s) == IF s = "memory" THEN "volatile" ELSE "unavailable"

\* PRAGMA user_version: a newer file is left alone.
CheckVersion ==
    /\ at.phase = "version"
    /\ IF file[Opening].version > SchemaVersion[Opening]
       THEN Settle(Substitute(Opening))
       ELSE /\ at' = At("script", at.store, Script(Opening, file[Opening].version))
            /\ UNCHANGED <<tx, mode>>
    /\ UNCHANGED <<file, faulted, crashes, errors>>

\* A table, index or column that is already there is an error like any other.
Exists(statement) == statement.kind = "create" /\ statement.objects \cap file[Opening].objects # {}

\* One statement.  Fill is the only one that opens a transaction, and a later SetVersion
\* then belongs to it.
Execute ==
    /\ at.phase = "script" /\ at.script # <<>> /\ ~Exists(Head(at.script))
    /\ IF tx # <<>> \/ Head(at.script).kind = "fill"
       THEN /\ tx' = Append(tx, Head(at.script))
            /\ file' = file
       ELSE /\ file' = [file EXCEPT ![Opening] = Apply(Head(at.script), @)]
            /\ tx' = tx
    /\ at' = [at EXCEPT !.script = Tail(@)]
    /\ UNCHANGED <<mode, faulted, crashes, errors>>

\* The end of `with connection`.
Commit ==
    /\ at.phase = "script" /\ at.script = <<>>
    /\ file' = [file EXCEPT ![Opening] = ApplyAll(tx, @)]
    /\ Settle("open")
    /\ UNCHANGED <<faulted, crashes, errors>>

\* "table ... already exists", "duplicate column name": the store does not open.
Refuse ==
    /\ at.phase = "script" /\ at.script # <<>> /\ Exists(Head(at.script))
    /\ Settle(Substitute(Opening))
    /\ UNCHANGED <<file, faulted, crashes, errors>>

\* Any other error of the disk or of SQLite.
Fault ==
    /\ at.phase \in {"version", "script"} /\ errors < MaxErrors /\ errors' = errors + 1
    /\ faulted' = faulted \union {Opening}
    /\ Settle(Substitute(Opening))
    /\ UNCHANGED <<file, crashes>>

\* The process ends at any point, and is started again.
Crash ==
    /\ at # Down /\ crashes < MaxCrashes /\ crashes' = crashes + 1
    /\ at' = Down /\ tx' = <<>> /\ mode' = [s \in Store |-> "closed"] /\ faulted' = {}
    /\ UNCHANGED <<file, errors>>

Open == CheckVersion \/ Execute \/ Commit \/ Refuse
Next == Start \/ Open \/ Fault \/ Crash

Spec == Init /\ [][Next]_vars

---------------------------------------------------------------------------
(* Properties.                                                             *)

\* No crash or error, wherever it falls, makes a half-made file pass for a current one, and
\* only a complete file is served from: no review is read from rows without a packet time,
\* and nothing is written to a file whose layout this service does not know.
CurrentMeansComplete ==
    \A s \in Store :
        file[s].version = SchemaVersion[s] \/ mode[s] = "open" => file[s] = Current(s)

\* Whatever state the files are in, and whichever of them fail to open, the application
\* comes up and settles every store, orchestration and reviews being 503 at worst.
AlwaysServes == <>[](at.phase = "serving" /\ \A s \in Store : mode[s] # "closed")

\* "Version 1 databases are migrated in place": unless a statement failed in this very start,
\* an application that serves has no review file of version 1 left.
MigratesInPlace ==
    at.phase = "serving" /\ file["review"].version = 1 => "review" \in faulted
=============================================================================
