----------------------------- MODULE DurableRun -----------------------------
(***************************************************************************)
(* What a run promises to the clients of the API, whatever happens to the  *)
(* process and its store: it is accepted once, advances one wave at a time *)
(* and never back, and settles at most once - with a result after its last *)
(* wave, or as failed without one.                                         *)
(***************************************************************************)
EXTENDS Naturals

CONSTANTS
    RunId,
    Waves    \* number of waves of a run

VARIABLES status, wave, answered
vars == <<status, wave, answered>>

Init ==
    /\ status = [r \in RunId |-> "absent"]
    /\ wave = [r \in RunId |-> 0]
    /\ answered = [r \in RunId |-> FALSE]

Move(r, from, to) == status[r] \in from /\ status' = [status EXCEPT ![r] = to]

Accept(r) == Move(r, {"absent"}, "pending") /\ UNCHANGED <<wave, answered>>
Claim(r) == Move(r, {"pending"}, "running") /\ UNCHANGED <<wave, answered>>

Advance(r) ==
    /\ status[r] = "running" /\ wave[r] < Waves
    /\ wave' = [wave EXCEPT ![r] = @ + 1]
    /\ UNCHANGED <<status, answered>>

Answer(r) ==
    /\ wave[r] = Waves
    /\ \E final \in {"completed", "failed"} : Move(r, {"running"}, final)
    /\ answered' = [answered EXCEPT ![r] = TRUE]
    /\ UNCHANGED wave

Fail(r) == Move(r, {"pending", "running"}, "failed") /\ UNCHANGED <<wave, answered>>

Next == \E r \in RunId : Accept(r) \/ Claim(r) \/ Advance(r) \/ Answer(r) \/ Fail(r)

Spec == Init /\ [][Next]_vars
=============================================================================
