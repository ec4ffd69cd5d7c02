----------------------- MODULE MCOrchestrationService -----------------------
(***************************************************************************)
(* Instances of OrchestrationService for TLC.  Three small graphs stand    *)
(* for the nine default agents: a fork (two agents of one wave run         *)
(* concurrently), a chain (skips cascade over two waves), a single agent.  *)
(***************************************************************************)
EXTENDS OrchestrationService, TLC

CONSTANTS a1, a2, a3

Fork == (a1 :> {}) @@ (a2 :> {a1}) @@ (a3 :> {a1})
Chain == (a1 :> {}) @@ (a2 :> {a1}) @@ (a3 :> {a2})
Single == (a1 :> {})

\* The code looks at no call of _execute, run id or request id but to compare it.
ExecSymmetry == Permutations(ExecId)
\* Of the fork, the two agents of the second wave can be told apart by nothing else.
ForkSymmetry == ExecSymmetry \union Permutations({a2, a3})
FullSymmetry == ExecSymmetry \union Permutations(RunId) \union Permutations(RequestId)
=============================================================================
