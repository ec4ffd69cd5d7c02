-------------------------- MODULE AgentGraphProofs --------------------------
(***************************************************************************)
(* Facts about the waves of any acyclic graph of agents: the recursive     *)
(* function Resolved is the one _waves() computes, grows with every wave,  *)
(* and never holds an agent before its dependencies.  The library's        *)
(* induction theorems take an operator, which the provers cannot           *)
(* instantiate; the proofs below use least elements instead.               *)
(***************************************************************************)
EXTENDS AgentGraph, TLAPS, FiniteSetTheorems

\* Every non-empty set of natural numbers has a least element.
LEMMA LeastNat ==
    ASSUME NEW T \in SUBSET Nat, T # {}
    PROVE  \E x \in T : \A y \in T : x <= y
<1> DEFINE R == {ss \in Nat \X Nat : ss[1] < ss[2]}
<1>1. IsWellFoundedOn(R, Nat)
  BY NatLessThanWellFounded DEF OpToRel
<1>2. \A x, y \in Nat : x < y => <<x, y>> \in R
  OBVIOUS
<1> HIDE DEF R
<1>3. PICK x \in T : \A y \in T : <<y, x>> \notin R
  BY <1>1, WFMin
<1>4. \A y \in T : ~(y < x)
  BY <1>2, <1>3
<1> QED BY <1>3, <1>4

\* A set of numbers that has 0 and with each number the next one has them all.
LEMMA SetInduction ==
    ASSUME NEW T, 0 \in T, \A n \in Nat : n \in T => n + 1 \in T
    PROVE  Nat \subseteq T
<1> SUFFICES ASSUME Nat \ T # {} PROVE FALSE
  OBVIOUS
<1>1. Nat \ T \in SUBSET Nat
  OBVIOUS
<1>2. PICK x \in Nat \ T : \A y \in Nat \ T : x <= y
  BY <1>1, LeastNat
<1>3. x \in Nat /\ x # 0 /\ x - 1 \in Nat /\ ~(x <= x - 1)
  BY <1>2
<1>4. x - 1 \in T
  BY <1>2, <1>3
<1> QED BY <1>2, <1>3, <1>4

---------------------------------------------------------------------------
(* One turn of the loop of _waves(), and the agents resolved by each of    *)
(* the first n turns.                                                      *)

Grow(before) == {a \in Agent : a \in before \/ DependsOn[a] \subseteq before}

Turns(n) ==
    {f \in [0..n -> SUBSET Agent] :
        f[0] = {} /\ \A i \in 1..n : f[i] = Grow(f[i - 1])}

\* The loop can be run for any number of turns,
LEMMA TurnsExist == \A n \in Nat : Turns(n) # {}
<1> DEFINE T == {n \in Nat : Turns(n) # {}}
<1>1. 0 \in T
  <2>1. [i \in 0..0 |-> {}] \in Turns(0)
    BY DEF Turns
  <2> QED BY <2>1
<1>2. ASSUME NEW n \in Nat, n \in T PROVE n + 1 \in T
  <2>1. PICK f : f \in Turns(n)
    BY <1>2
  <2> DEFINE g == [i \in 0..n + 1 |-> IF i = n + 1 THEN Grow(f[n]) ELSE f[i]]
  <2>2. f \in [0..n -> SUBSET Agent] /\ f[0] = {} /\ \A i \in 1..n : f[i] = Grow(f[i - 1])
    BY <2>1 DEF Turns
  <2>3. Grow(f[n]) \in SUBSET Agent
    BY DEF Grow
  <2>4. g \in [0..n + 1 -> SUBSET Agent]
    BY <2>2, <2>3
  <2>5. g[0] = {}
    BY <2>2
  <2>6. ASSUME NEW i \in 1..n + 1 PROVE g[i] = Grow(g[i - 1])
    <3>1. i - 1 \in 0..n + 1 /\ i - 1 # n + 1 /\ g[i - 1] = f[i - 1]
      OBVIOUS
    <3>2. CASE i = n + 1
      <4>1. g[i] = Grow(f[n]) /\ i - 1 = n
        BY <3>2
      <4> QED BY <3>1, <4>1
    <3>3. CASE i # n + 1
      <4>1. i \in 1..n /\ g[i] = f[i]
        BY <3>3
      <4> QED BY <2>2, <3>1, <4>1
    <3> QED BY <3>2, <3>3
  <2>7. g \in Turns(n + 1)
    BY <2>4, <2>5, <2>6 DEF Turns
  <2> QED BY <2>7
<1> HIDE DEF T
<1>3. Nat \subseteq T
  BY <1>1, <1>2, SetInduction
<1> QED BY <1>3 DEF T

\* and every run of it resolves the same agents in each turn.
LEMMA TurnsAgree ==
    ASSUME NEW m \in Nat, NEW n \in Nat, NEW f \in Turns(m), NEW g \in Turns(n)
    PROVE  \A i \in Nat : i <= m /\ i <= n => f[i] = g[i]
<1> DEFINE T == {i \in Nat : i <= m /\ i <= n => f[i] = g[i]}
<1>1. 0 \in T
  BY DEF Turns
<1>2. ASSUME NEW i \in Nat, i \in T PROVE i + 1 \in T
  <2> SUFFICES ASSUME i + 1 <= m, i + 1 <= n PROVE f[i + 1] = g[i + 1]
    OBVIOUS
  <2>1. f[i] = g[i]
    BY <1>2
  <2>2. i + 1 \in 1..m /\ i + 1 \in 1..n /\ (i + 1) - 1 = i
    OBVIOUS
  <2>3. f[i + 1] = Grow(f[i])
    BY <2>2 DEF Turns
  <2>4. g[i + 1] = Grow(g[i])
    BY <2>2 DEF Turns
  <2> QED BY <2>1, <2>3, <2>4
<1> HIDE DEF T
<1>3. Nat \subseteq T
  BY <1>1, <1>2, SetInduction
<1> QED BY <1>3 DEF T

\* So the recursive function is what its definition says it is.
LEMMA ResolvedUnfolds ==
    Resolved = [w \in Nat |->
                   IF w = 0 THEN {}
                            ELSE LET before == Resolved[w - 1]
                                 IN  {a \in Agent : a \in before \/ DependsOn[a] \subseteq before}]
<1> DEFINE Of(n) == CHOOSE f : f \in Turns(n)
           G == [w \in Nat |-> Of(w)[w]]
           Body(h, w) ==
               IF w = 0 THEN {}
                        ELSE LET before == h[w - 1]
                             IN  {a \in Agent : a \in before \/ DependsOn[a] \subseteq before}
<1>1. \A n \in Nat : Of(n) \in Turns(n)
  BY TurnsExist
<1> HIDE DEF Of
<1>2. ASSUME NEW w \in Nat PROVE G[w] = Body(G, w)
  <2>1. Of(w) \in Turns(w)
    BY <1>1
  <2>2. CASE w = 0
    BY <2>1, <2>2 DEF Turns
  <2>3. CASE w # 0
    <3>1. w - 1 \in Nat /\ w \in 1..w /\ w - 1 <= w /\ w - 1 <= w - 1
      BY <2>3
    <3>2. Of(w)[w] = Grow(Of(w)[w - 1])
      BY <2>1, <3>1 DEF Turns
    <3>3. Of(w - 1) \in Turns(w - 1)
      BY <1>1, <3>1
    <3>4. Of(w)[w - 1] = Of(w - 1)[w - 1]
      BY <2>1, <3>1, <3>3, TurnsAgree
    <3>5. G[w] = Grow(G[w - 1])
      BY <3>1, <3>2, <3>4
    <3> QED BY <2>3, <3>5 DEF Grow
  <2> QED BY <2>2, <2>3
<1> HIDE DEF Body
<1>3. G = [w \in Nat |-> Body(G, w)]
  BY <1>2
<1> HIDE DEF G
<1>4. \E h : h = [w \in Nat |-> Body(h, w)]
  BY <1>3
<1>5. Resolved = CHOOSE h : h = [w \in Nat |-> Body(h, w)]
  BY DEF Resolved, Body
<1>6. Resolved = [w \in Nat |-> Body(Resolved, w)]
  BY <1>4, <1>5
<1> QED BY <1>6 DEF Body

---------------------------------------------------------------------------
\* Each turn resolves the wave that was ready, and nothing is ever unresolved again.
LEMMA ResolvedSteps ==
    /\ Resolved \in [Nat -> SUBSET Agent]
    /\ Resolved[0] = {}
    /\ \A w \in Nat : Resolved[w + 1] = Resolved[w] \union Wave(w)
<1>1. Resolved[0] = {}
  BY ResolvedUnfolds, Zenon
<1>2. \A w \in Nat : Resolved[w + 1] = Grow(Resolved[w])
  <2> SUFFICES ASSUME NEW w \in Nat PROVE Resolved[w + 1] = Grow(Resolved[w])
    OBVIOUS
  <2>1. w + 1 \in Nat /\ w + 1 # 0 /\ (w + 1) - 1 = w
    OBVIOUS
  <2> QED BY <2>1, ResolvedUnfolds DEF Grow
<1>3. \A w \in Nat : Resolved[w] \subseteq Agent
  BY ResolvedUnfolds
<1>4. Resolved \in [Nat -> SUBSET Agent]
  BY <1>3, ResolvedUnfolds
<1>5. \A w \in Nat : Resolved[w + 1] = Resolved[w] \union Wave(w)
  BY <1>2, <1>3 DEF Grow, Wave
<1> QED BY <1>1, <1>4, <1>5

\* What is resolved by some turn is so by every later one.
LEMMA ResolvedGrows ==
    \A v, w \in Nat : v <= w => Resolved[v] \subseteq Resolved[w]
<1> SUFFICES ASSUME NEW v \in Nat PROVE \A w \in Nat : v <= w => Resolved[v] \subseteq Resolved[w]
  OBVIOUS
<1> DEFINE T == {w \in Nat : v <= w => Resolved[v] \subseteq Resolved[w]}
<1>1. 0 \in T
  OBVIOUS
<1>2. ASSUME NEW w \in Nat, w \in T PROVE w + 1 \in T
  <2>1. CASE v <= w
    BY <1>2, <2>1, ResolvedSteps
  <2>2. CASE v = w + 1
    BY <2>2
  <2>3. CASE v > w + 1
    BY <2>3
  <2> QED BY <2>1, <2>2, <2>3
<1> HIDE DEF T
<1>3. Nat \subseteq T
  BY <1>1, <1>2, SetInduction
<1> QED BY <1>3 DEF T

\* An agent is resolved after all its dependencies, in a later wave than each of them.
LEMMA DependenciesFirst ==
    ASSUME NEW w \in Nat, NEW a \in Resolved[w + 1]
    PROVE  DependsOn[a] \subseteq Resolved[w]
<1> DEFINE T == {v \in Nat : \A b \in Resolved[v + 1] : DependsOn[b] \subseteq Resolved[v]}
<1>1. 0 \in T
  BY ResolvedSteps DEF Wave
<1>2. ASSUME NEW v \in Nat, v \in T PROVE v + 1 \in T
  <2> SUFFICES ASSUME NEW b \in Resolved[(v + 1) + 1] PROVE DependsOn[b] \subseteq Resolved[v + 1]
    OBVIOUS
  <2>1. b \in Resolved[v + 1] \/ b \in Wave(v + 1)
    BY ResolvedSteps
  <2>2. Resolved[v] \subseteq Resolved[v + 1]
    BY ResolvedSteps
  <2> QED BY <1>2, <2>1, <2>2 DEF Wave
<1> HIDE DEF T
<1>3. Nat \subseteq T
  BY <1>1, <1>2, SetInduction
<1> QED BY <1>3 DEF T

\* The schedule has WaveCount waves: none is left after them, one is left before.
LEMMA WaveCountIsLast ==
    /\ WaveCount \in Nat
    /\ NoWaveLeft(WaveCount)
    /\ \A w \in Nat : NoWaveLeft(w) => WaveCount <= w
<1> DEFINE N == Cardinality(Agent)
           T == {w \in 0..N : NoWaveLeft(w)}
           IsCount(w) == NoWaveLeft(w) /\ \A v \in 0..w - 1 : ~NoWaveLeft(v)
<1>1. N \in Nat
  BY DependsOnAssumption, FS_CardinalityType
<1>2. T \in SUBSET Nat /\ T # {}
  BY <1>1, DependsOnAssumption
<1>3. PICK x \in T : \A y \in T : x <= y
  BY <1>2, LeastNat
<1>4. x \in 0..N /\ NoWaveLeft(x)
  BY <1>3
<1>5. ASSUME NEW v \in 0..x - 1 PROVE ~NoWaveLeft(v)
  <2>1. v \in 0..N /\ ~(x <= v)
    BY <1>1, <1>4
  <2> QED BY <1>3, <2>1
<1>6. \E w \in 0..N : IsCount(w)
  BY <1>4, <1>5
<1>7. WaveCount = CHOOSE w \in 0..N : IsCount(w)
  BY DEF WaveCount
<1> HIDE DEF N, IsCount
<1>8. WaveCount \in 0..N /\ IsCount(WaveCount)
  BY <1>6, <1>7
<1>9. WaveCount \in Nat
  BY <1>1, <1>8
<1>10. ASSUME NEW w \in Nat, NoWaveLeft(w) PROVE WaveCount <= w
  <2> SUFFICES ASSUME w < WaveCount PROVE FALSE
    BY <1>9
  <2>1. w \in 0..WaveCount - 1
    BY <1>9
  <2> QED BY <1>8, <1>10, <2>1 DEF IsCount
<1> QED BY <1>8, <1>9, <1>10 DEF IsCount
=============================================================================
