-------------------------- MODULE ReviewLedgerProofs --------------------------
(***************************************************************************)
(* Proofs about the review ledger, for any number of calls, request ids,   *)
(* packets, restarts and errors.                                           *)
(*                                                                         *)
(* Part 1: what the two folds of the model come to.  The library's         *)
(* induction theorems take an operator, which the provers cannot           *)
(* instantiate; sets of numbers stand for the induction hypotheses.        *)
(*                                                                         *)
(* Part 2: the invariant.  A request id has one row, and every row is what *)
(* some call asked for; a call that is past its insert has its decision in *)
(* the table; every answer is the projection of a beginning of its         *)
(* packet's rows, no shorter than what was answered before the call.       *)
(*                                                                         *)
(* Part 3: the theorems.                                                   *)
(***************************************************************************)
EXTENDS ReviewLedger, FiniteSetTheorems, TLAPS

Row == [request : RequestId \ {NoRequest}, decision : Decision, packet : Packet, at : Nat]

---------------------------------------------------------------------------
(* Part 1: folds                                                           *)

\* A set of numbers that has 0 and with each number the next one has them all.
LEMMA LedgerInduction ==
    ASSUME NEW T, 0 \in T, \A n \in Nat : n \in T => n + 1 \in T
    PROVE  Nat \subseteq T
<1> SUFFICES ASSUME NEW z \in Nat, z \notin T PROVE FALSE
  OBVIOUS
<1> DEFINE R == OpToRel(<, Nat)
<1>1. IsWellFoundedOn(R, Nat)
  BY NatLessThanWellFounded
<1>2. \A x, y \in Nat : x < y => <<x, y>> \in R
  BY DEF OpToRel
<1> HIDE DEF R
<1>3. PICK x \in Nat \ T : \A y \in Nat \ T : <<y, x>> \notin R
  BY <1>1, WFMin
<1>4. x # 0 /\ x - 1 \in Nat /\ x - 1 < x /\ (x - 1) + 1 = x
  BY <1>3
<1>5. x - 1 \in T
  BY <1>2, <1>3, <1>4
<1> QED BY <1>3, <1>4, <1>5

\* A non-empty set of numbers up to n has a greatest element, and Max is it.
LEMMA MaxIs ==
    ASSUME NEW n \in Nat, NEW s \in SUBSET (1..n), s # {}
    PROVE  Max(s) \in s /\ \A y \in s : Max(s) >= y
<1> DEFINE T == {m \in Nat : \A u \in SUBSET (1..m) : u # {} => \E x \in u : \A y \in u : x >= y}
<1>1. 0 \in T
  <2>1. 1..0 = {}
    OBVIOUS
  <2> QED BY <2>1
<1>2. ASSUME NEW m \in Nat, m \in T PROVE m + 1 \in T
  <2> SUFFICES ASSUME NEW u \in SUBSET (1..m + 1), u # {} PROVE \E x \in u : \A y \in u : x >= y
    OBVIOUS
  <2>1. CASE m + 1 \in u
    BY <2>1
  <2>2. CASE m + 1 \notin u
    <3>1. u \in SUBSET (1..m)
      BY <2>2
    <3> QED BY <1>2, <3>1
  <2> QED BY <2>1, <2>2
<1> HIDE DEF T
<1>3. n \in T
  BY <1>1, <1>2, LedgerInduction
<1>4. \E x \in s : \A y \in s : x >= y
  BY <1>3 DEF T
<1> QED BY <1>4 DEF Max

\* The greatest number up to n is n.
LEMMA MaxOfInterval == \A n \in Nat \ {0} : Max(1..n) = n /\ (1..n) \ {n} = 1..n - 1 /\ 1..n # {}
<1> SUFFICES ASSUME NEW n \in Nat \ {0}
             PROVE  Max(1..n) = n /\ (1..n) \ {n} = 1..n - 1 /\ 1..n # {}
  OBVIOUS
<1>1. n \in 1..n /\ (1..n) \ {n} = 1..n - 1
  OBVIOUS
<1>2. Max(1..n) \in 1..n /\ \A y \in 1..n : Max(1..n) >= y
  BY <1>1, MaxIs
<1> QED BY <1>1, <1>2

\* g is the fold of F over the numbers up to N, from the least on.
Fold(X, base, N, F, g) ==
    /\ g \in [SUBSET (1..N) -> X]
    /\ \A s \in SUBSET (1..N) : g[s] = IF s = {} THEN base ELSE F[<<g[s \ {Max(s)}], Max(s)>>]

\* Every fold is well defined.
LEMMA FoldExists ==
    ASSUME NEW X, NEW base \in X, NEW N \in Nat, NEW F \in [X \X (1..N) -> X]
    PROVE  \E g : Fold(X, base, N, F, g)
<1> DEFINE Folds(n, g) ==
             \A s \in SUBSET (1..n) :
                g[s] = IF s = {} THEN base ELSE F[<<g[s \ {Max(s)}], Max(s)>>]
           T == {n \in Nat : n <= N => \E g \in [SUBSET (1..n) -> X] : Folds(n, g)}
<1>1. 0 \in T
  <2> DEFINE g == [s \in SUBSET (1..0) |-> base]
  <2>1. g \in [SUBSET (1..0) -> X] /\ Folds(0, g)
    OBVIOUS
  <2> QED BY <2>1
<1>2. ASSUME NEW n \in Nat, n \in T PROVE n + 1 \in T
  <2> HIDE DEF Folds
  <2> SUFFICES ASSUME n + 1 <= N PROVE \E g \in [SUBSET (1..n + 1) -> X] : Folds(n + 1, g)
    BY n + 1 \in Nat
  <2>0. n <= N
    OBVIOUS
  <2>1. PICK f \in [SUBSET (1..n) -> X] : Folds(n, f)
    BY <1>2, <2>0
  <2> HIDE DEF T
  <2> DEFINE g == [s \in SUBSET (1..n + 1) |->
                      IF n + 1 \in s THEN F[<<f[s \ {n + 1}], n + 1>>] ELSE f[s]]
  <2>2. ASSUME NEW s \in SUBSET (1..n + 1)
        PROVE  /\ s \ {n + 1} \in SUBSET (1..n)
               /\ n + 1 \notin s => s \in SUBSET (1..n)
    <3>1. \A x \in s : x # n + 1 => x \in 1..n
      OBVIOUS
    <3> QED BY <3>1
  <2>3. g \in [SUBSET (1..n + 1) -> X]
    <3>1. ASSUME NEW s \in SUBSET (1..n + 1)
          PROVE  (IF n + 1 \in s THEN F[<<f[s \ {n + 1}], n + 1>>] ELSE f[s]) \in X
      BY <2>2, n + 1 \in 1..N
    <3> QED BY <3>1
  <2>4. ASSUME NEW s \in SUBSET (1..n + 1)
        PROVE  g[s] = IF s = {} THEN base ELSE F[<<g[s \ {Max(s)}], Max(s)>>]
    <3>1. CASE n + 1 \in s
      <4>1. Max(s) \in s /\ Max(s) >= n + 1
        BY <3>1, n + 1 \in Nat, s # {}, MaxIs
      <4>2. Max(s) = n + 1
        <5>1. Max(s) \in 1..n + 1
          BY <4>1
        <5> QED BY <4>1, <5>1
      <4>3. s \ {n + 1} \in SUBSET (1..n + 1) /\ n + 1 \notin s \ {n + 1}
        OBVIOUS
      <4>4. g[s \ {n + 1}] = f[s \ {n + 1}]
        BY <4>3
      <4>5. g[s] = F[<<f[s \ {n + 1}], n + 1>>]
        BY <3>1
      <4> QED BY <3>1, <4>2, <4>4, <4>5
    <3>2. CASE n + 1 \notin s
      <4>1. s \in SUBSET (1..n) /\ g[s] = f[s]
        BY <2>2, <3>2
      <4>2. f[s] = IF s = {} THEN base ELSE F[<<f[s \ {Max(s)}], Max(s)>>]
        BY <2>1, <4>1 DEF Folds
      <4>3. g[s \ {Max(s)}] = f[s \ {Max(s)}]
        <5>1. s \ {Max(s)} \in SUBSET (1..n + 1) /\ n + 1 \notin s \ {Max(s)}
          BY <3>2
        <5> QED BY <5>1
      <4> QED BY <4>1, <4>2, <4>3
    <3> QED BY <3>1, <3>2
  <2> QED BY <2>3, <2>4 DEF Folds
<1> HIDE DEF T
<1>3. N \in T
  BY <1>1, <1>2, LedgerInduction
<1> HIDE DEF Folds
<1>4. \E g \in [SUBSET (1..N) -> X] : Folds(N, g)
  BY <1>3, N <= N DEF T
<1> QED BY <1>4 DEF Folds, Fold

---------------------------------------------------------------------------
(* What list_for_packet returns of any table.                              *)

\* The recursion behind it.
Selecting(table, version, g) ==
    g = [s \in SUBSET (DOMAIN table) |->
            IF s = {} THEN <<>>
            ELSE IF table[Max(s)].packet = version THEN Append(g[s \ {Max(s)}], table[Max(s)])
                 ELSE g[s \ {Max(s)}]]

\* The recursion has a solution, and the selection is one of them.
LEMMA SelectUnfolds ==
    ASSUME NEW table \in Seq(Row), NEW version
    PROVE  \E g : Selecting(table, version, g) /\ RowsIn(table, version) = g[DOMAIN table]
<1> DEFINE N == Len(table)
           F == [p \in Seq(Row) \X (1..N) |->
                    IF table[p[2]].packet = version THEN Append(p[1], table[p[2]]) ELSE p[1]]
<1>1. N \in Nat /\ DOMAIN table = 1..N /\ \A i \in 1..N : table[i] \in Row
  OBVIOUS
<1>2. F \in [Seq(Row) \X (1..N) -> Seq(Row)]
  <2>1. ASSUME NEW p \in Seq(Row) \X (1..N)
        PROVE  (IF table[p[2]].packet = version THEN Append(p[1], table[p[2]]) ELSE p[1]) \in Seq(Row)
    BY <1>1
  <2> QED BY <2>1
<1>3. \A rows \in Seq(Row), i \in 1..N :
         F[<<rows, i>>] = IF table[i].packet = version THEN Append(rows, table[i]) ELSE rows
  OBVIOUS
<1>4. <<>> \in Seq(Row)
  OBVIOUS
<1> HIDE DEF F, N
<1> DEFINE X == Seq(Row)
           base == <<>>
<1>5. PICK g \in [SUBSET (1..N) -> Seq(Row)] :
         \A s \in SUBSET (1..N) :
            g[s] = IF s = {} THEN <<>> ELSE F[<<g[s \ {Max(s)}], Max(s)>>]
  <2>1. base \in X /\ N \in Nat /\ F \in [X \X (1..N) -> X]
    BY <1>1, <1>2, <1>4
  <2> HIDE DEF X, base
  <2>2. \E g : Fold(X, base, N, F, g)
    BY <2>1, FoldExists
  <2> QED BY <2>2 DEF Fold, X, base
<1>6. ASSUME NEW s \in SUBSET (1..N), s # {}
      PROVE  F[<<g[s \ {Max(s)}], Max(s)>>] =
                IF table[Max(s)].packet = version THEN Append(g[s \ {Max(s)}], table[Max(s)])
                ELSE g[s \ {Max(s)}]
  <2>1. Max(s) \in 1..N
    BY <1>1, <1>6, MaxIs
  <2>2. g[s \ {Max(s)}] \in Seq(Row)
    BY <1>5
  <2> QED BY <1>3, <2>1, <2>2
<1>7. \A s \in SUBSET (1..N) :
         g[s] = IF s = {} THEN <<>>
                ELSE IF table[Max(s)].packet = version THEN Append(g[s \ {Max(s)}], table[Max(s)])
                     ELSE g[s \ {Max(s)}]
  BY <1>5, <1>6
<1>8. Selecting(table, version, g)
  BY <1>1, <1>7 DEF Selecting
<1>9. RowsIn(table, version) = (CHOOSE h : Selecting(table, version, h))[DOMAIN table]
  BY DEF RowsIn, FoldLeft, MapThenFoldSet, Selecting
<1> QED BY <1>8, <1>9

\* A longer table has the same selections of its beginning.
LEMMA SelectAppends ==
    ASSUME NEW table \in Seq(Row), NEW row \in Row, NEW version
    PROVE  RowsIn(Append(table, row), version) =
              IF row.packet = version THEN Append(RowsIn(table, version), row)
              ELSE RowsIn(table, version)
<1> DEFINE longer == Append(table, row)
           N == Len(table)
<1>1. /\ longer \in Seq(Row) /\ N \in Nat /\ DOMAIN table = 1..N /\ DOMAIN longer = 1..N + 1
      /\ longer[N + 1] = row /\ \A i \in 1..N : longer[i] = table[i]
  OBVIOUS
<1> HIDE DEF longer, N
<1>2. PICK f : Selecting(table, version, f) /\ RowsIn(table, version) = f[1..N]
  BY <1>1, SelectUnfolds
<1>3. PICK g : Selecting(longer, version, g) /\ RowsIn(longer, version) = g[1..N + 1]
  BY <1>1, SelectUnfolds
<1>4. \A s \in SUBSET (1..N) :
         f[s] = IF s = {} THEN <<>>
                ELSE IF table[Max(s)].packet = version THEN Append(f[s \ {Max(s)}], table[Max(s)])
                     ELSE f[s \ {Max(s)}]
  BY <1>1, <1>2 DEF Selecting
<1>5. \A s \in SUBSET (1..N + 1) :
         g[s] = IF s = {} THEN <<>>
                ELSE IF longer[Max(s)].packet = version
                     THEN Append(g[s \ {Max(s)}], longer[Max(s)])
                     ELSE g[s \ {Max(s)}]
  BY <1>1, <1>3 DEF Selecting
<1> DEFINE T == {n \in Nat : n <= N => f[1..n] = g[1..n]}
<1>6. 0 \in T
  <2>1. 1..0 = {} /\ {} \in SUBSET (1..N) /\ {} \in SUBSET (1..N + 1)
    OBVIOUS
  <2>2. f[{}] = <<>> /\ g[{}] = <<>>
    BY <1>4, <1>5, <2>1
  <2> QED BY <2>1, <2>2
<1>7. ASSUME NEW n \in Nat, n \in T PROVE n + 1 \in T
  <2> SUFFICES ASSUME n + 1 <= N PROVE f[1..n + 1] = g[1..n + 1]
    BY n + 1 \in Nat
  <2>1. f[1..n] = g[1..n]
    BY <1>1, <1>7
  <2>2. Max(1..n + 1) = n + 1 /\ (1..n + 1) \ {n + 1} = 1..n /\ 1..n + 1 # {}
    <3>1. n + 1 \in Nat \ {0} /\ (n + 1) - 1 = n
      OBVIOUS
    <3> QED BY <3>1, MaxOfInterval
  <2>3. 1..n + 1 \in SUBSET (1..N) /\ 1..n + 1 \in SUBSET (1..N + 1) /\ n + 1 \in 1..N
    BY <1>1
  <2>4. longer[n + 1] = table[n + 1]
    BY <1>1, <2>3
  <2>5. f[1..n + 1] = IF table[n + 1].packet = version THEN Append(f[1..n], table[n + 1])
                      ELSE f[1..n]
    BY <1>4, <2>2, <2>3
  <2>6. g[1..n + 1] = IF table[n + 1].packet = version THEN Append(g[1..n], table[n + 1])
                      ELSE g[1..n]
    BY <1>5, <2>2, <2>3, <2>4
  <2> QED BY <2>1, <2>5, <2>6
<1> HIDE DEF T
<1>8. N \in T
  BY <1>1, <1>6, <1>7, LedgerInduction
<1>9. f[1..N] = g[1..N]
  BY <1>1, <1>8, N <= N DEF T
<1>10. Max(1..N + 1) = N + 1 /\ (1..N + 1) \ {N + 1} = 1..N /\ 1..N + 1 # {}
  <2>1. N + 1 \in Nat \ {0} /\ (N + 1) - 1 = N
    BY <1>1
  <2> QED BY <2>1, MaxOfInterval
<1>11. 1..N + 1 \in SUBSET (1..N + 1)
  OBVIOUS
<1>12. g[1..N + 1] = IF row.packet = version THEN Append(g[1..N], row) ELSE g[1..N]
  BY <1>1, <1>5, <1>10, <1>11
<1> QED BY <1>2, <1>3, <1>9, <1>12 DEF longer

\* Nothing is selected of an empty table.
LEMMA SelectNothing == \A version : RowsIn(<<>>, version) = <<>>
<1> SUFFICES ASSUME NEW version PROVE RowsIn(<<>>, version) = <<>>
  OBVIOUS
<1>1. <<>> \in Seq(Row) /\ DOMAIN <<>> = {}
  OBVIOUS
<1> DEFINE table == <<>>
<1> HIDE DEF table
<1>2. PICK g : Selecting(table, version, g) /\ RowsIn(table, version) = g[DOMAIN table]
  BY <1>1, SelectUnfolds DEF table
<1>3. g[{}] = <<>>
  BY <1>2 DEF Selecting
<1> QED BY <1>1, <1>2, <1>3 DEF table

---------------------------------------------------------------------------
(* What get_state comes to: the last decision's outcome over the whole     *)
(* trail, with the packet time of the first.                               *)

Approved(rows) == rows # <<>> /\ Last(rows).decision = "approved"

AllPassed == [i \in DOMAIN BaseChecklist |-> "passed"]

Projection(rows, generated) ==
    [status |-> IF rows = <<>> THEN "needs-changes" ELSE Last(rows).decision,
     ready |-> Approved(rows),
     checklist |-> IF Approved(rows) THEN AllPassed ELSE BaseChecklist,
     generated |-> generated, trail |-> rows]

\* One decision of the fold takes the projection of a trail to that of the longer one.
LEMMA ApplyProjects ==
    ASSUME NEW rows \in Seq(Row), NEW row \in Row, NEW generated
    PROVE  ApplyDecision(BaseState(generated), Projection(rows, generated), row)
              = Projection(Append(rows, row), generated)
<1> DEFINE more == Append(rows, row)
<1>1. more # <<>> /\ Last(more) = row
  BY DEF Last
<1>2. Projection(rows, generated).trail = rows
  BY DEF Projection
<1>3. DOMAIN BaseChecklist = DOMAIN BaseState(generated).checklist
  BY DEF BaseState
<1> HIDE DEF more
<1>4. Approved(more) <=> row.decision = "approved"
  BY <1>1 DEF Approved
<1>5. Projection(more, generated) =
        [status |-> row.decision, ready |-> row.decision = "approved",
         checklist |-> IF row.decision = "approved" THEN AllPassed ELSE BaseChecklist,
         generated |-> generated, trail |-> more]
  <2>1. Approved(more) = (row.decision = "approved")
    BY <1>4 DEF Approved
  <2> QED BY <1>1, <2>1 DEF Projection
<1>6. ApplyDecision(BaseState(generated), Projection(rows, generated), row) =
        [status |-> row.decision, ready |-> row.decision = "approved",
         checklist |-> IF row.decision = "approved" THEN AllPassed ELSE BaseChecklist,
         generated |-> generated, trail |-> more]
  <2> DEFINE p == Projection(rows, generated)
             checklist == BaseChecklist
  <2>1. p.trail = rows
    BY <1>2
  <2> HIDE DEF p, checklist
  <2> DEFINE passed == [i \in DOMAIN checklist |-> "passed"]
             b == [status |-> "needs-changes", ready |-> FALSE, checklist |-> checklist,
                   generated |-> generated, trail |-> <<>>]
  <2>2. ApplyDecision(b, p, row) =
          [b EXCEPT !.status = row.decision, !.ready = row.decision = "approved",
                    !.checklist = IF row.decision = "approved" THEN passed ELSE checklist,
                    !.trail = more]
    BY <2>1 DEF ApplyDecision, more
  <2> HIDE DEF passed
  <2>3. ApplyDecision(b, p, row) =
        [status |-> row.decision, ready |-> row.decision = "approved",
         checklist |-> IF row.decision = "approved" THEN passed ELSE checklist,
         generated |-> generated, trail |-> more]
    BY <2>2
  <2> QED BY <2>3 DEF BaseState, AllPassed, checklist, passed, p
<1> QED BY <1>5, <1>6 DEF more

\* The fold of get_state, as the recursion behind it.
Projecting(rows, generated, g) ==
    g = [s \in SUBSET (DOMAIN rows) |->
            IF s = {} THEN BaseState(generated)
            ELSE ApplyDecision(BaseState(generated), g[s \ {Max(s)}], rows[Max(s)])]

PacketTime(rows, built) == IF rows = <<>> THEN built ELSE rows[1].at

\* The recursion has a solution, and the review is one of them.
LEMMA StateUnfolds ==
    ASSUME NEW rows \in Seq(Row), NEW built
    PROVE  \E g : /\ Projecting(rows, PacketTime(rows, built), g)
                  /\ State(rows, built) = g[DOMAIN rows]
<1> DEFINE N == Len(rows)
           at == PacketTime(rows, built)
           X == {Projection(t, at) : t \in Seq(Row)}
           base == BaseState(at)
           F == [p \in X \X (1..N) |-> ApplyDecision(BaseState(at), p[1], rows[p[2]])]
<1>1. N \in Nat /\ DOMAIN rows = 1..N /\ \A i \in 1..N : rows[i] \in Row
  OBVIOUS
<1>2. base \in X
  <2>1. BaseState(at) = Projection(<<>>, at)
    BY DEF BaseState, Projection, Approved
  <2> QED BY <2>1, <<>> \in Seq(Row)
<1> HIDE DEF at
<1>3. ASSUME NEW p \in X, NEW i \in 1..N
      PROVE  ApplyDecision(BaseState(at), p, rows[i]) \in X
  <2>1. PICK t \in Seq(Row) : p = Projection(t, at)
    OBVIOUS
  <2>2. ApplyDecision(BaseState(at), p, rows[i]) = Projection(Append(t, rows[i]), at)
    BY <1>1, <2>1, ApplyProjects
  <2>3. Append(t, rows[i]) \in Seq(Row)
    BY <1>1
  <2> QED BY <2>2, <2>3
<1> HIDE DEF X
<1>4. F \in [X \X (1..N) -> X]
  BY <1>3
<1>5. \A p \in X, i \in 1..N : F[<<p, i>>] = ApplyDecision(BaseState(at), p, rows[i])
  OBVIOUS
<1> HIDE DEF F, N, base
<1>6. PICK g \in [SUBSET (1..N) -> X] :
         \A s \in SUBSET (1..N) :
            g[s] = IF s = {} THEN base ELSE F[<<g[s \ {Max(s)}], Max(s)>>]
  <2>1. \E g : Fold(X, base, N, F, g)
    BY <1>1, <1>2, <1>4, FoldExists
  <2> QED BY <2>1 DEF Fold
<1>7. ASSUME NEW s \in SUBSET (1..N), s # {}
      PROVE  F[<<g[s \ {Max(s)}], Max(s)>>] =
                ApplyDecision(BaseState(at), g[s \ {Max(s)}], rows[Max(s)])
  <2>1. Max(s) \in 1..N
    BY <1>1, <1>7, MaxIs
  <2>2. g[s \ {Max(s)}] \in X
    BY <1>6
  <2> QED BY <1>5, <2>1, <2>2
<1>8. \A s \in SUBSET (1..N) :
         g[s] = IF s = {} THEN BaseState(at)
                ELSE ApplyDecision(BaseState(at), g[s \ {Max(s)}], rows[Max(s)])
  BY <1>6, <1>7 DEF base
<1>9. Projecting(rows, at, g)
  BY <1>1, <1>8 DEF Projecting
<1>10. State(rows, built) = (CHOOSE h : Projecting(rows, at, h))[DOMAIN rows]
  BY DEF State, PacketTime, at, FoldLeft, MapThenFoldSet, Projecting
<1> QED BY <1>9, <1>10 DEF at

\* The review of a packet is the projection of its rows.
LEMMA StateIs ==
    ASSUME NEW rows \in Seq(Row), NEW built
    PROVE  State(rows, built) = Projection(rows, PacketTime(rows, built))
<1> DEFINE N == Len(rows)
           at == PacketTime(rows, built)
<1>1. N \in Nat /\ DOMAIN rows = 1..N /\ \A i \in 1..N : rows[i] \in Row
  OBVIOUS
<1> HIDE DEF at, N
<1>2. PICK g : Projecting(rows, at, g) /\ State(rows, built) = g[1..N]
  BY <1>1, StateUnfolds DEF at
<1>3. \A s \in SUBSET (1..N) :
         g[s] = IF s = {} THEN BaseState(at)
                ELSE ApplyDecision(BaseState(at), g[s \ {Max(s)}], rows[Max(s)])
  BY <1>1, <1>2 DEF Projecting
<1> DEFINE T == {n \in Nat : n <= N => g[1..n] = Projection(SubSeq(rows, 1, n), at)}
<1>4. 0 \in T
  <2>1. 1..0 = {} /\ {} \in SUBSET (1..N) /\ SubSeq(rows, 1, 0) = <<>>
    OBVIOUS
  <2>2. g[{}] = BaseState(at)
    BY <1>3, <2>1
  <2>3. BaseState(at) = Projection(<<>>, at)
    BY DEF BaseState, Projection, Approved
  <2> QED BY <2>1, <2>2, <2>3
<1>5. ASSUME NEW n \in Nat, n \in T PROVE n + 1 \in T
  <2> SUFFICES ASSUME n + 1 <= N
               PROVE  g[1..n + 1] = Projection(SubSeq(rows, 1, n + 1), at)
    BY n + 1 \in Nat
  <2>1. g[1..n] = Projection(SubSeq(rows, 1, n), at)
    BY <1>1, <1>5
  <2>2. Max(1..n + 1) = n + 1 /\ (1..n + 1) \ {n + 1} = 1..n /\ 1..n + 1 # {}
    <3>1. n + 1 \in Nat \ {0} /\ (n + 1) - 1 = n
      OBVIOUS
    <3> QED BY <3>1, MaxOfInterval
  <2>3. 1..n + 1 \in SUBSET (1..N) /\ n + 1 \in 1..N
    BY <1>1
  <2>4. g[1..n + 1] = ApplyDecision(BaseState(at), g[1..n], rows[n + 1])
    BY <1>3, <2>2, <2>3
  <2>5. SubSeq(rows, 1, n) \in Seq(Row) /\ rows[n + 1] \in Row
        /\ Append(SubSeq(rows, 1, n), rows[n + 1]) = SubSeq(rows, 1, n + 1)
    BY <1>1, <2>3 DEF N
  <2> QED BY <2>1, <2>4, <2>5, ApplyProjects
<1> HIDE DEF T
<1>6. N \in T
  BY <1>1, <1>4, <1>5, LedgerInduction
<1>7. g[1..N] = Projection(SubSeq(rows, 1, N), at)
  BY <1>1, <1>6, N <= N DEF T
<1>8. SubSeq(rows, 1, N) = rows
  BY DEF N
<1> QED BY <1>2, <1>7, <1>8 DEF at

---------------------------------------------------------------------------
(* Part 2: the invariant                                                   *)

Review ==
    [status : Decision, ready : BOOLEAN, checklist : {BaseChecklist, AllPassed},
     generated : Nat, trail : Seq(Row)]

Asked ==
    [request : RequestId \union {NoRequest}, decision : Decision, packet : Packet, at : Nat]

Pc == {"idle", "insert", "resolve", "list", "answered", "conflict", "unavailable", "lost"}

ReviewTypeOK ==
    /\ ledger \in Seq(Row)
    /\ call \in [Call -> [pc : Pc, asked : Asked \union {NoAnswer}, floor : Nat,
                          answer : Review \union {NoAnswer}]]
    /\ packet \in Packet /\ now \in Nat
    /\ \A c \in Call : Outcome(c) # "idle" => call[c].asked \in Asked
    /\ \A c \in Call : Outcome(c) = "answered" => call[c].answer \in Review

\* request_id is UNIQUE.
OneRowPerRequest ==
    \A i, j \in DOMAIN ledger : ledger[i].request = ledger[j].request => i = j

\* No row is made up: each is what some call asked for.
RowsWereAsked ==
    \A i \in DOMAIN ledger : \E d \in Call : Outcome(d) # "idle" /\ call[d].asked = ledger[i]

\* Only decisions are inserted, and who is past that has its decision in the table.
DecisionsAreOnFile ==
    \A c \in Call :
        /\ Outcome(c) \in {"insert", "resolve", "conflict"} => call[c].asked.request # NoRequest
        /\ Outcome(c) = "resolve" => RowsWith(call[c].asked.request) # {}
        /\ Outcome(c) \in {"list", "answered"} /\ call[c].asked.request # NoRequest =>
              \E i \in DOMAIN ledger : SameRequest(ledger[i], call[c].asked)

\* A refused call met a row of its request with another content.
RefusalsMetARow ==
    \A c \in Call : Outcome(c) = "conflict" =>
        \E i \in RowsWith(call[c].asked.request) : ~SameRequest(ledger[i], call[c].asked)

\* A packet's rows are rows of the table, and no row of it is left out.
RowsAreSelected ==
    \A v \in Packet :
        /\ RowsOf(v) \in Seq(Row)
        /\ \A i \in DOMAIN ledger : ledger[i].packet = v =>
              \E j \in DOMAIN RowsOf(v) : RowsOf(v)[j] = ledger[i]

\* t goes on where s ends.
Extends(s, t) == Len(s) <= Len(t) /\ \A i \in 1..Len(s) : t[i] = s[i]

\* What was answered before a call is in the packet's rows.
FloorsAreReached ==
    \A c \in Call : Outcome(c) # "idle" => call[c].floor <= Len(RowsOf(call[c].asked.packet))

\* An answer is the projection of a beginning of its packet's rows, no shorter than what was
\* answered before, with the call's own decision in it.
AnswersAreProjections ==
    \A c \in Call : Outcome(c) = "answered" =>
        LET trail == call[c].answer.trail
            asked == call[c].asked
        IN  /\ Extends(trail, RowsOf(asked.packet))
            /\ call[c].answer = Projection(trail, PacketTime(trail, asked.at))
            /\ call[c].floor <= Len(trail)
            /\ asked.request # NoRequest =>
                  \E i \in DOMAIN trail : SameRequest(trail[i], asked)

ReviewInv ==
    /\ ReviewTypeOK /\ OneRowPerRequest /\ RowsWereAsked /\ DecisionsAreOnFile
    /\ RefusalsMetARow /\ RowsAreSelected /\ FloorsAreReached /\ AnswersAreProjections

\* The longest trail of the answers is not longer than the packet's rows.
LEMMA FloorIsReached ==
    ASSUME ReviewInv, NEW v \in Packet
    PROVE  Floor(v) \in Nat /\ Floor(v) <= Len(RowsOf(v))
<1> DEFINE K == Len(RowsOf(v))
           S == Answered(v) \union {0}
           U == {m + 1 : m \in S}
<1>1. K \in Nat
  BY DEF ReviewInv, RowsAreSelected
<1>2. \A m \in S : m \in Nat /\ m <= K
  <2>1. ASSUME NEW d \in Call, Outcome(d) = "answered", call[d].asked.packet = v
        PROVE  Len(call[d].answer.trail) \in Nat /\ Len(call[d].answer.trail) <= K
    <3>1. call[d].answer.trail \in Seq(Row)
      BY <2>1 DEF ReviewInv, ReviewTypeOK, Review
    <3>2. Extends(call[d].answer.trail, RowsOf(v))
      BY <2>1 DEF ReviewInv, AnswersAreProjections
    <3> QED BY <3>1, <3>2 DEF Extends
  <2> QED BY <1>1, <2>1 DEF Answered, Outcome
<1> HIDE DEF S, K
<1>3. U \in SUBSET (1..K + 1) /\ U # {}
  BY <1>1, <1>2, 0 \in S DEF S
<1>4. Max(U) \in U /\ \A y \in U : Max(U) >= y
  BY <1>1, <1>3, K + 1 \in Nat, MaxIs
<1>5. PICK n \in S : Max(U) = n + 1
  BY <1>4
<1>6. \A m \in S : m <= n
  <2>1. ASSUME NEW m \in S PROVE m <= n
    <3>1. m + 1 \in U
      OBVIOUS
    <3>2. n + 1 >= m + 1
      BY <1>4, <1>5, <3>1
    <3> QED BY <1>2, <3>2
  <2> QED BY <2>1
<1>7. \E n_1 \in S : \A m \in Answered(v) : m <= n_1
  BY <1>6 DEF S
<1>8. Floor(v) \in S
  BY <1>7 DEF Floor, S
<1> QED BY <1>2, <1>8 DEF K

\* Calls that move on, give up or are lost, with the table as it was.
LEMMA CallsMove ==
    ASSUME ReviewInv, ledger' = ledger, packet' \in Packet, now' \in Nat,
           NEW to \in [Call -> Pc],
           call' = [d \in Call |-> [call[d] EXCEPT !.pc = to[d]]],
           \A d \in Call :
              \/ to[d] = Outcome(d)
              \/ Outcome(d) \in {"insert", "resolve", "list"} /\ to[d] \in {"lost", "unavailable"}
              \/ Outcome(d) = "insert" /\ to[d] = "resolve" /\ RowsWith(call[d].asked.request) # {}
              \/ /\ Outcome(d) = "resolve" /\ to[d] = "list"
                 /\ \E i \in DOMAIN ledger : SameRequest(ledger[i], call[d].asked)
              \/ /\ Outcome(d) = "resolve" /\ to[d] = "conflict"
                 /\ \E i \in RowsWith(call[d].asked.request) : ~SameRequest(ledger[i], call[d].asked)
    PROVE  ReviewInv'
<1>1. ASSUME NEW d \in Call
      PROVE  /\ call'[d] \in [pc : Pc, asked : Asked \union {NoAnswer}, floor : Nat,
                              answer : Review \union {NoAnswer}]
             /\ call'[d].pc = to[d] /\ call'[d].asked = call[d].asked
             /\ call'[d].floor = call[d].floor /\ call'[d].answer = call[d].answer
  <2>1. call[d] \in [pc : Pc, asked : Asked \union {NoAnswer}, floor : Nat,
                    answer : Review \union {NoAnswer}]
    BY DEF ReviewInv, ReviewTypeOK
  <2>2. call'[d] = [call[d] EXCEPT !.pc = to[d]] /\ to[d] \in Pc
    OBVIOUS
  <2> QED BY <2>1, <2>2
<1>2. \A d \in Call : /\ to[d] # "idle" => Outcome(d) # "idle"
                      /\ Outcome(d) # "idle" => to[d] # "idle"
                      /\ to[d] = "answered" => Outcome(d) = "answered"
  OBVIOUS
<1>3. ReviewTypeOK'
  <2>1. call' \in [Call -> [pc : Pc, asked : Asked \union {NoAnswer}, floor : Nat,
                           answer : Review \union {NoAnswer}]]
    BY <1>1
  <2> QED BY <1>1, <1>2, <2>1 DEF ReviewInv, ReviewTypeOK, Outcome
<1>4. OneRowPerRequest'
  BY DEF ReviewInv, OneRowPerRequest
<1>5. RowsWereAsked'
  <2> SUFFICES ASSUME NEW i \in DOMAIN ledger
               PROVE  \E d \in Call : call'[d].pc # "idle" /\ call'[d].asked = ledger[i]
    BY DEF RowsWereAsked, Outcome
  <2>1. PICK d \in Call : Outcome(d) # "idle" /\ call[d].asked = ledger[i]
    BY DEF ReviewInv, RowsWereAsked
  <2> QED BY <1>1, <1>2, <2>1
<1>6. DecisionsAreOnFile'
  <2> SUFFICES ASSUME NEW d \in Call
               PROVE  /\ to[d] \in {"insert", "resolve", "conflict"} =>
                            call[d].asked.request # NoRequest
                      /\ to[d] = "resolve" => RowsWith(call[d].asked.request) # {}
                      /\ to[d] \in {"list", "answered"} /\ call[d].asked.request # NoRequest =>
                            \E i \in DOMAIN ledger : SameRequest(ledger[i], call[d].asked)
    BY <1>1 DEF DecisionsAreOnFile, Outcome, RowsWith
  <2> QED BY DEF ReviewInv, DecisionsAreOnFile
<1>7. RefusalsMetARow'
  <2> SUFFICES ASSUME NEW d \in Call, to[d] = "conflict"
               PROVE  \E i \in RowsWith(call[d].asked.request) :
                         ~SameRequest(ledger[i], call[d].asked)
    BY <1>1 DEF RefusalsMetARow, Outcome, RowsWith
  <2> QED BY DEF ReviewInv, RefusalsMetARow
<1>8. RowsAreSelected'
  BY DEF ReviewInv, RowsAreSelected, RowsOf
<1>9. FloorsAreReached'
  BY <1>1, <1>2 DEF ReviewInv, FloorsAreReached, Outcome, RowsOf
<1>10. AnswersAreProjections'
  <2> SUFFICES ASSUME NEW d \in Call, to[d] = "answered"
               PROVE  LET trail == call[d].answer.trail
                          asked == call[d].asked
                      IN  /\ Extends(trail, RowsOf(asked.packet))
                          /\ call[d].answer = Projection(trail, PacketTime(trail, asked.at))
                          /\ call[d].floor <= Len(trail)
                          /\ asked.request # NoRequest =>
                                \E i \in DOMAIN trail : SameRequest(trail[i], asked)
    BY <1>1 DEF AnswersAreProjections, Outcome, RowsOf
  <2> QED BY <1>2 DEF ReviewInv, AnswersAreProjections
<1> QED
  BY <1>3, <1>4, <1>5, <1>6, <1>7, <1>8, <1>9, <1>10 DEF ReviewInv

\* A call comes in.
LEMMA ReceiveKeeps == ASSUME ReviewInv, NEW c \in Call, Receive(c) PROVE ReviewInv'
<1>1. PICK request \in RequestId \union {NoRequest}, decision \in Decision :
        call' = [call EXCEPT ![c] =
                   [pc |-> IF request = NoRequest THEN "list" ELSE "insert",
                    asked |-> [request |-> request, decision |-> decision, packet |-> packet,
                               at |-> now],
                    floor |-> Floor(packet), answer |-> NoAnswer]]
  BY DEF Receive
<1>2. ledger' = ledger /\ packet' = packet /\ now' = now /\ Outcome(c) = "idle"
  BY DEF Receive, Outcome
<1> DEFINE asked == [request |-> request, decision |-> decision, packet |-> packet, at |-> now]
           floor == Floor(packet)
           pc == IF request = NoRequest THEN "list" ELSE "insert"
<1>3. packet \in Packet /\ now \in Nat
  BY DEF ReviewInv, ReviewTypeOK
<1>4. floor \in Nat /\ floor <= Len(RowsOf(packet))
  BY <1>3, FloorIsReached
<1>5. asked \in Asked /\ asked.request = request /\ asked.packet = packet
  BY <1>3 DEF Asked
<1> HIDE DEF asked, floor
<1>6. /\ call'[c].pc = pc /\ call'[c].asked = asked /\ call'[c].floor = floor
      /\ \A d \in Call \ {c} : call'[d] = call[d]
      /\ call' \in [Call -> [pc : Pc, asked : Asked \union {NoAnswer}, floor : Nat,
                            answer : Review \union {NoAnswer}]]
  <2>1. call \in [Call -> [pc : Pc, asked : Asked \union {NoAnswer}, floor : Nat,
                          answer : Review \union {NoAnswer}]]
    BY DEF ReviewInv, ReviewTypeOK
  <2>2. call' = [call EXCEPT ![c] = [pc |-> pc, asked |-> asked, floor |-> floor,
                                     answer |-> NoAnswer]]
    BY <1>1 DEF asked, floor
  <2>3. pc \in Pc
    BY DEF Pc
  <2> QED BY <1>4, <1>5, <2>1, <2>2, <2>3
<1>7. pc # "idle" /\ pc \notin {"resolve", "answered", "conflict"}
      /\ (pc = "list" => request = NoRequest) /\ (pc = "insert" => request # NoRequest)
  OBVIOUS
<1> HIDE DEF pc
<1>8. ReviewTypeOK'
  BY <1>2, <1>3, <1>5, <1>6, <1>7 DEF ReviewInv, ReviewTypeOK, Outcome
<1>9. OneRowPerRequest'
  BY <1>2 DEF ReviewInv, OneRowPerRequest
<1>10. RowsWereAsked'
  <2> SUFFICES ASSUME NEW i \in DOMAIN ledger
               PROVE  \E d \in Call : call'[d].pc # "idle" /\ call'[d].asked = ledger[i]
    BY <1>2 DEF RowsWereAsked, Outcome
  <2>1. PICK d \in Call : Outcome(d) # "idle" /\ call[d].asked = ledger[i]
    BY DEF ReviewInv, RowsWereAsked
  <2> QED BY <1>2, <1>6, <2>1 DEF Outcome
<1>11. DecisionsAreOnFile'
  BY <1>2, <1>5, <1>6, <1>7 DEF ReviewInv, DecisionsAreOnFile, Outcome, RowsWith
<1>12. RefusalsMetARow'
  BY <1>2, <1>6, <1>7 DEF ReviewInv, RefusalsMetARow, Outcome, RowsWith
<1>13. RowsAreSelected'
  BY <1>2 DEF ReviewInv, RowsAreSelected, RowsOf
<1>14. FloorsAreReached'
  BY <1>2, <1>4, <1>5, <1>6 DEF ReviewInv, FloorsAreReached, Outcome, RowsOf
<1>15. AnswersAreProjections'
  BY <1>2, <1>6, <1>7 DEF ReviewInv, AnswersAreProjections, Outcome, RowsOf
<1> QED
  BY <1>8, <1>9, <1>10, <1>11, <1>12, <1>13, <1>14, <1>15 DEF ReviewInv

\* The insert of a new request id.
LEMMA InsertKeeps ==
    ASSUME ReviewInv, NEW c \in Call, Insert(c), RowsWith(call[c].asked.request) = {}
    PROVE  ReviewInv'
<1> DEFINE row == call[c].asked
           CallType == [pc : Pc, asked : Asked \union {NoAnswer}, floor : Nat,
                        answer : Review \union {NoAnswer}]
<1>1. /\ ledger' = Append(ledger, row) /\ call' = [call EXCEPT ![c].pc = "list"]
      /\ packet' = packet /\ now' = now /\ Outcome(c) = "insert"
  BY DEF Insert, Outcome
<1>2. row \in Asked /\ row \in Row /\ row.request # NoRequest
  <2>1. row \in Asked /\ row.request # NoRequest
    BY <1>1 DEF ReviewInv, ReviewTypeOK, DecisionsAreOnFile
  <2> QED BY <2>1 DEF Asked, Row
<1>3. call \in [Call -> CallType] /\ ledger \in Seq(Row)
  BY DEF ReviewInv, ReviewTypeOK
<1>4. /\ call' \in [Call -> CallType]
      /\ call'[c].pc = "list" /\ \A d \in Call \ {c} : call'[d] = call[d]
      /\ \A d \in Call : /\ call'[d].asked = call[d].asked /\ call'[d].floor = call[d].floor
                         /\ call'[d].answer = call[d].answer
  <2>1. "list" \in Pc
    BY DEF Pc
  <2> QED BY <1>1, <1>3, <2>1
<1> HIDE DEF CallType
<1>5. /\ Len(ledger) \in Nat /\ DOMAIN ledger = 1..Len(ledger)
      /\ ledger' \in Seq(Row) /\ DOMAIN ledger' = 1..Len(ledger) + 1
      /\ ledger'[Len(ledger) + 1] = row /\ \A i \in DOMAIN ledger : ledger'[i] = ledger[i]
  <2> HIDE DEF row
  <2> QED BY <1>1, <1>2, <1>3
<1>6. \A i \in DOMAIN ledger : i \in DOMAIN ledger' /\ ledger[i].request # row.request
  BY <1>5 DEF RowsWith
<1>7. \A i \in DOMAIN ledger' : i \in DOMAIN ledger \/ i = Len(ledger) + 1
  BY <1>5
<1>8. ASSUME NEW v \in Packet
      PROVE  /\ RowsIn(ledger, v) \in Seq(Row) /\ RowsIn(ledger', v) \in Seq(Row)
             /\ RowsIn(ledger', v) = IF row.packet = v THEN Append(RowsIn(ledger, v), row)
                                     ELSE RowsIn(ledger, v)
             /\ Extends(RowsIn(ledger, v), RowsIn(ledger', v))
             /\ row.packet = v => \E j \in DOMAIN RowsIn(ledger', v) : RowsIn(ledger', v)[j] = row
  <2> DEFINE rows == RowsIn(ledger, v)
             more == RowsIn(ledger', v)
  <2>1. rows \in Seq(Row)
    BY DEF ReviewInv, RowsAreSelected, RowsOf
  <2>2. more = IF row.packet = v THEN Append(rows, row) ELSE rows
    BY <1>1, <1>2, <1>3, SelectAppends
  <2> HIDE DEF rows, more, row
  <2>3. CASE row.packet = v
    <3>1. /\ more = Append(rows, row) /\ Len(rows) \in Nat /\ Len(more) = Len(rows) + 1
          /\ more \in Seq(Row) /\ more[Len(more)] = row /\ Len(more) \in DOMAIN more
          /\ \A i \in 1..Len(rows) : more[i] = rows[i]
      BY <1>2, <2>1, <2>2, <2>3
    <3> QED BY <2>1, <2>2, <2>3, <3>1 DEF Extends, rows, more
  <2>4. CASE row.packet # v
    <3>1. more = rows /\ Len(rows) \in Nat
      BY <2>1, <2>2, <2>4
    <3> QED BY <2>1, <2>2, <2>4, <3>1 DEF Extends, rows, more
  <2> QED BY <2>3, <2>4
<1> HIDE DEF row
<1>9. ReviewTypeOK'
  <2>1. call' \in [Call -> [pc : Pc, asked : Asked \union {NoAnswer}, floor : Nat,
                           answer : Review \union {NoAnswer}]]
    BY <1>4 DEF CallType
  <2> QED BY <1>1, <1>4, <1>5, <2>1 DEF ReviewInv, ReviewTypeOK, Outcome
<1>10. OneRowPerRequest'
  BY <1>5, <1>6, <1>7 DEF ReviewInv, OneRowPerRequest
<1>11. RowsWereAsked'
  <2> SUFFICES ASSUME NEW i \in DOMAIN ledger'
               PROVE  \E d \in Call : call'[d].pc # "idle" /\ call'[d].asked = ledger'[i]
    BY DEF RowsWereAsked, Outcome
  <2>1. CASE i \in DOMAIN ledger
    <3>1. PICK d \in Call : Outcome(d) # "idle" /\ call[d].asked = ledger[i]
      BY <2>1 DEF ReviewInv, RowsWereAsked
    <3>2. call'[d].pc # "idle"
      BY <1>4, <3>1 DEF Outcome
    <3> QED BY <1>4, <1>5, <2>1, <3>1, <3>2
  <2>2. CASE i = Len(ledger) + 1
    <3>1. call'[c].asked = ledger'[i] /\ call'[c].pc # "idle"
      BY <1>4, <1>5, <2>2 DEF row
    <3> QED BY <3>1
  <2> QED BY <1>7, <2>1, <2>2
<1>12. DecisionsAreOnFile'
  <2> SUFFICES ASSUME NEW d \in Call
               PROVE  /\ call'[d].pc \in {"insert", "resolve", "conflict"} =>
                            call[d].asked.request # NoRequest
                      /\ call'[d].pc = "resolve" =>
                            \E i \in DOMAIN ledger' : ledger'[i].request = call[d].asked.request
                      /\ call'[d].pc \in {"list", "answered"} /\ call[d].asked.request # NoRequest =>
                            \E i \in DOMAIN ledger' : SameRequest(ledger'[i], call[d].asked)
    BY <1>4 DEF DecisionsAreOnFile, Outcome, RowsWith
  <2>1. CASE d = c
    <3>1. SameRequest(ledger'[Len(ledger) + 1], call[d].asked)
      BY <1>5, <2>1 DEF SameRequest, row
    <3> QED BY <1>4, <1>5, <2>1, <3>1
  <2>2. CASE d # c
    <3>1. call'[d] = call[d]
      BY <1>4, <2>2
    <3> QED BY <1>5, <1>6, <3>1 DEF ReviewInv, DecisionsAreOnFile, Outcome, RowsWith
  <2> QED BY <2>1, <2>2
<1>13. RefusalsMetARow'
  <2> SUFFICES ASSUME NEW d \in Call, call'[d].pc = "conflict"
               PROVE  \E i \in DOMAIN ledger' : ledger'[i].request = call[d].asked.request
                                               /\ ~SameRequest(ledger'[i], call[d].asked)
    BY <1>4 DEF RefusalsMetARow, Outcome, RowsWith
  <2>1. d # c /\ Outcome(d) = "conflict"
    BY <1>4 DEF Outcome
  <2>2. PICK i \in DOMAIN ledger : ledger[i].request = call[d].asked.request
                                   /\ ~SameRequest(ledger[i], call[d].asked)
    BY <2>1 DEF ReviewInv, RefusalsMetARow, RowsWith
  <2> QED BY <1>5, <1>6, <2>2
<1>14. RowsAreSelected'
  <2> SUFFICES ASSUME NEW v \in Packet
               PROVE  /\ RowsIn(ledger', v) \in Seq(Row)
                      /\ \A i \in DOMAIN ledger' : ledger'[i].packet = v =>
                            \E j \in DOMAIN RowsIn(ledger', v) : RowsIn(ledger', v)[j] = ledger'[i]
    BY DEF RowsAreSelected, RowsOf
  <2>1. RowsIn(ledger', v) \in Seq(Row)
    BY <1>8
  <2>2. ASSUME NEW i \in DOMAIN ledger', ledger'[i].packet = v
        PROVE  \E j \in DOMAIN RowsIn(ledger', v) : RowsIn(ledger', v)[j] = ledger'[i]
    <3>1. CASE i \in DOMAIN ledger
      <4>1. PICK j \in DOMAIN RowsIn(ledger, v) : RowsIn(ledger, v)[j] = ledger[i]
        BY <1>5, <2>2, <3>1 DEF ReviewInv, RowsAreSelected, RowsOf
      <4>2. j \in DOMAIN RowsIn(ledger', v) /\ RowsIn(ledger', v)[j] = RowsIn(ledger, v)[j]
        BY <1>8, <4>1 DEF Extends
      <4> QED BY <1>5, <3>1, <4>1, <4>2
    <3>2. CASE i = Len(ledger) + 1
      BY <1>5, <1>8, <2>2, <3>2
    <3> QED BY <1>7, <3>1, <3>2
  <2> QED BY <2>1, <2>2
<1>15. FloorsAreReached'
  <2> SUFFICES ASSUME NEW d \in Call, call'[d].pc # "idle"
               PROVE  call[d].floor <= Len(RowsIn(ledger', call[d].asked.packet))
    BY <1>4 DEF FloorsAreReached, Outcome, RowsOf
  <2>1. Outcome(d) # "idle"
    BY <1>1, <1>4 DEF Outcome
  <2>2. PICK v \in Packet : v = call[d].asked.packet
    BY <2>1 DEF ReviewInv, ReviewTypeOK, Asked
  <2>3. call[d].floor <= Len(RowsIn(ledger, v)) /\ call[d].floor \in Nat
    BY <1>3, <2>1, <2>2 DEF ReviewInv, FloorsAreReached, RowsOf, CallType
  <2>4. Len(RowsIn(ledger, v)) <= Len(RowsIn(ledger', v))
        /\ Len(RowsIn(ledger, v)) \in Nat /\ Len(RowsIn(ledger', v)) \in Nat
    BY <1>8 DEF Extends
  <2>5. call[d].floor <= Len(RowsIn(ledger', v))
    BY <2>3, <2>4
  <2> QED BY <2>2, <2>5
<1>16. AnswersAreProjections'
  <2> SUFFICES ASSUME NEW d \in Call, call'[d].pc = "answered"
               PROVE  LET trail == call[d].answer.trail
                          asked == call[d].asked
                      IN  /\ Extends(trail, RowsIn(ledger', asked.packet))
                          /\ call[d].answer = Projection(trail, PacketTime(trail, asked.at))
                          /\ call[d].floor <= Len(trail)
                          /\ asked.request # NoRequest =>
                                \E i \in DOMAIN trail : SameRequest(trail[i], asked)
    BY <1>4 DEF AnswersAreProjections, Outcome, RowsOf
  <2>1. d # c /\ Outcome(d) = "answered"
    BY <1>4 DEF Outcome
  <2>2. PICK v \in Packet : v = call[d].asked.packet
    BY <2>1 DEF ReviewInv, ReviewTypeOK, Asked
  <2>3. call[d].answer.trail \in Seq(Row) /\ Extends(call[d].answer.trail, RowsIn(ledger, v))
    BY <2>1, <2>2 DEF ReviewInv, ReviewTypeOK, Review, AnswersAreProjections, RowsOf
  <2>4. Extends(call[d].answer.trail, RowsIn(ledger', v))
    <3> DEFINE trail == call[d].answer.trail
               rows == RowsIn(ledger, v)
               more == RowsIn(ledger', v)
    <3>1. trail \in Seq(Row) /\ rows \in Seq(Row) /\ more \in Seq(Row)
          /\ Extends(trail, rows) /\ Extends(rows, more)
      BY <1>8, <2>3
    <3> HIDE DEF trail, rows, more
    <3>2. Extends(trail, more)
      BY <3>1 DEF Extends
    <3> QED BY <3>2 DEF trail, more
  <2> QED BY <2>1, <2>2, <2>4 DEF ReviewInv, AnswersAreProjections
<1> QED
  BY <1>9, <1>10, <1>11, <1>12, <1>13, <1>14, <1>15, <1>16 DEF ReviewInv

\* A call is answered with the projection of all its packet's rows.
LEMMA AnswerKeeps == ASSUME ReviewInv, NEW c \in Call, Answer(c) PROVE ReviewInv'
<1> DEFINE asked == call[c].asked
           rows == RowsOf(asked.packet)
           answer == Projection(rows, PacketTime(rows, asked.at))
           CallType == [pc : Pc, asked : Asked \union {NoAnswer}, floor : Nat,
                        answer : Review \union {NoAnswer}]
<1>1. /\ ledger' = ledger /\ packet' = packet /\ now' = now /\ Outcome(c) = "list"
      /\ call' = [call EXCEPT ![c].pc = "answered", ![c].answer = State(rows, asked.at)]
  BY DEF Answer, Outcome
<1>2. call \in [Call -> CallType] /\ asked \in Asked /\ asked.packet \in Packet /\ asked.at \in Nat
  BY <1>1 DEF ReviewInv, ReviewTypeOK, Asked
<1>3. rows \in Seq(Row)
  BY <1>2 DEF ReviewInv, RowsAreSelected
<1>4. State(rows, asked.at) = answer
  BY <1>3, StateIs
<1>5. answer \in Review /\ answer.trail = rows
  <2> HIDE DEF rows, asked
  <2>1. rows # <<>> => Last(rows) \in Row /\ rows[1] \in Row
    BY <1>3 DEF Last
  <2>2. PacketTime(rows, asked.at) \in Nat
    BY <1>2, <2>1 DEF PacketTime, Row
  <2>3. (IF rows = <<>> THEN "needs-changes" ELSE Last(rows).decision) \in Decision
    BY <2>1 DEF Row, Decision
  <2>4. Approved(rows) \in BOOLEAN
    BY DEF Approved
  <2> QED BY <1>3, <2>2, <2>3, <2>4 DEF Projection, Review
<1>6. /\ call' \in [Call -> CallType]
      /\ call'[c].pc = "answered" /\ call'[c].answer = answer
      /\ \A d \in Call \ {c} : call'[d] = call[d]
      /\ \A d \in Call : call'[d].asked = call[d].asked /\ call'[d].floor = call[d].floor
  <2>1. "answered" \in Pc
    BY DEF Pc
  <2>2. call' = [call EXCEPT ![c].pc = "answered", ![c].answer = answer]
    BY <1>1, <1>4
  <2> HIDE DEF answer
  <2> QED BY <1>2, <1>5, <2>1, <2>2
<1> HIDE DEF CallType
<1>7. ReviewTypeOK'
  <2>1. call' \in [Call -> [pc : Pc, asked : Asked \union {NoAnswer}, floor : Nat,
                           answer : Review \union {NoAnswer}]]
    BY <1>6 DEF CallType
  <2> HIDE DEF answer
  <2> QED BY <1>1, <1>5, <1>6, <2>1 DEF ReviewInv, ReviewTypeOK, Outcome
<1>8. OneRowPerRequest'
  BY <1>1 DEF ReviewInv, OneRowPerRequest
<1>9. RowsWereAsked'
  <2> SUFFICES ASSUME NEW i \in DOMAIN ledger
               PROVE  \E d \in Call : call'[d].pc # "idle" /\ call'[d].asked = ledger[i]
    BY <1>1 DEF RowsWereAsked, Outcome
  <2>1. PICK d \in Call : Outcome(d) # "idle" /\ call[d].asked = ledger[i]
    BY DEF ReviewInv, RowsWereAsked
  <2> QED BY <1>6, <2>1 DEF Outcome
<1>10. DecisionsAreOnFile'
  <2> HIDE DEF answer
  <2> QED BY <1>1, <1>6 DEF ReviewInv, DecisionsAreOnFile, Outcome, RowsWith
<1>11. RefusalsMetARow'
  BY <1>1, <1>6 DEF ReviewInv, RefusalsMetARow, Outcome, RowsWith
<1>12. RowsAreSelected'
  BY <1>1 DEF ReviewInv, RowsAreSelected, RowsOf
<1>13. FloorsAreReached'
  BY <1>1, <1>6 DEF ReviewInv, FloorsAreReached, Outcome, RowsOf
<1>14. AnswersAreProjections'
  <2> SUFFICES ASSUME NEW d \in Call, call'[d].pc = "answered"
               PROVE  LET trail == call'[d].answer.trail
                      IN  /\ Extends(trail, RowsOf(call[d].asked.packet))
                          /\ call'[d].answer = Projection(trail, PacketTime(trail, call[d].asked.at))
                          /\ call[d].floor <= Len(trail)
                          /\ call[d].asked.request # NoRequest =>
                                \E i \in DOMAIN trail : SameRequest(trail[i], call[d].asked)
    BY <1>1, <1>6 DEF AnswersAreProjections, Outcome, RowsOf
  <2>1. CASE d = c
    <3>1. Extends(rows, rows)
      <4> HIDE DEF rows
      <4> QED BY <1>3 DEF Extends
    <3>2. call[c].floor <= Len(rows)
      BY <1>1 DEF ReviewInv, FloorsAreReached
    <3>3. asked.request # NoRequest => \E j \in DOMAIN rows : SameRequest(rows[j], asked)
      <4> SUFFICES ASSUME asked.request # NoRequest
                   PROVE  \E j \in DOMAIN rows : SameRequest(rows[j], asked)
        OBVIOUS
      <4>1. PICK i \in DOMAIN ledger : SameRequest(ledger[i], asked)
        BY <1>1 DEF ReviewInv, DecisionsAreOnFile
      <4>2. \E j \in DOMAIN rows : rows[j] = ledger[i]
        BY <1>2, <4>1 DEF ReviewInv, RowsAreSelected, SameRequest
      <4> QED BY <4>1, <4>2
    <3> QED BY <1>5, <1>6, <2>1, <3>1, <3>2, <3>3
  <2>2. CASE d # c
    <3>1. call'[d] = call[d] /\ Outcome(d) = "answered"
      BY <1>6, <2>2 DEF Outcome
    <3> QED BY <3>1 DEF ReviewInv, AnswersAreProjections
  <2> QED BY <2>1, <2>2
<1> QED
  BY <1>7, <1>8, <1>9, <1>10, <1>11, <1>12, <1>13, <1>14 DEF ReviewInv

\* The empty ledger.
LEMMA InitReview == Init => ReviewInv
<1> SUFFICES ASSUME Init PROVE ReviewInv
  OBVIOUS
<1>1. /\ ledger = <<>> /\ packet \in Packet /\ now \in Nat
      /\ \A c \in Call : call[c].pc = "idle"
  BY DEF Init, Idle
<1>2. call \in [Call -> [pc : Pc, asked : Asked \union {NoAnswer}, floor : Nat,
                        answer : Review \union {NoAnswer}]]
  BY DEF Init, Idle, Pc
<1>3. DOMAIN ledger = {} /\ ledger \in Seq(Row)
  BY <1>1
<1>4. ReviewTypeOK
  BY <1>1, <1>2, <1>3 DEF ReviewTypeOK, Outcome
<1>5. OneRowPerRequest /\ RowsWereAsked
  BY <1>3 DEF OneRowPerRequest, RowsWereAsked
<1>6. DecisionsAreOnFile /\ RefusalsMetARow /\ FloorsAreReached /\ AnswersAreProjections
  BY <1>1 DEF DecisionsAreOnFile, RefusalsMetARow, FloorsAreReached, AnswersAreProjections, Outcome
<1>7. RowsAreSelected
  <2>1. \A v : RowsOf(v) = <<>>
    BY <1>1, SelectNothing DEF RowsOf
  <2>2. <<>> \in Seq(Row)
    OBVIOUS
  <2> QED BY <1>3, <2>1, <2>2 DEF RowsAreSelected
<1> QED BY <1>4, <1>5, <1>6, <1>7 DEF ReviewInv

\* Every step keeps the invariant.
LEMMA NextReview == ReviewInv /\ [Next]_vars => ReviewInv'
<1> SUFFICES ASSUME ReviewInv, [Next]_vars PROVE ReviewInv'
  OBVIOUS
<1> DEFINE CallType == [pc : Pc, asked : Asked \union {NoAnswer}, floor : Nat,
                        answer : Review \union {NoAnswer}]
           Moved(to) == [d \in Call |-> [call[d] EXCEPT !.pc = to[d]]]
<1>1. /\ call \in [Call -> CallType] /\ packet \in Packet /\ now \in Nat
      /\ \A d \in Call : Outcome(d) \in Pc
  BY DEF ReviewInv, ReviewTypeOK, Outcome
\* One call moves to p,
<1>2. ASSUME NEW c \in Call, NEW p \in Pc, call' = [call EXCEPT ![c].pc = p]
      PROVE  /\ [d \in Call |-> IF d = c THEN p ELSE Outcome(d)] \in [Call -> Pc]
             /\ call' = Moved([d \in Call |-> IF d = c THEN p ELSE Outcome(d)])
  <2>1. ASSUME NEW d \in Call
        PROVE  call'[d] = [call[d] EXCEPT !.pc = IF d = c THEN p ELSE Outcome(d)]
    <3>1. call[d] \in CallType
      BY <1>1
    <3>2. call'[d] = IF d = c THEN [call[d] EXCEPT !.pc = p] ELSE call[d]
      BY <1>1, <1>2
    <3>3. call[d] = [call[d] EXCEPT !.pc = Outcome(d)]
      BY <3>1 DEF Outcome
    <3> QED BY <3>2, <3>3
  <2>2. call' = [d \in Call |-> call'[d]]
    BY <1>1, <1>2
  <2> QED BY <1>1, <2>1, <2>2
\* or all stand where they stood.
<1>3. ASSUME call' = call
      PROVE  /\ [d \in Call |-> Outcome(d)] \in [Call -> Pc]
             /\ call' = Moved([d \in Call |-> Outcome(d)])
  <2>1. ASSUME NEW d \in Call PROVE call[d] = [call[d] EXCEPT !.pc = Outcome(d)]
    <3>1. call[d] \in CallType
      BY <1>1
    <3> QED BY <3>1 DEF Outcome
  <2> QED BY <1>1, <1>3, <2>1
<1>4. ASSUME NEW c \in Call, Receive(c) PROVE ReviewInv'
  BY <1>4, ReceiveKeeps
<1>5. ASSUME NEW c \in Call, Insert(c) PROVE ReviewInv'
  <2>1. CASE RowsWith(call[c].asked.request) = {}
    BY <1>5, <2>1, InsertKeeps
  <2>2. CASE RowsWith(call[c].asked.request) # {}
    <3>1. /\ ledger' = ledger /\ packet' = packet /\ now' = now
          /\ Outcome(c) = "insert" /\ call' = [call EXCEPT ![c].pc = "resolve"]
      BY <1>5, <2>2 DEF Insert, Outcome
    <3> DEFINE to == [d \in Call |-> IF d = c THEN "resolve" ELSE Outcome(d)]
    <3>2. to \in [Call -> Pc] /\ call' = Moved(to)
      BY <1>2, <3>1, "resolve" \in Pc DEF Pc
    <3>3. \A d \in Call : \/ to[d] = Outcome(d)
                          \/ /\ Outcome(d) = "insert" /\ to[d] = "resolve"
                             /\ RowsWith(call[d].asked.request) # {}
      BY <2>2, <3>1
    <3> HIDE DEF to
    <3> QED BY <1>1, <3>1, <3>2, <3>3, CallsMove
  <2> QED BY <2>1, <2>2
<1>6. ASSUME NEW c \in Call, Resolve(c) PROVE ReviewInv'
  <2> DEFINE n == CHOOSE i \in RowsWith(call[c].asked.request) : TRUE
             p == IF SameRequest(ledger[n], call[c].asked) THEN "list" ELSE "conflict"
             to == [d \in Call |-> IF d = c THEN p ELSE Outcome(d)]
  <2>1. /\ ledger' = ledger /\ packet' = packet /\ now' = now /\ Outcome(c) = "resolve"
        /\ call' = [call EXCEPT ![c].pc = p]
    BY <1>6 DEF Resolve, Outcome
  <2>2. n \in RowsWith(call[c].asked.request) /\ n \in DOMAIN ledger
    BY <2>1 DEF ReviewInv, DecisionsAreOnFile, RowsWith
  <2>3. p \in Pc
    BY DEF Pc
  <2>4. to \in [Call -> Pc] /\ call' = Moved(to)
    BY <1>2, <2>1, <2>3
  <2> HIDE DEF n
  <2>5. \A d \in Call :
           \/ to[d] = Outcome(d)
           \/ /\ Outcome(d) = "resolve" /\ to[d] = "list"
              /\ \E i \in DOMAIN ledger : SameRequest(ledger[i], call[d].asked)
           \/ /\ Outcome(d) = "resolve" /\ to[d] = "conflict"
              /\ \E i \in RowsWith(call[d].asked.request) : ~SameRequest(ledger[i], call[d].asked)
    BY <2>1, <2>2
  <2> HIDE DEF to, p
  <2> QED BY <1>1, <2>1, <2>4, <2>5, CallsMove
<1>7. ASSUME NEW c \in Call, Answer(c) PROVE ReviewInv'
  BY <1>7, AnswerKeeps
<1>8. ASSUME NEW c \in Call, StoreFails(c) PROVE ReviewInv'
  <2> DEFINE to == [d \in Call |-> IF d = c THEN "unavailable" ELSE Outcome(d)]
  <2>1. /\ ledger' = ledger /\ packet' = packet /\ now' = now
        /\ Outcome(c) \in {"insert", "resolve", "list"}
        /\ call' = [call EXCEPT ![c].pc = "unavailable"]
    BY <1>8 DEF StoreFails, Outcome
  <2>2. to \in [Call -> Pc] /\ call' = Moved(to)
    BY <1>2, <2>1, "unavailable" \in Pc DEF Pc
  <2>3. \A d \in Call :
           \/ to[d] = Outcome(d)
           \/ Outcome(d) \in {"insert", "resolve", "list"} /\ to[d] \in {"lost", "unavailable"}
    BY <2>1
  <2> HIDE DEF to
  <2> QED BY <1>1, <2>1, <2>2, <2>3, CallsMove
<1>9. ASSUME Restart PROVE ReviewInv'
  <2> DEFINE to == [d \in Call |-> IF Outcome(d) \in {"insert", "resolve", "list"} THEN "lost"
                                   ELSE Outcome(d)]
  <2>1. /\ ledger' = ledger /\ packet' \in Packet /\ now' = now
        /\ call' = [d \in Call |-> IF Outcome(d) \in {"insert", "resolve", "list"}
                                   THEN [call[d] EXCEPT !.pc = "lost"] ELSE call[d]]
    BY <1>9 DEF Restart, Outcome
  <2>2. to \in [Call -> Pc]
    BY <1>1, "lost" \in Pc DEF Pc
  <2>3. call' = Moved(to)
    <3>1. ASSUME NEW d \in Call
          PROVE  (IF Outcome(d) \in {"insert", "resolve", "list"}
                  THEN [call[d] EXCEPT !.pc = "lost"] ELSE call[d])
                    = [call[d] EXCEPT !.pc = to[d]]
      <4>1. call[d] \in CallType
        BY <1>1
      <4>2. call[d] = [call[d] EXCEPT !.pc = Outcome(d)]
        BY <4>1 DEF Outcome
      <4> QED BY <4>2
    <3> QED BY <2>1, <3>1
  <2>4. \A d \in Call :
           \/ to[d] = Outcome(d)
           \/ Outcome(d) \in {"insert", "resolve", "list"} /\ to[d] \in {"lost", "unavailable"}
    OBVIOUS
  <2> HIDE DEF to
  <2> QED BY <1>1, <2>1, <2>2, <2>3, <2>4, CallsMove
<1>10. ASSUME call' = call, ledger' = ledger, packet' = packet, now' \in Nat PROVE ReviewInv'
  <2> DEFINE to == [d \in Call |-> Outcome(d)]
  <2>1. to \in [Call -> Pc] /\ call' = Moved(to)
    BY <1>3, <1>10
  <2>2. \A d \in Call : to[d] = Outcome(d)
    OBVIOUS
  <2> HIDE DEF to
  <2> QED BY <1>1, <1>10, <2>1, <2>2, CallsMove
<1>11. ASSUME Tick PROVE ReviewInv'
  BY <1>1, <1>10, <1>11 DEF Tick
<1>12. ASSUME UNCHANGED vars PROVE ReviewInv'
  BY <1>1, <1>10, <1>12 DEF vars
<1> QED
  BY <1>4, <1>5, <1>6, <1>7, <1>8, <1>9, <1>11, <1>12 DEF Next

\* So it always holds.
LEMMA ReviewHolds == Spec => []ReviewInv
<1> QED BY InitReview, NextReview, PTL DEF Spec

---------------------------------------------------------------------------
(* Part 3: the theorems                                                    *)

(***************************************************************************)
(* POST /api/evidence-packet/review is idempotent in the request id, with  *)
(* any number of threads, retries, lost answers and restarts: an answered  *)
(* decision has exactly one row, and its caller sees it in the trail.      *)
(***************************************************************************)
THEOREM DecisionsAreRecordedOnce == Spec => []AnsweredDecisionIsRecordedOnce
<1>1. ReviewInv => AnsweredDecisionIsRecordedOnce
  <2> SUFFICES ASSUME ReviewInv, NEW c \in Call,
                      Outcome(c) = "answered", call[c].asked.request # NoRequest
               PROVE  /\ Cardinality(RowsWith(call[c].asked.request)) = 1
                      /\ \E i \in DOMAIN call[c].answer.trail :
                            SameRequest(call[c].answer.trail[i], call[c].asked)
    BY DEF AnsweredDecisionIsRecordedOnce
  <2>1. PICK i \in DOMAIN ledger : SameRequest(ledger[i], call[c].asked)
    BY DEF ReviewInv, DecisionsAreOnFile
  <2>2. RowsWith(call[c].asked.request) = {i}
    BY <2>1 DEF ReviewInv, OneRowPerRequest, RowsWith, SameRequest
  <2>3. Cardinality({i}) = 1
    BY FS_Singleton
  <2>4. \E j \in DOMAIN call[c].answer.trail :
            SameRequest(call[c].answer.trail[j], call[c].asked)
    BY DEF ReviewInv, AnswersAreProjections
  <2> QED BY <2>2, <2>3, <2>4
<1> QED BY <1>1, ReviewHolds, PTL

(***************************************************************************)
(* _resolve_integrity_conflict() refuses no retry: behind every 409 is     *)
(* another call with the same request id and another decision or packet,   *)
(* whose row is in the table.                                              *)
(***************************************************************************)
THEOREM RefusalsAreContradictions == Spec => []ConflictsAreContradictions
<1>1. ReviewInv => ConflictsAreContradictions
  <2> SUFFICES ASSUME ReviewInv, NEW c \in Call, Outcome(c) = "conflict"
               PROVE  \E d \in Call \ {c} : Contradicts(c, d)
                        /\ \E i \in RowsWith(call[c].asked.request) :
                              SameRequest(ledger[i], call[d].asked)
    BY DEF ConflictsAreContradictions
  <2>1. PICK i \in RowsWith(call[c].asked.request) : ~SameRequest(ledger[i], call[c].asked)
    BY DEF ReviewInv, RefusalsMetARow
  <2>2. i \in DOMAIN ledger /\ ledger[i].request = call[c].asked.request
    BY DEF RowsWith
  <2>3. PICK d \in Call : Outcome(d) # "idle" /\ call[d].asked = ledger[i]
    BY <2>2 DEF ReviewInv, RowsWereAsked
  <2>4. d # c
    BY <2>1, <2>3 DEF SameRequest
  <2>5. Contradicts(c, d)
    BY <2>1, <2>2, <2>3 DEF Contradicts, SameRequest
  <2>6. SameRequest(ledger[i], call[d].asked)
    BY <2>3 DEF SameRequest
  <2> QED BY <2>4, <2>5, <2>6
<1> QED BY <1>1, ReviewHolds, PTL

\* Two beginnings of one sequence, the shorter first.
LEMMA ShorterIsPrefix ==
    ASSUME NEW s \in Seq(Row), NEW t \in Seq(Row), NEW rows \in Seq(Row),
           Extends(s, rows), Extends(t, rows), Len(s) <= Len(t)
    PROVE  IsPrefix(s, t) /\ \A i \in 1..Len(s) : s[i] = t[i]
<1>1. Len(s) \in Nat /\ Len(t) \in Nat /\ \A i \in 1..Len(s) : s[i] = t[i]
  BY DEF Extends
<1>2. SubSeq(s, 1, Len(s)) = SubSeq(t, 1, Len(s))
  BY <1>1
<1> QED BY <1>1, <1>2 DEF IsPrefix

(***************************************************************************)
(* However the calls interleave with each other and with restarts, the     *)
(* reviews they return are views of one history that never runs backwards. *)
(***************************************************************************)
THEOREM OneHistory == Spec => []TrailsAgree
<1>1. ReviewInv => TrailsAgree
  <2> SUFFICES ASSUME ReviewInv, NEW c \in Call, Outcome(c) = "answered"
               PROVE  /\ Len(call[c].answer.trail) >= call[c].floor
                      /\ \A d \in Call :
                            Outcome(d) = "answered" /\ call[d].asked.packet = call[c].asked.packet =>
                               \/ IsPrefix(call[c].answer.trail, call[d].answer.trail)
                               \/ IsPrefix(call[d].answer.trail, call[c].answer.trail)
    BY DEF TrailsAgree
  <2>1. \A d \in Call : Outcome(d) = "answered" =>
            /\ call[d].answer.trail \in Seq(Row) /\ call[d].asked.packet \in Packet
            /\ Extends(call[d].answer.trail, RowsOf(call[d].asked.packet))
            /\ call[d].floor <= Len(call[d].answer.trail) /\ call[d].floor \in Nat
    BY DEF ReviewInv, ReviewTypeOK, Review, Asked, AnswersAreProjections
  <2>2. RowsOf(call[c].asked.packet) \in Seq(Row)
    BY <2>1 DEF ReviewInv, RowsAreSelected
  <2>3. ASSUME NEW d \in Call, Outcome(d) = "answered",
               call[d].asked.packet = call[c].asked.packet
        PROVE  \/ IsPrefix(call[c].answer.trail, call[d].answer.trail)
               \/ IsPrefix(call[d].answer.trail, call[c].answer.trail)
    <3> DEFINE s == call[c].answer.trail
               t == call[d].answer.trail
               rows == RowsOf(call[c].asked.packet)
    <3>1. s \in Seq(Row) /\ t \in Seq(Row) /\ rows \in Seq(Row)
          /\ Extends(s, rows) /\ Extends(t, rows)
      BY <2>1, <2>2, <2>3
    <3> HIDE DEF s, t, rows
    <3>2. Len(s) <= Len(t) \/ Len(t) <= Len(s)
      BY <3>1
    <3>3. IsPrefix(s, t) \/ IsPrefix(t, s)
      BY <3>1, <3>2, ShorterIsPrefix
    <3> QED BY <3>3 DEF s, t
  <2>4. call[c].floor \in Nat /\ Len(call[c].answer.trail) \in Nat
        /\ call[c].floor <= Len(call[c].answer.trail)
    BY <2>1
  <2> QED BY <2>3, <2>4
<1> QED BY <1>1, ReviewHolds, PTL

\* The base checklist has blockers, the approved one has none.
LEMMA BlockersOf == Blockers(AllPassed) = 0 /\ Blockers(BaseChecklist) # 0
<1>1. {i \in DOMAIN AllPassed : AllPassed[i] = "blocked"} = {}
  BY DEF AllPassed
<1>2. {i \in DOMAIN BaseChecklist : BaseChecklist[i] = "blocked"} = {"customer", "disposal"}
  BY DEF BaseChecklist
<1>3. Cardinality({"customer", "disposal"}) # 0
  <2>1. IsFiniteSet({"customer"}) /\ {"customer", "disposal"} = {"customer"} \union {"disposal"}
    BY FS_Singleton
  <2>2. IsFiniteSet({"customer", "disposal"})
    BY <2>1, FS_AddElement
  <2> QED BY <2>2, FS_EmptySet
<1> QED BY <1>1, <1>2, <1>3, FS_EmptySet DEF Blockers

(***************************************************************************)
(* The projection reports a packet as ready exactly when its last decision *)
(* approves it, and that is exactly when no item blocks it.                *)
(***************************************************************************)
THEOREM ReadyNeedsApproval == Spec => []ReadyMeansApproved
<1>1. ReviewInv => ReadyMeansApproved
  <2> SUFFICES ASSUME ReviewInv, NEW c \in Call, Outcome(c) = "answered"
               PROVE  LET answer == call[c].answer
                      IN  /\ answer.ready = (answer.trail # <<>>
                                             /\ Last(answer.trail).decision = "approved")
                          /\ answer.ready = (Blockers(answer.checklist) = 0)
    BY DEF ReadyMeansApproved
  <2> DEFINE answer == call[c].answer
             trail == answer.trail
  <2>1. answer = Projection(trail, PacketTime(trail, call[c].asked.at))
    BY DEF ReviewInv, AnswersAreProjections
  <2> HIDE DEF trail
  <2>2. answer.ready = Approved(trail)
        /\ answer.checklist = IF Approved(trail) THEN AllPassed ELSE BaseChecklist
    BY <2>1 DEF Projection
  <2> HIDE DEF answer
  <2>3. Approved(trail) \in BOOLEAN
    BY DEF Approved
  <2>4. answer.ready = (Blockers(answer.checklist) = 0)
    BY <2>2, <2>3, BlockersOf
  <2>5. answer.ready = (trail # <<>> /\ Last(trail).decision = "approved")
    BY <2>2 DEF Approved
  <2> QED BY <2>4, <2>5 DEF answer, trail
<1> QED BY <1>1, ReviewHolds, PTL

(***************************************************************************)
(* The audit events of a decided packet carry one time, whichever process  *)
(* built the packet that is asked about: that of its first decision.       *)
(***************************************************************************)
THEOREM AuditTimeIsStable == Spec => []PacketTimeStable
<1>1. ReviewInv => PacketTimeStable
  <2> SUFFICES ASSUME ReviewInv, NEW c \in Call, NEW d \in Call,
                      Outcome(c) = "answered", Outcome(d) = "answered",
                      call[c].asked.packet = call[d].asked.packet,
                      call[c].answer.trail # <<>>, call[d].answer.trail # <<>>
               PROVE  call[c].answer.generated = call[d].answer.generated
    BY DEF PacketTimeStable
  <2>1. ASSUME NEW e \in Call, Outcome(e) = "answered", call[e].answer.trail # <<>>
        PROVE  call[e].answer.generated = RowsOf(call[e].asked.packet)[1].at
    <3> DEFINE answer == call[e].answer
               trail == answer.trail
               rows == RowsOf(call[e].asked.packet)
    <3>1. trail \in Seq(Row)
      BY <2>1 DEF ReviewInv, ReviewTypeOK, Review
    <3>2. Extends(trail, rows) /\ answer = Projection(trail, PacketTime(trail, call[e].asked.at))
      BY <2>1 DEF ReviewInv, AnswersAreProjections
    <3>3. trail # <<>>
      BY <2>1
    <3> HIDE DEF trail, rows
    <3>4. 1 \in 1..Len(trail)
      BY <3>1, <3>3
    <3>5. rows[1] = trail[1]
      BY <3>2, <3>4 DEF Extends
    <3>6. answer.generated = trail[1].at
      BY <3>2, <3>3 DEF Projection, PacketTime
    <3> QED BY <3>5, <3>6 DEF rows
  <2> QED BY <2>1
<1> QED BY <1>1, ReviewHolds, PTL
=============================================================================
