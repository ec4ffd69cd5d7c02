------------------------ MODULE MemoryStoreProofs ------------------------
(***************************************************************************)
(* Proofs about the stores and the agents' memory, for every set of keys,  *)
(* texts and confidences and any number of calls, faults and crashes.      *)
(*                                                                         *)
(* Part 1: a step leaves a row of the file as it is or upserts one         *)
(* observation (FileStep), and an upsert only grows a record               *)
(* (UpsertedGrows): what was answered is durable.                          *)
(* Part 2: each record summarises the observations its repository has      *)
(* taken (SummaryInv).                                                     *)
(* Part 3: whatever is left of a script makes its file current             *)
(* (SchemaInv), so that no other file is taken for a current one.          *)
(***************************************************************************)
EXTENDS MemoryStore, FiniteSetTheorems, TLAPS

(***************************************************************************)
(* Part 1: the file's records only grow.                                   *)
(***************************************************************************)

Row == Record \union {NoRecord}

Histories == Seq([observation : Observation, time : Nat])

MemoryInv == MemoryTypeOK /\ AnsweredIsOnFile

\* A record is not the absence of one.
LEMMA RecordIsThere ==
    ASSUME NEW e \in Record
    PROVE  e # NoRecord
  BY DEF Record, NoRecord

\* An upsert counts one occurrence, and neither lowers the confidence nor
\* moves the first sight.
LEMMA UpsertedGrows ==
    ASSUME NEW e \in Row, NEW o \in Observation, clock \in Nat
    PROVE  /\ Upserted(e, o) \in Record
           /\ Upserted(e, o).occurrences = e.occurrences + 1
           /\ e # NoRecord => /\ Upserted(e, o).confidence >= e.confidence
                              /\ Upserted(e, o).first_seen = e.first_seen
<1> USE MemoryAssumption
<1>1. CASE e = NoRecord
  BY <1>1 DEF Upserted, Insert, NoRecord, Record, Observation
<1>2. CASE e # NoRecord
  <2>1. e \in Record
    BY <1>2 DEF Row
  <2>2. Upserted(e, o) = Update(e, o)
    BY <1>2 DEF Upserted
  <2>3. /\ Higher(e.confidence, o.confidence) \in Confidence
        /\ Higher(e.confidence, o.confidence) >= e.confidence
    <3>1. e.confidence \in Confidence /\ o.confidence \in Confidence
      BY <2>1 DEF Record, Observation
    <3>2. e.confidence \in Nat /\ o.confidence \in Nat
      BY <3>1
    <3> QED
      BY <3>1, <3>2 DEF Higher
  <2>4. e.occurrences + 1 \in Nat \ {0} /\ e.first_seen \in Nat
    BY <2>1 DEF Record
  <2>5. (IF o.detail = NoDetail THEN e.detail ELSE o.detail) \in Text \union {NoDetail}
    BY <2>1 DEF Record, Observation
  <2>6. Update(e, o) \in Record
    BY <2>3, <2>4, <2>5 DEF Update, Record, Observation
  <2>7. /\ Update(e, o).occurrences = e.occurrences + 1
        /\ Update(e, o).confidence = Higher(e.confidence, o.confidence)
        /\ Update(e, o).first_seen = e.first_seen
    BY DEF Update
  <2> QED
    BY <2>2, <2>3, <2>6, <2>7
<1> QED
  BY <1>1, <1>2

\* The rows of a repository stay rows when one of them is upserted.
LEMMA UpsertType ==
    ASSUME MemoryTypeOK, NEW r \in Repository, NEW o \in Observation
    PROVE  [records EXCEPT ![r][o.key] = Upserted(@, o)] \in [Repository -> [Key -> Row]]
<1>1. o.key \in Key
  BY DEF Observation
<1>2. records \in [Repository -> [Key -> Row]]
  BY DEF MemoryTypeOK, Row
<1>3. Upserted(records[r][o.key], o) \in Row
  <2>1. records[r][o.key] \in Row /\ clock \in Nat
    BY <1>1, <1>2 DEF MemoryTypeOK
  <2> QED
    BY <2>1, UpsertedGrows DEF Row
<1> QED
  BY <1>1, <1>2, <1>3

\* Taking an observation keeps the histories histories.
LEMMA KeptType ==
    ASSUME MemoryTypeOK, NEW r \in Repository, NEW o \in Observation
    PROVE  [kept EXCEPT ![r] = Append(@, [observation |-> o, time |-> clock])]
               \in [Repository -> Histories]
<1>1. [observation |-> o, time |-> clock] \in [observation : Observation, time : Nat]
  BY DEF MemoryTypeOK
<1>2. kept \in [Repository -> Histories]
  BY DEF MemoryTypeOK, Histories
<1>3. Append(kept[r], [observation |-> o, time |-> clock]) \in Histories
  <2>1. kept[r] \in Seq([observation : Observation, time : Nat])
    BY <1>2 DEF Histories
  <2> QED
    BY <1>1, <2>1 DEF Histories
<1> QED
  BY <1>2, <1>3

\* A process that stops leaves both repositories well formed, and the file's
\* records as given.
LEMMA ForgetType ==
    ASSUME NEW recs \in [Repository -> [Key -> Row]],
           NEW taken \in [Repository -> Histories],
           Forget(recs, taken)
    PROVE  /\ records' \in [Repository -> [Key -> Row]]
           /\ kept' \in [Repository -> Histories]
           /\ records'[OnFile] = recs[OnFile]
<1>1. NoRecords \in [Key -> Row]
  BY DEF NoRecords, Row
<1>2. <<>> \in Histories
  BY DEF Histories
<1>3. InCells \in Repository /\ OnFile \in Repository /\ OnFile # InCells
  BY DEF Repository, OnFile, InCells
<1>4. records' = [recs EXCEPT ![InCells] = NoRecords] /\ kept' = [taken EXCEPT ![InCells] = <<>>]
  BY DEF Forget
<1>5. records' \in [Repository -> [Key -> Row]] /\ records'[OnFile] = recs[OnFile]
  BY <1>1, <1>3, <1>4
<1>6. kept' \in [Repository -> Histories]
  BY <1>2, <1>3, <1>4
<1> QED
  BY <1>5, <1>6

\* What a step does to the file: every row stays as it is or is upserted, and
\* a call is answered only with its row upserted.
FileStep(k) ==
    \/ records'[OnFile][k] = records[OnFile][k] /\ answered'[k] = answered[k]
    \/ /\ \E o \in Observation : records'[OnFile][k] = Upserted(records[OnFile][k], o)
       /\ answered'[k] \in {answered[k], answered[k] + 1}

\* Upserting one row of one repository, seen from a row of the file.
LEMMA FileAfterUpsert ==
    ASSUME MemoryTypeOK, NEW r \in Repository, NEW o \in Observation, NEW k \in Key
    PROVE  [records EXCEPT ![r][o.key] = Upserted(@, o)][OnFile][k] =
               IF r = OnFile /\ k = o.key THEN Upserted(records[OnFile][k], o)
               ELSE records[OnFile][k]
<1>1. o.key \in Key
  BY DEF Observation
<1>2. records \in [Repository -> [Key -> Row]]
  BY DEF MemoryTypeOK, Row
<1> QED
  BY <1>1, <1>2 DEF Repository

\* The steps keep the types, and treat the file's rows as FileStep says.
LEMMA MemoryStep ==
    ASSUME MemoryTypeOK, [MemoryNext]_allVars
    PROVE  MemoryTypeOK' /\ \A k \in Key : FileStep(k)
<1>0. /\ records \in [Repository -> [Key -> Row]] /\ kept \in [Repository -> Histories]
      /\ answered \in [Key -> Nat] /\ clock \in Nat /\ calls \in Nat
  BY DEF MemoryTypeOK, Row, Histories
<1>t. ASSUME records' \in [Repository -> [Key -> Row]], kept' \in [Repository -> Histories],
             answered' \in [Key -> Nat], clock' \in Nat, calls' \in Nat
      PROVE  MemoryTypeOK'
  BY <1>t DEF MemoryTypeOK, Row, Histories
<1>f. OnFile \in Repository
  BY DEF Repository
<1>1. ASSUME NEW o \in Observation, Remember(o)
      PROVE  MemoryTypeOK' /\ \A k \in Key : FileStep(k)
  <2> DEFINE r == mode["memory"]
  <2>1. /\ r \in Repository /\ calls' = calls + 1 /\ clock' = clock
        /\ records' = [records EXCEPT ![r][o.key] = Upserted(@, o)]
        /\ kept' = [kept EXCEPT ![r] = Append(@, [observation |-> o, time |-> clock])]
        /\ answered' = IF r = OnFile THEN [answered EXCEPT ![o.key] = @ + 1] ELSE answered
    BY <1>1 DEF Remember, Call, Take, Answer
  <2> HIDE DEF r
  <2>2. o.key \in Key
    BY DEF Observation
  <2>3. records' \in [Repository -> [Key -> Row]] /\ kept' \in [Repository -> Histories]
    BY <2>1, UpsertType, KeptType
  <2>4. answered' \in [Key -> Nat] /\ calls' \in Nat
    BY <1>0, <2>1, <2>2
  <2>5. ASSUME NEW k \in Key
        PROVE  FileStep(k)
    <3>1. records'[OnFile][k] = IF r = OnFile /\ k = o.key
                                THEN Upserted(records[OnFile][k], o) ELSE records[OnFile][k]
      BY <2>1, FileAfterUpsert
    <3>2. answered'[k] = IF r = OnFile /\ k = o.key THEN answered[k] + 1 ELSE answered[k]
      BY <1>0, <2>1, <2>2
    <3> QED
      BY <3>1, <3>2 DEF FileStep
  <2> QED
    BY <1>0, <1>t, <2>1, <2>3, <2>4, <2>5
<1>2. ASSUME NEW o \in Observation, RememberRaises(o)
      PROVE  MemoryTypeOK' /\ \A k \in Key : FileStep(k)
  BY <1>0, <1>2, <1>t DEF RememberRaises, Call, FileStep
<1>3. ASSUME NEW o \in Observation, StopAfterCommit(o)
      PROVE  MemoryTypeOK' /\ \A k \in Key : FileStep(k)
  <2> DEFINE recs == [records EXCEPT ![OnFile][o.key] = Upserted(@, o)]
             taken == [kept EXCEPT ![OnFile] = Append(@, [observation |-> o, time |-> clock])]
  <2>1. Forget(recs, taken) /\ clock' = clock /\ answered' = answered /\ calls' = calls + 1
    BY <1>3 DEF StopAfterCommit, Call
  <2>2. recs \in [Repository -> [Key -> Row]] /\ taken \in [Repository -> Histories]
    BY <1>f, UpsertType, KeptType
  <2>3. \A k \in Key : recs[OnFile][k] = IF k = o.key THEN Upserted(records[OnFile][k], o)
                                         ELSE records[OnFile][k]
    BY <1>f, FileAfterUpsert
  <2> HIDE DEF recs, taken
  <2>4. /\ records' \in [Repository -> [Key -> Row]] /\ kept' \in [Repository -> Histories]
        /\ records'[OnFile] = recs[OnFile]
    BY <2>1, <2>2, ForgetType
  <2>5. \A k \in Key : FileStep(k)
    BY <2>1, <2>3, <2>4 DEF FileStep
  <2> QED
    BY <1>0, <1>t, <2>1, <2>4, <2>5
<1>4. CASE Stop
  <2>1. Forget(records, kept) /\ clock' = clock /\ answered' = answered /\ calls' = calls
    BY <1>4 DEF Stop
  <2>2. /\ records' \in [Repository -> [Key -> Row]] /\ kept' \in [Repository -> Histories]
        /\ records'[OnFile] = records[OnFile]
    BY <1>0, <2>1, ForgetType
  <2>3. \A k \in Key : FileStep(k)
    BY <2>1, <2>2 DEF FileStep
  <2> QED
    BY <1>0, <1>t, <2>1, <2>2, <2>3
<1>5. CASE Tick
  BY <1>0, <1>5, <1>t DEF Tick, FileStep
<1>6. CASE UNCHANGED memory
  BY <1>0, <1>6, <1>t DEF memory, FileStep
<1>7. OpenStores \/ UNCHANGED allVars => UNCHANGED memory
  BY DEF OpenStores, allVars
<1> QED
  BY <1>1, <1>2, <1>3, <1>4, <1>5, <1>6, <1>7 DEF MemoryNext

\* The invariant holds at the start and is kept by every step.
LEMMA MemoryHolds == MemorySpec => []MemoryInv
<1>1. MemoryInit => MemoryInv
  <2> SUFFICES ASSUME MemoryInit PROVE MemoryInv
    OBVIOUS
  <2>1. NoRecord \in Row /\ NoRecord.occurrences = 0
    BY DEF Row, NoRecord
  <2>2. \A r \in Repository : records[r] = NoRecords /\ kept[r] = <<>>
    BY DEF MemoryInit
  <2>3. MemoryTypeOK
    BY <2>1 DEF MemoryInit, MemoryTypeOK, NoRecords, Row
  <2>4. AnsweredIsOnFile
    BY <2>1, <2>2 DEF MemoryInit, AnsweredIsOnFile, NoRecords, Repository
  <2> QED
    BY <2>3, <2>4 DEF MemoryInv
<1>2. MemoryInv /\ [MemoryNext]_allVars => MemoryInv'
  <2> SUFFICES ASSUME MemoryInv, [MemoryNext]_allVars PROVE MemoryInv'
    OBVIOUS
  <2>1. MemoryTypeOK' /\ \A k \in Key : FileStep(k)
    BY MemoryStep DEF MemoryInv
  <2>2. ASSUME NEW k \in Key
        PROVE  records'[OnFile][k].occurrences >= answered'[k]
    <3>1. records[OnFile][k] \in Row /\ answered[k] \in Nat /\ clock \in Nat
      BY DEF MemoryInv, MemoryTypeOK, Row, Repository
    <3>2. records[OnFile][k].occurrences \in Nat
      BY <3>1 DEF Row, Record, NoRecord
    <3>3. records[OnFile][k].occurrences >= answered[k]
      BY DEF MemoryInv, AnsweredIsOnFile
    <3>4. CASE records'[OnFile][k] = records[OnFile][k] /\ answered'[k] = answered[k]
      BY <3>3, <3>4
    <3>5. CASE /\ \E o \in Observation : records'[OnFile][k] = Upserted(records[OnFile][k], o)
               /\ answered'[k] \in {answered[k], answered[k] + 1}
      <4>1. records'[OnFile][k].occurrences = records[OnFile][k].occurrences + 1
        BY <3>1, <3>5, UpsertedGrows
      <4> QED
        BY <3>1, <3>2, <3>3, <3>5, <4>1
    <3> QED
      BY <2>1, <3>4, <3>5 DEF FileStep
  <2> QED
    BY <2>1, <2>2 DEF MemoryInv, AnsweredIsOnFile
<1> QED
  BY <1>1, <1>2, PTL DEF MemorySpec

(***************************************************************************)
(* What remember() has answered from the file is counted in the file       *)
(* forever, for any number of errors, crashes and restarts.                *)
(***************************************************************************)
THEOREM AnswersAreDurable == MemorySpec => []AnsweredIsOnFile
<1>1. MemoryInv => AnsweredIsOnFile
  BY DEF MemoryInv
<1> QED
  BY <1>1, MemoryHolds, PTL

(***************************************************************************)
(* No step of remember(), of a crash or of a restart loses a record of the *)
(* file, lowers its confidence or its count, or moves its first sight.     *)
(***************************************************************************)
THEOREM MemoryOnlyGrows == MemorySpec => RecordsOnlyGrow
<1> DEFINE Grows ==
      \A k \in Key :
        LET old == records[OnFile][k]
            new == records'[OnFile][k] IN
        old # NoRecord =>
           /\ new # NoRecord
           /\ new.confidence >= old.confidence /\ new.occurrences >= old.occurrences
           /\ new.first_seen = old.first_seen
<1>1. MemoryInv /\ [MemoryNext]_allVars => [Grows]_allVars
  <2> SUFFICES ASSUME MemoryInv, [MemoryNext]_allVars, NEW k \in Key, records[OnFile][k] # NoRecord
               PROVE  /\ records'[OnFile][k] # NoRecord
                      /\ records'[OnFile][k].confidence >= records[OnFile][k].confidence
                      /\ records'[OnFile][k].occurrences >= records[OnFile][k].occurrences
                      /\ records'[OnFile][k].first_seen = records[OnFile][k].first_seen
    OBVIOUS
  <2>1. FileStep(k) /\ clock \in Nat
    BY MemoryStep DEF MemoryInv, MemoryTypeOK
  <2>2. records[OnFile][k] \in Record
    BY DEF MemoryInv, MemoryTypeOK, Repository
  <2>3. /\ records[OnFile][k].confidence \in Nat /\ records[OnFile][k].occurrences \in Nat
    BY <2>2, MemoryAssumption DEF Record
  <2>4. CASE records'[OnFile][k] = records[OnFile][k]
    BY <2>3, <2>4
  <2>5. ASSUME NEW o \in Observation, records'[OnFile][k] = Upserted(records[OnFile][k], o)
        PROVE  /\ records'[OnFile][k] # NoRecord
               /\ records'[OnFile][k].confidence >= records[OnFile][k].confidence
               /\ records'[OnFile][k].occurrences >= records[OnFile][k].occurrences
               /\ records'[OnFile][k].first_seen = records[OnFile][k].first_seen
    <3>1. records[OnFile][k] \in Row
      BY <2>2 DEF Row
    <3>2. /\ Upserted(records[OnFile][k], o) \in Record
          /\ Upserted(records[OnFile][k], o).occurrences = records[OnFile][k].occurrences + 1
          /\ Upserted(records[OnFile][k], o).confidence >= records[OnFile][k].confidence
          /\ Upserted(records[OnFile][k], o).first_seen = records[OnFile][k].first_seen
      BY <2>1, <3>1, UpsertedGrows
    <3> QED
      BY <2>3, <2>5, <3>2, RecordIsThere
  <2> QED
    BY <2>1, <2>4, <2>5 DEF FileStep
<1> QED
  BY <1>1, MemoryHolds, PTL DEF MemorySpec, RecordsOnlyGrow

(***************************************************************************)
(* Part 2: the upserts add up.                                             *)
(***************************************************************************)

\* Position i is the last of those, and position i the first.
IsLast(i, positions) == i \in positions /\ \A j \in positions : j <= i
IsFirst(i, positions) == i \in positions /\ \A j \in positions : i <= j

\* A confidence is the highest of those at the positions.
IsHighest(c, history, seen) ==
    /\ \E i \in seen : c = history[i].observation.confidence
    /\ \A i \in seen : history[i].observation.confidence <= c

Said(history, seen) == {i \in seen : history[i].observation.detail # NoDetail}

\* A record says what Summary does, without its choices.
Summarises(record, history, seen) ==
    \/ seen = {} /\ record = NoRecord
    \/ /\ record \in Record /\ record.occurrences = Cardinality(seen)
       /\ \E i \in seen : /\ IsLast(i, seen)
                          /\ record.value = history[i].observation.value
                          /\ record.last_seen = history[i].time
       /\ \E i \in seen : IsFirst(i, seen) /\ record.first_seen = history[i].time
       /\ IsHighest(record.confidence, history, seen)
       /\ \/ Said(history, seen) = {} /\ record.detail = NoDetail
          \/ \E i \in Said(history, seen) : /\ IsLast(i, Said(history, seen))
                                            /\ record.detail = history[i].observation.detail

SummaryInv ==
    /\ MemoryTypeOK
    /\ \A r \in Repository : \A k \in Key :
          Summarises(records[r][k], kept[r], Seen(kept[r], k))

\* The greatest number of a set.
LEMMA MaxIs ==
    ASSUME NEW S \in SUBSET Nat, NEW m \in S, \A j \in S : j <= m
    PROVE  Max(S) = m
<1>1. \A j \in S : m >= j
  OBVIOUS
<1>2. \A x \in S : (\A j \in S : x >= j) => x = m
  OBVIOUS
<1> QED BY <1>1, <1>2 DEF Max

\* And the least one.
LEMMA MinIs ==
    ASSUME NEW S \in SUBSET Nat, NEW m \in S, \A j \in S : m <= j
    PROVE  Min(S) = m
<1>1. \A x \in S : (\A j \in S : x <= j) => x = m
  OBVIOUS
<1> QED BY <1>1 DEF Min

\* A confidence that was taken is a number.
LEMMA ConfidenceIs ==
    ASSUME NEW history \in Histories, NEW i \in DOMAIN history
    PROVE  history[i].observation.confidence \in Nat
<1> DEFINE Entry == [observation : Observation, time : Nat]
<1>1. history[i] \in Entry
  <2>1. history \in Seq(Entry)
    BY DEF Histories
  <2> HIDE DEF Entry
  <2> QED BY <2>1
<1>2. history[i].observation \in Observation
  BY <1>1
<1>3. history[i].observation.confidence \in Confidence
  BY <1>2 DEF Observation
<1> QED BY <1>3, MemoryAssumption

\* Summarises determines the record.
LEMMA SummarisesIs ==
    ASSUME NEW history \in Histories, NEW record, NEW seen \in SUBSET (DOMAIN history),
           Summarises(record, history, seen)
    PROVE  record = Summary(history, seen)
<1>0. DOMAIN history \subseteq Nat
  BY DEF Histories
<1>1. CASE seen = {} /\ record = NoRecord
  BY <1>1 DEF Summary
<1>2. CASE seen # {}
  <2> DEFINE said == Said(history, seen)
  <2>1. record \in Record /\ record.occurrences = Cardinality(seen)
    BY <1>2 DEF Summarises
  <2>2. PICK i \in seen : /\ IsLast(i, seen) /\ record.value = history[i].observation.value
                          /\ record.last_seen = history[i].time
    BY <1>2 DEF Summarises
  <2>3. Max(seen) = i
    BY <1>0, <2>2, MaxIs DEF IsLast
  <2>4. PICK f \in seen : IsFirst(f, seen) /\ record.first_seen = history[f].time
    BY <1>2 DEF Summarises
  <2>5. Min(seen) = f
    BY <1>0, <2>4, MinIs DEF IsFirst
  <2>6. record.confidence = Max({history[j].observation.confidence : j \in seen})
    <3> DEFINE S == {history[j].observation.confidence : j \in seen}
    <3>1. IsHighest(record.confidence, history, seen)
      BY <1>2 DEF Summarises
    <3>2. ASSUME NEW j \in seen PROVE history[j].observation.confidence \in Nat
      BY ConfidenceIs
    <3>3. S \in SUBSET Nat /\ record.confidence \in S /\ \A c \in S : c <= record.confidence
      BY <3>1, <3>2 DEF IsHighest
    <3> HIDE DEF S
    <3>4. record.confidence = Max(S)
      BY <3>3, MaxIs
    <3> QED BY <3>4 DEF S
  <2>7. record.detail = IF said = {} THEN NoDetail ELSE history[Max(said)].observation.detail
    <3>1. \/ said = {} /\ record.detail = NoDetail
          \/ \E d \in said : IsLast(d, said) /\ record.detail = history[d].observation.detail
      BY <1>2 DEF Summarises
    <3>2. said \in SUBSET Nat
      BY <1>0 DEF Said
    <3> HIDE DEF said
    <3>3. ASSUME NEW d \in said, IsLast(d, said) PROVE Max(said) = d
      BY <3>2, <3>3, MaxIs DEF IsLast
    <3> QED BY <3>1, <3>3
  <2>8. record = [value |-> record.value, detail |-> record.detail,
                  confidence |-> record.confidence, occurrences |-> record.occurrences,
                  first_seen |-> record.first_seen, last_seen |-> record.last_seen]
    BY <2>1 DEF Record
  <2> DEFINE v == history[Max(seen)].observation.value
             d == IF said = {} THEN NoDetail ELSE history[Max(said)].observation.detail
             c == Max({history[j].observation.confidence : j \in seen})
             n == Cardinality(seen)
             first == history[Min(seen)].time
             last == history[Max(seen)].time
  <2>9. Summary(history, seen) = [value |-> v, detail |-> d, confidence |-> c,
                                  occurrences |-> n, first_seen |-> first, last_seen |-> last]
    BY <1>2 DEF Summary, Said
  <2>10. /\ record.value = v /\ record.detail = d /\ record.confidence = c
         /\ record.occurrences = n /\ record.first_seen = first /\ record.last_seen = last
    BY <2>1, <2>2, <2>3, <2>4, <2>5, <2>6, <2>7
  <2> HIDE DEF v, d, c, n, first, last
  <2> QED BY <2>8, <2>9, <2>10
<1> QED BY <1>1, <1>2 DEF Summarises

\* Another history that has the same entries there says the same.
LEMMA SummarisesLocal ==
    ASSUME NEW record, NEW history, NEW longer, NEW seen,
           \A i \in seen : longer[i] = history[i],
           Summarises(record, history, seen)
    PROVE  Summarises(record, longer, seen)
<1>1. Said(longer, seen) = Said(history, seen)
  BY DEF Said
<1>2. \A i \in Said(history, seen) : longer[i] = history[i]
  BY DEF Said
<1>3. \A c : IsHighest(c, history, seen) => IsHighest(c, longer, seen)
  BY DEF IsHighest
<1> QED BY <1>1, <1>2, <1>3 DEF Summarises

\* One observation more.
LEMMA SummarisesAppends ==
    ASSUME NEW history \in Histories, NEW seen \in SUBSET (DOMAIN history), NEW record,
           NEW o \in Observation, clock \in Nat, Summarises(record, history, seen)
    PROVE  Summarises(Upserted(record, o),
                      Append(history, [observation |-> o, time |-> clock]),
                      seen \union {Len(history) + 1})
<1> DEFINE e == [observation |-> o, time |-> clock]
           longer == Append(history, e)
           n == Len(history) + 1
           more == seen \union {n}
           new == Upserted(record, o)
<1>1. /\ n \in Nat /\ DOMAIN history = 1..n - 1 /\ n \notin seen
      /\ \A i \in seen : i \in Nat /\ i < n /\ longer[i] = history[i]
      /\ longer[n] = e /\ e.observation = o /\ e.time = clock
  BY DEF Histories
<1>2. IsFiniteSet(seen) /\ Cardinality(seen) \in Nat /\ Cardinality(more) = Cardinality(seen) + 1
  <2>1. IsFiniteSet(1..n - 1)
    BY <1>1, FS_Interval
  <2>2. IsFiniteSet(seen)
    BY <1>1, <2>1, FS_Subset
  <2> QED BY <1>1, <2>2, FS_AddElement, FS_CardinalityType
<1>3. Summarises(record, longer, seen)
  BY <1>1, SummarisesLocal
<1>4. record \in Row
  BY DEF Summarises, Row
<1>5. new \in Record
  BY <1>4, UpsertedGrows
<1>6. IsLast(n, more)
  BY <1>1 DEF IsLast
<1>7. Said(longer, more) = IF o.detail = NoDetail THEN Said(longer, seen)
                           ELSE Said(longer, seen) \union {n}
  BY <1>1 DEF Said
<1>8. o.confidence \in Nat
  BY MemoryAssumption DEF Observation
<1> HIDE DEF longer, n, more, new, e
<1>9. CASE seen = {} /\ record = NoRecord
  <2>1. /\ new.value = o.value /\ new.detail = o.detail /\ new.confidence = o.confidence
        /\ new.occurrences = 1 /\ new.first_seen = clock /\ new.last_seen = clock
    BY <1>9 DEF new, Upserted, Insert
  <2>2. more = {n} /\ Cardinality(seen) = 0
    BY <1>9, FS_EmptySet DEF more
  <2>3. IsFirst(n, more) /\ IsHighest(o.confidence, longer, more)
    BY <1>1, <1>8, <2>2 DEF IsFirst, IsHighest
  <2>4. \/ Said(longer, more) = {} /\ new.detail = NoDetail
        \/ \E i \in Said(longer, more) : /\ IsLast(i, Said(longer, more))
                                         /\ new.detail = longer[i].observation.detail
    <3>1. Said(longer, seen) = {}
      BY <1>9 DEF Said
    <3>2. CASE o.detail = NoDetail
      BY <1>7, <2>1, <3>1, <3>2
    <3>3. CASE o.detail # NoDetail
      <4>1. Said(longer, more) = {n}
        BY <1>7, <3>1, <3>3
      <4>2. IsLast(n, {n})
        BY <1>1 DEF IsLast
      <4> QED BY <1>1, <2>1, <4>1, <4>2
    <3> QED BY <3>2, <3>3
  <2>5. \E i \in more : IsLast(i, more) /\ new.value = longer[i].observation.value
                        /\ new.last_seen = longer[i].time
    BY <1>1, <1>6, <2>1, <2>2
  <2>6. \E i \in more : IsFirst(i, more) /\ new.first_seen = longer[i].time
    BY <1>1, <2>1, <2>2, <2>3
  <2>7. Summarises(new, longer, more)
    BY <1>2, <1>5, <2>1, <2>2, <2>3, <2>4, <2>5, <2>6 DEF Summarises
  <2> QED BY <2>7 DEF new, longer, more, n, e
<1>10. CASE seen # {}
  <2>1. record \in Record /\ record # NoRecord
    BY <1>3, <1>10, RecordIsThere DEF Summarises
  <2>2. record.confidence \in Nat /\ record.occurrences = Cardinality(seen)
    BY <1>3, <1>10, <2>1, MemoryAssumption DEF Record, Summarises
  <2>3. /\ new.value = o.value /\ new.confidence = Higher(record.confidence, o.confidence)
        /\ new.detail = IF o.detail = NoDetail THEN record.detail ELSE o.detail
        /\ new.occurrences = record.occurrences + 1
        /\ new.first_seen = record.first_seen /\ new.last_seen = clock
    BY <2>1 DEF new, Upserted, Update
  <2>4. PICK f \in seen : IsFirst(f, seen) /\ record.first_seen = longer[f].time
    BY <1>3, <1>10 DEF Summarises
  <2>5. IsFirst(f, more) /\ f \in more
    BY <1>1, <2>4 DEF IsFirst, more
  <2>6. IsHighest(new.confidence, longer, more)
    <3>1. IsHighest(record.confidence, longer, seen)
      BY <1>3, <1>10 DEF Summarises
    <3>2. PICK h \in seen : record.confidence = longer[h].observation.confidence
      BY <3>1 DEF IsHighest
    <3>3. \A i \in seen : longer[i].observation.confidence <= record.confidence
      BY <3>1 DEF IsHighest
    <3>4. ASSUME NEW i \in seen PROVE longer[i].observation.confidence \in Nat
      BY <1>1, ConfidenceIs
    <3>5. CASE record.confidence > o.confidence
      <4>1. new.confidence = record.confidence
        BY <2>3, <3>5 DEF Higher
      <4>2. \A i \in more : longer[i].observation.confidence <= new.confidence
        BY <1>1, <1>8, <2>2, <3>3, <3>5, <4>1 DEF more
      <4> QED BY <3>2, <4>1, <4>2 DEF IsHighest, more
    <3>6. CASE ~(record.confidence > o.confidence)
      <4>1. new.confidence = o.confidence
        BY <2>3, <3>6 DEF Higher
      <4>2. \A i \in more : longer[i].observation.confidence <= new.confidence
        BY <1>1, <1>8, <2>2, <3>3, <3>4, <3>6, <4>1 DEF more
      <4>3. n \in more /\ new.confidence = longer[n].observation.confidence
        BY <1>1, <4>1 DEF more
      <4> QED BY <4>2, <4>3 DEF IsHighest
    <3> QED BY <3>5, <3>6
  <2>7. \/ Said(longer, more) = {} /\ new.detail = NoDetail
        \/ \E i \in Said(longer, more) : /\ IsLast(i, Said(longer, more))
                                         /\ new.detail = longer[i].observation.detail
    <3>1. CASE o.detail = NoDetail
      <4>1. \/ Said(longer, seen) = {} /\ record.detail = NoDetail
            \/ \E i \in Said(longer, seen) : /\ IsLast(i, Said(longer, seen))
                                             /\ record.detail = longer[i].observation.detail
        BY <1>3, <1>10 DEF Summarises
      <4>2. new.detail = record.detail /\ Said(longer, more) = Said(longer, seen)
        BY <1>7, <2>3, <3>1
      <4> QED BY <4>1, <4>2
    <3>2. CASE o.detail # NoDetail
      <4>1. Said(longer, more) = Said(longer, seen) \union {n} /\ new.detail = o.detail
        BY <1>7, <2>3, <3>2
      <4>2. IsLast(n, Said(longer, more))
        BY <1>1, <4>1 DEF IsLast, Said
      <4> QED BY <1>1, <4>1, <4>2
    <3> QED BY <3>1, <3>2
  <2>8. \E i \in more : IsLast(i, more) /\ new.value = longer[i].observation.value
                        /\ new.last_seen = longer[i].time
    BY <1>1, <1>6, <2>3 DEF more
  <2>9. new.occurrences = Cardinality(more)
    BY <1>2, <2>2, <2>3
  <2>10. Summarises(new, longer, more)
    BY <1>5, <2>3, <2>4, <2>5, <2>6, <2>7, <2>8, <2>9 DEF Summarises
  <2> QED BY <2>10 DEF new, longer, more, n, e
<1> QED BY <1>9, <1>10 DEF Summarises

\* A repository that takes an observation still says what it has taken.
LEMMA TakenIsSummarised ==
    ASSUME MemoryTypeOK, NEW r \in Repository, NEW o \in Observation, NEW q \in Repository,
           NEW k \in Key, \A l \in Key : Summarises(records[q][l], kept[q], Seen(kept[q], l))
    PROVE  LET recs == [records EXCEPT ![r][o.key] = Upserted(@, o)]
               taken == [kept EXCEPT ![r] = Append(@, [observation |-> o, time |-> clock])]
           IN  Summarises(recs[q][k], taken[q], Seen(taken[q], k))
<1> DEFINE e == [observation |-> o, time |-> clock]
           recs == [records EXCEPT ![r][o.key] = Upserted(@, o)]
           taken == [kept EXCEPT ![r] = Append(@, e)]
           history == kept[q]
           longer == Append(history, e)
           seen == Seen(history, k)
<1>1. /\ records \in [Repository -> [Key -> Row]] /\ kept \in [Repository -> Histories]
      /\ clock \in Nat /\ o.key \in Key
  BY DEF MemoryTypeOK, Row, Histories, Observation
<1>2. Summarises(records[q][k], history, seen)
  OBVIOUS
<1>3. seen \in SUBSET (DOMAIN history) /\ history \in Histories
  BY <1>1 DEF Seen
<1>4. CASE q # r
  <2>1. recs[q][k] = records[q][k] /\ taken[q] = kept[q]
    BY <1>1, <1>4
  <2> QED BY <1>2, <2>1
<1>5. CASE q = r
  <2>1. taken[q] = longer
    BY <1>1, <1>5
  <2>2. recs[q][k] = IF k = o.key THEN Upserted(records[q][k], o) ELSE records[q][k]
    BY <1>1, <1>5
  <2>3. Seen(longer, k) = IF k = o.key THEN seen \union {Len(history) + 1} ELSE seen
    <3>1. DOMAIN longer = DOMAIN history \union {Len(history) + 1}
      BY <1>3 DEF Histories
    <3>2. /\ \A i \in DOMAIN history : longer[i] = history[i]
          /\ longer[Len(history) + 1] = e /\ e.observation = o
      BY <1>3 DEF Histories
    <3> HIDE DEF longer, history, e
    <3> QED BY <3>1, <3>2 DEF Seen
  <2>4. \A i \in seen : longer[i] = history[i]
    BY <1>3 DEF Histories
  <2> HIDE DEF recs, taken
  <2>5. CASE k = o.key
    <3>1. Summarises(Upserted(records[q][k], o), longer, seen \union {Len(history) + 1})
      BY <1>1, <1>2, <1>3, SummarisesAppends
    <3> QED BY <2>1, <2>2, <2>3, <2>5, <3>1 DEF recs, taken
  <2>6. CASE k # o.key
    <3>1. Summarises(records[q][k], longer, seen)
      BY <1>2, <2>4, SummarisesLocal
    <3> QED BY <2>1, <2>2, <2>3, <2>6, <3>1 DEF recs, taken
  <2> QED BY <2>5, <2>6
<1> QED BY <1>4, <1>5

\* A repository that forgets has taken nothing.
LEMMA ForgottenIsSummarised ==
    ASSUME NEW recs \in [Repository -> [Key -> Row]], NEW taken \in [Repository -> Histories],
           \A q \in Repository : \A k \in Key :
               Summarises(recs[q][k], taken[q], Seen(taken[q], k)),
           Forget(recs, taken), NEW q \in Repository, NEW k \in Key
    PROVE  Summarises(records'[q][k], kept'[q], Seen(kept'[q], k))
<1>1. records' = [recs EXCEPT ![InCells] = NoRecords] /\ kept' = [taken EXCEPT ![InCells] = <<>>]
  BY DEF Forget
<1>2. CASE q = InCells
  <2>1. records'[q][k] = NoRecord /\ kept'[q] = <<>>
    BY <1>1, <1>2 DEF NoRecords
  <2>2. Seen(<<>>, k) = {}
    BY DEF Seen
  <2> QED BY <2>1, <2>2 DEF Summarises
<1>3. CASE q # InCells
  BY <1>1, <1>3
<1> QED BY <1>2, <1>3

\* Every step keeps the summaries.
LEMMA SummaryStep == SummaryInv /\ [MemoryNext]_allVars => SummaryInv'
<1> SUFFICES ASSUME SummaryInv, [MemoryNext]_allVars PROVE SummaryInv'
  OBVIOUS
<1>1. MemoryTypeOK /\ MemoryTypeOK'
  BY MemoryStep DEF SummaryInv
<1>2. \A r \in Repository : \A k \in Key : Summarises(records[r][k], kept[r], Seen(kept[r], k))
  BY DEF SummaryInv
<1> SUFFICES ASSUME NEW q \in Repository, NEW k \in Key
             PROVE  Summarises(records'[q][k], kept'[q], Seen(kept'[q], k))
  BY <1>1 DEF SummaryInv
<1>3. OnFile \in Repository
  BY DEF Repository
<1>4. ASSUME NEW o \in Observation, Remember(o)
      PROVE  Summarises(records'[q][k], kept'[q], Seen(kept'[q], k))
  <2> DEFINE r == mode["memory"]
  <2>1. /\ r \in Repository /\ records' = [records EXCEPT ![r][o.key] = Upserted(@, o)]
        /\ kept' = [kept EXCEPT ![r] = Append(@, [observation |-> o, time |-> clock])]
    BY <1>4 DEF Remember, Call, Take
  <2> HIDE DEF r
  <2> QED BY <1>1, <1>2, <2>1, TakenIsSummarised
<1>5. ASSUME NEW o \in Observation, StopAfterCommit(o)
      PROVE  Summarises(records'[q][k], kept'[q], Seen(kept'[q], k))
  <2> DEFINE recs == [records EXCEPT ![OnFile][o.key] = Upserted(@, o)]
             taken == [kept EXCEPT ![OnFile] = Append(@, [observation |-> o, time |-> clock])]
  <2>1. Forget(recs, taken)
    BY <1>5 DEF StopAfterCommit
  <2>2. recs \in [Repository -> [Key -> Row]] /\ taken \in [Repository -> Histories]
    BY <1>1, <1>3, UpsertType, KeptType
  <2>3. \A p \in Repository : \A l \in Key : Summarises(recs[p][l], taken[p], Seen(taken[p], l))
    BY <1>1, <1>2, <1>3, TakenIsSummarised
  <2> HIDE DEF recs, taken
  <2> QED BY <2>1, <2>2, <2>3, ForgottenIsSummarised
<1>6. CASE Stop
  <2>1. records \in [Repository -> [Key -> Row]] /\ kept \in [Repository -> Histories]
    BY <1>1 DEF MemoryTypeOK, Row, Histories
  <2> QED BY <1>2, <1>6, <2>1, ForgottenIsSummarised DEF Stop
<1>7. CASE UNCHANGED <<records, kept>>
  BY <1>2, <1>7
<1>8. ASSUME NEW o \in Observation, RememberRaises(o) PROVE UNCHANGED <<records, kept>>
  BY <1>8 DEF RememberRaises
<1>9. Tick \/ OpenStores \/ UNCHANGED allVars => UNCHANGED <<records, kept>>
  BY DEF Tick, OpenStores, memory, allVars
<1> QED BY <1>4, <1>5, <1>6, <1>7, <1>8, <1>9 DEF MemoryNext

(***************************************************************************)
(* The upserts of remember() add up: whatever was refused, interrupted or  *)
(* forgotten, each record is the summary of the observations its           *)
(* repository has taken, for any number of them.                           *)
(***************************************************************************)
THEOREM UpsertsAddUp == MemorySpec => []RecordsAreSummaries
<1>1. MemoryInit => SummaryInv
  <2> SUFFICES ASSUME MemoryInit, NEW r \in Repository, NEW k \in Key
               PROVE  Summarises(records[r][k], kept[r], Seen(kept[r], k))
    <3>1. MemoryInit => MemoryTypeOK
      BY DEF MemoryInit, MemoryTypeOK, NoRecords
    <3> QED BY <3>1 DEF SummaryInv
  <2>1. records[r][k] = NoRecord /\ kept[r] = <<>>
    BY DEF MemoryInit, NoRecords
  <2>2. Seen(<<>>, k) = {}
    BY DEF Seen
  <2> QED BY <2>1, <2>2 DEF Summarises
<1>2. SummaryInv => RecordsAreSummaries
  <2> SUFFICES ASSUME SummaryInv, NEW r \in Repository, NEW k \in Key
               PROVE  records[r][k] = Summary(kept[r], Seen(kept[r], k))
    BY DEF RecordsAreSummaries
  <2>1. kept[r] \in Histories /\ Seen(kept[r], k) \in SUBSET (DOMAIN kept[r])
    BY DEF SummaryInv, MemoryTypeOK, Histories, Seen
  <2> QED BY <2>1, SummarisesIs DEF SummaryInv
<1> QED BY <1>1, <1>2, SummaryStep, PTL DEF MemorySpec

(***************************************************************************)
(* Part 3: the files behind the stores.                                    *)
(***************************************************************************)

Objects == UNION {Schema[s] : s \in Store}
File == [version : Nat, objects : SUBSET Objects, filled : BOOLEAN]

\* What a file of each version has.
FileOK(s, f) ==
    /\ f.version = 0 => f.objects \subseteq Schema[s] /\ f.filled
    /\ s = "review" /\ f.version = 1 =>
          /\ {"review_decisions", "packet_sequence"} \subseteq f.objects
          /\ f.objects \subseteq Schema[s]
    /\ f.version = SchemaVersion[s] => f = Current(s)

\* What is left to run on a file of version 0, and what is there by then.
ToBuild(s) ==
    CASE s = "review" ->
            {<<Script(s, 0), {}>>,
             << <<Create({"packet_sequence"}), SetVersion(2)>>,
                {"review_decisions", "packet_generated_at"} >>,
             << <<SetVersion(2)>>, Schema[s] >>}
      [] s = "memory" ->
            {<<Script(s, 0), {}>>,
             << <<Create({"agent_checkpoints"}), SetVersion(1)>>, {"memory_records"} >>,
             << <<SetVersion(1)>>, Schema[s] >>}
      [] s = "orchestration" ->
            {<<Script(s, 0), {}>>,
             << <<Create({"orchestration_events"}), Create({"run_sequence"}), SetVersion(1)>>,
                {"orchestration_runs"} >>,
             << <<Create({"run_sequence"}), SetVersion(1)>>,
                {"orchestration_runs", "orchestration_events"} >>,
             << <<SetVersion(1)>>, Schema[s] >>}

\* What the transaction of the migration holds, what is left, and what is there by then.
ToMigrate ==
    {<< <<>>, Script("review", 1), {}>>,
     << <<>>, <<Fill, SetVersion(2)>>, {"packet_generated_at"} >>,
     << <<Fill>>, <<SetVersion(2)>>, {"packet_generated_at"} >>,
     << <<Fill, SetVersion(2)>>, <<>>, {"packet_generated_at"} >>}

\* From this transaction and this rest, the script makes the file current.
ScriptGoes(s, f, pending, script) ==
    \/ pending = <<>> /\ script = <<>> /\ f = Current(s)
    \/ /\ f.version = 0 /\ pending = <<>>
       /\ \E b \in ToBuild(s) : script = b[1] /\ b[2] \subseteq f.objects
    \/ /\ s = "review" /\ f.version = 1
       /\ \E m \in ToMigrate : pending = m[1] /\ script = m[2] /\ m[3] \subseteq f.objects

ScriptOK(s, f) == ScriptGoes(s, f, tx, at.script)

SchemaInv ==
    /\ file \in [Store -> File]
    /\ mode \in [Store -> {"closed", "open", "unavailable", "volatile"}]
    /\ \A s \in Store : FileOK(s, file[s]) /\ (mode[s] = "open" => file[s] = Current(s))
    /\ \/ at \in {Down, At("serving", 0, <<>>)} /\ tx = <<>>
       \/ \E n \in 1..3 : at = At("version", n, <<>>) /\ tx = <<>>
       \/ \E n \in 1..3 : /\ at = At("script", n, at.script)
                          /\ ScriptOK(OpeningOrder[n], file[OpeningOrder[n]])
    /\ at = Down => \A s \in Store : mode[s] = "closed"
    /\ at.phase \in {"version", "script"} =>
          \A n \in at.store..3 : mode[OpeningOrder[n]] = "closed"

\* The stores and what they are opened in.
LEMMA StoresAre ==
    /\ \A n \in 1..3 : OpeningOrder[n] \in Store
    /\ \A n, m \in 1..3 : OpeningOrder[n] = OpeningOrder[m] => n = m
    /\ \A s \in Store : /\ Schema[s] \in SUBSET Objects
                        /\ SchemaVersion[s] \in Nat \ {0} /\ Current(s) \in File
                        /\ Current(s).version = SchemaVersion[s]
<1>1. \A n \in 1..3 : n = 1 \/ n = 2 \/ n = 3
  OBVIOUS
<1>2. OpeningOrder[1] = "review" /\ OpeningOrder[2] = "memory" /\ OpeningOrder[3] = "orchestration"
  BY DEF OpeningOrder
<1>3. ASSUME NEW s \in Store
      PROVE  /\ Schema[s] \in SUBSET Objects
             /\ SchemaVersion[s] \in Nat \ {0} /\ Current(s) \in File
             /\ Current(s).version = SchemaVersion[s]
  <2>1. Schema[s] \in SUBSET Objects
    BY DEF Objects
  <2>2. SchemaVersion[s] \in Nat \ {0}
    BY DEF SchemaVersion, Store
  <2> QED BY <2>1, <2>2 DEF Current, File
<1> QED BY <1>1, <1>2, <1>3 DEF Store

\* What the three kinds of statements do.
LEMMA ApplyIs ==
    ASSUME NEW f \in File
    PROVE  /\ \A o \in SUBSET Objects :
                 Apply(Create(o), f) = [version |-> f.version, objects |-> f.objects \union o,
                                        filled |-> f.filled]
           /\ Apply(Fill, f) = [version |-> f.version, objects |-> f.objects, filled |-> TRUE]
           /\ \A v \in Nat : Apply(SetVersion(v), f) =
                 [version |-> v, objects |-> f.objects, filled |-> f.filled]
<1>1. \A o \in SUBSET Objects : Create(o).kind = "create" /\ Create(o).objects = o
  BY DEF Create
<1>2. Fill.kind = "fill"
  BY DEF Fill
<1>3. \A v \in Nat : SetVersion(v).kind = "version" /\ SetVersion(v).version = v
  BY DEF SetVersion
<1>4. f = [version |-> f.version, objects |-> f.objects, filled |-> f.filled]
  BY DEF File
<1>5. ASSUME NEW o \in SUBSET Objects
      PROVE  Apply(Create(o), f) = [version |-> f.version, objects |-> f.objects \union o,
                                    filled |-> f.filled]
  <2>1. Apply(Create(o), f) = [f EXCEPT !.objects = @ \union o]
    BY <1>1 DEF Apply
  <2> QED BY <1>4, <2>1 DEF File
<1>6. Apply(Fill, f) = [version |-> f.version, objects |-> f.objects, filled |-> TRUE]
  <2>1. Apply(Fill, f) = [f EXCEPT !.filled = TRUE]
    BY <1>2 DEF Apply
  <2> QED BY <1>4, <2>1 DEF File
<1>7. ASSUME NEW v \in Nat
      PROVE  Apply(SetVersion(v), f) = [version |-> v, objects |-> f.objects, filled |-> f.filled]
  <2>1. Apply(SetVersion(v), f) = [f EXCEPT !.version = v]
    BY <1>3 DEF Apply
  <2> QED BY <1>4, <2>1 DEF File
<1> QED BY <1>5, <1>6, <1>7

\* The fold of a transaction, as the recursion behind it.
Applying(t, f, g) ==
    g = [s \in SUBSET (DOMAIN t) |->
            IF s = {} THEN f ELSE Apply(t[Max(s)], g[s \ {Max(s)}])]

\* The transactions that are committed.
LEMMA ApplyAllIs ==
    ASSUME NEW f
    PROVE  /\ ApplyAll(<<>>, f) = f
           /\ ApplyAll(<<Fill, SetVersion(2)>>, f) = Apply(SetVersion(2), Apply(Fill, f))
<1>1. \A t : ApplyAll(t, f) = (CHOOSE g : Applying(t, f, g))[DOMAIN t]
  BY DEF ApplyAll, FoldLeft, MapThenFoldSet, Applying
<1>2. ApplyAll(<<>>, f) = f
  <2> DEFINE t == <<>>
             g == [s \in SUBSET (DOMAIN t) |-> f]
  <2>1. DOMAIN t = {} /\ \A s \in SUBSET (DOMAIN t) : s = {}
    OBVIOUS
  <2> HIDE DEF t
  <2>2. Applying(t, f, g)
    BY <2>1 DEF Applying
  <2> DEFINE h == CHOOSE x : Applying(t, f, x)
  <2>3. Applying(t, f, h)
    BY <2>2
  <2>4. h[{}] = f
    BY <2>1, <2>3 DEF Applying
  <2> QED BY <1>1, <2>1, <2>4 DEF t
<1>3. ApplyAll(<<Fill, SetVersion(2)>>, f) = Apply(SetVersion(2), Apply(Fill, f))
  <2> DEFINE t == <<Fill, SetVersion(2)>>
             one == Apply(Fill, f)
             two == Apply(SetVersion(2), one)
             g == [s \in SUBSET (DOMAIN t) |->
                      IF s = {} THEN f ELSE IF s = {1} THEN one
                      ELSE IF s = {2} THEN Apply(SetVersion(2), f) ELSE two]
  <2>1. DOMAIN t = {1, 2} /\ t[1] = Fill /\ t[2] = SetVersion(2)
        /\ \A s \in SUBSET {1, 2} : s = {} \/ s = {1} \/ s = {2} \/ s = {1, 2}
    <3>1. DOMAIN t = 1..2 /\ 1..2 = {1, 2} /\ t[1] = Fill /\ t[2] = SetVersion(2)
      OBVIOUS
    <3>2. ASSUME NEW s \in SUBSET {1, 2} PROVE s = {} \/ s = {1} \/ s = {2} \/ s = {1, 2}
      <4>1. CASE 1 \in s /\ 2 \in s
        BY <4>1
      <4>2. CASE 1 \in s /\ 2 \notin s
        BY <4>2
      <4>3. CASE 1 \notin s /\ 2 \in s
        BY <4>3
      <4>4. CASE 1 \notin s /\ 2 \notin s
        BY <4>4
      <4> QED BY <4>1, <4>2, <4>3, <4>4
    <3> QED BY <3>1, <3>2
  <2> HIDE DEF t
  <2>2. Max({1}) = 1 /\ Max({2}) = 2 /\ Max({1, 2}) = 2
    BY DEF Max
  <2>3. {1} \ {1} = {} /\ {2} \ {2} = {} /\ {1, 2} \ {2} = {1}
        /\ {1} # {} /\ {2} # {} /\ {1, 2} # {} /\ {1} # {2} /\ {1, 2} # {1} /\ {1, 2} # {2}
    OBVIOUS
  <2>4. g[{}] = f /\ g[{1}] = one /\ g[{2}] = Apply(SetVersion(2), f) /\ g[{1, 2}] = two
    BY <2>1, <2>3
  <2> HIDE DEF one, two
  <2>5. ASSUME NEW s \in SUBSET (DOMAIN t)
        PROVE  g[s] = IF s = {} THEN f ELSE Apply(t[Max(s)], g[s \ {Max(s)}])
    <3> HIDE DEF g
    <3>1. CASE s = {}
      BY <2>4, <3>1
    <3>2. CASE s = {1}
      BY <2>1, <2>2, <2>3, <2>4, <3>2 DEF one
    <3>3. CASE s = {2}
      BY <2>1, <2>2, <2>3, <2>4, <3>3
    <3>4. CASE s = {1, 2}
      BY <2>1, <2>2, <2>3, <2>4, <3>4 DEF two
    <3> QED BY <2>1, <3>1, <3>2, <3>3, <3>4
  <2>6. Applying(t, f, g)
    BY <2>5 DEF Applying
  <2> DEFINE h == CHOOSE x : Applying(t, f, x)
  <2>7. Applying(t, f, h)
    BY <2>6
  <2> HIDE DEF h, g
  <2>8. \A s \in SUBSET (DOMAIN t) :
           h[s] = IF s = {} THEN f ELSE Apply(t[Max(s)], h[s \ {Max(s)}])
    BY <2>7 DEF Applying
  <2>9. {} \in SUBSET (DOMAIN t) /\ {1} \in SUBSET (DOMAIN t) /\ {1, 2} \in SUBSET (DOMAIN t)
    BY <2>1
  <2>10. h[{}] = f
    BY <2>8, <2>9
  <2>11. h[{1}] = Apply(t[1], h[{}])
    BY <2>2, <2>3, <2>8, <2>9
  <2>12. h[{1, 2}] = Apply(t[2], h[{1}])
    BY <2>2, <2>3, <2>8, <2>9
  <2>13. h[DOMAIN t] = two
    BY <2>1, <2>10, <2>11, <2>12 DEF one, two
  <2> QED BY <1>1, <2>13 DEF t, h, one, two
<1> QED BY <1>2, <1>3

\* A statement of a script that builds a file.
LEMMA CreateBuilds ==
    ASSUME NEW s \in Store, NEW f \in File, FileOK(s, f), f.version = 0,
           NEW o \in SUBSET Schema[s]
    PROVE  LET g == Apply(Create(o), f)
           IN  /\ g \in File /\ FileOK(s, g) /\ g.version = 0
               /\ g.objects = f.objects \union o
<1> DEFINE g == Apply(Create(o), f)
<1>1. Schema[s] \in SUBSET Objects /\ SchemaVersion[s] \in Nat \ {0}
  BY StoresAre
<1>2. g = [version |-> f.version, objects |-> f.objects \union o, filled |-> f.filled]
  BY <1>1, ApplyIs
<1> HIDE DEF g
<1>3. f.objects \subseteq Schema[s] /\ f.filled /\ f.objects \in SUBSET Objects /\ f.filled \in BOOLEAN
  BY DEF FileOK, File
<1>4. g \in File
  BY <1>1, <1>2, <1>3 DEF File
<1>5. FileOK(s, g)
  BY <1>1, <1>2, <1>3 DEF FileOK
<1> QED BY <1>2, <1>4, <1>5 DEF g

\* The last one.
LEMMA VersionCompletes ==
    ASSUME NEW s \in Store, NEW f \in File, FileOK(s, f), f.version = 0,
           Schema[s] \subseteq f.objects
    PROVE  Apply(SetVersion(SchemaVersion[s]), f) = Current(s)
<1>1. SchemaVersion[s] \in Nat
  BY StoresAre
<1>2. f.objects = Schema[s] /\ f.filled = TRUE
  BY DEF FileOK, File
<1> QED BY <1>1, <1>2, ApplyIs DEF Current

\* A current file is in order.
LEMMA CurrentIsOK == \A s \in Store : FileOK(s, Current(s))
<1> SUFFICES ASSUME NEW s \in Store PROVE FileOK(s, Current(s))
  OBVIOUS
<1>1. Current(s).version = SchemaVersion[s] /\ SchemaVersion[s] # 0
  BY StoresAre
<1>2. s = "review" => SchemaVersion[s] = 2
  BY DEF SchemaVersion
<1> QED BY <1>1, <1>2 DEF FileOK

\* A script goes on.
Goes(s, f, b) ==
    LET g == Apply(Head(b[1]), f)
    IN  /\ b[1] # <<>> /\ Head(b[1]).kind # "fill" /\ g \in File /\ FileOK(s, g)
        /\ \/ Tail(b[1]) = <<>> /\ g = Current(s)
           \/ g.version = 0 /\ \E c \in ToBuild(s) : Tail(b[1]) = c[1] /\ c[2] \subseteq g.objects

\* Each statement of a script that builds a file is followed by the next.
LEMMA BuildGoes ==
    ASSUME NEW s \in Store, NEW f \in File, FileOK(s, f), f.version = 0,
           NEW b \in ToBuild(s), b[2] \subseteq f.objects
    PROVE  Goes(s, f, b)
\* a script that begins with a Create,
<1>1. ASSUME NEW o \in SUBSET Schema[s], NEW c \in ToBuild(s), Head(b[1]) = Create(o),
             b[1] # <<>>, Tail(b[1]) = c[1], c[2] \subseteq b[2] \union o
      PROVE  Goes(s, f, b)
  <2>1. LET g == Apply(Create(o), f)
        IN  g \in File /\ FileOK(s, g) /\ g.version = 0 /\ g.objects = f.objects \union o
    BY CreateBuilds
  <2>2. Create(o).kind # "fill"
    BY DEF Create
  <2>3. c[2] \subseteq f.objects \union o
    BY <1>1
  <2> QED BY <1>1, <2>1, <2>2, <2>3 DEF Goes
\* or is the SetVersion.
<1>2. ASSUME b[1] = <<SetVersion(SchemaVersion[s])>>, b[2] = Schema[s] PROVE Goes(s, f, b)
  <2>1. Apply(SetVersion(SchemaVersion[s]), f) = Current(s)
    BY <1>2, VersionCompletes
  <2>2. Head(b[1]) = SetVersion(SchemaVersion[s]) /\ b[1] # <<>> /\ Tail(b[1]) = <<>>
    BY <1>2
  <2>3. SetVersion(SchemaVersion[s]).kind # "fill"
    BY DEF SetVersion
  <2> QED BY <2>1, <2>2, <2>3, StoresAre, CurrentIsOK DEF Goes
<1>3. CASE s = "review"
  <2> DEFINE c1 == Create({"review_decisions", "packet_generated_at"})
             c2 == Create({"packet_sequence"})
             v == SetVersion(2)
             b1 == << <<c1, c2, v>>, {} >>
             b2 == << <<c2, v>>, {"review_decisions", "packet_generated_at"} >>
             b3 == << <<v>>, Schema[s] >>
  <2>1. ToBuild(s) = {b1, b2, b3}
    BY <1>3 DEF ToBuild, Script
  <2>2. Schema[s] = {"review_decisions", "packet_sequence", "packet_generated_at"}
        /\ SchemaVersion[s] = 2
    BY <1>3 DEF Schema, SchemaVersion
  <2> HIDE DEF c1, c2, v
  <2>3. CASE b = b1
    <3>1. Head(b[1]) = c1 /\ Tail(b[1]) = b2[1] /\ b[1] # <<>> /\ b2[2] \subseteq b[2] \union b2[2]
      BY <2>3
    <3>2. b2[2] \in SUBSET Schema[s] /\ b2 \in ToBuild(s) /\ c1 = Create(b2[2])
      BY <2>1, <2>2 DEF c1
    <3> HIDE DEF b2
    <3> QED BY <1>1, <3>1, <3>2
  <2>4. CASE b = b2
    <3>1. Head(b[1]) = c2 /\ Tail(b[1]) = b3[1] /\ b[1] # <<>>
      BY <2>4
    <3>2. {"packet_sequence"} \in SUBSET Schema[s] /\ b3 \in ToBuild(s)
          /\ b3[2] \subseteq b[2] \union {"packet_sequence"}
      BY <2>1, <2>2, <2>4
    <3> HIDE DEF b3
    <3> QED BY <1>1, <3>1, <3>2 DEF c2
  <2>5. CASE b = b3
    <3>1. b[1] = <<SetVersion(SchemaVersion[s])>> /\ b[2] = Schema[s]
      BY <2>2, <2>5 DEF v
    <3> QED BY <1>2, <3>1
  <2> QED BY <2>1, <2>3, <2>4, <2>5
<1>4. CASE s = "memory"
  <2> DEFINE c1 == Create({"memory_records"})
             c2 == Create({"agent_checkpoints"})
             v == SetVersion(1)
             b1 == << <<c1, c2, v>>, {} >>
             b2 == << <<c2, v>>, {"memory_records"} >>
             b3 == << <<v>>, Schema[s] >>
  <2>1. ToBuild(s) = {b1, b2, b3}
    BY <1>4 DEF ToBuild, Script
  <2>2. Schema[s] = {"memory_records", "agent_checkpoints"} /\ SchemaVersion[s] = 1
    BY <1>4 DEF Schema, SchemaVersion
  <2> HIDE DEF c1, c2, v
  <2>3. CASE b = b1
    <3>1. Head(b[1]) = c1 /\ Tail(b[1]) = b2[1] /\ b[1] # <<>> /\ b2[2] \subseteq b[2] \union b2[2]
      BY <2>3
    <3>2. b2[2] \in SUBSET Schema[s] /\ b2 \in ToBuild(s) /\ c1 = Create(b2[2])
      BY <2>1, <2>2 DEF c1
    <3> HIDE DEF b2
    <3> QED BY <1>1, <3>1, <3>2
  <2>4. CASE b = b2
    <3>1. Head(b[1]) = c2 /\ Tail(b[1]) = b3[1] /\ b[1] # <<>>
      BY <2>4
    <3>2. {"agent_checkpoints"} \in SUBSET Schema[s] /\ b3 \in ToBuild(s)
          /\ b3[2] \subseteq b[2] \union {"agent_checkpoints"}
      BY <2>1, <2>2, <2>4
    <3> HIDE DEF b3
    <3> QED BY <1>1, <3>1, <3>2 DEF c2
  <2>5. CASE b = b3
    <3>1. b[1] = <<SetVersion(SchemaVersion[s])>> /\ b[2] = Schema[s]
      BY <2>2, <2>5 DEF v
    <3> QED BY <1>2, <3>1
  <2> QED BY <2>1, <2>3, <2>4, <2>5
<1>5. CASE s = "orchestration"
  <2> DEFINE c1 == Create({"orchestration_runs"})
             c2 == Create({"orchestration_events"})
             c3 == Create({"run_sequence"})
             v == SetVersion(1)
             b1 == << <<c1, c2, c3, v>>, {} >>
             b2 == << <<c2, c3, v>>, {"orchestration_runs"} >>
             b3 == << <<c3, v>>, {"orchestration_runs", "orchestration_events"} >>
             b4 == << <<v>>, Schema[s] >>
  <2>1. ToBuild(s) = {b1, b2, b3, b4}
    BY <1>5 DEF ToBuild, Script
  <2>2. Schema[s] = {"orchestration_runs", "orchestration_events", "run_sequence"}
        /\ SchemaVersion[s] = 1
    BY <1>5 DEF Schema, SchemaVersion
  <2> HIDE DEF c1, c2, c3, v
  <2>3. CASE b = b1
    <3>1. Head(b[1]) = c1 /\ Tail(b[1]) = b2[1] /\ b[1] # <<>> /\ b2[2] \subseteq b[2] \union b2[2]
      BY <2>3
    <3>2. b2[2] \in SUBSET Schema[s] /\ b2 \in ToBuild(s) /\ c1 = Create(b2[2])
      BY <2>1, <2>2 DEF c1
    <3> HIDE DEF b2
    <3> QED BY <1>1, <3>1, <3>2
  <2>4. CASE b = b2
    <3>1. Head(b[1]) = c2 /\ Tail(b[1]) = b3[1] /\ b[1] # <<>>
      BY <2>4
    <3>2. {"orchestration_events"} \in SUBSET Schema[s] /\ b3 \in ToBuild(s)
          /\ b3[2] \subseteq b[2] \union {"orchestration_events"}
      BY <2>1, <2>2, <2>4
    <3> HIDE DEF b3
    <3> QED BY <1>1, <3>1, <3>2 DEF c2
  <2>5. CASE b = b3
    <3>1. Head(b[1]) = c3 /\ Tail(b[1]) = b4[1] /\ b[1] # <<>>
      BY <2>5
    <3>2. {"run_sequence"} \in SUBSET Schema[s] /\ b4 \in ToBuild(s)
          /\ b4[2] \subseteq b[2] \union {"run_sequence"}
      BY <2>1, <2>2, <2>5
    <3> HIDE DEF b4
    <3> QED BY <1>1, <3>1, <3>2 DEF c3
  <2>6. CASE b = b4
    <3>1. b[1] = <<SetVersion(SchemaVersion[s])>> /\ b[2] = Schema[s]
      BY <2>2, <2>6 DEF v
    <3> QED BY <1>2, <3>1
  <2> QED BY <2>1, <2>3, <2>4, <2>5, <2>6
<1> QED BY <1>3, <1>4, <1>5 DEF Store

\* A position of create_app is what At() made it.
LEMMA AtIs ==
    \A p, n, t : At(p, n, t).phase = p /\ At(p, n, t).store = n /\ At(p, n, t).script = t
BY DEF At

Mode == {"closed", "open", "unavailable", "volatile"}

\* The store that is being opened.
Opens(n) ==
    /\ n \in 1..3 /\ at.store = n /\ at.phase \in {"version", "script"} /\ at # Down
    /\ OpeningOrder[n] \in Store /\ Opening = OpeningOrder[n]
    /\ file[Opening] \in File /\ FileOK(Opening, file[Opening])
    /\ \A m \in n..3 : mode[OpeningOrder[m]] = "closed"
    /\ at.phase = "version" => at = At("version", n, <<>>) /\ tx = <<>>
    /\ at.phase = "script" => at = At("script", n, at.script) /\ ScriptOK(Opening, file[Opening])

\* While create_app is at a file, it is at one of the three.
LEMMA OneIsOpened ==
    ASSUME SchemaInv, at.phase \in {"version", "script"}
    PROVE  \E n \in 1..3 : Opens(n)
<1>1. at # Down /\ at # At("serving", 0, <<>>)
  BY AtIs DEF Down
<1>2. PICK n \in 1..3 : \/ at = At("version", n, <<>>) /\ tx = <<>>
                        \/ /\ at = At("script", n, at.script)
                           /\ ScriptOK(OpeningOrder[n], file[OpeningOrder[n]])
  BY <1>1 DEF SchemaInv
<1>3. at.store = n /\ OpeningOrder[n] \in Store /\ Opening = OpeningOrder[n]
  BY <1>2, AtIs, StoresAre DEF Opening
<1>4. \A m \in n..3 : mode[OpeningOrder[m]] = "closed"
  BY <1>3 DEF SchemaInv
<1>5. file[Opening] \in File /\ FileOK(Opening, file[Opening])
  BY <1>3 DEF SchemaInv
<1>6. /\ at.phase = "version" => at = At("version", n, <<>>) /\ tx = <<>>
      /\ at.phase = "script" => /\ at = At("script", n, at.script)
                                /\ ScriptOK(OpeningOrder[n], file[OpeningOrder[n]])
  BY <1>2, AtIs
<1> QED BY <1>1, <1>3, <1>4, <1>5, <1>6 DEF Opens

\* A store is settled, and served from its file only when that is complete.
LEMMA SettleKeeps ==
    ASSUME SchemaInv, NEW n, Opens(n), NEW outcome \in Mode, NEW f \in File,
           FileOK(Opening, f), outcome = "open" => f = Current(Opening),
           file' = [file EXCEPT ![Opening] = f], Settle(outcome)
    PROVE  SchemaInv'
<1> DEFINE s == Opening
<1>1. n \in 1..3 /\ at.store = n /\ s \in Store /\ s = OpeningOrder[n]
  BY DEF Opens
<1>2. file \in [Store -> File] /\ mode \in [Store -> Mode]
      /\ \A r \in Store : FileOK(r, file[r]) /\ (mode[r] = "open" => file[r] = Current(r))
  BY DEF SchemaInv, Mode
<1>3. /\ mode' = [mode EXCEPT ![s] = outcome] /\ tx' = <<>>
      /\ at' = IF n = 3 THEN At("serving", 0, <<>>) ELSE At("version", n + 1, <<>>)
  BY <1>1 DEF Settle, GoOn
<1> HIDE DEF s
<1>4. file' \in [Store -> File] /\ mode' \in [Store -> Mode]
  BY <1>1, <1>2, <1>3 DEF s
<1>5. ASSUME NEW r \in Store
      PROVE  FileOK(r, file'[r]) /\ (mode'[r] = "open" => file'[r] = Current(r))
  <2>1. CASE r = s
    <3>1. file'[r] = f /\ mode'[r] = outcome
      BY <1>1, <1>2, <1>3, <2>1 DEF s
    <3> QED BY <2>1, <3>1 DEF s
  <2>2. CASE r # s
    <3>1. file'[r] = file[r] /\ mode'[r] = mode[r]
      BY <1>2, <1>3, <2>2 DEF s
    <3> QED BY <1>2, <3>1
  <2> QED BY <2>1, <2>2
<1>6. /\ at' # Down
      /\ \/ at' = At("serving", 0, <<>>) \/ \E m \in 1..3 : at' = At("version", m, <<>>)
      /\ at'.phase \in {"version", "script"} => n # 3 /\ at'.store = n + 1
  BY <1>1, <1>3, AtIs DEF Down
<1>7. at'.phase \in {"version", "script"} =>
          \A m \in at'.store..3 : mode'[OpeningOrder[m]] = "closed"
  <2> SUFFICES ASSUME at'.phase \in {"version", "script"}, NEW m \in n + 1..3
               PROVE  mode'[OpeningOrder[m]] = "closed"
    BY <1>6
  <2>1. m \in 1..3 /\ m \in n..3 /\ m # n
    BY <1>1
  <2>2. OpeningOrder[m] \in Store /\ OpeningOrder[m] # s
    BY <1>1, <2>1, StoresAre
  <2>3. mode[OpeningOrder[m]] = "closed"
    BY <2>1 DEF Opens
  <2> QED BY <1>2, <1>3, <2>2, <2>3
<1> QED BY <1>3, <1>4, <1>5, <1>6, <1>7 DEF SchemaInv, Mode

\* One statement.
LEMMA ExecuteKeeps == ASSUME SchemaInv, Execute PROVE SchemaInv'
<1>1. at.phase = "script" /\ at.script # <<>>
  BY DEF Execute
<1>2. PICK n \in 1..3 : Opens(n)
  BY <1>1, OneIsOpened
<1> DEFINE s == Opening
           f == file[s]
           head == Head(at.script)
           rest == Tail(at.script)
<1>3. /\ s \in Store /\ s = OpeningOrder[n] /\ f \in File /\ FileOK(s, f) /\ mode[s] = "closed"
      /\ at = At("script", n, at.script) /\ ScriptGoes(s, f, tx, at.script)
  BY <1>1, <1>2 DEF Opens, ScriptOK
<1>4. /\ mode' = mode /\ at' = At("script", n, rest)
      /\ IF tx # <<>> \/ head.kind = "fill"
         THEN tx' = Append(tx, head) /\ file' = file
         ELSE tx' = tx /\ file' = [file EXCEPT ![s] = Apply(head, f)]
  <2>1. at' = [at EXCEPT !.script = Tail(@)]
    BY DEF Execute
  <2>2. PICK t : t = at.script
    OBVIOUS
  <2>3. at = At("script", n, t) /\ at' = [at EXCEPT !.script = Tail(t)]
    BY <1>3, <2>1, <2>2
  <2>4. at' = At("script", n, Tail(t))
    BY <2>3 DEF At
  <2> QED BY <2>2, <2>4 DEF Execute
<1> HIDE DEF s, f, head, rest
<1>5. file \in [Store -> File] /\ mode \in [Store -> Mode]
      /\ \A r \in Store : FileOK(r, file[r]) /\ (mode[r] = "open" => file[r] = Current(r))
  BY DEF SchemaInv, Mode
\* It is enough that the file stays in order and its script goes on.
<1>6. ASSUME NEW g \in File, FileOK(s, g), file' = [file EXCEPT ![s] = g],
             ScriptGoes(s, g, tx', rest)
      PROVE  SchemaInv'
  <2>1. file' \in [Store -> File] /\ mode' \in [Store -> Mode]
    BY <1>3, <1>4, <1>5, <1>6
  <2>2. ASSUME NEW r \in Store
        PROVE  FileOK(r, file'[r]) /\ (mode'[r] = "open" => file'[r] = Current(r))
    <3>1. CASE r = s
      <4>1. file'[r] = g /\ mode'[r] # "open"
        BY <1>3, <1>4, <1>5, <1>6, <3>1
      <4> QED BY <1>6, <3>1, <4>1
    <3>2. CASE r # s
      <4>1. file'[r] = file[r] /\ mode'[r] = mode[r]
        BY <1>4, <1>5, <1>6, <3>2
      <4> QED BY <1>5, <4>1
    <3> QED BY <3>1, <3>2
  <2>3. /\ at'.phase = "script" /\ at'.store = n /\ at' # Down /\ at'.script = rest
        /\ at' = At("script", n, at'.script)
    BY <1>4, AtIs DEF Down
  <2>4. \A m \in n..3 : mode'[OpeningOrder[m]] = "closed"
    BY <1>2, <1>4 DEF Opens
  <2>5. file'[OpeningOrder[n]] = g
    BY <1>3, <1>5, <1>6
  <2>6. ScriptOK(OpeningOrder[n], file[OpeningOrder[n]])'
    <3>1. ScriptGoes(OpeningOrder[n], file'[OpeningOrder[n]], tx', at'.script)
      BY <1>3, <1>6, <2>3, <2>5
    <3> QED BY <3>1 DEF ScriptOK
  <2> QED BY <2>1, <2>2, <2>3, <2>4, <2>6 DEF SchemaInv, Mode
<1>7. CASE f.version = 0 /\ tx = <<>>
           /\ \E b \in ToBuild(s) : at.script = b[1] /\ b[2] \subseteq f.objects
  <2>1. PICK b \in ToBuild(s) : at.script = b[1] /\ b[2] \subseteq f.objects
    BY <1>7
  <2> DEFINE g == Apply(head, f)
  <2>2. Goes(s, f, b)
    BY <1>3, <1>7, <2>1, BuildGoes
  <2>3. /\ head.kind # "fill" /\ g \in File /\ FileOK(s, g)
        /\ \/ rest = <<>> /\ g = Current(s)
           \/ g.version = 0 /\ \E c \in ToBuild(s) : rest = c[1] /\ c[2] \subseteq g.objects
    BY <2>1, <2>2 DEF Goes, head, rest
  <2>4. tx' = <<>> /\ file' = [file EXCEPT ![s] = g]
    BY <1>4, <1>7, <2>3
  <2> HIDE DEF g
  <2>5. ScriptGoes(s, g, tx', rest)
    BY <2>3, <2>4 DEF ScriptGoes
  <2> QED BY <1>6, <2>3, <2>4, <2>5
<1>8. CASE s = "review" /\ f.version = 1
           /\ \E m \in ToMigrate : tx = m[1] /\ at.script = m[2] /\ m[3] \subseteq f.objects
  <2>1. PICK m \in ToMigrate : tx = m[1] /\ at.script = m[2] /\ m[3] \subseteq f.objects
    BY <1>8
  <2> DEFINE c1 == Create({"packet_generated_at"})
             v == SetVersion(2)
             timed == {"packet_generated_at"}
             m1 == << <<>>, <<c1, Fill, v>>, {} >>
             m2 == << <<>>, <<Fill, v>>, timed >>
             m3 == << <<Fill>>, <<v>>, timed >>
             m4 == << <<Fill, v>>, <<>>, timed >>
  <2>2. ToMigrate = {m1, m2, m3, m4}
    BY DEF ToMigrate, Script
  <2>3. c1.kind # "fill" /\ Fill.kind = "fill"
    BY DEF Create, Fill
  <2>4. timed \in SUBSET Objects
    BY DEF Objects, Schema, Store
  <2>5. file = [file EXCEPT ![s] = f]
    BY <1>3, <1>5 DEF f
  <2>6. ASSUME NEW g \in File, NEW w \in ToMigrate, g.version = 1, w[3] \subseteq g.objects,
               tx' = w[1], rest = w[2]
        PROVE  ScriptGoes(s, g, tx', rest)
    BY <1>8, <2>6 DEF ScriptGoes
  <2>7. CASE m = m1
    <3> DEFINE g == Apply(c1, f)
    <3>1. g = [version |-> 1, objects |-> f.objects \union timed, filled |-> f.filled]
      BY <1>3, <1>8, <2>4, ApplyIs
    <3> HIDE DEF c1, v, timed
    <3>2. head = c1 /\ rest = m2[2] /\ tx = <<>>
      BY <2>1, <2>7 DEF head, rest
    <3>3. tx' = m2[1] /\ file' = [file EXCEPT ![s] = g]
      BY <1>4, <2>3, <3>2
    <3> HIDE DEF g
    <3>4. g \in File /\ g.version = 1 /\ m2[3] \subseteq g.objects
      BY <1>3, <2>4, <3>1 DEF File
    <3>5. FileOK(s, g)
      <4>1. Schema[s] = {"review_decisions", "packet_sequence", "packet_generated_at"}
            /\ SchemaVersion[s] = 2
        BY <1>8 DEF Schema, SchemaVersion
      <4> QED BY <1>3, <1>8, <3>1, <4>1 DEF FileOK, timed
    <3>6. m2 \in ToMigrate
      BY <2>2
    <3> HIDE DEF m2
    <3>7. ScriptGoes(s, g, tx', rest)
      BY <2>6, <3>2, <3>3, <3>4, <3>6
    <3> QED BY <1>6, <3>3, <3>4, <3>5, <3>7
  <2> HIDE DEF c1, v, timed
  <2>8. CASE m = m2
    <3>1. head = Fill /\ rest = m3[2] /\ tx = <<>> /\ m3[3] \subseteq f.objects
      BY <2>1, <2>8 DEF head, rest
    <3>2. tx' = m3[1] /\ file' = [file EXCEPT ![s] = f]
      BY <1>4, <2>3, <2>5, <3>1
    <3>3. m3 \in ToMigrate
      BY <2>2
    <3> HIDE DEF m3
    <3>4. ScriptGoes(s, f, tx', rest)
      BY <1>3, <1>8, <2>6, <3>1, <3>2, <3>3
    <3> QED BY <1>3, <1>6, <3>2, <3>4
  <2>9. CASE m = m3
    <3>1. head = v /\ rest = m4[2] /\ tx = <<Fill>> /\ m4[3] \subseteq f.objects
      BY <2>1, <2>9 DEF head, rest
    <3>2. tx' = m4[1] /\ file' = [file EXCEPT ![s] = f]
      BY <1>4, <2>5, <3>1
    <3>3. m4 \in ToMigrate
      BY <2>2
    <3> HIDE DEF m4
    <3>4. ScriptGoes(s, f, tx', rest)
      BY <1>3, <1>8, <2>6, <3>1, <3>2, <3>3
    <3> QED BY <1>3, <1>6, <3>2, <3>4
  <2>10. CASE m = m4
    BY <1>1, <2>1, <2>10
  <2> HIDE DEF m1, m2, m3, m4
  <2> QED BY <2>2, <2>7, <2>8, <2>9, <2>10
<1> QED BY <1>1, <1>3, <1>7, <1>8 DEF ScriptGoes

\* The file a script has come to the end of is current once it is committed.
LEMMA CommittedIsCurrent ==
    ASSUME NEW s \in Store, NEW f \in File, NEW pending, ScriptGoes(s, f, pending, <<>>),
           FileOK(s, f)
    PROVE  ApplyAll(pending, f) = Current(s)
<1>1. CASE pending = <<>> /\ f = Current(s)
  BY <1>1, ApplyAllIs
<1>2. ASSUME NEW b \in ToBuild(s), f.version = 0, b[2] \subseteq f.objects, b[1] = <<>>
      PROVE  FALSE
  BY <1>2, BuildGoes DEF Goes
<1>3. CASE s = "review" /\ f.version = 1
           /\ \E m \in ToMigrate : pending = m[1] /\ <<>> = m[2] /\ m[3] \subseteq f.objects
  <2>1. pending = <<Fill, SetVersion(2)>> /\ {"packet_generated_at"} \subseteq f.objects
    BY <1>3 DEF ToMigrate, Script
  <2>2. Schema[s] = {"review_decisions", "packet_sequence", "packet_generated_at"}
        /\ SchemaVersion[s] = 2
    BY <1>3 DEF Schema, SchemaVersion
  <2>3. f.objects = Schema[s]
    BY <1>3, <2>1, <2>2 DEF FileOK
  <2> DEFINE one == Apply(Fill, f)
  <2>4. one = [version |-> f.version, objects |-> f.objects, filled |-> TRUE]
    BY ApplyIs
  <2> HIDE DEF one
  <2>5. one \in File
    BY <2>4 DEF File
  <2>6. Apply(SetVersion(2), one) = [version |-> 2, objects |-> one.objects, filled |-> one.filled]
    BY <2>5, ApplyIs
  <2>7. ApplyAll(pending, f) = Apply(SetVersion(2), one)
    BY <2>1, ApplyAllIs DEF one
  <2> QED BY <2>2, <2>3, <2>4, <2>6, <2>7 DEF Current
<1> QED BY <1>1, <1>2, <1>3 DEF ScriptGoes

\* The script for a file that is not too new goes on from its first statement.
LEMMA ScriptBegins ==
    ASSUME NEW s \in Store, NEW f \in File, FileOK(s, f), ~(f.version > SchemaVersion[s])
    PROVE  ScriptGoes(s, f, <<>>, Script(s, f.version))
<1>0. f.version \in Nat /\ SchemaVersion[s] \in Nat \ {0}
  BY StoresAre DEF File
<1>1. CASE f.version = 0
  <2>1. \E b \in ToBuild(s) : b = <<Script(s, 0), {}>>
    <3>1. CASE s = "review"
      BY <3>1 DEF ToBuild
    <3>2. CASE s = "memory"
      BY <3>2 DEF ToBuild
    <3>3. CASE s = "orchestration"
      BY <3>3 DEF ToBuild
    <3> QED BY <3>1, <3>2, <3>3 DEF Store
  <2>2. PICK b \in ToBuild(s) : b = <<Script(s, 0), {}>>
    BY <2>1
  <2>3. Script(s, f.version) = b[1] /\ b[2] \subseteq f.objects
    BY <1>1, <2>2
  <2> QED BY <1>1, <2>3 DEF ScriptGoes
<1>2. CASE f.version = SchemaVersion[s]
  <2>1. f = Current(s)
    BY <1>2 DEF FileOK
  <2>2. Script(s, f.version) = <<>>
    <3>1. CASE s = "review"
      BY <1>2, <3>1 DEF Script, SchemaVersion
    <3>2. CASE s = "memory"
      BY <1>2, <3>2 DEF Script, SchemaVersion
    <3>3. CASE s = "orchestration"
      BY <1>2, <3>3 DEF Script, SchemaVersion
    <3> QED BY <3>1, <3>2, <3>3 DEF Store
  <2> QED BY <2>1, <2>2 DEF ScriptGoes
<1>3. CASE f.version # 0 /\ f.version # SchemaVersion[s]
  <2>1. s = "review" /\ f.version = 1
    BY <1>0, <1>3 DEF SchemaVersion, Store
  <2>2. \E m \in ToMigrate : m = << <<>>, Script("review", 1), {} >>
    BY DEF ToMigrate
  <2> QED BY <2>1, <2>2 DEF ScriptGoes
<1> QED BY <1>1, <1>2, <1>3

\* A substitute is not the store itself.
LEMMA SubstituteIs == \A s : Substitute(s) \in Mode /\ Substitute(s) # "open"
BY DEF Substitute, Mode

\* A store that did not open leaves its file as it was.
LEMMA SubstitutedKeeps ==
    ASSUME SchemaInv, at.phase \in {"version", "script"}, file' = file,
           Settle(Substitute(Opening))
    PROVE  SchemaInv'
<1>1. PICK n \in 1..3 : Opens(n)
  BY OneIsOpened
<1>2. file[Opening] \in File /\ FileOK(Opening, file[Opening])
  BY <1>1 DEF Opens
<1>3. file' = [file EXCEPT ![Opening] = file[Opening]]
  BY DEF SchemaInv
<1> QED BY <1>1, <1>2, <1>3, SettleKeeps, SubstituteIs

\* Every step keeps the invariant.
LEMMA SchemaStep == ASSUME SchemaInv, [Next]_vars PROVE SchemaInv'
<1>0. file \in [Store -> File] /\ mode \in [Store -> Mode]
      /\ \A r \in Store : FileOK(r, file[r]) /\ (mode[r] = "open" => file[r] = Current(r))
  BY DEF SchemaInv, Mode
<1>1. CASE Start
  <2>1. /\ at = Down /\ at' = At("version", 1, <<>>) /\ file' = file /\ mode' = mode /\ tx' = tx
    BY <1>1 DEF Start
  <2>2. at'.store = 1 /\ at' # Down /\ Down.phase = "down"
    BY <2>1, AtIs DEF Down
  <2>3. tx = <<>> /\ \A r \in Store : mode[r] = "closed"
    <3>1. at # At("version", 1, <<>>)
      BY <2>1, <2>2
    <3>2. \A n, t : at # At("version", n, t) /\ at # At("script", n, t)
      BY <2>1, <2>2, AtIs
    <3> QED BY <2>1, <3>2 DEF SchemaInv
  <2>4. \A m \in at'.store..3 : mode'[OpeningOrder[m]] = "closed"
    BY <2>1, <2>2, <2>3, StoresAre
  <2>5. \E n \in 1..3 : at' = At("version", n, <<>>)
    BY <2>1
  <2> QED BY <1>0, <2>1, <2>2, <2>3, <2>4, <2>5 DEF SchemaInv, Mode
<1>2. CASE CheckVersion
  <2>1. at.phase = "version" /\ file' = file
    BY <1>2 DEF CheckVersion
  <2>2. CASE file[Opening].version > SchemaVersion[Opening]
    <3>1. Settle(Substitute(Opening))
      BY <1>2, <2>2 DEF CheckVersion
    <3> QED BY <2>1, <3>1, SubstitutedKeeps
  <2>3. CASE ~(file[Opening].version > SchemaVersion[Opening])
    <3>1. PICK n \in 1..3 : Opens(n)
      BY <2>1, OneIsOpened
    <3> DEFINE s == Opening
               f == file[s]
               script == Script(s, f.version)
    <3>2. /\ s \in Store /\ s = OpeningOrder[n] /\ f \in File /\ FileOK(s, f)
          /\ at.store = n /\ tx = <<>> /\ \A m \in n..3 : mode[OpeningOrder[m]] = "closed"
      BY <2>1, <3>1 DEF Opens
    <3>3. at' = At("script", n, script) /\ tx' = tx /\ mode' = mode
      BY <1>2, <2>3, <3>2 DEF CheckVersion
    <3>4. ScriptGoes(s, f, <<>>, script)
      BY <2>3, <3>2, ScriptBegins
    <3> HIDE DEF s, f, script
    <3>5. /\ at'.phase = "script" /\ at'.store = n /\ at' # Down /\ at'.script = script
          /\ at' = At("script", n, at'.script)
      BY <3>3, AtIs DEF Down
    <3>6. file'[OpeningOrder[n]] = f
      BY <2>1, <3>2 DEF f
    <3>7. ScriptOK(OpeningOrder[n], file[OpeningOrder[n]])'
      <4>1. ScriptGoes(OpeningOrder[n], file'[OpeningOrder[n]], tx', at'.script)
        BY <3>2, <3>3, <3>4, <3>5, <3>6
      <4> QED BY <4>1 DEF ScriptOK
    <3> QED BY <1>0, <2>1, <3>2, <3>3, <3>5, <3>7 DEF SchemaInv, Mode
  <2> QED BY <2>2, <2>3
<1>3. CASE Execute
  BY <1>3, ExecuteKeeps
<1>4. CASE Commit
  <2>1. /\ at.phase = "script" /\ at.script = <<>> /\ Settle("open")
        /\ file' = [file EXCEPT ![Opening] = ApplyAll(tx, file[Opening])]
    BY <1>4 DEF Commit
  <2>2. PICK n \in 1..3 : Opens(n)
    BY <2>1, OneIsOpened
  <2>3. /\ Opening \in Store /\ file[Opening] \in File /\ FileOK(Opening, file[Opening])
        /\ ScriptGoes(Opening, file[Opening], tx, <<>>)
    BY <2>1, <2>2 DEF Opens, ScriptOK
  <2>4. ApplyAll(tx, file[Opening]) = Current(Opening)
    BY <2>3, CommittedIsCurrent
  <2>5. Current(Opening) \in File /\ FileOK(Opening, Current(Opening)) /\ "open" \in Mode
    BY <2>3, StoresAre, CurrentIsOK DEF Mode
  <2> QED BY <2>1, <2>2, <2>4, <2>5, SettleKeeps
<1>5. CASE Refuse
  BY <1>5, SubstitutedKeeps DEF Refuse
<1>6. CASE Fault
  BY <1>6, SubstitutedKeeps DEF Fault
<1>7. CASE Crash
  <2>1. /\ at' = Down /\ tx' = <<>> /\ mode' = [s \in Store |-> "closed"] /\ file' = file
    BY <1>7 DEF Crash
  <2>2. at'.phase = "down"
    BY <2>1, AtIs DEF Down
  <2>3. mode' \in [Store -> Mode] /\ \A r \in Store : mode'[r] = "closed"
    BY <2>1 DEF Mode
  <2> QED BY <1>0, <2>1, <2>2, <2>3 DEF SchemaInv, Mode
<1>8. CASE UNCHANGED vars
  BY <1>8 DEF vars, SchemaInv, ScriptOK
<1> QED BY <1>1, <1>2, <1>3, <1>4, <1>5, <1>6, <1>7, <1>8 DEF Next, Open

\* The files a release left behind are in order.
LEMMA SchemaStarts == Init => SchemaInv
<1> SUFFICES ASSUME Init PROVE SchemaInv
  OBVIOUS
<1>1. PICK r \in Found("review"), m \in Found("memory"), o \in Found("orchestration") :
         file = [review |-> r, memory |-> m, orchestration |-> o]
  BY DEF Init
<1>2. file["review"] \in Found("review") /\ file["memory"] \in Found("memory")
      /\ file["orchestration"] \in Found("orchestration") /\ DOMAIN file = Store
  BY <1>1 DEF Store
<1>3. \A s \in Store : file[s] \in Found(s)
  BY <1>2 DEF Store
<1>4. ASSUME NEW s \in Store, NEW f \in Found(s) PROVE f \in File /\ FileOK(s, f)
  <2>1. /\ Schema[s] \in SUBSET Objects /\ SchemaVersion[s] \in Nat \ {0}
        /\ Current(s) \in File /\ Current(s).version = SchemaVersion[s]
        /\ FileOK(s, Current(s))
    BY StoresAre, CurrentIsOK
  <2>2. CASE f = Fresh
    BY <2>1, <2>2 DEF Fresh, File, FileOK
  <2>3. CASE f = Current(s)
    BY <2>1, <2>3
  <2>4. CASE f = Newer(s)
    <3>1. Newer(s) = [Current(s) EXCEPT !.version = SchemaVersion[s] + 1]
      BY <2>1 DEF Newer
    <3>2. f = [version |-> SchemaVersion[s] + 1, objects |-> Schema[s], filled |-> TRUE]
      BY <2>4, <3>1 DEF Current
    <3>3. s = "review" => SchemaVersion[s] = 2
      BY DEF SchemaVersion
    <3> QED BY <2>1, <3>2, <3>3 DEF File, FileOK
  <2>5. CASE s = "review" /\ f = FirstReview
    <3>1. Schema[s] = {"review_decisions", "packet_sequence", "packet_generated_at"}
          /\ SchemaVersion[s] = 2
      BY <2>5 DEF Schema, SchemaVersion
    <3> QED BY <2>1, <2>5, <3>1 DEF FirstReview, File, FileOK
  <2> QED BY <2>2, <2>3, <2>4, <2>5 DEF Found
<1>5. file \in [Store -> File] /\ \A s \in Store : FileOK(s, file[s])
  <2>1. file = [s \in Store |-> file[s]]
    BY <1>1, <1>2
  <2> QED BY <1>3, <1>4, <2>1
<1>6. /\ mode = [s \in Store |-> "closed"] /\ at = Down /\ tx = <<>>
  BY DEF Init
<1>7. at.phase = "down"
  BY <1>6, AtIs DEF Down
<1>8. mode \in [Store -> Mode] /\ \A s \in Store : mode[s] = "closed"
  BY <1>6 DEF Mode
<1> QED BY <1>5, <1>6, <1>7, <1>8 DEF SchemaInv, Mode

\* Nor does a call of remember() touch the files' layout, or what is being opened.
LEMMA SchemaHolds == MemorySpec => []SchemaInv
<1>1. MemoryInit => SchemaInv
  BY SchemaStarts DEF MemoryInit
<1>2. SchemaInv /\ [MemoryNext]_allVars => SchemaInv'
  <2> SUFFICES ASSUME SchemaInv, [MemoryNext]_allVars PROVE SchemaInv'
    OBVIOUS
  <2>1. CASE UNCHANGED <<file, tx, mode, at>>
    BY <2>1 DEF SchemaInv, ScriptOK
  <2>2. CASE Next
    BY <2>2, SchemaStep
  <2>3. ASSUME NEW o \in Observation, Remember(o) \/ RememberRaises(o) \/ StopAfterCommit(o)
        PROVE  UNCHANGED <<file, tx, mode, at>> \/ Next
    BY <2>3 DEF Remember, RememberRaises, StopAfterCommit, Forget, Next, vars
  <2>4. Stop \/ OpenStores => Next
    BY DEF Stop, Forget, OpenStores, Next
  <2>5. Tick \/ UNCHANGED allVars => UNCHANGED <<file, tx, mode, at>>
    BY DEF Tick, allVars, vars
  <2> QED BY <2>1, <2>2, <2>3, <2>4, <2>5 DEF MemoryNext
<1> QED BY <1>1, <1>2, PTL DEF MemorySpec

(***************************************************************************)
(* A file that create_app takes for a current one, or serves from, is      *)
(* complete, wherever its scripts were cut short by crashes and errors and *)
(* however often they were run again.                                      *)
(***************************************************************************)
THEOREM OnlyWholeFilesAreServed == MemorySpec => []CurrentMeansComplete
<1>1. SchemaInv => CurrentMeansComplete
  BY DEF SchemaInv, FileOK, CurrentMeansComplete
<1> QED BY <1>1, SchemaHolds, PTL
=============================================================================
