-------------------------- MODULE ToolDispatchProofs --------------------------
(***************************************************************************)
(* Proofs about ToolDispatch, for any number of workers, jobs, actions and *)
(* evidence, and for calls that die at any step.                           *)
(*                                                                         *)
(* First what survives every overlap of calls, then what holds of a job    *)
(* whose own calls run one after another.                                  *)
(***************************************************************************)
EXTENDS ToolDispatch, FiniteSetTheorems, TLAPS

\* An action noted with n evidence was let through then.
Known(j, seen, a) == seen[a] # Unseen => seen[a] <= evidence /\ admits[<<j, a, seen[a]>>] > 0

\* What a call will write to its job's row is known, but for the action it notes.
CallKnown(w) ==
    /\ pc[w] \in {"gate", "save_beat", "time_out"} => \A a \in Action : Known(JobOf[w], held[w].seen, a)
    /\ pc[w] = "track" =>
           /\ held[w].seen[action[w]] \in 0..evidence
           /\ \A a \in Action \ {action[w]} : Known(JobOf[w], held[w].seen, a)

RowsKnown == \A j \in Job : \A a \in Action : Known(j, row[j].seen, a)

GInv == TypeOK /\ RowsKnown /\ (\A w \in Worker : CallKnown(w)) /\ RefusalsAreRepeats

-----------------------------------------------------------------------------
(* Types *)

LEMMA FreshRow == Fresh \in JobRow
  BY LimitsAssumption DEF Fresh, JobRow

LEMMA RowEdits ==
    ASSUME NEW r \in JobRow
    PROVE  /\ [r EXCEPT !.status = "timed_out"] \in JobRow
           /\ r.budget > 0 => [r EXCEPT !.budget = @ - 1] \in JobRow
           /\ \A a \in Action, n \in Count : [r EXCEPT !.seen[a] = n] \in JobRow
  BY LimitsAssumption DEF JobRow

LEMMA CountUp ==
    ASSUME NEW S, NEW f \in [S -> Nat], NEW k
    PROVE  /\ [f EXCEPT ![k] = @ + 1] \in [S -> Nat]
           /\ \A s \in S : [f EXCEPT ![k] = @ + 1][s] = IF s = k THEN f[s] + 1 ELSE f[s]
  <1> DEFINE g == [f EXCEPT ![k] = @ + 1]
  <1>1. g = [s \in S |-> IF s = k THEN f[k] + 1 ELSE f[s]]
    OBVIOUS
  <1>2. \A s \in S : f[s] + 1 \in Nat /\ f[s] \in Nat
    OBVIOUS
  <1>3. g = [s \in S |-> IF s = k THEN f[s] + 1 ELSE f[s]]
    BY <1>1
  <1> QED
    BY <1>2, <1>3

LEMMA InitTypes == Init => TypeOK
  BY FreshRow, LimitsAssumption DEF Init, TypeOK, Count, Steps

LEMMA NextTypes == TypeOK /\ [Next]_vars => TypeOK'
  <1> SUFFICES ASSUME TypeOK, [Next]_vars PROVE TypeOK'
    OBVIOUS
  <1> USE JobAssumption, LimitsAssumption DEF TypeOK, store, history, Go, Hold, Save, Mine
  <1>1. CASE UNCHANGED vars
    BY <1>1 DEF vars
  <1>2. ASSUME NEW w \in Worker, NEW a \in Action, Dispatch(w, a) PROVE TypeOK'
    <2>1. row[JobOf[w]] \in JobRow
      OBVIOUS
    <2>2. [row[JobOf[w]] EXCEPT !.budget = @ - 1] \in JobRow
      BY <1>2, <2>1, RowEdits DEF Dispatch, MayDispatch
    <2> QED
      BY <1>2, <2>2 DEF Dispatch, MayDispatch, Steps
  <1>3. ASSUME NEW w \in Worker, DispatchLate(w) PROVE TypeOK'
    <2>1. [row[JobOf[w]] EXCEPT !.status = "timed_out"] \in JobRow
      BY RowEdits
    <2> QED
      BY <1>3, <2>1 DEF DispatchLate
  <1>4. ASSUME NEW w \in Worker, Refuse(w) PROVE TypeOK'
    BY <1>4 DEF Refuse, Steps
  <1>5. ASSUME NEW w \in Worker, Admit(w) PROVE TypeOK'
    <2>1. [held[w] EXCEPT !.seen[action[w]] = evidence] \in JobRow
      BY RowEdits
    <2> QED
      BY <1>5, <2>1 DEF Admit, Steps
  <1>6. ASSUME NEW w \in Worker, Track(w) PROVE TypeOK'
    <2>1. admits' \in [Job \X Action \X Count -> Nat]
      BY <1>6, CountUp DEF Track
    <2> QED
      BY <1>6, <2>1 DEF Track, Steps
  <1>7. ASSUME NEW w \in Worker, BeatRead(w) PROVE TypeOK'
    BY <1>7 DEF BeatRead, Steps
  <1>8. ASSUME NEW w \in Worker, BeatSave(w) PROVE TypeOK'
    BY <1>8 DEF BeatSave, Steps
  <1>9. ASSUME NEW w \in Worker, RecordRead(w) PROVE TypeOK'
    BY <1>9 DEF RecordRead, Steps
  <1>10. ASSUME NEW w \in Worker, TimeOut(w) PROVE TypeOK'
    <2>1. [held[w] EXCEPT !.status = "timed_out"] \in JobRow
      BY RowEdits
    <2> QED
      BY <1>10, <2>1 DEF TimeOut, Steps
  <1>11. ASSUME NEW w \in Worker, RecordSave(w) PROVE TypeOK'
    BY <1>11 DEF RecordSave, Steps, Count
  <1>12. ASSUME NEW w \in Worker, Crash(w) PROVE TypeOK'
    BY <1>12 DEF Crash, Steps
  <1>13. ASSUME NEW j \in Job, Expire(j) PROVE TypeOK'
    BY <1>13 DEF Expire
  <1>14. CASE SessionRead \/ SessionSave
    BY <1>14 DEF SessionRead, SessionSave, Unread
  <1> QED
    BY <1>1, <1>2, <1>3, <1>4, <1>5, <1>6, <1>7, <1>8, <1>9, <1>10, <1>11, <1>12, <1>13, <1>14 DEF Next

\* Every row a call reads, holds and writes back is a job row, with a budget
\* between zero and what the job started with; the session never passes its
\* ceiling.
THEOREM DispatchTypes == Spec => []TypeOK
  BY InitTypes, NextTypes, PTL DEF Spec

-----------------------------------------------------------------------------
(* What survives every overlap of calls *)

\* Evidence and admissions only grow.
Grows == /\ evidence <= evidence'
         /\ \A k \in Job \X Action \X Count : admits[k] > 0 => admits'[k] > 0

LEMMA StepGrows == TypeOK /\ [Next]_vars => Grows
  <1> SUFFICES ASSUME TypeOK, [Next]_vars PROVE Grows
    OBVIOUS
  <1>1. ASSUME NEW w \in Worker, Track(w) PROVE Grows
    <2>1. admits' = [admits EXCEPT ![<<JobOf[w], action[w], held[w].seen[action[w]]>>] = @ + 1]
          /\ evidence' = evidence /\ evidence \in Int
      BY <1>1, LimitsAssumption DEF Track, TypeOK, Count
    <2>2. \A k \in Job \X Action \X Count : admits'[k] = admits[k] \/ admits'[k] = admits[k] + 1
      BY <2>1, CountUp DEF TypeOK
    <2>3. \A k \in Job \X Action \X Count : admits[k] \in Nat
      BY DEF TypeOK
    <2> QED
      BY <2>1, <2>2, <2>3 DEF Grows
  <1>2. ASSUME NEW w \in Worker, RecordSave(w) PROVE Grows
    BY <1>2, LimitsAssumption DEF RecordSave, Grows, TypeOK, Count, history
  <1>3. CASE UNCHANGED <<evidence, admits>>
    BY <1>3, LimitsAssumption DEF Grows, TypeOK, Count
  <1>4. \/ \E w \in Worker : Track(w) \/ RecordSave(w)
        \/ UNCHANGED <<evidence, admits>>
    BY DEF Next, vars, store, history, Dispatch, DispatchLate, Refuse, Admit, BeatRead, BeatSave,
           RecordRead, TimeOut, Crash, SessionRead, SessionSave, Expire
  <1> QED
    BY <1>1, <1>2, <1>3, <1>4

Seen == [Action -> Count \union {Unseen}]

\* What is known stays known.
LEMMA KnownGrows ==
    ASSUME TypeOK, TypeOK', Grows, NEW j \in Job, NEW a \in Action, NEW s \in Seen, Known(j, s, a)
    PROVE  s[a] # Unseen => s[a] <= evidence' /\ admits'[<<j, a, s[a]>>] > 0
  <1>1. s[a] # Unseen => s[a] \in Count /\ <<j, a, s[a]>> \in Job \X Action \X Count
    BY DEF Seen
  <1>2. evidence \in Int /\ evidence' \in Int /\ \A n \in Count : n \in Int
    BY LimitsAssumption DEF TypeOK, Count
  <1> QED
    BY <1>1, <1>2 DEF Known, Grows

LEMMA RowsStay ==
    ASSUME TypeOK, TypeOK', RowsKnown, Grows, UNCHANGED row
    PROVE  RowsKnown'
  <1> SUFFICES ASSUME NEW j \in Job, NEW a \in Action PROVE Known(j, row[j].seen, a)'
    BY DEF RowsKnown
  <1>1. row[j].seen \in Seen /\ Known(j, row[j].seen, a)
    BY DEF TypeOK, JobRow, Seen, RowsKnown
  <1>2. row[j].seen[a] # Unseen => row[j].seen[a] <= evidence' /\ admits'[<<j, a, row[j].seen[a]>>] > 0
    BY <1>1, KnownGrows
  <1> QED
    BY <1>2 DEF Known

LEMMA RowsSaved ==
    ASSUME TypeOK, TypeOK', RowsKnown, Grows, NEW w \in Worker,
           \A j \in Job \ {JobOf[w]} : row'[j] = row[j],
           \A a \in Action : Known(JobOf[w], row[JobOf[w]].seen, a)'
    PROVE  RowsKnown'
  <1> SUFFICES ASSUME NEW j \in Job, NEW a \in Action PROVE Known(j, row[j].seen, a)'
    BY DEF RowsKnown
  <1>1. CASE j = JobOf[w]
    BY <1>1
  <1>2. CASE j # JobOf[w]
    <2>1. row[j].seen \in Seen /\ Known(j, row[j].seen, a) /\ row'[j] = row[j]
      BY <1>2 DEF TypeOK, JobRow, Seen, RowsKnown
    <2>2. row[j].seen[a] # Unseen => row[j].seen[a] <= evidence' /\ admits'[<<j, a, row[j].seen[a]>>] > 0
      BY <2>1, KnownGrows
    <2> QED
      BY <2>1, <2>2 DEF Known
  <1> QED
    BY <1>1, <1>2

\* A call that is not acting keeps what it holds.
LEMMA CallStays ==
    ASSUME TypeOK, TypeOK', Grows, NEW v \in Worker, CallKnown(v),
           pc'[v] = pc[v], held'[v] = held[v], action'[v] = action[v]
    PROVE  CallKnown(v)'
  <1>1. JobOf[v] \in Job /\ held[v].seen \in Seen /\ action[v] \in Action
    BY JobAssumption DEF TypeOK, JobRow, Seen
  <1>2. \A a \in Action : Known(JobOf[v], held[v].seen, a) => Known(JobOf[v], held[v].seen, a)'
    <2> SUFFICES ASSUME NEW a \in Action, Known(JobOf[v], held[v].seen, a)
                 PROVE  Known(JobOf[v], held[v].seen, a)'
      OBVIOUS
    <2>1. held[v].seen[a] # Unseen =>
              held[v].seen[a] <= evidence' /\ admits'[<<JobOf[v], a, held[v].seen[a]>>] > 0
      BY <1>1, KnownGrows
    <2> QED
      BY <2>1 DEF Known
  <1>3. evidence \in Int /\ evidence' \in Int /\ evidence <= evidence'
    BY LimitsAssumption DEF TypeOK, Count, Grows
  <1> QED
    BY <1>2, <1>3 DEF CallKnown

LEMMA OthersStay ==
    ASSUME TypeOK, TypeOK', Grows, NEW w \in Worker, \A v \in Worker : CallKnown(v),
           \A v \in Worker \ {w} : pc'[v] = pc[v] /\ held'[v] = held[v] /\ action'[v] = action[v],
           CallKnown(w)'
    PROVE  \A v \in Worker : CallKnown(v)'
  BY CallStays

LEMMA RefusalsStay ==
    ASSUME TypeOK, Grows, RefusalsAreRepeats, UNCHANGED blocked
    PROVE  RefusalsAreRepeats'
  BY DEF TypeOK, Grows, RefusalsAreRepeats

LEMMA InitKnown == Init => GInv
  <1> SUFFICES ASSUME Init PROVE GInv
    OBVIOUS
  <1>1. TypeOK
    BY InitTypes
  <1>2. RowsKnown
    BY DEF Init, RowsKnown, Known, Fresh
  <1>3. \A w \in Worker : CallKnown(w)
    BY DEF Init, CallKnown
  <1>4. RefusalsAreRepeats
    BY DEF Init, RefusalsAreRepeats
  <1> QED
    BY <1>1, <1>2, <1>3, <1>4 DEF GInv

\* A step of a call that writes neither a row nor the evidence count, nor admits anything.
LEMMA QuietStep ==
    ASSUME GInv, TypeOK', Grows, NEW w \in Worker, UNCHANGED <<row, blocked>>,
           \A v \in Worker \ {w} : pc'[v] = pc[v] /\ held'[v] = held[v] /\ action'[v] = action[v],
           CallKnown(w)'
    PROVE  GInv'
  BY RowsStay, OthersStay, RefusalsStay DEF GInv

\* A step of a call that writes its job's row.
LEMMA SavingStep ==
    ASSUME GInv, TypeOK', Grows, NEW w \in Worker, UNCHANGED blocked,
           \A v \in Worker \ {w} : pc'[v] = pc[v] /\ held'[v] = held[v] /\ action'[v] = action[v],
           \A j \in Job \ {JobOf[w]} : row'[j] = row[j],
           \A a \in Action : Known(JobOf[w], row[JobOf[w]].seen, a)',
           CallKnown(w)'
    PROVE  GInv'
  BY RowsSaved, OthersStay, RefusalsStay DEF GInv

LEMMA DispatchKnown ==
    ASSUME GInv, TypeOK', Grows, NEW w \in Worker, NEW b \in Action, Dispatch(w, b)
    PROVE  GInv'
  <1>1. TypeOK /\ JobOf[w] \in Job
    BY JobAssumption DEF GInv
  <1>2. row[JobOf[w]] \in JobRow
    BY <1>1 DEF TypeOK
  <1>3. /\ row'[JobOf[w]].seen = row[JobOf[w]].seen /\ held'[w].seen = row[JobOf[w]].seen
        /\ UNCHANGED <<evidence, admits, blocked>> /\ pc'[w] = "gate"
    BY <1>1, <1>2 DEF Dispatch, TypeOK, JobRow, Save, Hold, Mine, Go
  <1>4. \A v \in Worker \ {w} : pc'[v] = pc[v] /\ held'[v] = held[v] /\ action'[v] = action[v]
    BY <1>1 DEF Dispatch, TypeOK, Hold, Go
  <1>5. \A j \in Job \ {JobOf[w]} : row'[j] = row[j]
    BY <1>1 DEF Dispatch, TypeOK, Save
  <1>6. \A a \in Action : Known(JobOf[w], row[JobOf[w]].seen, a)' /\ Known(JobOf[w], held[w].seen, a)'
    BY <1>1, <1>3 DEF GInv, RowsKnown, Known
  <1>7. CallKnown(w)'
    BY <1>3, <1>6 DEF CallKnown
  <1> QED
    BY <1>3, <1>4, <1>5, <1>6, <1>7, SavingStep

LEMMA DispatchLateKnown ==
    ASSUME GInv, TypeOK', Grows, NEW w \in Worker, DispatchLate(w)
    PROVE  GInv'
  <1>1. TypeOK /\ JobOf[w] \in Job /\ CallKnown(w)
    BY JobAssumption DEF GInv
  <1>2. row[JobOf[w]] \in JobRow
    BY <1>1 DEF TypeOK
  <1>3. /\ row'[JobOf[w]].seen = row[JobOf[w]].seen
        /\ UNCHANGED <<evidence, admits, blocked, pc, held, action>>
    BY <1>1, <1>2 DEF DispatchLate, TypeOK, JobRow, Save, Mine, history
  <1>4. \A j \in Job \ {JobOf[w]} : row'[j] = row[j]
    BY <1>1 DEF DispatchLate, TypeOK, Save
  <1>5. \A a \in Action : Known(JobOf[w], row[JobOf[w]].seen, a)'
    BY <1>1, <1>3 DEF GInv, RowsKnown, Known
  <1>6. CallKnown(w)'
    BY <1>1, <1>3 DEF CallKnown, Known
  <1> QED
    BY <1>3, <1>4, <1>5, <1>6, SavingStep

\* The gate refuses on an admission at exactly today's evidence.
LEMMA RefuseKnown ==
    ASSUME GInv, TypeOK', Grows, NEW w \in Worker, Refuse(w)
    PROVE  GInv'
  <1>1. TypeOK /\ CallKnown(w) /\ pc[w] = "gate" /\ action[w] \in Action
    BY DEF GInv, Refuse, TypeOK
  <1>2. UNCHANGED <<row, used, evidence, expired, action, held, consumed, admits>>
    BY DEF Refuse, store
  <1>3. held[w].seen[action[w]] \in Count \union {Unseen} /\ evidence \in Count
    BY <1>1 DEF TypeOK, JobRow
  <1>4. held[w].seen[action[w]] = evidence /\ admits[<<JobOf[w], action[w], evidence>>] > 0
    <2>1. Known(JobOf[w], held[w].seen, action[w]) /\ held[w].seen[action[w]] >= evidence
      BY <1>1 DEF CallKnown, Refuse
    <2>2. evidence >= 0 /\ \A n \in Count : n \in Int
      BY <1>3, LimitsAssumption DEF Count
    <2>3. held[w].seen[action[w]] # Unseen
      BY <1>3, <2>1, <2>2 DEF Unseen
    <2>4. held[w].seen[action[w]] <= evidence /\ admits[<<JobOf[w], action[w], held[w].seen[action[w]]>>] > 0
      BY <2>1, <2>3 DEF Known
    <2>5. held[w].seen[action[w]] = evidence
      BY <1>3, <2>1, <2>2, <2>3, <2>4
    <2> QED
      BY <2>4, <2>5
  <1>5. RefusalsAreRepeats'
    BY <1>2, <1>4 DEF GInv, RefusalsAreRepeats, Refuse
  <1>6. RowsKnown'
    BY <1>1, <1>2, RowsStay DEF GInv
  <1>7. \A v \in Worker \ {w} : pc'[v] = pc[v] /\ held'[v] = held[v] /\ action'[v] = action[v]
    BY <1>1, <1>2 DEF Refuse, TypeOK, Go
  <1>8. CallKnown(w)'
    BY <1>1 DEF Refuse, TypeOK, Go, CallKnown
  <1>9. \A v \in Worker : CallKnown(v)'
    BY <1>1, <1>7, <1>8, OthersStay DEF GInv
  <1> QED
    BY <1>5, <1>6, <1>9 DEF GInv

LEMMA AdmitKnown ==
    ASSUME GInv, TypeOK', Grows, NEW w \in Worker, Admit(w)
    PROVE  GInv'
  <1>1. TypeOK /\ CallKnown(w) /\ pc[w] = "gate" /\ action[w] \in Action /\ held[w] \in JobRow
    BY DEF GInv, Admit, TypeOK
  <1>2. UNCHANGED <<row, used, evidence, expired, action, blocked, consumed, admits>>
    BY DEF Admit, store, history
  <1>3. \A v \in Worker \ {w} : pc'[v] = pc[v] /\ held'[v] = held[v] /\ action'[v] = action[v]
    BY <1>1, <1>2 DEF Admit, TypeOK, Go, Hold
  <1>4. /\ pc'[w] = "track" /\ held'[w].seen[action[w]] = evidence
        /\ \A a \in Action \ {action[w]} : held'[w].seen[a] = held[w].seen[a]
    BY <1>1 DEF Admit, TypeOK, Go, Hold, JobRow
  <1>5. evidence \in 0..evidence
    BY <1>1, LimitsAssumption DEF TypeOK, Count
  <1>6. \A a \in Action \ {action[w]} : Known(JobOf[w], held[w].seen, a)'
    BY <1>1, <1>2, <1>4 DEF CallKnown, Known
  <1>7. CallKnown(w)'
    BY <1>2, <1>4, <1>5, <1>6 DEF CallKnown
  <1> QED
    BY <1>2, <1>3, <1>7, QuietStep

LEMMA TrackKnown ==
    ASSUME GInv, TypeOK', Grows, NEW w \in Worker, Track(w)
    PROVE  GInv'
  <1>1. /\ TypeOK /\ CallKnown(w) /\ pc[w] = "track" /\ action[w] \in Action /\ held[w] \in JobRow
        /\ JobOf[w] \in Job
    BY JobAssumption DEF GInv, Track, TypeOK
  <1>2. /\ UNCHANGED <<used, evidence, expired, action, held, blocked, consumed>>
        /\ admits' = [admits EXCEPT ![<<JobOf[w], action[w], held[w].seen[action[w]]>>] = @ + 1]
    BY DEF Track
  <1>3. \A v \in Worker \ {w} : pc'[v] = pc[v] /\ held'[v] = held[v] /\ action'[v] = action[v]
    BY <1>1, <1>2 DEF Track, TypeOK, Go
  <1>4. /\ row'[JobOf[w]] = held[w] /\ pc'[w] = "beat"
        /\ \A j \in Job \ {JobOf[w]} : row'[j] = row[j]
    BY <1>1 DEF Track, TypeOK, Save, Go
  <1>5. ASSUME NEW a \in Action
        PROVE  Known(JobOf[w], row[JobOf[w]].seen, a)'
    <2>1. held[w].seen \in Seen
      BY <1>1 DEF JobRow, Seen
    <2>2. CASE a # action[w]
      <3>1. Known(JobOf[w], held[w].seen, a)
        BY <1>1, <2>2 DEF CallKnown
      <3>2. held[w].seen[a] # Unseen =>
                held[w].seen[a] <= evidence' /\ admits'[<<JobOf[w], a, held[w].seen[a]>>] > 0
        BY <1>1, <2>1, <3>1, KnownGrows
      <3> QED
        BY <1>4, <3>2 DEF Known
    <2>3. CASE a = action[w]
      <3>1. held[w].seen[a] \in 0..evidence /\ held[w].seen[a] \in Count
        BY <1>1, <2>3, LimitsAssumption DEF CallKnown, TypeOK, Count
      <3>2. <<JobOf[w], a, held[w].seen[a]>> \in Job \X Action \X Count
        BY <1>1, <3>1
      <3>3. admits[<<JobOf[w], a, held[w].seen[a]>>] \in Nat
        BY <1>1, <3>2 DEF TypeOK
      <3>4. admits'[<<JobOf[w], a, held[w].seen[a]>>] = admits[<<JobOf[w], a, held[w].seen[a]>>] + 1
        BY <1>1, <1>2, <2>3, <3>2 DEF TypeOK
      <3>5. held[w].seen[a] <= evidence
        BY <1>1, <3>1, LimitsAssumption DEF TypeOK, Count
      <3> QED
        BY <1>2, <1>4, <3>3, <3>4, <3>5 DEF Known
    <2> QED
      BY <2>2, <2>3
  <1>6. CallKnown(w)'
    BY <1>4 DEF CallKnown
  <1> QED
    BY <1>2, <1>3, <1>4, <1>5, <1>6, SavingStep

\* The three steps that read the row, or end the call with nothing written.
LEMMA ReadKnown ==
    ASSUME GInv, TypeOK', Grows, NEW w \in Worker, BeatRead(w) \/ RecordRead(w)
    PROVE  GInv'
  <1>1. TypeOK /\ JobOf[w] \in Job
    BY JobAssumption DEF GInv
  <1>2. UNCHANGED <<row, evidence, action, blocked, admits>> /\ held' = [held EXCEPT ![w] = row[JobOf[w]]]
    BY DEF BeatRead, RecordRead, store, history, Hold, Mine
  <1>3. \A v \in Worker \ {w} : pc'[v] = pc[v] /\ held'[v] = held[v] /\ action'[v] = action[v]
    BY <1>1, <1>2 DEF BeatRead, RecordRead, TypeOK, Go
  <1>4. held'[w] = row[JobOf[w]] /\ pc'[w] \in {"save_beat", "time_out", "record"}
    BY <1>1, <1>2 DEF BeatRead, RecordRead, TypeOK, Go
  <1>5. \A a \in Action : Known(JobOf[w], held[w].seen, a)'
    BY <1>1, <1>2, <1>4 DEF GInv, RowsKnown, Known
  <1>6. CallKnown(w)'
    BY <1>4, <1>5 DEF CallKnown
  <1> QED
    BY <1>2, <1>3, <1>6, QuietStep

LEMMA EndKnown ==
    ASSUME GInv, TypeOK', Grows, NEW w \in Worker, RecordSave(w) \/ Crash(w)
    PROVE  GInv'
  <1>1. TypeOK /\ UNCHANGED <<row, action, held, blocked>> /\ pc' = [pc EXCEPT ![w] = "idle"]
    BY DEF GInv, RecordSave, Crash, store, history, Go
  <1>2. \A v \in Worker \ {w} : pc'[v] = pc[v] /\ held'[v] = held[v] /\ action'[v] = action[v]
    BY <1>1 DEF TypeOK
  <1>3. CallKnown(w)'
    BY <1>1 DEF TypeOK, CallKnown
  <1> QED
    BY <1>1, <1>2, <1>3, QuietStep

\* The two steps that write back a row read before, its actions as they were.
LEMMA WriteBackKnown ==
    ASSUME GInv, TypeOK', Grows, NEW w \in Worker, BeatSave(w) \/ TimeOut(w)
    PROVE  GInv'
  <1>1. /\ TypeOK /\ CallKnown(w) /\ pc[w] \in {"save_beat", "time_out"}
        /\ held[w] \in JobRow /\ JobOf[w] \in Job
    BY JobAssumption DEF GInv, BeatSave, TimeOut, TypeOK
  <1>2. UNCHANGED <<evidence, action, held, blocked, admits>> /\ pc' = [pc EXCEPT ![w] = "idle"]
    BY DEF BeatSave, TimeOut, history, Go
  <1>3. \A v \in Worker \ {w} : pc'[v] = pc[v] /\ held'[v] = held[v] /\ action'[v] = action[v]
    BY <1>1, <1>2 DEF TypeOK
  <1>4. /\ row'[JobOf[w]].seen = held[w].seen
        /\ \A j \in Job \ {JobOf[w]} : row'[j] = row[j]
    BY <1>1 DEF BeatSave, TimeOut, TypeOK, JobRow, Save
  <1>5. \A a \in Action : Known(JobOf[w], row[JobOf[w]].seen, a)'
    BY <1>1, <1>2, <1>4 DEF CallKnown, Known
  <1>6. CallKnown(w)'
    BY <1>1, <1>2 DEF TypeOK, CallKnown
  <1> QED
    BY <1>2, <1>3, <1>4, <1>5, <1>6, SavingStep

LEMMA NextKnown == GInv /\ [Next]_vars => GInv'
  <1> SUFFICES ASSUME GInv, [Next]_vars PROVE GInv'
    OBVIOUS
  <1>1. TypeOK' /\ Grows
    BY NextTypes, StepGrows DEF GInv
  <1>2. ASSUME UNCHANGED <<row, evidence, pc, action, held, blocked, admits>> PROVE GInv'
    <2>1. \A v \in Worker : CallKnown(v)'
      BY <1>1, <1>2, CallStays DEF GInv
    <2>2. RowsKnown' /\ RefusalsAreRepeats'
      BY <1>1, <1>2, RowsStay, RefusalsStay DEF GInv
    <2> QED
      BY <1>1, <2>1, <2>2 DEF GInv
  <1>3. CASE UNCHANGED vars
    BY <1>2, <1>3 DEF vars
  <1>4. CASE SessionRead \/ SessionSave \/ \E j \in Job : Expire(j)
    BY <1>2, <1>4 DEF SessionRead, SessionSave, Expire, history
  <1>5. ASSUME NEW w \in Worker, \E a \in Action : Dispatch(w, a) PROVE GInv'
    BY <1>1, <1>5, DispatchKnown
  <1>6. ASSUME NEW w \in Worker,
               DispatchLate(w) \/ Refuse(w) \/ Admit(w) \/ Track(w) PROVE GInv'
    BY <1>1, <1>6, DispatchLateKnown, RefuseKnown, AdmitKnown, TrackKnown
  <1>7. ASSUME NEW w \in Worker,
               BeatRead(w) \/ RecordRead(w) \/ RecordSave(w) \/ Crash(w) \/ BeatSave(w) \/ TimeOut(w)
        PROVE  GInv'
    BY <1>1, <1>7, ReadKnown, EndKnown, WriteBackKnown
  <1> QED
    BY <1>3, <1>4, <1>5, <1>6, <1>7 DEF Next

\* The loop gate never refuses a fresh action: each refusal names an action
\* its job was let through at the same evidence count, however the writes of
\* the job's row overtake each other (_dispatch_loop_gate, "never block a
\* fresh action").
THEOREM OnlyRepeatsRefused == Spec => []RefusalsAreRepeats
  <1>1. GInv => RefusalsAreRepeats
    BY DEF GInv
  <1> QED
    BY <1>1, InitKnown, NextKnown, PTL DEF Spec

-----------------------------------------------------------------------------
(* What a job has left *)

\* No row is behind the bills: not a job's, and not one a call may still save.
CoversBill(j, budget) == Budget <= consumed[j] + budget
BillsCovered == /\ \A j \in Job : CoversBill(j, row[j].budget)
                /\ \A w \in Worker : pc[w] # "idle" => CoversBill(JobOf[w], held[w].budget)

\* A step that bills nobody, saves only covered rows, and gives its call a covered row.
LEMMA CoveredStep ==
    ASSUME TypeOK, TypeOK', BillsCovered, NEW w \in Worker,
           \A j \in Job : consumed[j] <= consumed'[j],
           \A v \in Worker \ {w} : pc'[v] = pc[v] /\ held'[v] = held[v],
           \A j \in Job \ {JobOf[w]} : row'[j] = row[j],
           CoversBill(JobOf[w], row[JobOf[w]].budget)',
           pc'[w] # "idle" => CoversBill(JobOf[w], held[w].budget)'
    PROVE  BillsCovered'
  <1>1. /\ \A j \in Job : consumed[j] \in Int /\ consumed'[j] \in Int /\ row[j].budget \in Int
        /\ \A v \in Worker : held[v].budget \in Int /\ JobOf[v] \in Job
        /\ Budget \in Int
    BY JobAssumption, LimitsAssumption DEF TypeOK, JobRow
  <1>2. ASSUME NEW j \in Job PROVE CoversBill(j, row[j].budget)'
    <2>1. CASE j = JobOf[w]
      BY <2>1
    <2>2. CASE j # JobOf[w]
      BY <1>1, <2>2 DEF BillsCovered, CoversBill
    <2> QED
      BY <2>1, <2>2
  <1>3. ASSUME NEW v \in Worker, pc'[v] # "idle" PROVE CoversBill(JobOf[v], held[v].budget)'
    <2>1. CASE v = w
      BY <1>3, <2>1
    <2>2. CASE v # w
      BY <1>1, <1>3, <2>2 DEF BillsCovered, CoversBill
    <2> QED
      BY <2>1, <2>2
  <1> QED
    BY <1>2, <1>3 DEF BillsCovered

LEMMA DispatchCovered ==
    ASSUME TypeOK, TypeOK', BillsCovered, NEW w \in Worker, NEW b \in Action, Dispatch(w, b)
    PROVE  BillsCovered'
  <1>1. JobOf[w] \in Job /\ row[JobOf[w]] \in JobRow /\ consumed \in [Job -> Nat]
    BY JobAssumption DEF TypeOK
  <1>2. /\ row'[JobOf[w]].budget = row[JobOf[w]].budget - 1
        /\ held'[w] = row'[JobOf[w]]
        /\ consumed' = [consumed EXCEPT ![JobOf[w]] = @ + 1]
    BY <1>1 DEF Dispatch, TypeOK, JobRow, Save, Hold, Mine
  <1>3. /\ \A v \in Worker \ {w} : pc'[v] = pc[v] /\ held'[v] = held[v]
        /\ \A j \in Job \ {JobOf[w]} : row'[j] = row[j]
    BY <1>1 DEF Dispatch, TypeOK, Hold, Go, Save
  <1>4. consumed'[JobOf[w]] = consumed[JobOf[w]] + 1 /\ \A j \in Job : consumed[j] <= consumed'[j]
    BY <1>1, <1>2, CountUp
  <1>5. CoversBill(JobOf[w], row[JobOf[w]].budget)'
    <2>1. Budget <= consumed[JobOf[w]] + row[JobOf[w]].budget
      BY <1>1 DEF BillsCovered, CoversBill
    <2>2. consumed[JobOf[w]] \in Int /\ row[JobOf[w]].budget \in Int /\ Budget \in Int
      BY <1>1, LimitsAssumption DEF JobRow
    <2>3. Budget <= (consumed[JobOf[w]] + 1) + (row[JobOf[w]].budget - 1)
      BY <2>1, <2>2
    <2> QED
      BY <1>2, <1>4, <2>3 DEF CoversBill
  <1>6. CoversBill(JobOf[w], held[w].budget)'
    BY <1>2, <1>5 DEF CoversBill
  <1> QED
    BY <1>3, <1>4, <1>5, <1>6, CoveredStep

\* Every other step of a call writes back the row it holds, a row it reads, or none.
LEMMA OthersCovered ==
    ASSUME TypeOK, TypeOK', BillsCovered, NEW w \in Worker,
           \/ DispatchLate(w) \/ Refuse(w) \/ Admit(w) \/ Track(w) \/ BeatRead(w) \/ BeatSave(w)
           \/ RecordRead(w) \/ TimeOut(w) \/ RecordSave(w) \/ Crash(w)
    PROVE  BillsCovered'
  <1>1. JobOf[w] \in Job /\ row[JobOf[w]] \in JobRow /\ held[w] \in JobRow
    BY JobAssumption DEF TypeOK
  <1>2. consumed' = consumed /\ \A j \in Job : consumed[j] <= consumed'[j]
    <2>1. consumed' = consumed
      BY DEF DispatchLate, Refuse, Admit, Track, BeatRead, BeatSave, RecordRead, TimeOut, RecordSave, Crash, history
    <2>2. \A j \in Job : consumed[j] \in Int
      BY DEF TypeOK
    <2> QED
      BY <2>1, <2>2
  <1>3. \A v \in Worker \ {w} : pc'[v] = pc[v] /\ held'[v] = held[v]
    BY DEF TypeOK, DispatchLate, Refuse, Admit, Track, BeatRead, BeatSave, RecordRead, TimeOut, RecordSave, Crash,
           Go, Hold
  <1>4. \A j \in Job \ {JobOf[w]} : row'[j] = row[j]
    BY DEF TypeOK, DispatchLate, Refuse, Admit, Track, BeatRead, BeatSave, RecordRead, TimeOut, RecordSave, Crash,
           Save, store
  <1>5. \/ row'[JobOf[w]].budget = row[JobOf[w]].budget
        \/ row'[JobOf[w]].budget = held[w].budget /\ pc[w] # "idle"
    <2>1. CASE UNCHANGED row
      BY <2>1
    <2>2. CASE DispatchLate(w)
      BY <1>1, <2>2 DEF DispatchLate, TypeOK, JobRow, Save, Mine
    <2>3. CASE Track(w) \/ BeatSave(w)
      BY <1>1, <2>3 DEF Track, BeatSave, TypeOK, Save
    <2>4. CASE TimeOut(w)
      BY <1>1, <2>4 DEF TimeOut, TypeOK, JobRow, Save
    <2> QED
      BY <2>1, <2>2, <2>3, <2>4 DEF Refuse, Admit, BeatRead, RecordRead, RecordSave, Crash, store
  <1>6. pc'[w] = "idle" \/ held'[w].budget = row[JobOf[w]].budget \/ (held'[w].budget = held[w].budget /\ pc[w] # "idle")
    <2>1. CASE DispatchLate(w) \/ Refuse(w) \/ BeatSave(w) \/ TimeOut(w) \/ RecordSave(w) \/ Crash(w)
      BY <2>1 DEF TypeOK, DispatchLate, Refuse, BeatSave, TimeOut, RecordSave, Crash, Go
    <2>2. CASE Admit(w)
      BY <1>1, <2>2 DEF Admit, TypeOK, Hold, JobRow
    <2>3. CASE Track(w)
      BY <2>3 DEF Track
    <2>4. CASE BeatRead(w) \/ RecordRead(w)
      BY <2>4 DEF BeatRead, RecordRead, TypeOK, Hold, Mine
    <2> QED
      BY <2>1, <2>2, <2>3, <2>4
  <1>7. CoversBill(JobOf[w], row[JobOf[w]].budget) /\ (pc[w] # "idle" => CoversBill(JobOf[w], held[w].budget))
    BY <1>1 DEF BillsCovered
  <1>8. CoversBill(JobOf[w], row[JobOf[w]].budget)'
    BY <1>2, <1>5, <1>7 DEF CoversBill
  <1>9. pc'[w] # "idle" => CoversBill(JobOf[w], held[w].budget)'
    BY <1>2, <1>6, <1>7 DEF CoversBill
  <1> QED
    BY <1>2, <1>3, <1>4, <1>8, <1>9, CoveredStep

LEMMA NextBillsCovered == TypeOK /\ BillsCovered /\ [Next]_vars => BillsCovered'
  <1> SUFFICES ASSUME TypeOK, BillsCovered, [Next]_vars PROVE BillsCovered'
    OBVIOUS
  <1>1. TypeOK'
    BY NextTypes
  <1>2. CASE UNCHANGED <<row, pc, held, consumed>>
    BY <1>2 DEF BillsCovered, CoversBill
  <1>3. CASE UNCHANGED vars \/ SessionRead \/ SessionSave \/ \E j \in Job : Expire(j)
    BY <1>2, <1>3 DEF vars, SessionRead, SessionSave, Expire, history
  <1>4. ASSUME NEW w \in Worker, \E a \in Action : Dispatch(w, a) PROVE BillsCovered'
    BY <1>1, <1>4, DispatchCovered
  <1>5. ASSUME NEW w \in Worker,
               \/ DispatchLate(w) \/ Refuse(w) \/ Admit(w) \/ Track(w) \/ BeatRead(w) \/ BeatSave(w)
               \/ RecordRead(w) \/ TimeOut(w) \/ RecordSave(w) \/ Crash(w)
        PROVE  BillsCovered'
    BY <1>1, <1>5, OthersCovered
  <1> QED
    BY <1>3, <1>4, <1>5 DEF Next

\* Whatever calls of a job overlap and save its row from old reads, the job is not
\* refused for its budget before it was billed all of it (_dispatch_loop_gate,
\* heartbeat_job and consume_dispatch_budget all write the whole row).
THEOREM NoSlotIsTaken == Spec => []NoSlotTaken
  <1>1. Init => BillsCovered
    BY LimitsAssumption DEF Init, BillsCovered, CoversBill, Fresh
  <1>2. BillsCovered => NoSlotTaken
    BY DEF BillsCovered, CoversBill, NoSlotTaken
  <1> QED
    BY <1>1, <1>2, NextBillsCovered, DispatchTypes, PTL DEF Spec

-----------------------------------------------------------------------------
(* A job whose own calls run one after another *)

\* Only one worker makes the calls of job j.
Sole(j) == \A v, w \in Worker : JobOf[v] = j /\ JobOf[w] = j => v = w

\* The budget of job j and its bills add up, and the loop gate lets none of its
\* actions through twice at one evidence count.
Exact(j) == /\ consumed[j] + row[j].budget = Budget
            /\ \A a \in Action, n \in Count : admits[<<j, a, n>>] <= 1

\* The row has noted every admission of the job.
Level(j) == \A a \in Action, n \in Count : admits[<<j, a, n>>] > 0 => n <= row[j].seen[a]

\* Nobody has written the row since the call read it, and the action the call
\* will note was last let through with less evidence.
CallExact(w) ==
    /\ pc[w] \in {"gate", "save_beat", "time_out"} =>
           held[w].budget = row[JobOf[w]].budget /\ held[w].seen = row[JobOf[w]].seen
    /\ pc[w] = "track" =>
           /\ held[w].budget = row[JobOf[w]].budget
           /\ held[w].seen[action[w]] \in Count
           /\ row[JobOf[w]].seen[action[w]] < held[w].seen[action[w]]
           /\ \A a \in Action \ {action[w]} : held[w].seen[a] = row[JobOf[w]].seen[a]

SInv(j) == TypeOK /\ Exact(j) /\ Level(j) /\ \A w \in Worker : JobOf[w] = j => CallExact(w)

LEMMA InitExact == ASSUME NEW j \in Job PROVE Init => SInv(j)
  <1> SUFFICES ASSUME Init PROVE SInv(j)
    OBVIOUS
  <1>1. TypeOK
    BY InitTypes
  <1>2. Exact(j)
    BY LimitsAssumption DEF Init, Exact, Fresh
  <1>3. Level(j)
    BY DEF Init, Level
  <1>4. \A w \in Worker : CallExact(w)
    BY DEF Init, CallExact
  <1> QED
    BY <1>1, <1>2, <1>3, <1>4 DEF SInv

\* A step of a call of another job.
LEMMA AwayStep ==
    ASSUME NEW j \in Job, SInv(j), TypeOK', NEW w \in Worker, JobOf[w] # j,
           \/ \E a \in Action : Dispatch(w, a)
           \/ DispatchLate(w) \/ Refuse(w) \/ Admit(w) \/ Track(w) \/ BeatRead(w) \/ BeatSave(w)
           \/ RecordRead(w) \/ TimeOut(w) \/ RecordSave(w) \/ Crash(w)
    PROVE  SInv(j)'
  <1>1. TypeOK /\ JobOf[w] \in Job
    BY JobAssumption DEF SInv
  <1>2. row'[j] = row[j] /\ consumed'[j] = consumed[j]
    BY <1>1 DEF TypeOK, Dispatch, DispatchLate, Refuse, Admit, Track, BeatRead, BeatSave, RecordRead, TimeOut,
                RecordSave, Crash, Save, store, history
  <1>3. \A v \in Worker : JobOf[v] = j => pc'[v] = pc[v] /\ held'[v] = held[v] /\ action'[v] = action[v]
    BY <1>1 DEF TypeOK, Dispatch, DispatchLate, Refuse, Admit, Track, BeatRead, BeatSave, RecordRead, TimeOut,
                RecordSave, Crash, Go, Hold
  <1>4. \A a \in Action, n \in Count : admits'[<<j, a, n>>] = admits[<<j, a, n>>]
    <2>1. CASE Track(w)
      <3>1. admits' = [admits EXCEPT ![<<JobOf[w], action[w], held[w].seen[action[w]]>>] = @ + 1]
        BY <2>1 DEF Track
      <3>2. \A a \in Action, n \in Count : <<j, a, n>> # <<JobOf[w], action[w], held[w].seen[action[w]]>>
        OBVIOUS
      <3> QED
        BY <1>1, <3>1, <3>2, CountUp DEF TypeOK
    <2>2. CASE admits' = admits
      BY <2>2
    <2> QED
      BY <2>1, <2>2 DEF Dispatch, DispatchLate, Refuse, Admit, BeatRead, BeatSave, RecordRead, TimeOut,
                        RecordSave, Crash, history
  <1>5. Exact(j)' /\ Level(j)'
    BY <1>2, <1>4 DEF SInv, Exact, Level
  <1>6. \A v \in Worker : JobOf[v] = j => CallExact(v)'
    BY <1>2, <1>3 DEF SInv, CallExact
  <1> QED
    BY <1>5, <1>6 DEF SInv

\* A step of the job's call that admits nothing, notes nothing, and moves budget to the bill only.
LEMMA ExactStep ==
    ASSUME NEW j \in Job, Sole(j), SInv(j), TypeOK', NEW w \in Worker, JobOf[w] = j,
           UNCHANGED admits,
           row'[j].seen = row[j].seen,
           consumed'[j] + row'[j].budget = consumed[j] + row[j].budget,
           CallExact(w)'
    PROVE  SInv(j)'
  <1>1. Exact(j)' /\ Level(j)'
    BY DEF SInv, Exact, Level
  <1>2. \A v \in Worker : JobOf[v] = j => CallExact(v)'
    BY DEF Sole
  <1> QED
    BY <1>1, <1>2 DEF SInv

LEMMA DispatchExact ==
    ASSUME NEW j \in Job, Sole(j), SInv(j), TypeOK', NEW w \in Worker, JobOf[w] = j, NEW b \in Action, Dispatch(w, b)
    PROVE  SInv(j)'
  <1>1. TypeOK /\ JobOf[w] \in Job /\ row[JobOf[w]] \in JobRow
    BY JobAssumption DEF SInv, TypeOK
  <1>2. /\ row'[JobOf[w]].seen = row[JobOf[w]].seen /\ row'[JobOf[w]].budget = row[JobOf[w]].budget - 1
        /\ held'[w] = row'[JobOf[w]] /\ UNCHANGED admits /\ pc'[w] = "gate"
        /\ consumed'[JobOf[w]] = consumed[JobOf[w]] + 1
    BY <1>1 DEF Dispatch, TypeOK, JobRow, Save, Hold, Mine, Go
  <1>3. consumed[JobOf[w]] \in Int /\ row[JobOf[w]].budget \in Int
    BY <1>1, LimitsAssumption DEF TypeOK, JobRow
  <1>4. CallExact(w)'
    BY <1>2 DEF CallExact
  <1>5. consumed'[JobOf[w]] + row'[JobOf[w]].budget = consumed[JobOf[w]] + row[JobOf[w]].budget
    BY <1>2, <1>3
  <1> QED
    BY <1>2, <1>4, <1>5, ExactStep

\* A write of the row that leaves its budget and actions alone.
LEMMA RewriteExact ==
    ASSUME NEW j \in Job, Sole(j), SInv(j), TypeOK', NEW w \in Worker, JobOf[w] = j, DispatchLate(w) \/ BeatSave(w) \/ TimeOut(w)
    PROVE  SInv(j)'
  <1>1. TypeOK /\ JobOf[w] \in Job /\ row[JobOf[w]] \in JobRow /\ held[w] \in JobRow /\ CallExact(w)
    BY JobAssumption DEF SInv, TypeOK
  <1>2. /\ UNCHANGED <<admits, consumed, held, action>>
        /\ pc'[w] = "idle"
    BY <1>1 DEF DispatchLate, BeatSave, TimeOut, TypeOK, history, Go
  <1>3. row'[JobOf[w]].seen = row[JobOf[w]].seen /\ row'[JobOf[w]].budget = row[JobOf[w]].budget
    <2>1. CASE DispatchLate(w)
      BY <1>1, <2>1 DEF DispatchLate, TypeOK, JobRow, Save, Mine
    <2>2. CASE BeatSave(w)
      BY <1>1, <2>2 DEF BeatSave, TypeOK, Save, CallExact
    <2>3. CASE TimeOut(w)
      <3>1. row'[JobOf[w]] = [held[w] EXCEPT !.status = "timed_out"]
        BY <1>1, <2>3 DEF TimeOut, TypeOK, Save
      <3>2. [held[w] EXCEPT !.status = "timed_out"].seen = held[w].seen
            /\ [held[w] EXCEPT !.status = "timed_out"].budget = held[w].budget
        BY <1>1 DEF JobRow
      <3> QED
        BY <1>1, <2>3, <3>1, <3>2 DEF TimeOut, CallExact
    <2> QED
      BY <2>1, <2>2, <2>3
  <1>4. CallExact(w)'
    BY <1>2 DEF CallExact
  <1> QED
    BY <1>2, <1>3, <1>4, ExactStep

LEMMA EndExact ==
    ASSUME NEW j \in Job, Sole(j), SInv(j), TypeOK', NEW w \in Worker, JobOf[w] = j, Refuse(w) \/ RecordSave(w) \/ Crash(w)
    PROVE  SInv(j)'
  <1>1. TypeOK /\ UNCHANGED <<row, admits, consumed, held, action>>
    BY DEF SInv, Refuse, RecordSave, Crash, store, history
  <1>2. pc'[w] = "idle"
    BY <1>1 DEF Refuse, RecordSave, Crash, TypeOK, Go
  <1>3. CallExact(w)'
    BY <1>2 DEF CallExact
  <1> QED
    BY <1>1, <1>2, <1>3, ExactStep

LEMMA ReadExact ==
    ASSUME NEW j \in Job, Sole(j), SInv(j), TypeOK', NEW w \in Worker, JobOf[w] = j, BeatRead(w) \/ RecordRead(w)
    PROVE  SInv(j)'
  <1>1. TypeOK /\ UNCHANGED <<row, admits, consumed, action>>
    BY DEF SInv, BeatRead, RecordRead, store, history
  <1>2. held'[w] = row[JobOf[w]] /\ pc'[w] \in {"save_beat", "time_out", "record"}
    BY <1>1 DEF BeatRead, RecordRead, TypeOK, Go, Hold, Mine
  <1>3. CallExact(w)'
    BY <1>1, <1>2 DEF CallExact
  <1> QED
    BY <1>1, <1>2, <1>3, ExactStep

LEMMA AdmitExact ==
    ASSUME NEW j \in Job, Sole(j), SInv(j), TypeOK', NEW w \in Worker, JobOf[w] = j, Admit(w)
    PROVE  SInv(j)'
  <1>1. TypeOK /\ CallExact(w) /\ pc[w] = "gate" /\ held[w] \in JobRow /\ action[w] \in Action /\ evidence \in Count
    BY DEF SInv, Admit, TypeOK
  <1>2. UNCHANGED <<row, admits, consumed, action>>
    BY DEF Admit, store, history
  <1>3. pc'[w] = "track" /\ held'[w] = [held[w] EXCEPT !.seen[action[w]] = evidence]
    BY <1>1 DEF Admit, TypeOK, Go, Hold
  <1>4. /\ held'[w].budget = held[w].budget /\ held'[w].seen[action[w]] = evidence
        /\ \A a \in Action \ {action[w]} : held'[w].seen[a] = held[w].seen[a]
    BY <1>1, <1>3 DEF JobRow
  <1>5. row[JobOf[w]].seen[action[w]] < evidence
    BY <1>1 DEF Admit, CallExact
  <1>6. CallExact(w)'
    BY <1>1, <1>2, <1>3, <1>4, <1>5 DEF CallExact
  <1> QED
    BY <1>2, <1>6, ExactStep

LEMMA TrackExact ==
    ASSUME NEW j \in Job, Sole(j), SInv(j), TypeOK', NEW w \in Worker, JobOf[w] = j, Track(w)
    PROVE  SInv(j)'
  <1>1. TypeOK /\ CallExact(w) /\ pc[w] = "track" /\ held[w] \in JobRow /\ action[w] \in Action /\ JobOf[w] \in Job
    BY JobAssumption DEF SInv, Track, TypeOK
  <1> DEFINE k == <<JobOf[w], action[w], held[w].seen[action[w]]>>
  <1>2. UNCHANGED <<consumed, held, action>> /\ admits' = [admits EXCEPT ![k] = @ + 1]
    BY DEF Track
  <1>3. row'[JobOf[w]] = held[w] /\ pc'[w] = "beat"
    BY <1>1 DEF Track, TypeOK, Save, Go
  <1>4. /\ held[w].budget = row[JobOf[w]].budget
        /\ held[w].seen[action[w]] \in Count
        /\ row[JobOf[w]].seen[action[w]] < held[w].seen[action[w]]
        /\ \A a \in Action \ {action[w]} : held[w].seen[a] = row[JobOf[w]].seen[a]
    BY <1>1 DEF CallExact
  <1>5. k \in Job \X Action \X Count
    BY <1>1, <1>4
  <1>6. \A i \in Job \X Action \X Count : admits[i] \in Nat /\ admits'[i] = IF i = k THEN admits[i] + 1 ELSE admits[i]
    BY <1>1, <1>2, CountUp DEF TypeOK
  <1>7. row[JobOf[w]] \in JobRow /\ \A n \in Count \union {Unseen} : n \in Int
    BY <1>1, LimitsAssumption DEF TypeOK, Count, Unseen
  <1>8. admits[k] = 0
    <2>1. row[JobOf[w]].seen[action[w]] \in Count \union {Unseen}
      BY <1>1, <1>7 DEF JobRow
    <2>2. admits[k] > 0 => held[w].seen[action[w]] <= row[JobOf[w]].seen[action[w]]
      BY <1>1, <1>4 DEF SInv, Level
    <2> QED
      BY <1>4, <1>5, <1>6, <1>7, <2>1, <2>2
  <1>9. Exact(j)'
    <2>1. consumed'[j] + row'[j].budget = Budget
      BY <1>2, <1>3, <1>4 DEF SInv, Exact
    <2>2. \A a \in Action, n \in Count : admits'[<<j, a, n>>] <= 1
      BY <1>6, <1>8 DEF SInv, Exact
    <2> QED
      BY <2>1, <2>2 DEF Exact
  <1>10. Level(j)'
    <2> SUFFICES ASSUME NEW a \in Action, NEW n \in Count, admits'[<<j, a, n>>] > 0
                 PROVE  n <= row'[j].seen[a]
      BY DEF Level
    <2>1. CASE <<j, a, n>> = k
      BY <1>3, <1>7, <2>1
    <2>2. CASE <<j, a, n>> # k
      <3>1. n <= row[j].seen[a]
        <4>1. admits[<<j, a, n>>] > 0
          BY <1>6, <2>2
        <4> QED
          BY <4>1 DEF SInv, Level
      <3>2. CASE a # action[w]
        BY <1>3, <1>4, <3>1, <3>2
      <3>3. CASE a = action[w]
        <4>1. row[j].seen[a] \in Count \union {Unseen}
          BY <1>7 DEF JobRow
        <4> QED
          BY <1>3, <1>4, <1>7, <3>1, <3>3, <4>1
      <3> QED
        BY <3>2, <3>3
    <2> QED
      BY <2>1, <2>2
  <1>11. CallExact(w)'
    BY <1>3 DEF CallExact
  <1>12. \A v \in Worker : JobOf[v] = j => CallExact(v)'
    BY <1>11 DEF Sole
  <1> QED
    BY <1>9, <1>10, <1>12 DEF SInv

LEMMA NextExact == ASSUME NEW j \in Job, Sole(j) PROVE SInv(j) /\ [Next]_vars => SInv(j)'
  <1> SUFFICES ASSUME SInv(j), [Next]_vars PROVE SInv(j)'
    OBVIOUS
  <1>1. TypeOK'
    BY NextTypes DEF SInv
  <1>2. CASE UNCHANGED <<row, pc, action, held, consumed, admits>>
    BY <1>1, <1>2 DEF SInv, Exact, Level, CallExact
  <1>3. CASE UNCHANGED vars \/ SessionRead \/ SessionSave \/ \E i \in Job : Expire(i)
    BY <1>2, <1>3 DEF vars, SessionRead, SessionSave, Expire, history
  <1>4. ASSUME NEW w \in Worker,
               \/ \E a \in Action : Dispatch(w, a)
               \/ DispatchLate(w) \/ Refuse(w) \/ Admit(w) \/ Track(w) \/ BeatRead(w) \/ BeatSave(w)
               \/ RecordRead(w) \/ TimeOut(w) \/ RecordSave(w) \/ Crash(w)
        PROVE  SInv(j)'
    <2>1. CASE JobOf[w] # j
      BY <1>1, <1>4, <2>1, AwayStep
    <2>2. CASE JobOf[w] = j
      <3>1. CASE \E a \in Action : Dispatch(w, a)
        BY <1>1, <2>2, <3>1, DispatchExact
      <3>2. CASE Admit(w) \/ Track(w) \/ BeatRead(w) \/ RecordRead(w)
        BY <1>1, <2>2, <3>2, AdmitExact, TrackExact, ReadExact
      <3>3. CASE DispatchLate(w) \/ BeatSave(w) \/ TimeOut(w) \/ Refuse(w) \/ RecordSave(w) \/ Crash(w)
        BY <1>1, <2>2, <3>3, RewriteExact, EndExact
      <3> QED
        BY <1>4, <3>1, <3>2, <3>3
    <2> QED
      BY <2>1, <2>2
  <1> QED
    BY <1>3, <1>4 DEF Next

\* Where the calls of a job do run one after another, no write of its row gives a slot
\* back and the loop gate lets no repeat through, wherever its calls die, whatever the
\* calls of other jobs do and whoever records evidence (_dispatch_loop_gate).
THEOREM SoleCallerExact == ASSUME NEW j \in Job, Sole(j) PROVE Spec => []Exact(j)
  <1>1. SInv(j) /\ [Next]_vars => SInv(j)'
    BY NextExact
  <1>2. Init => SInv(j)
    BY InitExact
  <1>3. SInv(j) => Exact(j)
    BY DEF SInv
  <1> QED
    BY <1>1, <1>2, <1>3, PTL DEF Spec

-----------------------------------------------------------------------------
(* The session's counter *)

\* Neither the counter nor the row a service call will save is ahead of the bills.
CounterCovered == IsFiniteSet(Billed) /\ used <= Cardinality(Billed) /\ service <= Cardinality(Billed)

\* A dispatch adds one bill.
LEMMA OneMoreBilled ==
  ASSUME consumed \in [Job -> Nat], IsFiniteSet(Billed), NEW j \in Job,
         consumed' = [consumed EXCEPT ![j] = @ + 1]
  PROVE  IsFiniteSet(Billed') /\ Cardinality(Billed') = Cardinality(Billed) + 1
  <1>1. consumed[j] \in Nat
    OBVIOUS
  <1> DEFINE bill == <<j, consumed[j] + 1>>
  <1>2. ASSUME NEW k \in Job
        PROVE  {k} \X (1..consumed'[k]) = IF k = j THEN ({k} \X (1..consumed[k])) \union {bill} ELSE {k} \X (1..consumed[k])
    <2>1. CASE k = j
      <3>1. 1..consumed'[j] = 1..consumed[j] \union {consumed[j] + 1}
        BY <1>1
      <3> QED
        BY <2>1, <3>1
    <2>2. CASE k # j
      BY <2>2
    <2> QED
      BY <2>1, <2>2
  <1>3. Billed' = Billed \union {bill}
    BY <1>2 DEF Billed
  <1>4. bill \notin Billed
    <2>1. \A k \in Job : bill \in {k} \X (1..consumed[k]) => k = j /\ consumed[j] + 1 <= consumed[j]
      OBVIOUS
    <2> QED
      BY <1>1, <2>1 DEF Billed
  <1> QED
    BY <1>3, <1>4, FS_AddElement

LEMMA NextCovered == TypeOK /\ CounterCovered /\ [Next]_vars => CounterCovered'
  <1> SUFFICES ASSUME TypeOK, CounterCovered, [Next]_vars PROVE CounterCovered'
    OBVIOUS
  <1>f. /\ used \in Int /\ service \in Int /\ Cardinality(Billed) \in Nat /\ JobOf \in [Worker -> Job]
        /\ consumed \in [Job -> Nat]
    BY FS_CardinalityType, JobAssumption, LimitsAssumption DEF TypeOK, CounterCovered, Unread
  <1>1. CASE consumed' = consumed /\ used' \in {used, service} /\ service' \in {used, service, Unread}
    BY <1>f, <1>1 DEF CounterCovered, Billed, Unread
  <1>2. ASSUME NEW w \in Worker, NEW a \in Action, Dispatch(w, a)
        PROVE  CounterCovered'
    <2>1. JobOf[w] \in Job /\ consumed' = [consumed EXCEPT ![JobOf[w]] = @ + 1]
      BY <1>f, <1>2 DEF Dispatch
    <2>2. used' = used + 1 /\ service' = service
      BY <1>2 DEF Dispatch
    <2>3. IsFiniteSet(Billed') /\ Cardinality(Billed') = Cardinality(Billed) + 1
      BY <1>f, <2>1, OneMoreBilled DEF CounterCovered
    <2> QED
      BY <1>f, <2>2, <2>3 DEF CounterCovered
  <1>3. ASSUME NEW w \in Worker,
               \/ DispatchLate(w) \/ Refuse(w) \/ Admit(w) \/ Track(w) \/ BeatRead(w) \/ BeatSave(w)
               \/ RecordRead(w) \/ TimeOut(w) \/ RecordSave(w) \/ Crash(w)
        PROVE  CounterCovered'
    <2>1. consumed' = consumed /\ used' = used /\ service' = service
      BY <1>3 DEF DispatchLate, Refuse, Admit, Track, BeatRead, BeatSave, RecordRead, TimeOut, RecordSave, Crash,
                  store, history
    <2> QED
      BY <1>1, <2>1
  <1>4. CASE SessionRead \/ SessionSave \/ \E j \in Job : Expire(j)
    <2>1. /\ consumed' = consumed /\ used' \in {used, service} /\ service' \in {used, service, Unread}
      BY <1>4 DEF SessionRead, SessionSave, Expire, history
    <2> QED
      BY <1>1, <2>1
  <1>5. CASE UNCHANGED vars
    BY <1>1, <1>5 DEF vars
  <1> QED
    BY <1>2, <1>3, <1>4, <1>5 DEF Next

\* However the calls of all jobs overlap, the session's dispatch counter stays at or
\* below the dispatches its jobs were billed (consume_dispatch_budget, save_session).
THEOREM SessionStaysNotOvercharged == Spec => []SessionNotOvercharged
  <1>1. Init => CounterCovered
    <2> SUFFICES ASSUME Init PROVE CounterCovered
      OBVIOUS
    <2>1. Billed = {}
      BY DEF Init, Billed
    <2> QED
      BY <2>1, FS_EmptySet DEF Init, CounterCovered, Unread
  <1>2. CounterCovered => SessionNotOvercharged
    BY DEF CounterCovered, SessionNotOvercharged
  <1> QED
    BY <1>1, <1>2, NextCovered, DispatchTypes, PTL DEF Spec
=============================================================================
