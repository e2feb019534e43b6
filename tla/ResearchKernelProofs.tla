------------------------- MODULE ResearchKernelProofs -------------------------
(***************************************************************************)
(* Proofs about ResearchKernel, for any number of clients, jobs, waves and *)
(* findings, any interleaving of their calls, and crashes at any step.     *)
(*                                                                         *)
(* Every step of a call is a StoreStep (one store operation, of one of six *)
(* kinds) and a CallStep (what the call holds next).  A StoreStep only     *)
(* Grows the store, so what the other calls hold stays grounded; the       *)
(* lemmas on the actions then need to look at the acting call alone.       *)
(***************************************************************************)
EXTENDS ResearchKernel, FiniteSetTheorems, TLAPS

Inv == SnapshotsGrounded

\* The store only grows: freezes, findings and the identity of jobs stay.
Grows ==
    /\ \A w \in freezes.stored : w \in freezes'.stored /\ freezes'.ids[w] = freezes.ids[w]
    /\ \A e \in Evidence : ledger[e] # 0 => ledger'[e] = ledger[e]
    /\ \A j \in Job : Row(j) => /\ jobs'[j].status # "none"
                                /\ jobs'[j].type = jobs[j].type /\ jobs'[j].wave = jobs[j].wave

StoreTypes ==
    /\ session \in SessionRow
    /\ jobs \in [Job -> JobRow]
    /\ ledger \in [Evidence -> 0..MaxWaves]
    /\ freezes \in [stored : SUBSET Wave, ids : [Wave -> SUBSET Evidence]]
    /\ dossiers \in [stored : SUBSET Wave, latest : {"none", "residual", "drained"}]

\* The six kinds of store operation, and what each may write.
SavesSession == \E ses \in SessionRow : SessionOK(ses) /\ SaveSession(ses)
SavesJob(j) == \E row \in JobRow : JobOK(j, row) /\ SaveJob(j, row)
SavesEvidence ==
    /\ \E e \in Evidence, w \in Wave : ledger' = [ledger EXCEPT ![e] = IF @ = 0 THEN w ELSE @]
    /\ UNCHANGED <<session, jobs, freezes, dossiers>>
SavesFreeze ==
    /\ \E w \in Wave : \E ids \in SUBSET WaveRecords(w) :
           freezes' = IF w \in freezes.stored THEN freezes
                      ELSE [stored |-> freezes.stored \union {w}, ids |-> [freezes.ids EXCEPT ![w] = ids]]
    /\ UNCHANGED <<session, jobs, ledger, dossiers>>
SavesDossier ==
    /\ dossiers' \in [stored : SUBSET Wave, latest : {"none", "residual", "drained"}]
    /\ UNCHANGED <<session, jobs, ledger, freezes>>

StoreStep(c) == StoreUnchanged \/ SavesSession \/ SavesJob(call[c].job)
                \/ SavesEvidence \/ SavesFreeze \/ SavesDossier

\* What the acting call holds next is grounded, and its job is not another call's new one.
CallStep(c) == \E s \in CallState :
    /\ Hold(c, s) /\ CallOK(s)'
    /\ s.job = 0 \/ s.job = call[c].job \/ Row(s.job) \/ s.job \in FreshJobs

-----------------------------------------------------------------------------
(* Lemmas on the store *)

LEMMA WaveCardinality == \A S \in SUBSET Wave : Cardinality(S) \in Nat
  <1> SUFFICES ASSUME NEW S \in SUBSET Wave PROVE Cardinality(S) \in Nat
    OBVIOUS
  <1>1. MaxWaves \in Int /\ 1 \in Int
    BY BoundsAssumption
  <1>2. IsFiniteSet(Wave)
    BY <1>1, FS_Interval DEF Wave
  <1>3. IsFiniteSet(S)
    BY <1>2, FS_Subset
  <1> QED
    BY <1>3, FS_CardinalityType

LEMMA StoreGrows ==
  ASSUME Inv, NEW c \in Client, StoreStep(c)
  PROVE  /\ Grows
         /\ \A j \in Job : Row(j)' /\ ~Row(j) => j = call[c].job
         /\ StoreTypes'
  <1> USE DEF Inv, SnapshotsGrounded, TypeOK, StoreTypes, Grows, Row
  <1>1. CASE StoreUnchanged
    BY <1>1 DEF StoreUnchanged, store
  <1>2. CASE SavesSession
    BY <1>2 DEF SavesSession, SaveSession
  <1>3. CASE SavesJob(call[c].job)
    <2>1. PICK row \in JobRow : JobOK(call[c].job, row) /\ SaveJob(call[c].job, row)
      BY <1>3 DEF SavesJob
    <2>2. call[c].job \in Job /\ row.status # "none"
      BY <2>1 DEF JobOK
    <2>3. jobs' = [jobs EXCEPT ![call[c].job] = row] /\ UNCHANGED <<session, ledger, freezes, dossiers>>
      BY <2>1 DEF SaveJob
    <2>4. \A j \in Job : jobs'[j] = IF j = call[c].job THEN row ELSE jobs[j]
      BY <2>2, <2>3
    <2>5. jobs' \in [Job -> JobRow]
      BY <2>1, <2>2, <2>3
    <2> QED
      BY <2>1, <2>2, <2>3, <2>4, <2>5 DEF JobOK
  <1>4. CASE SavesEvidence
    <2>1. PICK e \in Evidence, w \in Wave : ledger' = [ledger EXCEPT ![e] = IF @ = 0 THEN w ELSE @]
      BY <1>4 DEF SavesEvidence
    <2>2. w \in 0..MaxWaves
      BY BoundsAssumption DEF Wave
    <2>3. ledger' \in [Evidence -> 0..MaxWaves]
      BY <2>1, <2>2
    <2>4. \A f \in Evidence : ledger[f] # 0 => ledger'[f] = ledger[f]
      BY <2>1
    <2> QED
      BY <1>4, <2>3, <2>4 DEF SavesEvidence
  <1>5. CASE SavesFreeze
    <2>0. PICK w \in Wave : \E ids \in SUBSET WaveRecords(w) :
              freezes' = IF w \in freezes.stored THEN freezes
                         ELSE [stored |-> freezes.stored \union {w}, ids |-> [freezes.ids EXCEPT ![w] = ids]]
      BY <1>5 DEF SavesFreeze
    <2>1. PICK ids \in SUBSET WaveRecords(w) :
              freezes' = IF w \in freezes.stored THEN freezes
                         ELSE [stored |-> freezes.stored \union {w}, ids |-> [freezes.ids EXCEPT ![w] = ids]]
      BY <2>0
    <2>2. ids \in SUBSET Evidence
      BY DEF WaveRecords
    <2>3. freezes' \in [stored : SUBSET Wave, ids : [Wave -> SUBSET Evidence]]
      BY <2>1, <2>2
    <2>4. \A v \in freezes.stored : v \in freezes'.stored /\ freezes'.ids[v] = freezes.ids[v]
      BY <2>1
    <2> QED
      BY <1>5, <2>3, <2>4 DEF SavesFreeze
  <1>6. CASE SavesDossier
    BY <1>6 DEF SavesDossier
  <1> QED
    BY <1>1, <1>2, <1>3, <1>4, <1>5, <1>6 DEF StoreStep

\* The store part of the invariant after a store operation.
LEMMA StoreStaysGrounded ==
  ASSUME Inv, NEW c \in Client, StoreStep(c)
  PROVE  /\ FreezesFromLedger'
         /\ SessionOK(session)'
         /\ \A j \in Job : Grounded(jobs[j])'
  <1>1. Grows /\ StoreTypes'
    BY StoreGrows
  <1>2. SessionOK(session)'
    <2>1. session' = session \/ SavesSession
      BY DEF StoreStep, StoreUnchanged, store, SavesJob, SaveJob, SavesEvidence, SavesFreeze, SavesDossier
    <2>2. SessionOK(session')
      BY <2>1 DEF Inv, SnapshotsGrounded, SavesSession, SaveSession
    <2>3. session' \in SessionRow
      BY <1>1 DEF StoreTypes
    <2> QED
      BY <1>1, <2>2, <2>3 DEF SessionOK, Grows, Row, SessionRow
  <1>3. \A j \in Job : Grounded(jobs[j])'
    <2>1. jobs' = jobs \/ SavesJob(call[c].job)
      BY DEF StoreStep, StoreUnchanged, store, SavesSession, SaveSession, SavesEvidence, SavesFreeze, SavesDossier
    <2>2. \A j \in Job : Grounded(jobs'[j])
      BY <2>1 DEF Inv, SnapshotsGrounded, TypeOK, SavesJob, SaveJob, JobOK
    <2> QED
      BY <1>1, <2>2 DEF Grounded, Grows
  <1>4. FreezesFromLedger'
    <2>1. FreezesFromLedger
      BY DEF Inv, SnapshotsGrounded
    <2>2. \A w \in Wave : WaveRecords(w) \subseteq WaveRecords(w)'
      BY <1>1 DEF WaveRecords, Grows, Inv, SnapshotsGrounded, TypeOK
    <2>3. CASE freezes' = freezes
      BY <2>1, <2>2, <2>3 DEF FreezesFromLedger, Inv, SnapshotsGrounded, TypeOK
    <2>4. CASE SavesFreeze
      <3>1. PICK w \in Wave : \E ids \in SUBSET WaveRecords(w) :
                freezes' = IF w \in freezes.stored THEN freezes
                           ELSE [stored |-> freezes.stored \union {w}, ids |-> [freezes.ids EXCEPT ![w] = ids]]
        BY <2>4 DEF SavesFreeze
      <3>2. PICK ids \in SUBSET WaveRecords(w) :
                freezes' = IF w \in freezes.stored THEN freezes
                           ELSE [stored |-> freezes.stored \union {w}, ids |-> [freezes.ids EXCEPT ![w] = ids]]
        BY <3>1
      <3>3. \A v \in freezes'.stored : freezes'.ids[v] \subseteq WaveRecords(v)
        BY <2>1, <3>2 DEF FreezesFromLedger, Inv, SnapshotsGrounded, TypeOK
      <3>4. freezes'.stored \subseteq Wave
        BY <1>1 DEF StoreTypes
      <3> QED
        BY <2>2, <3>3, <3>4 DEF FreezesFromLedger
    <2> QED
      BY <2>3, <2>4 DEF StoreStep, StoreUnchanged, store, SavesSession, SaveSession, SavesJob, SaveJob,
                        SavesEvidence, SavesDossier
  <1> QED
    BY <1>2, <1>3, <1>4

\* What a call holds stays grounded while the store grows, unless its new job has
\* been given to another call.
LEMMA HeldStaysGrounded ==
  ASSUME StoreTypes, Grows, NEW s \in CallState, CallOK(s),
         s.job \in Job /\ Row(s.job)' => Row(s.job) \/ s.pc \notin HoldsRow
  PROVE  CallOK(s)'
  <1>1. SessionOK(s.ses)'
    BY DEF CallOK, SessionOK, Grows, Row, CallState, SessionRow
  <1>2. s.pc \in HoldsRow => JobOK(s.job, s.row)'
    BY DEF CallOK, JobOK, Grounded, Grows, Row
  <1>3. s.pc \in {"freeze_open", "freeze_save"} => (s.seen \subseteq WaveRecords(s.wave))'
    BY DEF CallOK, WaveRecords, Grows, StoreTypes
  <1>4. s.pc \in HoldsJob => s.job \in Job /\ Row(s.job)'
    BY DEF CallOK, Grows, Row
  <1>5. s.pc = "analysis_track" => (jobs[s.job].type \in Role /\ jobs[s.job].wave = s.wave)'
    BY DEF CallOK, Grows, Row, HoldsJob
  <1> QED
    BY <1>1, <1>2, <1>3, <1>4, <1>5 DEF CallOK, Grows

\* The invariant is kept by any step that is a StoreStep and a CallStep.
LEMMA StepKeepsInv ==
  ASSUME Inv, NEW c \in Client, StoreStep(c), CallStep(c)
  PROVE  Inv'
  <1>1. Grows /\ StoreTypes' /\ StoreTypes
    BY StoreGrows DEF Inv, SnapshotsGrounded, TypeOK, StoreTypes
  <1>2. \A j \in Job : Row(j)' /\ ~Row(j) => j = call[c].job
    BY StoreGrows
  <1>3. PICK s \in CallState :
            /\ Hold(c, s) /\ CallOK(s)'
            /\ s.job = 0 \/ s.job = call[c].job \/ Row(s.job) \/ s.job \in FreshJobs
    BY DEF CallStep
  <1>4. call \in [Client -> CallState] /\ call' = [call EXCEPT ![c] = s]
    BY <1>3 DEF Hold, Inv, SnapshotsGrounded, TypeOK
  <1>5. call' \in [Client -> CallState] /\ call'[c] = s /\ \A d \in Client \ {c} : call'[d] = call[d]
    BY <1>4
  <1>6. TypeOK'
    BY <1>1, <1>5 DEF TypeOK, StoreTypes
  <1>7. \A d \in Client : CallOK(call[d])'
    <2> SUFFICES ASSUME NEW d \in Client PROVE CallOK(call[d])'
      OBVIOUS
    <2>1. CASE d = c
      BY <1>3, <1>5, <2>1 DEF CallOK, SessionOK, JobOK, Grounded, Row, WaveRecords
    <2>2. CASE d # c
      <3>1. PICK t \in CallState : t = call[d]
        BY <1>4
      <3>2. CallOK(t)
        BY <3>1 DEF Inv, SnapshotsGrounded
      <3>3. t.job \in Job /\ Row(t.job)' => Row(t.job)
        BY <1>2, <2>2, <3>1 DEF Inv, SnapshotsGrounded, NoSharedFresh, Job
      <3>4. CallOK(t)'
        BY <1>1, <3>2, <3>3, HeldStaysGrounded
      <3>5. t = call'[d]
        BY <1>5, <2>2, <3>1
      <3> QED
        BY <3>4, <3>5 DEF CallOK, SessionOK, JobOK, Grounded, Row, WaveRecords
    <2> QED
      BY <2>1, <2>2
  <1>8. NoSharedFresh'
    <2> SUFFICES ASSUME NEW a \in Client, NEW b \in Client, a # b, call'[a].job # 0, call'[a].job = call'[b].job
                 PROVE  jobs'[call'[a].job].status # "none"
      BY DEF NoSharedFresh, Row
    <2>1. \A j \in Job : Row(j) => Row(j)'
      BY <1>1 DEF Grows, Row
    <2>2. \A d \in Client : call'[d].job \in 0..MaxJobs
      BY <1>5 DEF CallState
    <2>3. call'[a].job \in Job
      BY <2>2, BoundsAssumption DEF Job
    <2>4. Row(call'[a].job)
      BY <1>3, <1>5 DEF Inv, SnapshotsGrounded, NoSharedFresh, FreshJobs
    <2> QED
      BY <2>1, <2>3, <2>4 DEF Row
  <1> QED
    BY <1>6, <1>7, <1>8, StoreStaysGrounded DEF Inv, SnapshotsGrounded

-----------------------------------------------------------------------------
(* Lemmas on calls *)

\* A call that returns, or crashes, holds nothing.
LEMMA ReturnIsCallStep ==
  ASSUME Inv, NEW c \in Client, Return(c)
  PROVE  CallStep(c)
  <1>1. Idle \in CallState
    BY BoundsAssumption DEF Idle, CallState, Label, NewSession, SessionRow, NoRow, JobRow, JobType, Role, Wave, JobStatus,
       SessionStatus
  <1>2. CallOK(Idle)'
    BY DEF Idle, CallOK, SessionOK, NewSession, HoldsRow, HoldsJob, HoldsWave, HoldsStored
  <1>3. Idle.job = 0
    BY DEF Idle
  <1> QED
    BY <1>1, <1>2, <1>3 DEF Return, CallStep

LEMMA InvFacts ==
  ASSUME Inv, NEW c \in Client
  PROVE  /\ TypeOK /\ SessionOK(session) /\ call[c] \in CallState /\ CallOK(call[c])
         /\ \A j \in Job : jobs[j] \in JobRow /\ Grounded(jobs[j])
         /\ Idle \in CallState /\ NoRow \in JobRow /\ NewSession \in SessionRow /\ SessionOK(NewSession)
         /\ 0 \notin Job /\ Wave \subseteq 0..MaxWaves /\ Job \subseteq 0..MaxJobs
  <1>1. Idle \in CallState /\ NoRow \in JobRow /\ NewSession \in SessionRow /\ SessionOK(NewSession)
    BY BoundsAssumption DEF Idle, CallState, Label, NewSession, SessionRow, NoRow, JobRow, JobType, Role, Wave, JobStatus,
       SessionStatus, SessionOK
  <1> QED
    BY <1>1, BoundsAssumption DEF Inv, SnapshotsGrounded, TypeOK, Wave, Job

\* A read: the store stays, and the call holds what is grounded in it.
LEMMA ReadStep ==
  ASSUME Inv, NEW c \in Client, StoreUnchanged,
         \E s \in CallState : /\ Hold(c, s) /\ CallOK(s)
                              /\ s.job = 0 \/ s.job = call[c].job \/ Row(s.job) \/ s.job \in FreshJobs
  PROVE  StoreStep(c) /\ CallStep(c)
  <1>1. StoreStep(c)
    BY DEF StoreStep
  <1>2. PICK s \in CallState : /\ Hold(c, s) /\ CallOK(s)
                               /\ s.job = 0 \/ s.job = call[c].job \/ Row(s.job) \/ s.job \in FreshJobs
    OBVIOUS
  <1>3. CallOK(s)'
    BY <1>2 DEF StoreUnchanged, store, CallOK, SessionOK, JobOK, Grounded, Row, WaveRecords
  <1> QED
    BY <1>1, <1>2, <1>3 DEF CallStep

LEMMA ReturnStep ==
  ASSUME Inv, NEW c \in Client, StoreUnchanged, Return(c)
  PROVE  StoreStep(c) /\ CallStep(c)
  BY ReturnIsCallStep DEF StoreStep

LEMMA GotoStep ==
  ASSUME Inv, NEW c \in Client, StoreUnchanged, NEW l \in Label, Goto(c, l),
         CallOK([call[c] EXCEPT !.pc = l])
  PROVE  StoreStep(c) /\ CallStep(c)
  <1>1. call[c] \in CallState
    BY InvFacts
  <1> DEFINE s == [call[c] EXCEPT !.pc = l]
  <1>2. s \in CallState /\ s.job = call[c].job
    BY <1>1 DEF CallState
  <1>3. Hold(c, s)
    BY DEF Goto, Hold
  <1> QED
    BY <1>2, <1>3, ReadStep

\* Starting, retrying, completing and closing jobs: the reads.
LEMMA JobReads ==
  ASSUME Inv, NEW c \in Client,
         \/ StartJobRead(c) \/ RetryJobRead(c) \/ RetryJobSession(c)
         \/ RunResearch(c) \/ CompleteJobRead(c)
         \/ CloseJobRead(c) \/ TouchJobRead(c) \/ CancelResearchRead(c)
  PROVE  StoreStep(c) /\ CallStep(c)
  <1>f. /\ TypeOK /\ SessionOK(session) /\ call[c] \in CallState /\ CallOK(call[c])
        /\ \A j \in Job : jobs[j] \in JobRow /\ Grounded(jobs[j])
        /\ Idle \in CallState /\ NoRow \in JobRow /\ NewSession \in SessionRow /\ SessionOK(NewSession)
        /\ 0 \notin Job /\ Wave \subseteq 0..MaxWaves /\ Job \subseteq 0..MaxJobs
    BY InvFacts
  <1>1. CASE StartJobRead(c)
    <2>1. PICK w \in Wave : Hold(c, [Idle EXCEPT !.pc = "create_check", !.wave = w, !.ses = session, !.yes = TRUE,
                                    !.row = [NoRow EXCEPT !.wave = w, !.status = "queued"]])
      BY <1>1 DEF StartJobRead
    <2> DEFINE row == [NoRow EXCEPT !.wave = w, !.status = "queued"]
    <2>r. row \in JobRow /\ row.status = "queued" /\ row.result = "none"
      BY <1>f, <2>1 DEF StartJobRead, JobRow, JobStatus, NoRow
    <2> DEFINE s == [Idle EXCEPT !.pc = "create_check", !.wave = w, !.ses = session, !.yes = TRUE,
                                    !.row = row]
    <2>h. Hold(c, s) /\ StoreUnchanged
      BY <1>1, <2>1 DEF StartJobRead
    <2> HIDE DEF row
    <2>2. s \in CallState /\ s.job = 0
      BY <1>f, <2>1, <2>r DEF TypeOK, CallState, Label, Idle, TypeOK
    <2>3. CallOK(s)
      BY <1>f, <2>1, <2>r DEF StartJobRead, CallOK, HoldsRow, HoldsJob, HoldsWave, HoldsStored, Idle
    <2> QED
      BY <2>h, <2>2, <2>3, ReadStep
  <1>2. CASE RetryJobRead(c)
    <2>1. PICK j \in Job : Hold(c, [Idle EXCEPT !.pc = "create_session", !.wave = jobs[j].wave,
                                    !.row = [jobs[j] EXCEPT !.status = "queued", !.result = "none"]])
      BY <1>2 DEF RetryJobRead
    <2> DEFINE row == [jobs[j] EXCEPT !.status = "queued", !.result = "none"]
    <2>r. row \in JobRow /\ jobs[j].wave \in Wave /\ row.status = "queued" /\ row.result = "none"
      BY <1>f, <2>1 DEF RetryJobRead, JobRow, JobStatus
    <2> DEFINE s == [Idle EXCEPT !.pc = "create_session", !.wave = jobs[j].wave,
                                    !.row = row]
    <2>h. Hold(c, s) /\ StoreUnchanged
      BY <1>2, <2>1 DEF RetryJobRead
    <2> HIDE DEF row
    <2>2. s \in CallState /\ s.job = 0
      BY <1>f, <2>1, <2>r DEF TypeOK, CallState, Label, Idle
    <2>3. CallOK(s)
      BY <1>f, <2>1, <2>r DEF RetryJobRead, CallOK, HoldsRow, HoldsJob, HoldsWave, HoldsStored, Idle
    <2> QED
      BY <2>h, <2>2, <2>3, ReadStep
  <1>3. CASE RetryJobSession(c)
    <2> DEFINE s == [call[c] EXCEPT !.pc = "create_check", !.ses = session]
    <2>2. s \in CallState /\ s.job = call[c].job
      BY <1>f, <1>3 DEF RetryJobSession, CallState, Label, TypeOK
    <2>3. CallOK(s)
      BY <1>f, <1>3 DEF RetryJobSession, CallOK, HoldsRow, HoldsJob, HoldsWave, HoldsStored, At
    <2> QED
      BY <1>3, <2>2, <2>3, ReadStep DEF RetryJobSession
  <1>4. CASE RunResearch(c)
    <2>1. PICK j \in Job : jobs[j].status = "queued" /\ Hold(c, [Idle EXCEPT !.pc = "save_job", !.job = j, !.row = Status(jobs[j], "running")])
      BY <1>4 DEF RunResearch
    <2> DEFINE row == Status(jobs[j], "running")
    <2>r. row \in JobRow /\ JobOK(j, row) /\ Row(j)
      BY <1>f, <2>1 DEF RunResearch, JobRow, JobStatus, Status, Row, JobOK, Grounded, ActiveJobs, OpenJob
    <2> DEFINE s == [Idle EXCEPT !.pc = "save_job", !.job = j, !.row = row]
    <2>h. Hold(c, s) /\ StoreUnchanged
      BY <1>4, <2>1 DEF RunResearch
    <2> HIDE DEF row
    <2>2. s \in CallState /\ Row(s.job)
      BY <1>f, <2>1, <2>r DEF TypeOK, CallState, Label, Idle
    <2>3. CallOK(s)
      BY <1>f, <2>1, <2>r DEF RunResearch, CallOK, HoldsRow, HoldsJob, HoldsWave, HoldsStored, Idle
    <2> QED
      BY <2>h, <2>2, <2>3, ReadStep
  <1>5. CASE CompleteJobRead(c)
    <2>0. PICK j \in ActiveJobs : Hold(c, [Idle EXCEPT !.pc = IF jobs[j].status = "queued" THEN "complete_start" ELSE "complete_save",
                                    !.job = j, !.row = [jobs[j] EXCEPT !.status = "running", !.result = "outcome"]])
      BY <1>5 DEF CompleteJobRead
    <2>l. PICK l \in {"complete_start", "complete_save"} :
              l = IF jobs[j].status = "queued" THEN "complete_start" ELSE "complete_save"
      OBVIOUS
    <2>1. Hold(c, [Idle EXCEPT !.pc = l, !.job = j, !.row = [jobs[j] EXCEPT !.status = "running", !.result = "outcome"]])
      BY <2>0, <2>l
    <2> DEFINE row == [jobs[j] EXCEPT !.status = "running", !.result = "outcome"]
    <2>r. row \in JobRow /\ JobOK(j, row) /\ Row(j)
      BY <1>f, <2>1 DEF CompleteJobRead, JobRow, JobStatus, Status, Row, JobOK, Grounded, ActiveJobs, OpenJob
    <2> DEFINE s == [Idle EXCEPT !.pc = l, !.job = j, !.row = row]
    <2>h. Hold(c, s) /\ StoreUnchanged
      BY <1>5, <2>1 DEF CompleteJobRead
    <2> HIDE DEF row
    <2>2. s \in CallState /\ Row(s.job)
      BY <1>f, <2>1, <2>r DEF TypeOK, CallState, Label, Idle, ActiveJobs
    <2>3. CallOK(s)
      BY <1>f, <2>1, <2>r DEF CompleteJobRead, CallOK, HoldsRow, HoldsJob, HoldsWave, HoldsStored, Idle
    <2> QED
      BY <2>h, <2>2, <2>3, ReadStep
  <1>6. CASE CloseJobRead(c)
    <2>1. PICK j \in ActiveJobs, new \in {"failed", "cancelled"} : Hold(c, [Idle EXCEPT !.pc = "save_job", !.job = j, !.row = Status(jobs[j], new)])
      BY <1>6 DEF CloseJobRead
    <2> DEFINE row == Status(jobs[j], new)
    <2>r. row \in JobRow /\ JobOK(j, row) /\ Row(j)
      BY <1>f, <2>1 DEF CloseJobRead, JobRow, JobStatus, Status, Row, JobOK, Grounded, ActiveJobs, OpenJob
    <2> DEFINE s == [Idle EXCEPT !.pc = "save_job", !.job = j, !.row = row]
    <2>h. Hold(c, s) /\ StoreUnchanged
      BY <1>6, <2>1 DEF CloseJobRead
    <2> HIDE DEF row
    <2>2. s \in CallState /\ Row(s.job)
      BY <1>f, <2>1, <2>r DEF TypeOK, CallState, Label, Idle, ActiveJobs
    <2>3. CallOK(s)
      BY <1>f, <2>1, <2>r DEF CloseJobRead, CallOK, HoldsRow, HoldsJob, HoldsWave, HoldsStored, Idle
    <2> QED
      BY <2>h, <2>2, <2>3, ReadStep
  <1>7. CASE TouchJobRead(c)
    <2>1. PICK j \in Job : Row(j) /\ Hold(c, [Idle EXCEPT !.pc = "save_job", !.job = j, !.row = jobs[j]])
      BY <1>7 DEF TouchJobRead
    <2> DEFINE s == [Idle EXCEPT !.pc = "save_job", !.job = j, !.row = jobs[j]]
    <2>2. s \in CallState /\ Row(s.job)
      BY <1>f, <2>1 DEF TypeOK, CallState, Label, Idle
    <2>3. CallOK(s)
      BY <1>f, <2>1 DEF TouchJobRead, CallOK, HoldsRow, HoldsJob, HoldsWave, HoldsStored, Idle, Row, JobOK
    <2> QED
      BY <1>7, <2>1, <2>2, <2>3, ReadStep DEF TouchJobRead
  <1>8. CASE CancelResearchRead(c)
    <2> DEFINE ses == [session EXCEPT !.status = "cancelled"]
    <2>s. ses \in SessionRow /\ SessionOK(ses)
      BY <1>f, <1>8 DEF CancelResearchRead, SessionRow, SessionStatus, SessionOK, TypeOK
    <2> DEFINE s == [Idle EXCEPT !.pc = "save_session", !.ses = ses]
    <2>h. Hold(c, s) /\ StoreUnchanged
      BY <1>8 DEF CancelResearchRead
    <2> HIDE DEF ses
    <2>2. s \in CallState /\ s.job = 0
      BY <1>f, <1>8, <2>s DEF CancelResearchRead, CallState, Label, Idle
    <2>3. CallOK(s)
      BY <1>f, <1>8, <2>s DEF CancelResearchRead, CallOK, HoldsRow, HoldsJob, HoldsWave, HoldsStored, Idle
    <2> QED
      BY <2>h, <2>2, <2>3, ReadStep
  <1> QED
    BY <1>1, <1>2, <1>3, <1>4, <1>5, <1>6, <1>7, <1>8

\* The gates of create_job and transition_job_completed.
LEMMA CreateReads ==
  ASSUME Inv, NEW c \in Client,
         CreateJobCheck(c) \/ AdvanceRead(c)
  PROVE  StoreStep(c) /\ CallStep(c)
  <1>f. /\ TypeOK /\ SessionOK(session) /\ call[c] \in CallState /\ CallOK(call[c])
        /\ \A j \in Job : jobs[j] \in JobRow /\ Grounded(jobs[j])
        /\ Idle \in CallState /\ NoRow \in JobRow /\ NewSession \in SessionRow /\ SessionOK(NewSession)
        /\ 0 \notin Job /\ Wave \subseteq 0..MaxWaves /\ Job \subseteq 0..MaxJobs
    BY InvFacts
  <1>1. CASE CreateJobCheck(c)
    <2>u. StoreUnchanged
      BY <1>1 DEF CreateJobCheck
    <2>1. CASE Admit(call[c].row.type) /\ Hold(c, [call[c] EXCEPT !.pc = "create_save_session", !.job = NewJob])
      <3>p. NewJob \in FreshJobs /\ NewJob \in Job /\ ~Row(NewJob)
        BY <1>1, <2>1 DEF Admit, NewJob, FreshJobs, Row
      <3> DEFINE s == [call[c] EXCEPT !.pc = "create_save_session", !.job = NewJob]
      <3>h. Hold(c, s)
        BY <1>1, <2>1
      <3>2. s \in CallState /\ s.job \in FreshJobs
        BY <1>f, <1>1, <2>1, <3>p DEF CreateJobCheck, At, TypeOK, CallState, Label
      <3>3. CallOK(s)
        BY <1>f, <1>1, <2>1, <3>p DEF CreateJobCheck, At, CallState, CallOK, HoldsRow, HoldsJob, HoldsWave, HoldsStored, JobOK, Grounded, Row
      <3> QED
        BY <2>u, <3>h, <3>2, <3>3, ReadStep
    <2>2. CASE Return(c)
      BY <2>u, <2>2, ReturnStep
    <2> QED
      BY <1>1, <2>1, <2>2 DEF CreateJobCheck
  <1>2. CASE AdvanceRead(c)
    <2>u. StoreUnchanged
      BY <1>2 DEF AdvanceRead
    <2>1. CASE Hold(c, [call[c] EXCEPT !.pc = "advance_save", !.ses = [session EXCEPT !.wave = call[c].row.wave]])
      <3>p. call[c].row.wave \in Wave /\ call[c].row.wave \in Nat
        BY <1>f, BoundsAssumption DEF CallState, JobRow, Wave
      <3> DEFINE ses == [session EXCEPT !.wave = call[c].row.wave]
      <3>s. ses \in SessionRow /\ SessionOK(ses)
        BY <1>f, <3>p DEF TypeOK, SessionRow, SessionStatus, SessionOK
      <3> DEFINE s == [call[c] EXCEPT !.pc = "advance_save", !.ses = ses]
      <3>h. Hold(c, s)
        BY <1>2, <2>1
      <3> HIDE DEF ses
      <3>2. s \in CallState /\ s.job = call[c].job
        BY <1>f, <1>2, <2>1, <3>p, <3>s DEF AdvanceRead, At, TypeOK, CallState, Label
      <3>3. CallOK(s)
        BY <1>f, <1>2, <2>1, <3>p, <3>s DEF AdvanceRead, At, CallState, CallOK, HoldsRow, HoldsJob, HoldsWave, HoldsStored
      <3> QED
        BY <2>u, <3>h, <3>2, <3>3, ReadStep
    <2>2. CASE Return(c)
      BY <2>u, <2>2, ReturnStep
    <2> QED
      BY <1>2, <2>1, <2>2 DEF AdvanceRead
  <1> QED
    BY <1>1, <1>2

\* The reads of record_evidence and submit_source_result.
LEMMA EvidenceReads ==
  ASSUME Inv, NEW c \in Client,
         RecordEvidenceRead(c) \/ RecordEvidenceGate(c) \/ SubmitRead(c) \/ SubmitSession(c) \/ SubmitLinkRead(c)
  PROVE  StoreStep(c) /\ CallStep(c)
  <1>f. /\ TypeOK /\ SessionOK(session) /\ call[c] \in CallState /\ CallOK(call[c])
        /\ \A j \in Job : jobs[j] \in JobRow /\ Grounded(jobs[j])
        /\ Idle \in CallState /\ NoRow \in JobRow /\ NewSession \in SessionRow /\ SessionOK(NewSession)
        /\ 0 \notin Job /\ Wave \subseteq 0..MaxWaves /\ Job \subseteq 0..MaxJobs
    BY InvFacts
  <1>1. CASE RecordEvidenceRead(c)
    <2>1. PICK j \in Job : Row(j) /\ Hold(c, [Idle EXCEPT !.pc = "evidence_job", !.job = j, !.ses = session])
      BY <1>1 DEF RecordEvidenceRead
    <2> DEFINE s == [Idle EXCEPT !.pc = "evidence_job", !.job = j, !.ses = session]
    <2>2. s \in CallState /\ Row(s.job)
      BY <1>f, <2>1 DEF TypeOK, CallState, Label, Idle
    <2>3. CallOK(s)
      BY <1>f, <2>1 DEF RecordEvidenceRead, CallOK, HoldsRow, HoldsJob, HoldsWave, HoldsStored, Idle
    <2> QED
      BY <1>1, <2>1, <2>2, <2>3, ReadStep DEF RecordEvidenceRead
  <1>2. CASE RecordEvidenceGate(c)
    <2>u. StoreUnchanged
      BY <1>2 DEF RecordEvidenceGate
    <2>1. CASE Hold(c, [call[c] EXCEPT !.pc = "evidence_save", !.row = jobs[call[c].job]])
      <3>p. call[c].job \in Job /\ Row(call[c].job) /\ jobs[call[c].job] \in JobRow
        BY <1>f, <1>2, <2>1 DEF RecordEvidenceGate, RecordAnalysisGate, At, CallOK, HoldsJob
      <3> DEFINE s == [call[c] EXCEPT !.pc = "evidence_save", !.row = jobs[call[c].job]]
      <3>h. Hold(c, s)
        BY <1>2, <2>1
      <3>2. s \in CallState /\ s.job = call[c].job
        BY <1>f, <1>2, <2>1, <3>p DEF RecordEvidenceGate, At, TypeOK, CallState, Label
      <3>3. CallOK(s)
        BY <1>f, <1>2, <2>1, <3>p DEF RecordEvidenceGate, At, CallState, CallOK, HoldsRow, HoldsJob, HoldsWave, HoldsStored
      <3> QED
        BY <2>u, <3>h, <3>2, <3>3, ReadStep
    <2>2. CASE Return(c)
      BY <2>u, <2>2, ReturnStep
    <2> QED
      BY <1>2, <2>1, <2>2 DEF RecordEvidenceGate
  <1>3. CASE SubmitRead(c)
    <2>1. PICK j \in Job : jobs[j].status = "running" /\ Hold(c, [Idle EXCEPT !.pc = "submit_session", !.job = j,
                                    !.row = [jobs[j] EXCEPT !.result = "outcome"]])
      BY <1>3 DEF SubmitRead
    <2> DEFINE row == [jobs[j] EXCEPT !.result = "outcome"]
    <2>r. row \in JobRow /\ JobOK(j, row) /\ Row(j)
      BY <1>f, <2>1 DEF SubmitRead, JobRow, JobStatus, Status, Row, JobOK, Grounded, ActiveJobs, OpenJob
    <2> DEFINE s == [Idle EXCEPT !.pc = "submit_session", !.job = j,
                                    !.row = row]
    <2>h. Hold(c, s) /\ StoreUnchanged
      BY <1>3, <2>1 DEF SubmitRead
    <2> HIDE DEF row
    <2>2. s \in CallState /\ Row(s.job)
      BY <1>f, <2>1, <2>r DEF TypeOK, CallState, Label, Idle
    <2>3. CallOK(s)
      BY <1>f, <2>1, <2>r DEF SubmitRead, CallOK, HoldsRow, HoldsJob, HoldsWave, HoldsStored, Idle
    <2> QED
      BY <2>h, <2>2, <2>3, ReadStep
  <1>4. CASE SubmitSession(c)
    <2>u. StoreUnchanged
      BY <1>4 DEF SubmitSession
    <2>1. CASE Return(c)
      BY <2>u, <2>1, ReturnStep
    <2>2. CASE Goto(c, "submit_dossier")
      <3>1. CallOK([call[c] EXCEPT !.pc = "submit_dossier"])
        BY <1>f, <1>4 DEF SubmitSession, At, CallOK, HoldsRow, HoldsJob, HoldsWave, HoldsStored, CallState
      <3> QED
        BY <2>u, <2>2, <3>1, GotoStep DEF Label
    <2> QED
      BY <1>4, <2>1, <2>2 DEF SubmitSession
  <1>5. CASE SubmitLinkRead(c)
    <2>u. StoreUnchanged
      BY <1>5 DEF SubmitLinkRead
    <2>1. CASE Goto(c, "complete_save")
      <3>1. CallOK([call[c] EXCEPT !.pc = "complete_save"])
        BY <1>f, <1>5 DEF SubmitLinkRead, At, CallOK, HoldsRow, HoldsJob, HoldsWave, HoldsStored, CallState
      <3> QED
        BY <2>u, <2>1, <3>1, GotoStep DEF Label
    <2>2. CASE Hold(c, [call[c] EXCEPT !.pc = "submit_link", !.ses = [session EXCEPT !.dossiers = @ \union {call[c].row.wave}]])
      <3>p. call[c].row.wave \in Wave /\ call[c].row.wave \in Nat
        BY <1>f, BoundsAssumption DEF CallState, JobRow, Wave
      <3> DEFINE ses == [session EXCEPT !.dossiers = @ \union {call[c].row.wave}]
      <3>s. ses \in SessionRow /\ SessionOK(ses)
        BY <1>f, <3>p DEF TypeOK, SessionRow, SessionStatus, SessionOK
      <3> DEFINE s == [call[c] EXCEPT !.pc = "submit_link", !.ses = ses]
      <3>h. Hold(c, s)
        BY <1>5, <2>2
      <3> HIDE DEF ses
      <3>2. s \in CallState /\ s.job = call[c].job
        BY <1>f, <1>5, <2>2, <3>p, <3>s DEF SubmitLinkRead, At, TypeOK, CallState, Label
      <3>3. CallOK(s)
        BY <1>f, <1>5, <2>2, <3>p, <3>s DEF SubmitLinkRead, At, CallState, CallOK, HoldsRow, HoldsJob, HoldsWave, HoldsStored
      <3> QED
        BY <2>u, <3>h, <3>2, <3>3, ReadStep
    <2> QED
      BY <1>5, <2>1, <2>2 DEF SubmitLinkRead
  <1> QED
    BY <1>1, <1>2, <1>3, <1>4, <1>5

\* The reads of freeze_session.
LEMMA FreezeReads ==
  ASSUME Inv, NEW c \in Client,
         FreezeRead(c) \/ FreezeList(c) \/ FreezeOpenJobs(c)
  PROVE  StoreStep(c) /\ CallStep(c)
  <1>f. /\ TypeOK /\ SessionOK(session) /\ call[c] \in CallState /\ CallOK(call[c])
        /\ \A j \in Job : jobs[j] \in JobRow /\ Grounded(jobs[j])
        /\ Idle \in CallState /\ NoRow \in JobRow /\ NewSession \in SessionRow /\ SessionOK(NewSession)
        /\ 0 \notin Job /\ Wave \subseteq 0..MaxWaves /\ Job \subseteq 0..MaxJobs
    BY InvFacts
  <1>1. CASE FreezeRead(c)
    <2>u. StoreUnchanged
      BY <1>1 DEF FreezeRead
    <2>1. CASE \E w \in Wave : session.status = "created" /\ Hold(c, [Idle EXCEPT !.pc = "freeze_planning", !.wave = w, !.ses = Status(session, "planning")])
      <3>1. PICK w \in Wave : session.status = "created" /\ Hold(c, [Idle EXCEPT !.pc = "freeze_planning", !.wave = w, !.ses = Status(session, "planning")])
        BY <2>1
      <3> DEFINE ses == Status(session, "planning")
      <3>s. ses \in SessionRow /\ SessionOK(ses)
        BY <1>f, <1>1, <3>1 DEF TypeOK, SessionRow, SessionStatus, SessionOK, Status
      <3> DEFINE s == [Idle EXCEPT !.pc = "freeze_planning", !.wave = w, !.ses = ses]
      <3>h. Hold(c, s)
        BY <1>1, <3>1
      <3> HIDE DEF ses
      <3>2. s \in CallState /\ s.job = 0
        BY <1>f, <1>1, <3>1, <3>s DEF FreezeRead, At, TypeOK, CallState, Label, Idle
      <3>3. CallOK(s)
        BY <1>f, <1>1, <3>1, <3>s DEF FreezeRead, At, CallState, CallOK, HoldsRow, HoldsJob, HoldsWave, HoldsStored, Idle
      <3> QED
        BY <2>u, <3>h, <3>2, <3>3, ReadStep
    <2>2. CASE \E w \in Wave : session.status = "planning" /\ Hold(c, [Idle EXCEPT !.pc = "freeze_researching", !.wave = w, !.ses = Status(session, "researching")])
      <3>1. PICK w \in Wave : session.status = "planning" /\ Hold(c, [Idle EXCEPT !.pc = "freeze_researching", !.wave = w, !.ses = Status(session, "researching")])
        BY <2>2
      <3> DEFINE ses == Status(session, "researching")
      <3>s. ses \in SessionRow /\ SessionOK(ses)
        BY <1>f, <1>1, <3>1 DEF TypeOK, SessionRow, SessionStatus, SessionOK, Status
      <3> DEFINE s == [Idle EXCEPT !.pc = "freeze_researching", !.wave = w, !.ses = ses]
      <3>h. Hold(c, s)
        BY <1>1, <3>1
      <3> HIDE DEF ses
      <3>2. s \in CallState /\ s.job = 0
        BY <1>f, <1>1, <3>1, <3>s DEF FreezeRead, At, TypeOK, CallState, Label, Idle
      <3>3. CallOK(s)
        BY <1>f, <1>1, <3>1, <3>s DEF FreezeRead, At, CallState, CallOK, HoldsRow, HoldsJob, HoldsWave, HoldsStored, Idle
      <3> QED
        BY <2>u, <3>h, <3>2, <3>3, ReadStep
    <2>3. CASE \E w \in Wave : FreezeReady(session.status, w) /\ Hold(c, [Idle EXCEPT !.pc = "freeze_list", !.wave = w, !.ses = session])
      <3>1. PICK w \in Wave : FreezeReady(session.status, w) /\ Hold(c, [Idle EXCEPT !.pc = "freeze_list", !.wave = w, !.ses = session])
        BY <2>3
      <3> DEFINE s == [Idle EXCEPT !.pc = "freeze_list", !.wave = w, !.ses = session]
      <3>h. Hold(c, s)
        BY <1>1, <3>1
      <3>2. s \in CallState /\ s.job = 0
        BY <1>f, <1>1, <3>1 DEF FreezeRead, At, TypeOK, CallState, Label, Idle
      <3>3. CallOK(s)
        BY <1>f, <1>1, <3>1 DEF FreezeRead, At, CallState, CallOK, HoldsRow, HoldsJob, HoldsWave, HoldsStored, Idle
      <3> QED
        BY <2>u, <3>h, <3>2, <3>3, ReadStep
    <2> QED
      BY <1>1, <2>1, <2>2, <2>3 DEF FreezeRead
  <1>2. CASE FreezeList(c)
    <2>u. StoreUnchanged
      BY <1>2 DEF FreezeList
    <2>1. CASE Hold(c, [call[c] EXCEPT !.pc = "freeze_open", !.seen = WaveRecords(call[c].wave)])
      <3>p. call[c].wave \in Wave
        BY <1>f, <1>2, <2>1 DEF FreezeList, At, CallOK, HoldsWave
      <3> DEFINE s == [call[c] EXCEPT !.pc = "freeze_open", !.seen = WaveRecords(call[c].wave)]
      <3>h. Hold(c, s)
        BY <1>2, <2>1
      <3>2. s \in CallState /\ s.job = call[c].job
        BY <1>f, <1>2, <2>1, <3>p DEF FreezeList, At, TypeOK, CallState, Label, WaveRecords
      <3>3. CallOK(s)
        BY <1>f, <1>2, <2>1, <3>p DEF FreezeList, At, CallState, CallOK, HoldsRow, HoldsJob, HoldsWave, HoldsStored
      <3> QED
        BY <2>u, <3>h, <3>2, <3>3, ReadStep
    <2> QED
      BY <1>2, <2>1 DEF FreezeList
  <1>3. CASE FreezeOpenJobs(c)
    <2>u. StoreUnchanged
      BY <1>3 DEF FreezeOpenJobs
    <2>1. CASE Return(c)
      BY <2>u, <2>1, ReturnStep
    <2>2. CASE Goto(c, "freeze_save")
      <3>1. CallOK([call[c] EXCEPT !.pc = "freeze_save"])
        BY <1>f, <1>3 DEF FreezeOpenJobs, At, CallOK, HoldsRow, HoldsJob, HoldsWave, HoldsStored, CallState
      <3> QED
        BY <2>u, <2>2, <3>1, GotoStep DEF Label
    <2> QED
      BY <1>3, <2>1, <2>2 DEF FreezeOpenJobs
  <1> QED
    BY <1>1, <1>2, <1>3

\* The reads of create_committee_jobs.
LEMMA CommitteeReads ==
  ASSUME Inv, NEW c \in Client,
         CommitteeRoles(c) \/ CommitteeSession(c) \/ CommitteeCheck(c) \/ CommitteeRollback(c)
  PROVE  StoreStep(c) /\ CallStep(c)
  <1>f. /\ TypeOK /\ SessionOK(session) /\ call[c] \in CallState /\ CallOK(call[c])
        /\ \A j \in Job : jobs[j] \in JobRow /\ Grounded(jobs[j])
        /\ Idle \in CallState /\ NoRow \in JobRow /\ NewSession \in SessionRow /\ SessionOK(NewSession)
        /\ 0 \notin Job /\ Wave \subseteq 0..MaxWaves /\ Job \subseteq 0..MaxJobs
    BY InvFacts
  <1>1. CASE CommitteeRoles(c)
    <2>u. StoreUnchanged
      BY <1>1 DEF CommitteeRoles
    <2>1. CASE \E w \in Wave : Hold(c, [Idle EXCEPT !.pc = "committee_session", !.wave = w, !.todo = MissingRoles(w)])
      <3>1. PICK w \in Wave : Hold(c, [Idle EXCEPT !.pc = "committee_session", !.wave = w, !.todo = MissingRoles(w)])
        BY <2>1
      <3> DEFINE s == [Idle EXCEPT !.pc = "committee_session", !.wave = w, !.todo = MissingRoles(w)]
      <3>h. Hold(c, s)
        BY <1>1, <3>1
      <3>2. s \in CallState /\ s.job = 0
        BY <1>f, <1>1, <3>1 DEF CommitteeRoles, At, TypeOK, CallState, Label, Idle, MissingRoles
      <3>3. CallOK(s)
        BY <1>f, <1>1, <3>1 DEF CommitteeRoles, At, CallState, CallOK, HoldsRow, HoldsJob, HoldsWave, HoldsStored, Idle
      <3> QED
        BY <2>u, <3>h, <3>2, <3>3, ReadStep
    <2> QED
      BY <1>1, <2>1 DEF CommitteeRoles
  <1>2. CASE CommitteeSession(c)
    <2>u. StoreUnchanged
      BY <1>2 DEF CommitteeSession
    <2>1. CASE Hold(c, [call[c] EXCEPT !.pc = "committee_check", !.ses = session])
      <3>p. call[c].wave \in Wave
        BY <1>f, <1>2, <2>1 DEF CommitteeSession, At, CallOK, HoldsWave
      <3> DEFINE s == [call[c] EXCEPT !.pc = "committee_check", !.ses = session]
      <3>h. Hold(c, s)
        BY <1>2, <2>1
      <3>2. s \in CallState /\ s.job = call[c].job
        BY <1>f, <1>2, <2>1, <3>p DEF CommitteeSession, At, TypeOK, CallState, Label
      <3>3. CallOK(s)
        BY <1>f, <1>2, <2>1, <3>p DEF CommitteeSession, At, CallState, CallOK, HoldsRow, HoldsJob, HoldsWave, HoldsStored
      <3> QED
        BY <2>u, <3>h, <3>2, <3>3, ReadStep
    <2> QED
      BY <1>2, <2>1 DEF CommitteeSession
  <1>3. CASE CommitteeCheck(c)
    <2>u. StoreUnchanged
      BY <1>3 DEF CommitteeCheck
    <2>1. CASE Return(c)
      BY <2>u, <2>1, ReturnStep
    <2>2. CASE Admit(NextRole(call[c].todo)) /\ Hold(c, [call[c] EXCEPT !.pc = "committee_save_session", !.job = NewJob, !.todo = @ \ {NextRole(call[c].todo)},
                              !.row = [NoRow EXCEPT !.type = NextRole(call[c].todo), !.wave = call[c].wave, !.status = "running"]])
      <3>p. NewJob \in FreshJobs /\ NewJob \in Job /\ ~Row(NewJob) /\ call[c].wave \in Wave /\ NextRole(call[c].todo) \in Role
        BY <1>f, <1>3, <2>2 DEF Admit, NewJob, FreshJobs, Row, CommitteeCheck, At, CallOK, HoldsWave, NextRole, Role
      <3> DEFINE row == [NoRow EXCEPT !.type = NextRole(call[c].todo), !.wave = call[c].wave, !.status = "running"]
      <3>r. row \in JobRow /\ row.status # "none" /\ row.result = "none"
        BY <1>f, <1>3, <2>2, <3>p DEF CommitteeCheck, At, CallState, JobRow, JobStatus, JobType, NoRow
      <3> DEFINE s == [call[c] EXCEPT !.pc = "committee_save_session", !.job = NewJob, !.todo = @ \ {NextRole(call[c].todo)},
                              !.row = row]
      <3>h. Hold(c, s)
        BY <1>3, <2>2
      <3> HIDE DEF row
      <3>2. s \in CallState /\ s.job \in FreshJobs
        BY <1>f, <1>3, <2>2, <3>p, <3>r DEF CommitteeCheck, At, TypeOK, CallState, Label
      <3>3. CallOK(s)
        BY <1>f, <1>3, <2>2, <3>p, <3>r DEF CommitteeCheck, At, CallState, CallOK, HoldsRow, HoldsJob, HoldsWave, HoldsStored, JobOK, Grounded, Row
      <3> QED
        BY <2>u, <3>h, <3>2, <3>3, ReadStep
    <2>3. CASE Goto(c, "committee_rollback")
      <3>1. CallOK([call[c] EXCEPT !.pc = "committee_rollback"])
        BY <1>f, <1>3 DEF CommitteeCheck, At, CallOK, HoldsRow, HoldsJob, HoldsWave, HoldsStored, CallState
      <3> QED
        BY <2>u, <2>3, <3>1, GotoStep DEF Label
    <2> QED
      BY <1>3, <2>1, <2>2, <2>3 DEF CommitteeCheck
  <1>4. CASE CommitteeRollback(c)
    <2>u. StoreUnchanged
      BY <1>4 DEF CommitteeRollback
    <2>1. CASE Return(c)
      BY <2>u, <2>1, ReturnStep
    <2>2. CASE \E j \in call[c].mine : jobs[j].status \in OpenJob /\ Hold(c, [call[c] EXCEPT !.pc = "committee_fail", !.job = j, !.mine = @ \ {j},
                                               !.row = Status(jobs[j], "failed")])
      <3>1. PICK j \in call[c].mine : jobs[j].status \in OpenJob /\ Hold(c, [call[c] EXCEPT !.pc = "committee_fail", !.job = j, !.mine = @ \ {j},
                                               !.row = Status(jobs[j], "failed")])
        BY <2>2
      <3>p. j \in Job /\ Row(j) /\ jobs[j] \in JobRow /\ call[c].wave \in Wave
        BY <1>f, <1>4, <3>1 DEF CallState, Row, OpenJob, CommitteeRollback, At, CallOK, HoldsWave
      <3> DEFINE row == Status(jobs[j], "failed")
      <3>r. row \in JobRow /\ JobOK(j, row)
        BY <1>f, <1>4, <3>1, <3>p DEF CommitteeRollback, At, CallState, JobRow, JobStatus, Status, JobOK, Grounded, Row
      <3> DEFINE s == [call[c] EXCEPT !.pc = "committee_fail", !.job = j, !.mine = @ \ {j},
                                               !.row = row]
      <3>h. Hold(c, s)
        BY <1>4, <3>1
      <3> HIDE DEF row
      <3>2. s \in CallState /\ Row(s.job)
        BY <1>f, <1>4, <3>1, <3>p, <3>r DEF CommitteeRollback, At, TypeOK, CallState, Label
      <3>3. CallOK(s)
        BY <1>f, <1>4, <3>1, <3>p, <3>r DEF CommitteeRollback, At, CallState, CallOK, HoldsRow, HoldsJob, HoldsWave, HoldsStored
      <3> QED
        BY <2>u, <3>h, <3>2, <3>3, ReadStep
    <2>3. CASE \E j \in call[c].mine : Hold(c, [call[c] EXCEPT !.mine = @ \ {j}])
      <3>1. PICK j \in call[c].mine : Hold(c, [call[c] EXCEPT !.mine = @ \ {j}])
        BY <2>3
      <3> DEFINE s == [call[c] EXCEPT !.mine = @ \ {j}]
      <3>h. Hold(c, s)
        BY <1>4, <3>1
      <3>2. s \in CallState /\ s.job = call[c].job
        BY <1>f, <1>4, <3>1 DEF CommitteeRollback, At, TypeOK, CallState, Label
      <3>3. CallOK(s)
        BY <1>f, <1>4, <3>1 DEF CommitteeRollback, At, CallState, CallOK, HoldsRow, HoldsJob, HoldsWave, HoldsStored
      <3> QED
        BY <2>u, <3>h, <3>2, <3>3, ReadStep
    <2> QED
      BY <1>4, <2>1, <2>2, <2>3 DEF CommitteeRollback
  <1> QED
    BY <1>1, <1>2, <1>3, <1>4

\* The reads of record_committee_analysis.
LEMMA AnalysisReads ==
  ASSUME Inv, NEW c \in Client,
         RecordAnalysisRead(c) \/ RecordAnalysisGate(c)
  PROVE  StoreStep(c) /\ CallStep(c)
  <1>f. /\ TypeOK /\ SessionOK(session) /\ call[c] \in CallState /\ CallOK(call[c])
        /\ \A j \in Job : jobs[j] \in JobRow /\ Grounded(jobs[j])
        /\ Idle \in CallState /\ NoRow \in JobRow /\ NewSession \in SessionRow /\ SessionOK(NewSession)
        /\ 0 \notin Job /\ Wave \subseteq 0..MaxWaves /\ Job \subseteq 0..MaxJobs
    BY InvFacts
  <1>1. CASE RecordAnalysisRead(c)
    <2>u. StoreUnchanged
      BY <1>1 DEF RecordAnalysisRead
    <2>1. CASE \E j \in Job : Row(j) /\ Hold(c, [Idle EXCEPT !.pc = "analysis_job", !.job = j, !.ses = session])
      <3>1. PICK j \in Job : Row(j) /\ Hold(c, [Idle EXCEPT !.pc = "analysis_job", !.job = j, !.ses = session])
        BY <2>1
      <3> DEFINE s == [Idle EXCEPT !.pc = "analysis_job", !.job = j, !.ses = session]
      <3>h. Hold(c, s)
        BY <1>1, <3>1
      <3>2. s \in CallState /\ Row(s.job)
        BY <1>f, <1>1, <3>1 DEF RecordAnalysisRead, At, TypeOK, CallState, Label, Idle
      <3>3. CallOK(s)
        BY <1>f, <1>1, <3>1 DEF RecordAnalysisRead, At, CallState, CallOK, HoldsRow, HoldsJob, HoldsWave, HoldsStored, Idle
      <3> QED
        BY <2>u, <3>h, <3>2, <3>3, ReadStep
    <2> QED
      BY <1>1, <2>1 DEF RecordAnalysisRead
  <1>2. CASE RecordAnalysisGate(c)
    <2>u. StoreUnchanged
      BY <1>2 DEF RecordAnalysisGate
    <2>1. CASE MayAnalyse(call[c].ses, jobs[call[c].job]) /\ Hold(c, [call[c] EXCEPT !.pc = "analysis_save", !.wave = jobs[call[c].job].wave,
                                         !.row = [jobs[call[c].job] EXCEPT !.status = "completed", !.result = "analysis"]])
      <3>p. call[c].job \in Job /\ Row(call[c].job) /\ jobs[call[c].job] \in JobRow
            /\ jobs[call[c].job].type \in Role /\ jobs[call[c].job].wave \in freezes.stored
        BY <1>f, <1>2, <2>1 DEF RecordEvidenceGate, RecordAnalysisGate, At, CallOK, HoldsJob, MayAnalyse
      <3> DEFINE row == [jobs[call[c].job] EXCEPT !.status = "completed", !.result = "analysis"]
      <3>r. row \in JobRow /\ JobOK(call[c].job, row) /\ row.type \in Role /\ row.wave = jobs[call[c].job].wave
        BY <1>f, <1>2, <2>1, <3>p DEF RecordAnalysisGate, At, CallState, JobRow, JobStatus, JobOK, Grounded, Row
      <3> DEFINE s == [call[c] EXCEPT !.pc = "analysis_save", !.wave = jobs[call[c].job].wave,
                                         !.row = row]
      <3>h. Hold(c, s)
        BY <1>2, <2>1
      <3> HIDE DEF row
      <3>2. s \in CallState /\ s.job = call[c].job
        BY <1>f, <1>2, <2>1, <3>p, <3>r DEF RecordAnalysisGate, At, TypeOK, CallState, Label, JobRow
      <3>3. CallOK(s)
        BY <1>f, <1>2, <2>1, <3>p, <3>r DEF RecordAnalysisGate, At, CallState, CallOK, HoldsRow, HoldsJob, HoldsWave, HoldsStored
      <3> QED
        BY <2>u, <3>h, <3>2, <3>3, ReadStep
    <2>2. CASE Return(c)
      BY <2>u, <2>2, ReturnStep
    <2> QED
      BY <1>2, <2>1, <2>2 DEF RecordAnalysisGate
  <1> QED
    BY <1>1, <1>2

\* The reads of decide_next_wave.
LEMMA DecisionReads ==
  ASSUME Inv, NEW c \in Client,
         DecideRead(c) \/ DecideGate(c) \/ DecideSettle(c)
  PROVE  StoreStep(c) /\ CallStep(c)
  <1>f. /\ TypeOK /\ SessionOK(session) /\ call[c] \in CallState /\ CallOK(call[c])
        /\ \A j \in Job : jobs[j] \in JobRow /\ Grounded(jobs[j])
        /\ Idle \in CallState /\ NoRow \in JobRow /\ NewSession \in SessionRow /\ SessionOK(NewSession)
        /\ 0 \notin Job /\ Wave \subseteq 0..MaxWaves /\ Job \subseteq 0..MaxJobs
    BY InvFacts
  <1>1. CASE DecideRead(c)
    <2>u. StoreUnchanged
      BY <1>1 DEF DecideRead
    <2>1. CASE Hold(c, [Idle EXCEPT !.pc = "decide_gate", !.ses = session])
      <3> DEFINE s == [Idle EXCEPT !.pc = "decide_gate", !.ses = session]
      <3>h. Hold(c, s)
        BY <1>1, <2>1
      <3>2. s \in CallState /\ s.job = 0
        BY <1>f, <1>1, <2>1 DEF DecideRead, At, TypeOK, CallState, Label, Idle
      <3>3. CallOK(s)
        BY <1>f, <1>1, <2>1 DEF DecideRead, At, CallState, CallOK, HoldsRow, HoldsJob, HoldsWave, HoldsStored, Idle
      <3> QED
        BY <2>u, <3>h, <3>2, <3>3, ReadStep
    <2> QED
      BY <1>1, <2>1 DEF DecideRead
  <1>2. CASE DecideGate(c)
    <2>u. StoreUnchanged
      BY <1>2 DEF DecideGate
    <2>1. CASE \E authorized \in BOOLEAN : Hold(c, [call[c] EXCEPT !.pc = "decide_settle", !.yes = authorized])
      <3>1. PICK authorized \in BOOLEAN : Hold(c, [call[c] EXCEPT !.pc = "decide_settle", !.yes = authorized])
        BY <2>1
      <3> DEFINE s == [call[c] EXCEPT !.pc = "decide_settle", !.yes = authorized]
      <3>h. Hold(c, s)
        BY <1>2, <3>1
      <3>2. s \in CallState /\ s.job = call[c].job
        BY <1>f, <1>2, <3>1 DEF DecideGate, At, TypeOK, CallState, Label
      <3>3. CallOK(s)
        BY <1>f, <1>2, <3>1 DEF DecideGate, At, CallState, CallOK, HoldsRow, HoldsJob, HoldsWave, HoldsStored
      <3> QED
        BY <2>u, <3>h, <3>2, <3>3, ReadStep
    <2> QED
      BY <1>2, <2>1 DEF DecideGate
  <1>3. CASE DecideSettle(c)
    <2>u. StoreUnchanged
      BY <1>3 DEF DecideSettle
    <2>1. CASE Hold(c, [Idle EXCEPT !.pc = "save_session", !.ses = IF call[c].yes THEN [session EXCEPT !.status = "targeted_research", !.wave = NextWave(session)]
                         ELSE Status(session, "synthesizing")])
      <3>p. NextWave(session) \in Nat
        <4>1. session.frozen \in SUBSET Wave /\ session.wave \in Nat
          BY <1>f DEF TypeOK, SessionRow
        <4>2. Cardinality(session.frozen) \in Nat
          BY <4>1, WaveCardinality
        <4> QED
          BY <4>1, <4>2 DEF NextWave
      <3> DEFINE ses == IF call[c].yes THEN [session EXCEPT !.status = "targeted_research", !.wave = NextWave(session)]
                         ELSE Status(session, "synthesizing")
      <3>s. ses \in SessionRow /\ SessionOK(ses)
        BY <1>f, <3>p DEF TypeOK, SessionRow, SessionStatus, SessionOK, Status
      <3> DEFINE s == [Idle EXCEPT !.pc = "save_session", !.ses = ses]
      <3>h. Hold(c, s)
        BY <1>3, <2>1
      <3> HIDE DEF ses
      <3>2. s \in CallState /\ s.job = 0
        BY <1>f, <1>3, <2>1, <3>p, <3>s DEF DecideSettle, At, TypeOK, CallState, Label, Idle
      <3>3. CallOK(s)
        BY <1>f, <1>3, <2>1, <3>p, <3>s DEF DecideSettle, At, CallState, CallOK, HoldsRow, HoldsJob, HoldsWave, HoldsStored, Idle
      <3> QED
        BY <2>u, <3>h, <3>2, <3>3, ReadStep
    <2>2. CASE Return(c)
      BY <2>u, <2>2, ReturnStep
    <2> QED
      BY <1>3, <2>1, <2>2 DEF DecideSettle
  <1> QED
    BY <1>1, <1>2, <1>3

\* The reads of finalize_session.
LEMMA FinalReads ==
  ASSUME Inv, NEW c \in Client,
         FinalizeRead(c) \/ FinalizeTrio(c) \/ FinalizeOpenJobs(c) \/ FinalizeWalk(c) \/ FinalizeResult(c)
  PROVE  StoreStep(c) /\ CallStep(c)
  <1>f. /\ TypeOK /\ SessionOK(session) /\ call[c] \in CallState /\ CallOK(call[c])
        /\ \A j \in Job : jobs[j] \in JobRow /\ Grounded(jobs[j])
        /\ Idle \in CallState /\ NoRow \in JobRow /\ NewSession \in SessionRow /\ SessionOK(NewSession)
        /\ 0 \notin Job /\ Wave \subseteq 0..MaxWaves /\ Job \subseteq 0..MaxJobs
    BY InvFacts
  <1>1. CASE FinalizeRead(c)
    <2>u. StoreUnchanged
      BY <1>1 DEF FinalizeRead
    <2>1. CASE Hold(c, [Idle EXCEPT !.pc = "final_trio", !.ses = session])
      <3> DEFINE s == [Idle EXCEPT !.pc = "final_trio", !.ses = session]
      <3>h. Hold(c, s)
        BY <1>1, <2>1
      <3>2. s \in CallState /\ s.job = 0
        BY <1>f, <1>1, <2>1 DEF FinalizeRead, At, TypeOK, CallState, Label, Idle
      <3>3. CallOK(s)
        BY <1>f, <1>1, <2>1 DEF FinalizeRead, At, CallState, CallOK, HoldsRow, HoldsJob, HoldsWave, HoldsStored, Idle
      <3> QED
        BY <2>u, <3>h, <3>2, <3>3, ReadStep
    <2> QED
      BY <1>1, <2>1 DEF FinalizeRead
  <1>2. CASE FinalizeTrio(c)
    <2>u. StoreUnchanged
      BY <1>2 DEF FinalizeTrio
    <2>1. CASE call[c].ses.latest \in freezes.stored /\ Hold(c, [call[c] EXCEPT !.pc = "final_open", !.wave = call[c].ses.latest])
      <3> DEFINE s == [call[c] EXCEPT !.pc = "final_open", !.wave = call[c].ses.latest]
      <3>h. Hold(c, s)
        BY <1>2, <2>1
      <3>2. s \in CallState /\ s.job = call[c].job
        BY <1>f, <1>2, <2>1 DEF FinalizeTrio, At, TypeOK, CallState, Label
      <3>3. CallOK(s)
        BY <1>f, <1>2, <2>1 DEF FinalizeTrio, At, CallState, CallOK, HoldsRow, HoldsJob, HoldsWave, HoldsStored
      <3> QED
        BY <2>u, <3>h, <3>2, <3>3, ReadStep
    <2>2. CASE Return(c)
      BY <2>u, <2>2, ReturnStep
    <2> QED
      BY <1>2, <2>1, <2>2 DEF FinalizeTrio
  <1>3. CASE FinalizeOpenJobs(c)
    <2>u. StoreUnchanged
      BY <1>3 DEF FinalizeOpenJobs
    <2>1. CASE Return(c)
      BY <2>u, <2>1, ReturnStep
    <2>2. CASE Goto(c, "final_walk")
      <3>1. CallOK([call[c] EXCEPT !.pc = "final_walk"])
        BY <1>f, <1>3 DEF FinalizeOpenJobs, At, CallOK, HoldsRow, HoldsJob, HoldsWave, HoldsStored, CallState
      <3> QED
        BY <2>u, <2>2, <3>1, GotoStep DEF Label
    <2> QED
      BY <1>3, <2>1, <2>2 DEF FinalizeOpenJobs
  <1>4. CASE FinalizeWalk(c)
    <2>u. StoreUnchanged
      BY <1>4 DEF FinalizeWalk
    <2>1. CASE Hold(c, [call[c] EXCEPT !.pc = "final_synth", !.ses = Status(session, "synthesizing")])
      <3>p. call[c].wave \in freezes.stored /\ call[c].wave \in Wave
        BY <1>f, <1>4, <2>1 DEF FinalizeWalk, At, CallOK, HoldsStored, TypeOK
      <3> DEFINE ses == Status(session, "synthesizing")
      <3>s. ses \in SessionRow /\ SessionOK(ses)
        BY <1>f, <3>p DEF TypeOK, SessionRow, SessionStatus, SessionOK, Status
      <3> DEFINE s == [call[c] EXCEPT !.pc = "final_synth", !.ses = ses]
      <3>h. Hold(c, s)
        BY <1>4, <2>1
      <3> HIDE DEF ses
      <3>2. s \in CallState /\ s.job = call[c].job
        BY <1>f, <1>4, <2>1, <3>p, <3>s DEF FinalizeWalk, At, TypeOK, CallState, Label
      <3>3. CallOK(s)
        BY <1>f, <1>4, <2>1, <3>p, <3>s DEF FinalizeWalk, At, CallState, CallOK, HoldsRow, HoldsJob, HoldsWave, HoldsStored
      <3> QED
        BY <2>u, <3>h, <3>2, <3>3, ReadStep
    <2>2. CASE Goto(c, "final_result")
      <3>1. CallOK([call[c] EXCEPT !.pc = "final_result"])
        BY <1>f, <1>4 DEF FinalizeWalk, At, CallOK, HoldsRow, HoldsJob, HoldsWave, HoldsStored, CallState
      <3> QED
        BY <2>u, <2>2, <3>1, GotoStep DEF Label
    <2> QED
      BY <1>4, <2>1, <2>2 DEF FinalizeWalk
  <1>5. CASE FinalizeResult(c)
    <2>u. StoreUnchanged
      BY <1>5 DEF FinalizeResult
    <2>1. CASE Hold(c, [call[c] EXCEPT !.pc = "final_save", !.ses = [session EXCEPT !.final = call[c].wave]])
      <3>p. call[c].wave \in freezes.stored /\ call[c].wave \in Wave
        BY <1>f, <1>5, <2>1 DEF FinalizeResult, At, CallOK, HoldsStored, TypeOK
      <3> DEFINE ses == [session EXCEPT !.final = call[c].wave]
      <3>s. ses \in SessionRow /\ SessionOK(ses)
        BY <1>f, <3>p DEF TypeOK, SessionRow, SessionStatus, SessionOK, Wave
      <3> DEFINE s == [call[c] EXCEPT !.pc = "final_save", !.ses = ses]
      <3>h. Hold(c, s)
        BY <1>5, <2>1
      <3> HIDE DEF ses
      <3>2. s \in CallState /\ s.job = call[c].job
        BY <1>f, <1>5, <2>1, <3>p, <3>s DEF FinalizeResult, At, TypeOK, CallState, Label
      <3>3. CallOK(s)
        BY <1>f, <1>5, <2>1, <3>p, <3>s DEF FinalizeResult, At, CallState, CallOK, HoldsRow, HoldsJob, HoldsWave, HoldsStored
      <3> QED
        BY <2>u, <3>h, <3>2, <3>3, ReadStep
    <2> QED
      BY <1>5, <2>1 DEF FinalizeResult
  <1> QED
    BY <1>1, <1>2, <1>3, <1>4, <1>5

-----------------------------------------------------------------------------
(* The writes *)

\* A call that saves no job and then holds what was grounded before the write.
LEMMA WriteStep ==
  ASSUME Inv, NEW c \in Client, StoreStep(c), jobs' = jobs,
         NEW s \in CallState, Hold(c, s), CallOK(s), s.job = 0 \/ s.job = call[c].job
  PROVE  CallStep(c)
  <1>1. Grows /\ StoreTypes
    BY StoreGrows DEF Inv, SnapshotsGrounded, TypeOK, StoreTypes
  <1>2. CallOK(s)'
    BY <1>1, HeldStaysGrounded DEF Row
  <1> QED
    BY <1>2 DEF CallStep

LEMMA SessionSaved ==
  ASSUME Inv, NEW c \in Client, NEW ses \in SessionRow, SessionOK(ses), SaveSession(ses),
         NEW s \in CallState, Hold(c, s), CallOK(s), s.job = 0 \/ s.job = call[c].job
  PROVE  StoreStep(c) /\ CallStep(c)
  <1>1. StoreStep(c) /\ jobs' = jobs
    BY DEF StoreStep, SavesSession, SaveSession
  <1> QED
    BY <1>1, WriteStep

LEMMA SessionSavedReturns ==
  ASSUME Inv, NEW c \in Client, NEW ses \in SessionRow, SessionOK(ses), SaveSession(ses), Return(c)
  PROVE  StoreStep(c) /\ CallStep(c)
  BY ReturnIsCallStep DEF StoreStep, SavesSession

\* A call that saves its job's row holds, if a row at all, one of that type and wave.
LEMMA JobSaved ==
  ASSUME Inv, NEW c \in Client, NEW row \in JobRow, JobOK(call[c].job, row), SaveJob(call[c].job, row),
         NEW s \in CallState, Hold(c, s), s.job = call[c].job, s.ses = call[c].ses,
         s.pc \in HoldsRow => /\ s.row.status # "none" /\ Grounded(s.row)
                              /\ s.row.type = row.type /\ s.row.wave = row.wave,
         s.pc \in HoldsWave => s.wave \in Wave,
         s.pc \in HoldsStored => s.wave \in freezes.stored,
         s.pc \notin {"create_session", "create_check", "freeze_open", "freeze_save", "analysis_save"},
         s.pc = "analysis_track" => row.type \in Role /\ row.wave = s.wave
  PROVE  StoreStep(c) /\ CallStep(c)
  <1>1. StoreStep(c)
    BY DEF StoreStep, SavesJob
  <1>2. Grows /\ StoreTypes /\ SessionOK(call[c].ses) /\ call[c] \in CallState
    BY <1>1, StoreGrows DEF Inv, SnapshotsGrounded, TypeOK, StoreTypes, CallOK
  <1>3. call[c].job \in Job /\ jobs'[call[c].job] = row /\ row.status # "none" /\ freezes' = freezes
    BY <1>2 DEF SaveJob, JobOK, StoreTypes
  <1>4. SessionOK(s.ses)'
    BY <1>2 DEF SessionOK, Grows, Row, CallState, SessionRow
  <1>5. s.pc \in HoldsRow => JobOK(s.job, s.row)'
    BY <1>3 DEF JobOK, Grounded, Row
  <1>6. CallOK(s)'
    BY <1>3, <1>4, <1>5 DEF CallOK, HoldsJob, Row
  <1> QED
    BY <1>1, <1>6 DEF CallStep

\* Saves of the session row that end a call, or go on to a row read before.
LEMMA SessionWrites ==
  ASSUME Inv, NEW c \in Client,
         \/ CreateJobSaveSession(c) \/ SaveSessionRow(c) \/ AdvanceSave(c) \/ SubmitLinkSave(c)
         \/ CommitteeSaveSession(c) \/ FinalizeSynth(c) \/ FinalizeSave(c)
         \/ FreezePlan(c) \/ FreezeResearch(c)
  PROVE  StoreStep(c) /\ CallStep(c)
  <1>f. call[c] \in CallState /\ CallOK(call[c])
    BY InvFacts
  <1>s. call[c].ses \in SessionRow /\ SessionOK(call[c].ses)
    BY <1>f DEF CallState, CallOK
  <1>1. CASE SaveSessionRow(c)
    BY <1>1, <1>s, SessionSavedReturns DEF SaveSessionRow
  <1>2. CASE AdvanceSave(c)
    BY <1>2, <1>s, SessionSavedReturns DEF AdvanceSave
  <1>3. CASE CreateJobSaveSession(c)
    <2> DEFINE s == [call[c] EXCEPT !.pc = "create_save_job"]
    <2>1. SaveSession(call[c].ses) /\ Hold(c, s)
      BY <1>3 DEF CreateJobSaveSession, Goto, Hold
    <2>2. s \in CallState /\ s.job = call[c].job
      BY <1>f DEF CallState, Label
    <2>3. CallOK(s)
      BY <1>3, <1>f DEF CreateJobSaveSession, At, CallState, CallOK, HoldsRow, HoldsJob, HoldsWave, HoldsStored
    <2> QED
      BY <1>s, <2>1, <2>2, <2>3, SessionSaved
  <1>4. CASE SubmitLinkSave(c)
    <2> DEFINE s == [call[c] EXCEPT !.pc = "complete_save"]
    <2>1. SaveSession(call[c].ses) /\ Hold(c, s)
      BY <1>4 DEF SubmitLinkSave, Goto, Hold
    <2>2. s \in CallState /\ s.job = call[c].job
      BY <1>f DEF CallState, Label
    <2>3. CallOK(s)
      BY <1>4, <1>f DEF SubmitLinkSave, At, CallState, CallOK, HoldsRow, HoldsJob, HoldsWave, HoldsStored
    <2> QED
      BY <1>s, <2>1, <2>2, <2>3, SessionSaved
  <1>5. CASE CommitteeSaveSession(c)
    <2> DEFINE s == [call[c] EXCEPT !.pc = "committee_save_job"]
    <2>1. SaveSession(call[c].ses) /\ Hold(c, s)
      BY <1>5 DEF CommitteeSaveSession, Goto, Hold
    <2>2. s \in CallState /\ s.job = call[c].job
      BY <1>f DEF CallState, Label
    <2>3. CallOK(s)
      BY <1>5, <1>f DEF CommitteeSaveSession, At, CallState, CallOK, HoldsRow, HoldsJob, HoldsWave, HoldsStored
    <2> QED
      BY <1>s, <2>1, <2>2, <2>3, SessionSaved
  <1>6. CASE FinalizeSynth(c)
    <2> DEFINE s == [call[c] EXCEPT !.pc = "final_result"]
    <2>1. SaveSession(call[c].ses) /\ Hold(c, s)
      BY <1>6 DEF FinalizeSynth, Goto, Hold
    <2>2. s \in CallState /\ s.job = call[c].job
      BY <1>f DEF CallState, Label
    <2>3. CallOK(s)
      BY <1>6, <1>f DEF FinalizeSynth, At, CallState, CallOK, HoldsRow, HoldsJob, HoldsWave, HoldsStored
    <2> QED
      BY <1>s, <2>1, <2>2, <2>3, SessionSaved
  <1>7. CASE FinalizeSave(c)
    <2>0. SaveSession(call[c].ses)
      BY <1>7 DEF FinalizeSave
    <2>1. CASE Return(c)
      BY <1>s, <2>0, <2>1, SessionSavedReturns
    <2>2. CASE Hold(c, [call[c] EXCEPT !.pc = "save_session", !.ses.status = "completed"])
      <3> DEFINE ses == [call[c].ses EXCEPT !.status = "completed"]
                 s == [call[c] EXCEPT !.pc = "save_session", !.ses = ses]
      <3>1. Hold(c, s)
        BY <1>f, <2>2 DEF CallState
      <3>2. ses \in SessionRow /\ SessionOK(ses)
        BY <1>s DEF SessionRow, SessionStatus, SessionOK
      <3> HIDE DEF ses
      <3>3. s \in CallState /\ s.job = call[c].job
        BY <1>f, <3>2 DEF CallState, Label
      <3>4. CallOK(s)
        BY <1>f, <3>2 DEF CallState, CallOK, HoldsRow, HoldsJob, HoldsWave, HoldsStored
      <3> QED
        BY <1>s, <2>0, <3>1, <3>3, <3>4, SessionSaved
    <2> QED
      BY <1>7, <2>1, <2>2 DEF FinalizeSave
  <1>8. CASE FreezePlan(c)
    <2> DEFINE ses == [call[c].ses EXCEPT !.status = "researching"]
               s == [call[c] EXCEPT !.pc = "freeze_researching", !.ses = ses]
    <2>1. SaveSession(call[c].ses) /\ Hold(c, s)
      BY <1>8, <1>f DEF FreezePlan, CallState
    <2>2. ses \in SessionRow /\ SessionOK(ses)
      BY <1>s DEF SessionRow, SessionStatus, SessionOK
    <2> HIDE DEF ses
    <2>3. s \in CallState /\ s.job = call[c].job
      BY <1>f, <2>2 DEF CallState, Label
    <2>4. CallOK(s)
      BY <1>8, <1>f, <2>2 DEF FreezePlan, At, CallState, CallOK, HoldsRow, HoldsJob, HoldsWave, HoldsStored
    <2> QED
      BY <1>s, <2>1, <2>3, <2>4, SessionSaved
  <1>9. CASE FreezeResearch(c)
    <2> DEFINE s == [call[c] EXCEPT !.pc = "freeze_list"]
    <2>1. SaveSession(call[c].ses) /\ Hold(c, s)
      BY <1>9 DEF FreezeResearch, Goto, Hold
    <2>2. s \in CallState /\ s.job = call[c].job
      BY <1>f DEF CallState, Label
    <2>3. CallOK(s)
      BY <1>9, <1>f DEF FreezeResearch, At, CallState, CallOK, HoldsRow, HoldsJob, HoldsWave, HoldsStored
    <2> QED
      BY <1>s, <2>1, <2>2, <2>3, SessionSaved
  <1> QED
    BY <1>1, <1>2, <1>3, <1>4, <1>5, <1>6, <1>7, <1>8, <1>9

\* Saves of a job row.
LEMMA JobWrites ==
  ASSUME Inv, NEW c \in Client,
         \/ CreateJobSaveJob(c) \/ SaveJobRow(c) \/ CompleteJobStart(c) \/ CompleteJobSave(c)
         \/ CommitteeSaveJob(c) \/ CommitteeFail(c) \/ RecordAnalysisSave(c)
  PROVE  StoreStep(c) /\ CallStep(c)
  <1>f. call[c] \in CallState /\ CallOK(call[c])
    BY InvFacts
  <1>r. call[c].row \in JobRow /\ (call[c].pc \in HoldsRow => JobOK(call[c].job, call[c].row))
    BY <1>f DEF CallState, CallOK
  <1>b. ASSUME call[c].pc \in HoldsRow, NEW row \in JobRow, JobOK(call[c].job, row),
               SaveJob(call[c].job, row), Return(c)
        PROVE  StoreStep(c) /\ CallStep(c)
    BY <1>b, ReturnIsCallStep DEF StoreStep, SavesJob
  <1>1. CASE SaveJobRow(c)
    BY <1>1, <1>r, <1>b DEF SaveJobRow, At, HoldsRow
  <1>2. CASE CreateJobSaveJob(c)
    <2>1. SaveJob(call[c].job, call[c].row) /\ call[c].pc = "create_save_job"
      BY <1>2 DEF CreateJobSaveJob, At
    <2>2. CASE Return(c)
      BY <1>r, <1>b, <2>1, <2>2 DEF HoldsRow
    <2>3. CASE Hold(c, [call[c] EXCEPT !.pc = "save_job", !.row.status = "running"])
      <3> DEFINE row == [call[c].row EXCEPT !.status = "running"]
                 s == [call[c] EXCEPT !.pc = "save_job", !.row = row]
      <3>1. Hold(c, s)
        BY <1>f, <2>3 DEF CallState
      <3>2. row \in JobRow /\ row.status # "none" /\ row.type = call[c].row.type
            /\ row.wave = call[c].row.wave /\ Grounded(row)
        BY <1>r, <2>1 DEF JobRow, JobStatus, HoldsRow, JobOK, Grounded
      <3> HIDE DEF row
      <3>3. s \in CallState /\ s.job = call[c].job /\ s.ses = call[c].ses /\ s.pc = "save_job" /\ s.row = row
        BY <1>f, <3>2 DEF CallState, Label
      <3> QED
        BY <1>r, <2>1, <3>1, <3>2, <3>3, JobSaved DEF HoldsRow, HoldsWave, HoldsStored
    <2> QED
      BY <1>2, <2>2, <2>3 DEF CreateJobSaveJob
  <1>3. CASE CompleteJobStart(c)
    <2> DEFINE row == [call[c].row EXCEPT !.result = "none"]
               s == [call[c] EXCEPT !.pc = "complete_save"]
    <2>1. SaveJob(call[c].job, row) /\ call[c].pc = "complete_start" /\ Hold(c, s)
      BY <1>3 DEF CompleteJobStart, At, Goto, Hold
    <2>2. row \in JobRow /\ JobOK(call[c].job, row) /\ row.type = call[c].row.type /\ row.wave = call[c].row.wave
      BY <1>r, <2>1 DEF JobRow, HoldsRow, JobOK, Grounded
    <2> HIDE DEF row
    <2>3. s \in CallState /\ s.job = call[c].job /\ s.ses = call[c].ses /\ s.pc = "complete_save" /\ s.row = call[c].row
      BY <1>f DEF CallState, Label
    <2> QED
      BY <1>r, <2>1, <2>2, <2>3, JobSaved DEF HoldsRow, HoldsWave, HoldsStored, JobOK
  <1>4. CASE CompleteJobSave(c)
    <2> DEFINE row == Status(call[c].row, "completed")
               s == [call[c] EXCEPT !.pc = "advance_read"]
    <2>1. SaveJob(call[c].job, row) /\ call[c].pc = "complete_save" /\ Hold(c, s)
      BY <1>4 DEF CompleteJobSave, At, Goto, Hold
    <2>2. row \in JobRow /\ JobOK(call[c].job, row)
      BY <1>r, <2>1 DEF JobRow, JobStatus, HoldsRow, JobOK, Grounded, Status
    <2> HIDE DEF row
    <2>3. s \in CallState /\ s.job = call[c].job /\ s.ses = call[c].ses /\ s.pc = "advance_read"
      BY <1>f DEF CallState, Label
    <2> QED
      BY <2>1, <2>2, <2>3, JobSaved DEF HoldsRow, HoldsWave, HoldsStored
  <1>5. CASE CommitteeSaveJob(c)
    <2> DEFINE s == [call[c] EXCEPT !.pc = "committee_check", !.mine = @ \union {call[c].job}]
    <2>1. SaveJob(call[c].job, call[c].row) /\ call[c].pc = "committee_save_job" /\ Hold(c, s)
      BY <1>5 DEF CommitteeSaveJob, At
    <2>2. call[c].job \in Job /\ call[c].wave \in Wave
      BY <1>f, <1>r, <2>1 DEF CallOK, HoldsRow, HoldsWave, JobOK
    <2>3. s \in CallState /\ s.job = call[c].job /\ s.ses = call[c].ses /\ s.pc = "committee_check"
          /\ s.wave = call[c].wave
      BY <1>f, <2>2 DEF CallState, Label
    <2> QED
      BY <1>r, <2>1, <2>2, <2>3, JobSaved DEF HoldsRow, HoldsStored
  <1>6. CASE CommitteeFail(c)
    <2> DEFINE s == [call[c] EXCEPT !.pc = "committee_rollback"]
    <2>1. SaveJob(call[c].job, call[c].row) /\ call[c].pc = "committee_fail" /\ Hold(c, s)
      BY <1>6 DEF CommitteeFail, At, Goto, Hold
    <2>2. call[c].wave \in Wave
      BY <1>f, <2>1 DEF CallOK, HoldsWave
    <2>3. s \in CallState /\ s.job = call[c].job /\ s.ses = call[c].ses /\ s.pc = "committee_rollback"
          /\ s.wave = call[c].wave
      BY <1>f, <2>2 DEF CallState, Label
    <2> QED
      BY <1>r, <2>1, <2>2, <2>3, JobSaved DEF HoldsRow, HoldsStored
  <1>7. CASE RecordAnalysisSave(c)
    <2> DEFINE s == [call[c] EXCEPT !.pc = "analysis_track"]
    <2>1. SaveJob(call[c].job, call[c].row) /\ call[c].pc = "analysis_save" /\ Hold(c, s)
      BY <1>7 DEF RecordAnalysisSave, At, Goto, Hold
    <2>2. call[c].wave \in freezes.stored /\ call[c].row.type \in Role /\ call[c].row.wave = call[c].wave
      BY <1>f, <2>1 DEF CallOK, HoldsStored
    <2>3. s \in CallState /\ s.job = call[c].job /\ s.ses = call[c].ses /\ s.pc = "analysis_track"
          /\ s.wave = call[c].wave
      BY <1>f, <2>2 DEF CallState, Label
    <2> QED
      BY <1>r, <2>1, <2>2, <2>3, JobSaved DEF HoldsRow, HoldsWave
  <1> QED
    BY <1>1, <1>2, <1>3, <1>4, <1>5, <1>6, <1>7

\* The insert-once saves: findings, dossiers and freezes.
LEMMA InsertWrites ==
  ASSUME Inv, NEW c \in Client,
         RecordEvidenceSave(c) \/ SubmitDossier(c) \/ FreezeSave(c)
  PROVE  StoreStep(c) /\ CallStep(c)
  <1>f. TypeOK /\ call[c] \in CallState /\ CallOK(call[c])
    BY InvFacts
  <1>r. call[c].row.wave \in Wave
    BY <1>f DEF CallState, JobRow
  <1>1. CASE RecordEvidenceSave(c)
    <2>1. PICK e \in Evidence : ledger' = [ledger EXCEPT ![e] = IF @ = 0 THEN call[c].row.wave ELSE @]
      BY <1>1 DEF RecordEvidenceSave
    <2>2. SavesEvidence
      BY <1>1, <1>r, <2>1 DEF SavesEvidence, RecordEvidenceSave
    <2> QED
      BY <1>1, <2>2, ReturnIsCallStep DEF StoreStep, RecordEvidenceSave
  <1>2. CASE SubmitDossier(c)
    <2> DEFINE s == [call[c] EXCEPT !.pc = "submit_read"]
    <2>1. call[c].pc = "submit_dossier" /\ Hold(c, s) /\ UNCHANGED <<session, jobs, ledger, freezes>>
      BY <1>2 DEF SubmitDossier, At, Goto, Hold
    <2>2. SavesDossier
      BY <1>2, <1>f, <1>r, <2>1 DEF SubmitDossier, SavesDossier, TypeOK
    <2>3. s \in CallState /\ s.job = call[c].job
      BY <1>f DEF CallState, Label
    <2>4. CallOK(s)
      BY <1>f, <2>1 DEF CallState, CallOK, HoldsRow, HoldsJob, HoldsWave, HoldsStored
    <2> QED
      BY <2>1, <2>2, <2>3, <2>4, WriteStep DEF StoreStep
  <1>3. CASE FreezeSave(c)
    <2> DEFINE w == call[c].wave
    <2>1. call[c].pc = "freeze_save" /\ UNCHANGED <<session, jobs, ledger, dossiers>>
      BY <1>3 DEF FreezeSave, At
    <2>2. freezes' = IF w \in freezes.stored THEN freezes
                     ELSE [stored |-> freezes.stored \union {w}, ids |-> [freezes.ids EXCEPT ![w] = call[c].seen]]
      BY <1>3 DEF FreezeSave
    <2>3. w \in Wave /\ call[c].seen \in SUBSET WaveRecords(w)
      BY <1>f, <2>1 DEF CallOK, HoldsWave
    <2>4. SavesFreeze
      BY <2>1, <2>2, <2>3 DEF SavesFreeze
    <2>5. PICK s \in CallState : s = [call[c] EXCEPT !.pc = "freeze_track"]
      BY <1>f DEF CallState, Label
    <2>6. PICK t \in CallState : t = [call[c] EXCEPT !.pc = "freeze_list"]
      BY <1>f DEF CallState, Label
    <2>7. t.pc = "freeze_list" /\ s.pc = "freeze_track" /\ s.ses = t.ses /\ s.job = call[c].job /\ s.wave = w
      BY <1>f, <2>5, <2>6 DEF CallState
    <2>8. CallOK(t)
      BY <1>f, <2>1, <2>6 DEF CallState, CallOK, HoldsRow, HoldsJob, HoldsWave, HoldsStored
    <2>9. Grows /\ StoreTypes
      BY <2>4, StoreGrows DEF StoreStep, Inv, SnapshotsGrounded, TypeOK, StoreTypes
    <2>10. CallOK(t)'
      BY <2>7, <2>8, <2>9, HeldStaysGrounded DEF HoldsRow
    <2>11. s.wave \in freezes'.stored
      BY <2>2, <2>7, <1>f DEF TypeOK
    <2>12. CallOK(s)'
      BY <2>7, <2>10, <2>11 DEF CallOK, HoldsRow, HoldsJob, HoldsWave, HoldsStored, SessionOK
    <2>13. Hold(c, s)
      BY <1>3, <2>5 DEF FreezeSave, Goto, Hold
    <2> QED
      BY <2>4, <2>7, <2>12, <2>13 DEF StoreStep, CallStep
  <1> QED
    BY <1>1, <1>2, <1>3

\* The session row saved with a freeze or an analysis filed in it.
LEMMA TrackWrites ==
  ASSUME Inv, NEW c \in Client, FreezeTrack(c) \/ RecordAnalysisTrack(c)
  PROVE  StoreStep(c) /\ CallStep(c)
  <1>f. TypeOK /\ call[c] \in CallState /\ CallOK(call[c])
    BY InvFacts
  <1>s. call[c].ses \in SessionRow /\ SessionOK(call[c].ses)
    BY <1>f DEF CallState, CallOK
  <1>1. CASE FreezeTrack(c)
    <2> DEFINE w == call[c].wave
               ses == Tracked(call[c].ses, w)
    <2>1. w \in freezes.stored /\ w \in Wave /\ w \in Nat /\ w \in 0..MaxWaves
      BY <1>1, <1>f, BoundsAssumption DEF FreezeTrack, At, CallOK, HoldsStored, TypeOK, Wave
    <2>2. ses \in SessionRow /\ SessionOK(ses)
      BY <1>s, <2>1 DEF Tracked, SessionRow, SessionStatus, SessionOK
    <2>3. SaveSession(ses)
      BY <1>1 DEF FreezeTrack
    <2>4. CASE Return(c)
      BY <2>2, <2>3, <2>4, SessionSavedReturns
    <2>5. CASE Hold(c, [call[c] EXCEPT !.pc = "save_session", !.ses = [ses EXCEPT !.wave = w]])
      <3> HIDE DEF ses
      <3> DEFINE next == [ses EXCEPT !.wave = w]
                 s == [call[c] EXCEPT !.pc = "save_session", !.ses = next]
      <3>1. next \in SessionRow /\ SessionOK(next)
        BY <2>1, <2>2 DEF SessionRow, SessionOK
      <3>2. Hold(c, s)
        BY <2>5
      <3> HIDE DEF next
      <3>3. s \in CallState /\ s.job = call[c].job
        BY <1>f, <3>1 DEF CallState, Label
      <3>4. CallOK(s)
        BY <1>f, <3>1 DEF CallState, CallOK, HoldsRow, HoldsJob, HoldsWave, HoldsStored
      <3> QED
        BY <2>2, <2>3, <3>2, <3>3, <3>4, SessionSaved
    <2> QED
      BY <1>1, <2>4, <2>5 DEF FreezeTrack
  <1>2. CASE RecordAnalysisTrack(c)
    <2> DEFINE w == call[c].wave
               j == call[c].job
               ses == [call[c].ses EXCEPT !.status = IF @ = "freezing" THEN "analyzing" ELSE @,
                                          !.runs[w] = @ \union {j}]
    <2>1. w \in freezes.stored /\ w \in Wave /\ j \in Job /\ Row(j) /\ jobs[j].type \in Role /\ jobs[j].wave = w
      BY <1>2, <1>f DEF RecordAnalysisTrack, At, CallOK, HoldsStored, HoldsJob, TypeOK
    <2>2. ses \in SessionRow /\ SessionOK(ses)
      BY <1>s, <2>1 DEF SessionRow, SessionStatus, SessionOK
    <2>3. SaveSession(ses) /\ Return(c)
      BY <1>2 DEF RecordAnalysisTrack
    <2> HIDE DEF ses
    <2> QED
      BY <2>2, <2>3, SessionSavedReturns
  <1> QED
    BY <1>1, <1>2

-----------------------------------------------------------------------------
(* The theorems *)

LEMMA InitInv == Init => Inv
  <1> SUFFICES ASSUME Init PROVE Inv
    OBVIOUS
  <1> USE BoundsAssumption
  <1>1. NewSession \in SessionRow /\ SessionOK(NewSession)
    BY DEF NewSession, SessionRow, SessionStatus, SessionOK
  <1>2. NoRow \in JobRow /\ [NoRow EXCEPT !.status = "running"] \in JobRow
    BY DEF NoRow, JobRow, JobType, JobStatus, Wave
  <1>3. \A j \in Job : jobs[j] \in JobRow /\ jobs[j].result = "none"
    BY <1>2 DEF Init, NoRow
  <1>4. Idle \in CallState /\ Idle.job = 0 /\ Idle.ses = NewSession /\ Idle.pc = "idle"
    BY <1>1, <1>2 DEF Idle, CallState, Label
  <1>5. TypeOK
    BY <1>1, <1>2, <1>4 DEF Init, TypeOK
  <1>6. FreezesFromLedger
    BY DEF Init, FreezesFromLedger
  <1>7. SessionOK(session) /\ \A j \in Job : Grounded(jobs[j])
    BY <1>1, <1>3 DEF Init, Grounded
  <1>8. \A c \in Client : call[c] = Idle
    BY DEF Init
  <1>9. CallOK(Idle)
    BY <1>1, <1>4 DEF CallOK, HoldsRow, HoldsJob, HoldsWave, HoldsStored
  <1> QED
    BY <1>4, <1>5, <1>6, <1>7, <1>8, <1>9 DEF Inv, SnapshotsGrounded, NoSharedFresh

\* Every action of a call is one store operation and a step of what the call holds.
LEMMA ActionsAreSteps ==
  ASSUME Inv, NEW c \in Client,
         JobStep(c) \/ EvidenceStep(c) \/ CommitteeStep(c) \/ DirectorStep(c) \/ Crash(c)
  PROVE  StoreStep(c) /\ CallStep(c)
  <1>1. CASE JobStep(c)
    BY <1>1, JobReads, CreateReads, SessionWrites, JobWrites DEF JobStep
  <1>2. CASE EvidenceStep(c)
    BY <1>2, EvidenceReads, FreezeReads, SessionWrites, InsertWrites, TrackWrites DEF EvidenceStep
  <1>3. CASE CommitteeStep(c)
    BY <1>3, CommitteeReads, AnalysisReads, SessionWrites, JobWrites, TrackWrites DEF CommitteeStep
  <1>4. CASE DirectorStep(c)
    BY <1>4, DecisionReads, FinalReads, SessionWrites DEF DirectorStep
  <1>5. CASE Crash(c)
    BY <1>5, ReturnStep DEF Crash
  <1> QED
    BY <1>1, <1>2, <1>3, <1>4, <1>5

LEMMA NextInv == Inv /\ [Next]_vars => Inv'
  <1> SUFFICES ASSUME Inv, [Next]_vars PROVE Inv'
    OBVIOUS
  <1>1. CASE Next
    BY <1>1, ActionsAreSteps, StepKeepsInv DEF Next
  <1>2. CASE UNCHANGED vars
    BY <1>2 DEF vars, Inv, SnapshotsGrounded, TypeOK, FreezesFromLedger, SessionOK, Grounded, CallOK, JobOK,
                Row, WaveRecords, NoSharedFresh
  <1> QED
    BY <1>1, <1>2

\* Every row a service call holds stays grounded in the store while other calls write
\* it: the invariant that whole-row saves from stale reads rest on (repository.py).
THEOREM SnapshotsStayGrounded == Spec => []SnapshotsGrounded
  <1>1. Init => SnapshotsGrounded
    BY InitInv DEF Inv
  <1>2. SnapshotsGrounded /\ [Next]_vars => SnapshotsGrounded'
    BY NextInv DEF Inv
  <1> QED
    BY <1>1, <1>2, PTL DEF Spec

\* Rows keep their types, a freeze is numbered by its wave (models.py, session.py).
THEOREM TypeCorrect == Spec => []TypeOK
  <1>1. SnapshotsGrounded => TypeOK
    BY DEF SnapshotsGrounded
  <1> QED
    BY <1>1, SnapshotsStayGrounded, PTL

\* freeze_session freezes accepted findings of the wave and earlier ones, and nothing else.
THEOREM FrozenFromLedger == Spec => []FreezesFromLedger
  <1>1. SnapshotsGrounded => FreezesFromLedger
    BY DEF SnapshotsGrounded
  <1> QED
    BY <1>1, SnapshotsStayGrounded, PTL

\* No call ever saves a session row that names a freeze the store does not hold, not
\* even one that read the row before a crash or another call's freeze.
THEOREM SessionNamesStoredFreezes == Spec => []SessionFreezesStored
  <1>1. SnapshotsGrounded => SessionFreezesStored
    BY DEF SnapshotsGrounded, SessionOK, SessionFreezesStored
  <1> QED
    BY <1>1, SnapshotsStayGrounded, PTL

\* Every analysis is a committee job's on a stored freeze, and is filed under its own
\* wave (record_committee_analysis).
THEOREM AnalysesStayGrounded == Spec => []AnalysesGrounded
  <1>1. SnapshotsGrounded => AnalysesGrounded
    BY DEF SnapshotsGrounded, SessionOK, Grounded, AnalysesGrounded
  <1> QED
    BY <1>1, SnapshotsStayGrounded, PTL

\* No service call changes or removes a finding or a freeze, or a job's type or wave.
THEOREM RecordsStayImmutable == Spec => RecordsImmutable
  <1> DEFINE A == /\ \A e \in Evidence : ledger[e] # 0 => ledger'[e] = ledger[e]
                  /\ \A w \in freezes.stored : w \in freezes'.stored /\ freezes'.ids[w] = freezes.ids[w]
                  /\ \A j \in Job : Row(j) => /\ jobs'[j].status # "none"
                                              /\ jobs'[j].type = jobs[j].type /\ jobs'[j].wave = jobs[j].wave
  <1>1. SnapshotsGrounded /\ [Next]_vars => [A]_vars
    <2> SUFFICES ASSUME Inv, Next PROVE A
      BY DEF Inv
    <2>1. Grows
      BY ActionsAreSteps, StoreGrows DEF Next
    <2> QED
      BY <2>1 DEF Grows
  <1> QED
    BY <1>1, SnapshotsStayGrounded, PTL DEF Spec, RecordsImmutable
=============================================================================
