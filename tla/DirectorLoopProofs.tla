-------------------------- MODULE DirectorLoopProofs --------------------------
(***************************************************************************)
(* Proofs about DirectorLoop, for any number of jobs, waves, findings and *)
(* of calls, answers and hosts that die.  A step of the loop is a step of *)
(* the kernel with one call at a time, or changes no row, so what          *)
(* SingleCallProofs shows of the kernel holds under the Director; and the *)
(* order in which the Director makes its calls adds what the kernel alone *)
(* does not keep: waves frozen one after the other, no job ahead of them. *)
(***************************************************************************)
EXTENDS DirectorLoop, WholeCallProofs, FiniteSetTheorems, WellFoundedInduction

Early == {"created", "planning", "researching"}

\* The last wave a job of the session may be of.
Top(ses) == IF ses.status \in Early \union {"targeted_research"} THEN ses.latest + 1 ELSE ses.latest

\* Every role is heard on the latest freeze of a session row.
Done(ses) == ses.latest # 0 /\ \A r \in Role : \E j \in ses.runs[ses.latest] :
                 jobs[j].type = r /\ jobs[j].status = "completed"

\* Waves are frozen in order, nobody is heard on a wave before its freeze, and the
\* status says how far the session is.
SessionStaged(ses) ==
    /\ ses.frozen = 1..ses.latest
    /\ ses.status \in Early => ses.latest = 0
    /\ ses.status \in {"freezing", "analyzing", "targeted_research", "synthesizing"} => ses.latest # 0
    /\ ses.status \in {"targeted_research", "synthesizing"} => Done(ses)
    /\ ses.status = "targeted_research" => ses.wave = ses.latest + 1
    /\ ses.status \notin TerminalSession =>
           ses.wave <= Top(ses) /\ \A j \in Job : Row(j) => jobs[j].wave <= Top(ses)
    /\ \A w \in Wave : ses.runs[w] # {} => w \in ses.frozen
    /\ ses.status = "freezing" => ses.runs[ses.latest] = {}

Reaches(w) == Live => w <= Top(session)
HoldsNewRow == {"create_session", "create_check", "create_save_session", "create_save_job",
                "committee_save_session", "committee_save_job", "advance_read"}
HoldsCommittee == {"committee_session", "committee_check", "committee_save_session", "committee_save_job"}
Freezes == {"freeze_planning", "freeze_researching", "freeze_list", "freeze_open", "freeze_save", "freeze_track"}
Decides == {"decide_gate", "decide_settle"}

\* What a call will write keeps the session staged.
CallStaged(s) ==
    /\ s.pc \in {"advance_save", "save_session"} => SessionStaged(s.ses)
    /\ s.pc \in HoldsNewRow => Reaches(s.row.wave)
    /\ s.pc \in HoldsCommittee => Reaches(s.wave)
    /\ s.pc \in Freezes => s.wave = session.latest + 1
    /\ s.pc \in Decides => Done(session)

\* A decision is asked of the wave after the latest freeze, and freezes nothing.
LoopStaged ==
    loop.at = "deciding" => /\ loop.wave = session.latest + 1
                            /\ call[Me].pc \in Decides \union {"idle", "save_session"}

Staged == SessionStaged(session) /\ (\A c \in Client : CallStaged(call[c])) /\ LoopStaged

-----------------------------------------------------------------------------
(* A step of the Director is a step of the kernel, or gives its call up *)

LEMMA TheCaller == Me \in Client /\ OneCall /\ \A c \in Client : c = Me
  <1>1. PICK a \in Client : Client = {a}
    BY OneCaller
  <1>2. Me = a
    BY <1>1 DEF Me
  <1> QED
    BY <1>1, <1>2 DEF OneCall

\* What the host leaves behind when it dies: no call, and the rows as they are.
GivesUp == Return(Me) /\ StoreUnchanged
KernelMove == [Next]_vars \/ GivesUp

LEMMA QuietMoves == KernelQuiet => KernelMove
  BY DEF KernelQuiet, KernelMove

\* A call of the kernel is a step of it.
LEMMA CallMoves ==
  ASSUME JobStep(Me) \/ EvidenceStep(Me) \/ CommitteeStep(Me) \/ DirectorStep(Me) \/ Crash(Me)
  PROVE  KernelMove
  BY TheCaller DEF KernelMove, Next

LEMMA BegunMoves ==
  ASSUME \/ StartJobRead(Me) \/ CloseJobRead(Me) \/ CancelResearchRead(Me) \/ RecordEvidenceRead(Me) \/ SubmitRead(Me)
         \/ FreezeRead(Me) \/ CommitteeRoles(Me) \/ RecordAnalysisRead(Me) \/ DecideRead(Me) \/ FinalizeRead(Me)
  PROVE  KernelMove
  <1>1. CASE StartJobRead(Me) \/ CloseJobRead(Me) \/ CancelResearchRead(Me)
    BY <1>1, CallMoves DEF JobStep
  <1>2. CASE RecordEvidenceRead(Me) \/ SubmitRead(Me) \/ FreezeRead(Me)
    BY <1>2, CallMoves DEF EvidenceStep
  <1>3. CASE CommitteeRoles(Me) \/ RecordAnalysisRead(Me)
    BY <1>3, CallMoves DEF CommitteeStep
  <1>4. CASE DecideRead(Me) \/ FinalizeRead(Me)
    BY <1>4, CallMoves DEF DirectorStep
  <1> QED
    BY <1>1, <1>2, <1>3, <1>4

LEMMA DriveMoves ==
  ASSUME NEW w
  PROVE  /\ Freeze(w) => KernelMove
         /\ Seed(w) => KernelMove
         /\ Drive(w) => KernelMove
  <1>1. Freeze(w) => KernelMove
    BY BegunMoves, QuietMoves DEF Freeze
  <1>2. Seed(w) => KernelMove
    BY BegunMoves DEF Seed
  <1>3. Drive(w) => KernelMove
    BY <1>1, BegunMoves, QuietMoves DEF Drive
  <1> QED
    BY <1>1, <1>2, <1>3

LEMMA LoopMoves ==
  ASSUME [LoopNext]_loopVars
  PROVE  KernelMove
  <1>1. CASE UNCHANGED loopVars
    BY <1>1 DEF loopVars, KernelMove
  <1>2. CASE KernelStep
    BY <1>2, CallMoves DEF KernelStep
  <1>3. CASE Advance
    <2>1. CASE AdvanceOver \/ AdvanceFetch \/ AdvanceStopped
      BY <2>1, QuietMoves DEF AdvanceOver, AdvanceFetch, AdvanceStopped
    <2>2. CASE AdvanceFirst
      BY <2>2, QuietMoves, DriveMoves DEF AdvanceFirst
    <2>3. CASE AdvanceCommittee
      BY <2>3, DriveMoves DEF AdvanceCommittee
    <2>4. CASE AdvanceDecide
      BY <2>4, BegunMoves DEF AdvanceDecide
    <2>5. CASE AdvanceDrive
      BY <2>5, DriveMoves DEF AdvanceDrive
    <2> QED
      BY <1>3, <2>1, <2>2, <2>3, <2>4, <2>5 DEF Advance
  <1>4. CASE Answer
    <2>1. CASE SeedAnswer \/ StartAnswer \/ PlanAnswer \/ CallAnswer \/ FailAnswer
      BY <2>1, QuietMoves DEF SeedAnswer, StartAnswer, PlanAnswer, CallAnswer, FailAnswer
    <2>2. CASE FreezeAnswer \/ DecideAnswer
      BY <2>2, QuietMoves, DriveMoves DEF FreezeAnswer, DecideAnswer
    <2>3. CASE FileAnswer \/ CloseAnswer
      BY <2>3, QuietMoves, BegunMoves DEF FileAnswer, CloseAnswer, FailJob
    <2> QED
      BY <1>4, <2>1, <2>2, <2>3 DEF Answer
  <1>5. CASE Record
    BY <1>5, QuietMoves, BegunMoves DEF Record, FileAnalysis, CloseChild, ChildDone
  <1>6. CASE Obey
    BY <1>6, BegunMoves DEF Obey, PlanSource, PlanTrio, Finalize
  <1>7. CASE EndTurn \/ Cancel \/ ChildRecords \/ ChildSubmits \/ ChildrenEnd
    BY <1>7, QuietMoves, BegunMoves DEF EndTurn, Cancel, ChildRecords, ChildSubmits, ChildrenEnd
  <1>8. CASE BridgeDies \/ AnswerLost \/ InspectFails
    BY <1>8, QuietMoves, CallMoves DEF BridgeDies, AnswerLost, InspectFails
  <1>9. CASE HostDies
    BY <1>9 DEF HostDies, KernelMove, GivesUp
  <1> QED
    BY <1>1, <1>2, <1>3, <1>4, <1>5, <1>6, <1>7, <1>8, <1>9 DEF LoopNext

LEMMA LoopKeepsRows ==
  ASSUME RowsCurrent, [LoopNext]_loopVars
  PROVE  RowsCurrent' /\ OneMove
  <1>1. CASE [Next]_vars
    BY <1>1, TheCaller, StepsAreMoves
  <1>2. CASE GivesUp
    <2>1. Inv'
      BY <1>2, TheCaller, ReturnStep, StepKeepsInv DEF GivesUp, RowsCurrent
    <2>2. CallsCurrent' /\ JobsDone'
      BY <1>2, TheCaller, GivesUpCurrent DEF GivesUp
    <2>3. OneMove
      BY <1>2 DEF GivesUp, StoreUnchanged, store, OneMove, SessionMove
    <2> QED
      BY <2>1, <2>2, <2>3 DEF RowsCurrent
  <1> QED
    BY <1>1, <1>2, LoopMoves DEF KernelMove

\* The rows a runner left behind are rows of the kernel.
LEMMA ResumedCurrent ==
  ASSUME ResumeRunner
  PROVE  RowsCurrent
  <1> USE BoundsAssumption
  <1>1. 1 \in Wave /\ 1 \in Job /\ 0 \in 0..MaxWaves /\ 1 \in 0..MaxWaves
    BY DEF Wave, Job
  <1>2. PICK row \in {[NoRow EXCEPT !.status = "running"], [NoRow EXCEPT !.status = "completed", !.result = "outcome"]} :
            jobs = [j \in Job |-> IF j = 1 THEN row ELSE NoRow]
    BY DEF ResumeRunner
  <1>3. row \in JobRow /\ row.result # "analysis" /\ NoRow \in JobRow /\ NoRow.result = "none"
    BY <1>1 DEF NoRow, JobRow, JobType, JobStatus
  <1>4. \A j \in Job : jobs[j] \in JobRow /\ jobs[j].result # "analysis"
    BY <1>2, <1>3
  <1>5. NewSession \in SessionRow /\ SessionOK(NewSession)
    BY <1>1 DEF NewSession, SessionRow, SessionStatus, SessionOK
  <1>6. session \in SessionRow /\ session.frozen = {} /\ session.latest = 0 /\ session.final = 0
        /\ session.runs = [w \in Wave |-> {}]
    BY <1>1, <1>5 DEF ResumeRunner, NewSession, SessionRow, SessionStatus
  <1>7. SessionOK(session)
    BY <1>6 DEF SessionOK
  <1>8. Idle \in CallState /\ Idle.job = 0 /\ Idle.ses = NewSession /\ Idle.pc = "idle"
    BY <1>1, <1>3, <1>5 DEF Idle, CallState, Label
  <1>9. \A c \in Client : call[c] = Idle
    BY DEF ResumeRunner
  <1>10. TypeOK
    <2>1. jobs \in [Job -> JobRow] /\ session \in SessionRow
      BY <1>2, <1>4, <1>6
    <2>2. ledger \in [Evidence -> 0..MaxWaves] /\ freezes \in [stored : SUBSET Wave, ids : [Wave -> SUBSET Evidence]]
      BY <1>1 DEF ResumeRunner
    <2>3. dossiers \in [stored : SUBSET Wave, latest : {"none", "residual", "drained"}]
      BY <1>1 DEF ResumeRunner
    <2>4. call \in [Client -> CallState]
      BY <1>8 DEF ResumeRunner
    <2> QED
      BY <2>1, <2>2, <2>3, <2>4 DEF TypeOK
  <1>11. FreezesFromLedger
    BY DEF ResumeRunner, FreezesFromLedger
  <1>12. CallOK(Idle)
    BY <1>5, <1>8 DEF CallOK, HoldsRow, HoldsJob, HoldsWave, HoldsStored
  <1>13. Inv
    BY <1>4, <1>7, <1>8, <1>9, <1>10, <1>11, <1>12 DEF Inv, SnapshotsGrounded, NoSharedFresh, Grounded
  <1>14. JobsDone
    BY <1>4, <1>6 DEF JobsDone
  <1> QED
    BY <1>9, <1>13, <1>14, IdleCurrent DEF RowsCurrent, CallsCurrent

LEMMA LoopInitCurrent == LoopInit => RowsCurrent
  BY InitCurrent, ResumedCurrent DEF LoopInit, StartResearch

\* Whatever call of the Director or a child dies, whatever answer is lost and wherever the
\* host dies, no row is ever saved from an out-of-date read (research-director.ts waits
\* for each call of its own and of its children).
THEOREM DirectorKeepsRows == LoopSpec => []RowsCurrent
  <1>1. RowsCurrent /\ [LoopNext]_loopVars => RowsCurrent'
    BY LoopKeepsRows
  <1> QED
    BY <1>1, LoopInitCurrent, PTL DEF LoopSpec

-----------------------------------------------------------------------------
(* What the Director derives from a staged session *)

LInv == RowsCurrent /\ LoopTypeOK /\ Staged

LEMMA LoopFacts ==
  ASSUME LInv
  PROVE  /\ RowsCurrent /\ TypeOK /\ session \in SessionRow /\ jobs \in [Job -> JobRow]
         /\ call \in [Client -> CallState] /\ call[Me] \in CallState /\ CallOK(call[Me])
         /\ SessionCurrent(call[Me]) /\ JobCurrent(call[Me]) /\ SessionOK(session)
         /\ SessionStaged(session) /\ CallStaged(call[Me]) /\ LoopStaged
         /\ noted \subseteq Evidence /\ loop \in LoopState /\ session.status \in SessionStatus
  BY TheCaller, CurrentFacts DEF LInv, LoopTypeOK, Staged, RowsCurrent, Inv, SnapshotsGrounded, SessionRow

\* The waves frozen in order are counted by the latest of them.
LEMMA LiveIsNext ==
  ASSUME LInv
  PROVE  /\ session.latest \in Nat /\ session.wave \in Nat /\ session.frozen = 1..session.latest
         /\ Cardinality(session.frozen) = session.latest
         /\ ActiveWave = IF session.wave > session.latest + 1 THEN session.wave ELSE session.latest + 1
         /\ session.frozen = {} <=> session.latest = 0
         /\ session.latest + 1 \in 0..MaxWaves + 1
         /\ session.wave <= Top(session) => ActiveWave = session.latest + 1
  <1>1. session.latest \in 0..MaxWaves /\ session.wave \in Nat /\ session.frozen = 1..session.latest
    BY LoopFacts DEF SessionRow, SessionStaged
  <1>2. session.latest \in Nat /\ session.latest <= MaxWaves /\ MaxWaves \in Nat
    BY <1>1, BoundsAssumption
  <1>3. Cardinality(session.frozen) = session.latest
    <2>1. 1 \in Int /\ session.latest \in Int
      BY <1>2
    <2>2. Cardinality(1..session.latest) = IF 1 > session.latest THEN 0 ELSE session.latest - 1 + 1
      BY <2>1, FS_Interval
    <2> QED
      BY <1>1, <1>2, <2>2
  <1>4. ActiveWave = IF session.wave > session.latest + 1 THEN session.wave ELSE session.latest + 1
    BY <1>3 DEF ActiveWave, LiveWave
  <1>5. session.frozen = {} <=> session.latest = 0
    <2>1. session.latest # 0 => session.latest \in 1..session.latest
      BY <1>2
    <2> QED
      BY <1>1, <1>2, <2>1
  <1>6. session.wave <= Top(session) => ActiveWave = session.latest + 1
    BY <1>1, <1>2, <1>4 DEF Top
  <1> QED
    BY <1>1, <1>2, <1>3, <1>4, <1>5, <1>6

LEMMA DoneIsHeard == TrioDone <=> Done(session)
  BY DEF TrioDone, Done

\* Only a session that researches a wave has one after its latest freeze.
LEMMA NextOnlyTargeted ==
  ASSUME LInv, Live, session.status \notin Early \union {"targeted_research"}
  PROVE  ~NextWaveActive
  <1>1. /\ session.wave <= session.latest /\ \A j \in Job : Row(j) => jobs[j].wave <= session.latest
        /\ session.latest \in Nat /\ session.wave \in Nat
    BY LoopFacts, LiveIsNext DEF SessionStaged, Top, Live
  <1>2. \A j \in Job : jobs[j].wave \in Nat
    BY LoopFacts DEF JobRow, Wave
  <1>3. ASSUME NEW w \in Wave, w > session.latest
        PROVE  SourceJobs(w) = {}
    <2>1. w \in Nat
      BY DEF Wave
    <2> QED
      BY <1>1, <1>2, <1>3, <2>1 DEF SourceJobs
  <1>4. ~(session.wave > session.latest)
    BY <1>1
  <1> QED
    BY <1>3, <1>4 DEF NextWaveActive

LEMMA LiveActive ==
  ASSUME LInv, Live
  PROVE  ActiveWave = session.latest + 1
  BY LoopFacts, LiveIsNext DEF SessionStaged, Live

\* A session that drives on, or decides, is live and not early.
LEMMA HeardStatus ==
  ASSUME LInv, TrioDone, ~GateStopped
  PROVE  /\ Live /\ session.latest # 0 /\ session.status \notin Early
         /\ NextWaveActive => session.status = "targeted_research"
  <1>1. Live /\ session.latest # 0
    BY DEF GateStopped, Live, TrioDone
  <1>2. session.status \notin Early
    BY <1>1, LoopFacts DEF SessionStaged
  <1> QED
    BY <1>1, <1>2, NextOnlyTargeted

\* Where the mirror of the gate says SOURCE, the wave after the latest freeze is open to jobs.
LEMMA SourceReaches ==
  ASSUME LInv, MirrorStage = "SOURCE"
  PROVE  Reaches(ActiveWave)
  <1> SUFFICES ASSUME Live PROVE ActiveWave <= Top(session)
    BY DEF Reaches
  <1>1. session.latest \in Nat /\ ActiveWave = session.latest + 1
    BY LiveIsNext, LiveActive
  <1>2. session.status \in Early \union {"targeted_research"}
    <2>1. CASE TrioDone
      <3>1. NextWaveActive
        BY <2>1 DEF MirrorStage
      <3> QED
        BY <3>1, NextOnlyTargeted
    <2>2. CASE ~TrioDone
      <3>1. session.status \notin {"synthesizing", "completed", "freezing", "analyzing"}
        BY <2>2 DEF MirrorStage
      <3> QED
        BY <3>1, LoopFacts DEF Live, TerminalSession, SessionStatus, Early
    <2> QED
      BY <2>1, <2>2
  <1> QED
    BY <1>1, <1>2 DEF Top

\* The two stage gates derive one stage of a staged session.
LEMMA StagedAgree ==
  ASSUME LInv, Live
  PROVE  MirrorStage = KernelStage
  <1>1. CASE session.status = "synthesizing"
    BY <1>1 DEF MirrorStage, KernelStage
  <1>2. CASE session.status = "targeted_research"
    <2>1. TrioDone /\ session.wave = session.latest + 1 /\ session.latest \in Nat
      BY <1>2, LoopFacts, LiveIsNext, DoneIsHeard DEF SessionStaged
    <2>2. session.wave > session.latest
      BY <2>1
    <2> QED
      BY <1>2, <2>1, <2>2 DEF MirrorStage, KernelStage, NextWaveActive
  <1>3. CASE session.status \in Early
    <2>1. session.latest = 0 /\ session.frozen = {} /\ ~TrioDone
      BY <1>3, LoopFacts, LiveIsNext DEF SessionStaged, TrioDone
    <2> QED
      BY <1>3, <2>1 DEF MirrorStage, KernelStage, Early
  <1>4. CASE session.status \in {"freezing", "analyzing"}
    <2>1. ~NextWaveActive
      BY <1>4, NextOnlyTargeted DEF Early
    <2> QED
      BY <1>4, <2>1 DEF MirrorStage, KernelStage
  <1> QED
    BY <1>1, <1>2, <1>3, <1>4, LoopFacts DEF Live, TerminalSession, SessionStatus, Early

\* A set of numbers that is not empty has a least one.
LEMMA LeastOf ==
  ASSUME NEW S \in SUBSET Nat, S # {}
  PROVE  \E m \in S : \A k \in S : m <= k
  <1>1. PICK m \in S : \A k \in S : <<k, m>> \notin OpToRel(<, Nat)
    BY NatLessThanWellFounded, WFMin, Zenon
  <1>2. \A k \in S : ~(k < m)
    BY <1>1 DEF OpToRel
  <1> QED
    BY <1>2

LEMMA FirstIsLeast ==
  ASSUME NEW S \in SUBSET Job, S # {}
  PROVE  First(S) \in S /\ First(S) \in Job /\ \A k \in S : First(S) <= k
  <1>1. \E m \in S : \A k \in S : m <= k
    BY LeastOf DEF Job
  <1> QED
    BY <1>1 DEF First

-----------------------------------------------------------------------------
(* Types of the Director's own state *)

Batched == {"children", "recording", "filing", "closing", "failing"}
Prompts == {"text", "fetch", "wave", "trio", "finalize"}
LoopOK(l) == l \in LoopState /\ (l.at \in Batched => l.batch # {})

LEMMA LoopTyped ==
  ASSUME LInv
  PROVE  /\ LoopOK(loop) /\ Seen \in Stage \union {"none"}
         /\ 0 \in 0..MaxJobs /\ 1 \in 0..MaxJobs /\ 0 \in 0..MaxWaves + 1 /\ 1 \in 0..MaxWaves + 1
         /\ Job \subseteq 0..MaxJobs /\ Wave \subseteq 0..MaxWaves + 1
         /\ session.latest \in 0..MaxWaves + 1
         /\ Live => ActiveWave \in 0..MaxWaves + 1
  <1>1. LoopOK(loop)
    BY DEF LInv, LoopTypeOK, LoopOK, Batched
  <1>2. Seen \in Stage \union {"none"}
    BY <1>1 DEF Seen, MirrorStage, Stage, LoopOK, LoopState
  <1>3. session.latest \in 0..MaxWaves
    BY LoopFacts DEF SessionRow
  <1> QED
    BY <1>1, <1>2, <1>3, LiveIsNext, LiveActive, BoundsAssumption DEF Job, Wave

LEMMA TurnTyped ==
  ASSUME LInv, NEW p \in Prompts, NEW j \in 0..MaxJobs, Turn(p, j)
  PROVE  LoopOK(loop')
  <1>1. PICK l \in LoopState : l = loop
    BY LoopFacts
  <1>2. PICK st \in Stage \union {"none"} : st = Seen
    BY LoopTyped
  <1>3. loop' = [l EXCEPT !.at = "turn", !.prompt = p, !.job = j, !.stage = st, !.lost = FALSE]
    BY <1>1, <1>2 DEF Turn
  <1> QED
    BY <1>3 DEF LoopOK, LoopState, Batched, Prompts

LEMMA AwaitTyped ==
  ASSUME LInv, NEW a \in Waiting \ Batched, NEW w \in 0..MaxWaves + 1, Await(a, w)
  PROVE  LoopOK(loop')
  <1>1. PICK l \in LoopState : l = loop
    BY LoopFacts
  <1>2. PICK st \in Stage \union {"none"} : st = Seen
    BY LoopTyped
  <1>3. loop' = [l EXCEPT !.at = a, !.wave = w, !.stage = st, !.lost = FALSE]
    BY <1>1, <1>2 DEF Await
  <1> QED
    BY <1>3 DEF LoopOK, LoopState

\* The Director goes on to a turn, or to a call about a wave there is.
LEMMA DriveTyped ==
  ASSUME LInv, NEW w \in 0..MaxWaves + 1
  PROVE  /\ Freeze(w) => LoopOK(loop')
         /\ Seed(w) => LoopOK(loop')
         /\ Drive(w) => LoopOK(loop')
  <1>1. Freeze(w) => LoopOK(loop')
    BY LoopTyped, TurnTyped, AwaitTyped DEF Freeze, Waiting, Batched, Prompts
  <1>2. Seed(w) => LoopOK(loop')
    BY AwaitTyped DEF Seed, Waiting, Batched
  <1>3. SourceOpen(w) => First(SourceJobs(w)) \in 0..MaxJobs
    BY LoopTyped, FirstIsLeast DEF SourceOpen, SourceJobs
  <1>4. Drive(w) => LoopOK(loop')
    BY <1>1, <1>3, TurnTyped, AwaitTyped DEF Drive, Waiting, Batched, Prompts
  <1> QED
    BY <1>1, <1>2, <1>4

LEMMA AdvanceTyped ==
  ASSUME LInv, Advance
  PROVE  LoopOK(loop')
  <1>1. CASE AdvanceOver
    <2>1. PICK l \in LoopState : l = loop
      BY LoopFacts
    <2>2. loop' = [l EXCEPT !.at = "over"]
      BY <1>1, <2>1 DEF AdvanceOver
    <2> QED
      BY <2>2 DEF LoopOK, LoopState, Batched
  <1>2. CASE AdvanceFetch \/ AdvanceStopped
    BY <1>2, LoopTyped, TurnTyped DEF AdvanceFetch, AdvanceStopped, Prompts
  <1>3. CASE AdvanceFirst
    BY <1>3, LoopTyped, TurnTyped, DriveTyped DEF AdvanceFirst, Prompts
  <1>4. CASE AdvanceCommittee
    BY <1>4, LoopTyped, DriveTyped DEF AdvanceCommittee
  <1>5. CASE AdvanceDecide \/ AdvanceDrive
    <2>1. ActiveWave \in 0..MaxWaves + 1
      BY <1>5, LoopTyped, HeardStatus DEF AdvanceDecide, AdvanceDrive, TrioHeard
    <2>2. AdvanceDecide => LoopOK(loop')
      BY <2>1, AwaitTyped DEF AdvanceDecide, Waiting, Batched
    <2>3. AdvanceDrive => LoopOK(loop')
      BY <2>1, DriveTyped DEF AdvanceDrive
    <2> QED
      BY <1>5, <2>2, <2>3
  <1> QED
    BY <1>1, <1>2, <1>3, <1>4, <1>5 DEF Advance

\* What is left of a batch is recorded next; an empty one is done.
LEMMA RecordedTyped ==
  ASSUME LInv, Recorded
  PROVE  LoopOK(loop')
  <1>1. PICK l \in LoopState : l = loop
    BY LoopFacts
  <1>2. PICK rest \in SUBSET Job : rest = l.batch \ {First(l.batch)}
    BY DEF LoopState
  <1>3. loop' = [l EXCEPT !.at = IF rest = {} THEN "advance" ELSE "recording", !.batch = rest, !.lost = FALSE]
    BY <1>1, <1>2 DEF Recorded
  <1>4. CASE rest = {}
    BY <1>3, <1>4 DEF LoopOK, LoopState, Batched
  <1>5. CASE rest # {}
    BY <1>3, <1>5 DEF LoopOK, LoopState, Batched
  <1> QED
    BY <1>4, <1>5

\* The call that closes a child's job, or files its analysis, has a batch still.
LEMMA FailTyped ==
  ASSUME LInv, loop.batch # {}, NEW a \in {"filing", "closing", "failing"},
         loop' = [loop EXCEPT !.at = a, !.lost = FALSE]
  PROVE  LoopOK(loop')
  <1>1. PICK l \in LoopState : l = loop
    BY LoopFacts
  <1>2. loop' = [l EXCEPT !.at = a, !.lost = FALSE] /\ l.batch # {}
    BY <1>1
  <1> QED
    BY <1>2 DEF LoopOK, LoopState, Batched, Waiting

LEMMA RecordTyped ==
  ASSUME LInv, Record \/ FileAnswer \/ CloseAnswer \/ FailAnswer
  PROVE  LoopOK(loop')
  <1>1. CASE Record
    <2>1. PICK j \in Job : FileAnalysis(j) \/ CloseChild(j) \/ ChildDone(j)
      BY <1>1 DEF Record
    <2>2. loop.batch # {}
      BY <2>1 DEF FileAnalysis, CloseChild, ChildDone, Recording
    <2> QED
      BY <2>1, <2>2, FailTyped, RecordedTyped DEF FileAnalysis, CloseChild, ChildDone
  <1>2. CASE FileAnswer \/ CloseAnswer
    <2>1. loop.batch # {}
      BY <1>2, LoopTyped DEF FileAnswer, CloseAnswer, Answered, LoopOK, Batched
    <2> QED
      BY <1>2, <2>1, FailTyped, RecordedTyped DEF FileAnswer, CloseAnswer, FailJob
  <1>3. CASE FailAnswer
    BY <1>3, RecordedTyped DEF FailAnswer
  <1> QED
    BY <1>1, <1>2, <1>3

LEMMA AnswerTyped ==
  ASSUME LInv, FreezeAnswer \/ SeedAnswer \/ DecideAnswer \/ StartAnswer \/ PlanAnswer \/ CallAnswer
  PROVE  LoopOK(loop')
  <1>p. PICK l \in LoopState : l = loop
    BY LoopFacts
  <1>w. loop.wave \in 0..MaxWaves + 1
    BY LoopFacts DEF LoopState
  <1>1. CASE FreezeAnswer \/ SeedAnswer
    BY <1>1, <1>w, LoopTyped, TurnTyped, DriveTyped DEF FreezeAnswer, SeedAnswer, Prompts
  <1>2. CASE DecideAnswer
    BY <1>2, <1>w, LoopTyped, TurnTyped, DriveTyped DEF DecideAnswer, Prompts
  <1>3. CASE StartAnswer
    <2>1. PICK mine \in SUBSET Job : mine = {j \in SourceJobs(loop.wave) : Open(j)}
      BY DEF SourceJobs
    <2>2. Turn("text", 0) \/ (mine # {} /\ Turn("wave", First(mine)))
      BY <1>3, <2>1 DEF StartAnswer
    <2>3. mine # {} => First(mine) \in 0..MaxJobs
      BY FirstIsLeast, LoopTyped
    <2> QED
      BY <2>2, <2>3, LoopTyped, TurnTyped DEF Prompts
  <1>4. CASE PlanAnswer
    <2>1. PICK b \in SUBSET Job : b = Planned
      BY <1>p DEF Planned, Eligible, LoopState
    <2>2. \/ loop' = [l EXCEPT !.at = "advance", !.lost = FALSE, !.batch = {}]
          \/ b # {} /\ loop' = [l EXCEPT !.at = "children", !.batch = b]
      BY <1>4, <1>p, <2>1 DEF PlanAnswer
    <2> QED
      BY <2>2 DEF LoopOK, LoopState, Batched
  <1>5. CASE CallAnswer
    <2>1. loop' = [l EXCEPT !.at = "advance", !.lost = FALSE]
      BY <1>5, <1>p DEF CallAnswer
    <2> QED
      BY <2>1 DEF LoopOK, LoopState, Batched
  <1> QED
    BY <1>1, <1>2, <1>3, <1>4, <1>5

LEMMA TurnsTyped ==
  ASSUME LInv, EndTurn \/ Obey \/ Cancel \/ ChildRecords \/ ChildSubmits \/ ChildrenEnd
  PROVE  LoopOK(loop')
  <1>p. PICK l \in LoopState : l = loop
    BY LoopFacts
  <1>1. CASE EndTurn
    <2>1. loop' = [l EXCEPT !.at = "advance"]
      BY <1>1, <1>p DEF EndTurn
    <2> QED
      BY <2>1 DEF LoopOK, LoopState, Batched
  <1>2. CASE PlanSource
    <2>1. PICK w \in Wave : w = ActiveWave
      <3>1. PICK w \in Wave : Hold(Me, [Idle EXCEPT !.pc = "create_check", !.wave = w, !.ses = session, !.yes = TRUE,
                                             !.row = [NoRow EXCEPT !.wave = w, !.status = "queued"]])
        BY <1>2 DEF PlanSource, StartJobRead
      <3>2. call'[Me].wave = w
        BY <3>1, LoopFacts, TheCaller DEF Hold, Idle
      <3> QED
        BY <1>2, <3>2 DEF PlanSource
    <2>2. PICK b \in SUBSET Job : b = IF Admit("source_agent") THEN {NewJob} ELSE {}
      <3>1. Admit("source_agent") => NewJob \in Job
        BY DEF Admit, NewJob, FreshJobs
      <3> QED
        BY <3>1
    <2>3. PICK st \in Stage \union {"none"} : st = Seen
      BY LoopTyped
    <2>4. loop' = [l EXCEPT !.at = "planning", !.wave = w, !.lost = FALSE, !.stage = st, !.batch = b]
      BY <1>2, <1>p, <2>1, <2>2, <2>3 DEF PlanSource
    <2>5. w \in 0..MaxWaves + 1
      BY LoopTyped
    <2> QED
      BY <2>4, <2>5 DEF LoopOK, LoopState, Batched, Waiting
  <1>3. CASE PlanTrio
    BY <1>3, LoopTyped, AwaitTyped DEF PlanTrio, Waiting, Batched
  <1>4. CASE Finalize \/ Cancel
    <2>1. loop' = [l EXCEPT !.at = "calling", !.lost = FALSE]
      BY <1>4, <1>p DEF Finalize, Cancel
    <2> QED
      BY <2>1 DEF LoopOK, LoopState, Batched, Waiting
  <1>5. CASE ChildRecords \/ ChildSubmits
    BY <1>5, LoopTyped DEF ChildRecords, ChildSubmits, Child
  <1>6. CASE ChildrenEnd
    <2>1. PICK n : n = IF SourceBatch /\ LeftOpen THEN l.strays + 1 ELSE l.strays
      OBVIOUS
    <2>2. n \in 0..MaxStrays
      BY <1>6, <1>p, <2>1, OneCaller DEF ChildrenEnd, LoopState
    <2>3. loop' = [l EXCEPT !.at = "recording", !.strays = n]
      BY <1>6, <1>p, <2>1 DEF ChildrenEnd
    <2>4. l.batch # {}
      BY <1>6, <1>p, LoopTyped DEF ChildrenEnd, LoopOK, Batched
    <2> QED
      BY <2>2, <2>3, <2>4 DEF LoopOK, LoopState
  <1> QED
    BY <1>1, <1>2, <1>3, <1>4, <1>5, <1>6 DEF Obey

LEMMA FailuresTyped ==
  ASSUME LInv, BridgeDies \/ AnswerLost \/ InspectFails \/ HostDies
  PROVE  LoopOK(loop')
  <1>p. PICK l \in LoopState : l = loop
    BY LoopFacts
  <1>1. PICK n \in 0..MaxOutages : n = l.outages + 1
    BY <1>p, OneCaller DEF BridgeDies, AnswerLost, InspectFails, HostDies, Fail, LoopState
  <1>2. CASE BridgeDies
    <2>1. PICK x : x = (l.at \in Waiting)
      OBVIOUS
    <2>2. x \in BOOLEAN
      BY <2>1
    <2>3. loop' = [l EXCEPT !.outages = n, !.lost = x]
      BY <1>2, <1>p, <1>1, <2>1 DEF BridgeDies
    <2> QED
      BY <1>p, <2>2, <2>3, LoopTyped DEF LoopOK, LoopState
  <1>3. CASE AnswerLost
    <2>1. loop' = [l EXCEPT !.outages = n, !.lost = TRUE]
      BY <1>3, <1>p, <1>1 DEF AnswerLost
    <2> QED
      BY <1>p, <2>1, LoopTyped DEF LoopOK, LoopState
  <1>4. CASE InspectFails
    <2>1. loop' = [l EXCEPT !.outages = n, !.at = "turn", !.prompt = "text", !.job = 0]
      BY <1>4, <1>p, <1>1 DEF InspectFails
    <2> QED
      BY <2>1, LoopTyped DEF LoopOK, LoopState, Batched
  <1>5. CASE HostDies
    <2>1. loop' = [l EXCEPT !.outages = n, !.at = "advance", !.prompt = "text", !.job = 0, !.wave = 0,
                            !.batch = {}, !.stage = "none", !.lost = FALSE]
      BY <1>5, <1>p, <1>1 DEF HostDies
    <2> QED
      BY <2>1, LoopTyped DEF LoopOK, LoopState, Batched
  <1> QED
    BY <1>2, <1>3, <1>4, <1>5

LEMMA NotedStays ==
  ASSUME [LoopNext]_loopVars
  PROVE  noted' = noted
  <1>1. CASE Advance
    BY <1>1 DEF Advance, AdvanceOver, AdvanceFetch, AdvanceFirst, AdvanceCommittee, AdvanceStopped, AdvanceDecide,
                AdvanceDrive, TrioHeard, Snapshot
  <1>2. CASE Answer
    BY <1>2 DEF Answer, FreezeAnswer, SeedAnswer, DecideAnswer, StartAnswer, PlanAnswer, CallAnswer, FileAnswer,
                CloseAnswer, FailAnswer, Answered
  <1>3. CASE Record
    <2>1. PICK j \in Job : FileAnalysis(j) \/ CloseChild(j) \/ ChildDone(j)
      BY <1>3 DEF Record
    <2> QED
      BY <2>1 DEF FileAnalysis, CloseChild, ChildDone, Recording
  <1>4. CASE EndTurn \/ Obey \/ Cancel
    BY <1>4 DEF EndTurn, Obey, PlanSource, PlanTrio, Finalize, Cancel, AtTurn
  <1>5. CASE ChildRecords \/ ChildSubmits \/ ChildrenEnd
    BY <1>5 DEF ChildRecords, ChildSubmits, ChildrenEnd, Child
  <1>6. CASE BridgeDies \/ AnswerLost \/ InspectFails \/ HostDies
    BY <1>6 DEF BridgeDies, AnswerLost, InspectFails, HostDies, Fail
  <1>7. CASE KernelStep \/ UNCHANGED loopVars
    BY <1>7 DEF KernelStep, loopVars
  <1> QED
    BY <1>1, <1>2, <1>3, <1>4, <1>5, <1>6, <1>7 DEF LoopNext

LEMMA LoopKeepsTypes ==
  ASSUME LInv, [LoopNext]_loopVars
  PROVE  LoopTypeOK'
  <1>1. ASSUME KernelStep \/ UNCHANGED loopVars
        PROVE  LoopOK(loop')
    BY <1>1, LoopTyped DEF KernelStep, loopVars
  <1>2. LoopOK(loop')
    BY <1>1, AdvanceTyped, RecordTyped, AnswerTyped, TurnsTyped, FailuresTyped DEF LoopNext, Answer
  <1>3. TypeOK'
    BY LoopKeepsRows DEF LInv, RowsCurrent, Inv, SnapshotsGrounded
  <1>4. noted' \subseteq Evidence
    BY NotedStays, LoopFacts
  <1> QED
    BY <1>2, <1>3, <1>4 DEF LoopTypeOK, LoopOK, Batched

-----------------------------------------------------------------------------
(* Staged rows: what a store operation leaves of them *)

KStaged == SessionStaged(session) /\ CallStaged(call[Me])
Watched == {"advance_save", "save_session"} \union HoldsNewRow \union HoldsCommittee \union Freezes \union Decides

\* What is heard on a freeze stays heard.
LEMMA HeardGrows ==
  ASSUME RowsCurrent, OneMove
  PROVE  Heard \subseteq Heard'
  <1>f. session \in SessionRow
    BY DEF RowsCurrent, Inv, SnapshotsGrounded, TypeOK
  <1>1. CASE JobMove
    BY <1>1, JobMoveHears
  <1>2. CASE jobs' = jobs /\ FilesAnalysis(session')
    BY <1>2, FilingHears
  <1>3. CASE jobs' = jobs /\ session'.runs = session.runs
    BY <1>3, SameRunsHear
  <1>4. CASE Plans(session') \/ Cancels(session') \/ Settles(session')
    <2>1. session'.runs = session.runs
      BY <1>f, <1>4, WalkKeeps
    <2> QED
      BY <1>3, <1>1, <2>1 DEF OneMove, SessionMove
  <1>5. CASE LinksDossier(session') \/ TracksFreeze(session') \/ GivesAnswer(session')
    <2>1. session'.runs = session.runs
      BY <1>f, <1>5 DEF LinksDossier, TracksFreeze, GivesAnswer, Tracked, SessionRow
    <2> QED
      BY <1>3, <1>1, <2>1 DEF OneMove, SessionMove
  <1>6. CASE CatchesUp(session') \/ Ends(session')
    <2>1. session'.runs = session.runs
      BY <1>f, <1>6 DEF CatchesUp, Ends, Status, SessionRow
    <2> QED
      BY <1>3, <1>1, <2>1 DEF OneMove, SessionMove
  <1> QED
    BY <1>1, <1>2, <1>3, <1>4, <1>5, <1>6 DEF OneMove, SessionMove

LEMMA HeardIsDone ==
  ASSUME LInv
  PROVE  /\ Done(session) <=> (session.latest # 0 /\ session.latest \in Heard)
         /\ session.latest # 0 => session.latest \in Wave
  <1>1. session.latest # 0 => session.latest \in Wave
    BY LoopFacts, BoundsAssumption DEF SessionRow, Wave
  <1> QED
    BY <1>1 DEF Done, Heard

LEMMA DoneStays ==
  ASSUME LInv, OneMove, Done(session), session'.latest = session.latest
  PROVE  Done(session)'
  <1>1. PICK n \in Wave : n = session.latest
    BY HeardIsDone DEF Done
  <1>2. n \in Heard' /\ n # 0
    BY <1>1, HeardIsDone, HeardGrows, LoopFacts
  <1> QED
    BY <1>1, <1>2 DEF Heard, Done

\* A row that goes on in its stage, is heard, or ends, is staged as the session is.
LEMMA WalkStaged ==
  ASSUME LInv, NEW ses, ses.frozen = session.frozen, ses.latest = session.latest, ses.wave = session.wave,
         ses.runs = session.runs,
         \/ ses.status = session.status \/ ses.status \in TerminalSession
         \/ ses.status \in Early /\ session.status \in Early
         \/ session.status = "analyzing" /\ ses.status = "synthesizing" /\ Done(session)
  PROVE  SessionStaged(ses)
  <1>1. SessionStaged(session)
    BY LoopFacts
  <1>2. Done(session) <=> Done(ses)
    BY DEF Done
  <1>3. CASE ses.status = session.status
    BY <1>1, <1>2, <1>3 DEF SessionStaged, Top
  <1>4. CASE ses.status \in TerminalSession
    BY <1>1, <1>4 DEF SessionStaged, TerminalSession, Early
  <1>5. CASE ses.status \in Early /\ session.status \in Early
    BY <1>1, <1>5 DEF SessionStaged, Early, Top, TerminalSession
  <1>6. CASE session.status = "analyzing" /\ ses.status = "synthesizing" /\ Done(session)
    BY <1>1, <1>2, <1>6 DEF SessionStaged, Early, Top, TerminalSession
  <1> QED
    BY <1>3, <1>4, <1>5, <1>6

\* So is a row whose latest freeze is given one more analysis.
LEMMA FileStaged ==
  ASSUME LInv, NEW ses, ses.frozen = session.frozen, ses.latest = session.latest, ses.wave = session.wave,
         session.latest \in Wave, NEW j, ses.runs = [session.runs EXCEPT ![session.latest] = @ \union {j}],
         ses.status = IF session.status = "freezing" THEN "analyzing" ELSE session.status
  PROVE  SessionStaged(ses)
  <1>1. SessionStaged(session) /\ session.runs \in [Wave -> SUBSET Job]
    BY LoopFacts DEF SessionRow
  <1>2. Done(session) => Done(ses)
    <2>1. session.runs[session.latest] \subseteq ses.runs[session.latest]
      BY <1>1
    <2> QED
      BY <2>1 DEF Done
  <1>3. session.latest \in session.frozen
    <2>1. session.latest # 0
      BY BoundsAssumption DEF Wave
    <2> QED
      BY <2>1, LoopFacts DEF SessionOK
  <1>4. \A w \in Wave : ses.runs[w] # {} => w \in ses.frozen
    BY <1>1, <1>3 DEF SessionStaged
  <1>5. Top(ses) = Top(session)
    BY DEF Top, Early
  <1>6. ses.status # "freezing" /\ (ses.status \in TerminalSession => session.status \in TerminalSession)
    BY DEF TerminalSession
  <1>7. /\ ses.status \in Early => session.status \in Early
        /\ ses.status \in {"targeted_research", "synthesizing"} => session.status = ses.status
        /\ ses.status = "analyzing" => session.status \in {"freezing", "analyzing"}
    BY DEF Early
  <1>8. /\ ses.frozen = 1..ses.latest
        /\ ses.status \in Early => ses.latest = 0
        /\ ses.status \in {"freezing", "analyzing", "targeted_research", "synthesizing"} => ses.latest # 0
    BY <1>1, <1>6, <1>7 DEF SessionStaged
  <1>9. /\ ses.status \in {"targeted_research", "synthesizing"} => Done(ses)
        /\ ses.status = "targeted_research" => ses.wave = ses.latest + 1
    BY <1>1, <1>2, <1>7 DEF SessionStaged
  <1>10. ses.status \notin TerminalSession =>
             ses.wave <= Top(ses) /\ \A k \in Job : Row(k) => jobs[k].wave <= Top(ses)
    <2>1. ses.status \notin TerminalSession => session.status \notin TerminalSession
      BY DEF TerminalSession
    <2> QED
      BY <1>1, <1>5, <2>1 DEF SessionStaged
  <1> QED
    BY <1>4, <1>6, <1>8, <1>9, <1>10 DEF SessionStaged

\* So is a row whose wave catches up with a job's.
LEMMA CatchUpStaged ==
  ASSUME LInv, NEW w \in Nat, w > session.wave, Reaches(w)
  PROVE  SessionStaged([session EXCEPT !.wave = w])
  <1>1. SessionStaged(session) /\ session \in SessionRow
    BY LoopFacts
  <1> DEFINE ses == [session EXCEPT !.wave = w]
  <1>2. /\ ses.frozen = session.frozen /\ ses.latest = session.latest /\ ses.status = session.status
        /\ ses.runs = session.runs /\ ses.wave = w
    BY <1>1 DEF SessionRow
  <1> HIDE DEF ses
  <1>3. Done(session) <=> Done(ses)
    BY <1>2 DEF Done
  <1>4. Top(ses) = Top(session)
    BY <1>2 DEF Top
  <1>5. session.status # "targeted_research"
    <2>1. session.status = "targeted_research" => w <= session.latest + 1 /\ session.wave = session.latest + 1
      BY <1>1 DEF Reaches, Live, TerminalSession, Top, SessionStaged
    <2>2. session.wave \in Nat
      BY <1>1 DEF SessionRow
    <2> QED
      BY <2>1, <2>2
  <1>6. ses.status \notin TerminalSession => w <= Top(ses)
    BY <1>2, <1>4 DEF Reaches, Live
  <1>7. /\ \A v \in Wave : ses.runs[v] # {} => v \in ses.frozen
        /\ ses.status = "freezing" => ses.runs[ses.latest] = {}
    BY <1>1, <1>2 DEF SessionStaged
  <1>8. /\ ses.frozen = 1..ses.latest
        /\ ses.status \in Early => ses.latest = 0
        /\ ses.status \in {"freezing", "analyzing", "targeted_research", "synthesizing"} => ses.latest # 0
        /\ ses.status \in {"targeted_research", "synthesizing"} => Done(ses)
    BY <1>1, <1>2, <1>3 DEF SessionStaged
  <1>9. \A j \in Job : ses.status \notin TerminalSession /\ Row(j) => jobs[j].wave <= Top(ses)
    BY <1>1, <1>2, <1>4 DEF SessionStaged
  <1>10. SessionStaged(ses)
    BY <1>2, <1>5, <1>6, <1>7, <1>8, <1>9 DEF SessionStaged
  <1> QED
    BY <1>10 DEF ses

\* The gate settles a heard session on its next wave, or on the answer.
LEMMA SettleStaged ==
  ASSUME LInv, session.status = "analyzing", Done(session)
  PROVE  /\ SessionStaged([session EXCEPT !.status = "targeted_research", !.wave = NextWave(session)])
         /\ SessionStaged(Status(session, "synthesizing"))
  <1>f. SessionStaged(session) /\ session \in SessionRow
    BY LoopFacts
  <1>1. session.wave <= session.latest /\ \A j \in Job : Row(j) => jobs[j].wave <= session.latest
    BY <1>f DEF SessionStaged, Top, Early, TerminalSession
  <1>2. NextWave(session) = session.latest + 1
    BY <1>1, LiveIsNext DEF NextWave
  <1>3. \A j \in Job : jobs[j].wave \in Nat
    BY LoopFacts DEF JobRow, Wave
  <1>4. SessionStaged([session EXCEPT !.status = "targeted_research", !.wave = NextWave(session)])
    <2> DEFINE ses == [session EXCEPT !.status = "targeted_research", !.wave = session.latest + 1]
    <2>1. /\ ses.frozen = session.frozen /\ ses.latest = session.latest /\ ses.status = "targeted_research"
          /\ ses.runs = session.runs /\ ses.wave = session.latest + 1
      BY <1>f DEF SessionRow
    <2> HIDE DEF ses
    <2>2. Done(ses) /\ ses.latest # 0
      BY <2>1 DEF Done
    <2>3. Top(ses) = session.latest + 1
      BY <2>1 DEF Top
    <2>4. ses.wave <= Top(ses) /\ \A j \in Job : Row(j) => jobs[j].wave <= Top(ses)
      BY <1>1, <1>3, <2>1, <2>3, LiveIsNext
    <2>5. SessionStaged(ses)
      BY <1>f, <2>1, <2>2, <2>4 DEF SessionStaged, Early
    <2> QED
      BY <1>2, <2>5 DEF ses
  <1>5. SessionStaged(Status(session, "synthesizing"))
    <2> DEFINE ses == Status(session, "synthesizing")
    <2>1. /\ ses.frozen = session.frozen /\ ses.latest = session.latest /\ ses.status = "synthesizing"
          /\ ses.runs = session.runs /\ ses.wave = session.wave
      BY <1>f DEF SessionRow, Status
    <2> HIDE DEF ses
    <2>2. SessionStaged(ses)
      BY <2>1, WalkStaged
    <2> QED
      BY <2>2 DEF ses
  <1> QED
    BY <1>4, <1>5

\* The freeze of the next wave, tracked, is the latest of one wave more.
LEMMA TrackStaged ==
  ASSUME LInv, NEW w \in Wave, w = session.latest + 1, FreezeReady(session.status, w), NEW n \in {session.wave, w}
  PROVE  SessionStaged([Tracked(session, w) EXCEPT !.wave = n])
  <1>f. SessionStaged(session) /\ session \in SessionRow /\ session.latest \in Nat /\ session.wave \in Nat
    BY LoopFacts, LiveIsNext
  <1> DEFINE ses == [Tracked(session, w) EXCEPT !.wave = n]
  <1>1. w \notin session.frozen /\ session.frozen \union {w} = 1..w
    <2>1. 1..session.latest \union {session.latest + 1} = 1..(session.latest + 1)
      BY <1>f
    <2>2. session.latest + 1 \notin 1..session.latest
      BY <1>f
    <2> QED
      BY <1>f, <2>1, <2>2 DEF SessionStaged
  <1>2. /\ ses.frozen = session.frozen \union {w} /\ ses.latest = w /\ ses.status = "freezing" /\ ses.wave = n
        /\ ses.runs = session.runs
    BY <1>f, <1>1 DEF Tracked, SessionRow
  <1> HIDE DEF ses
  <1>3. session.status \in {"researching", "targeted_research"}
    BY DEF FreezeReady
  <1>4. Top(session) = w /\ session.status \notin TerminalSession
    BY <1>3 DEF Top, Early, TerminalSession
  <1>5. session.wave <= w /\ \A j \in Job : Row(j) => jobs[j].wave <= w
    BY <1>f, <1>4 DEF SessionStaged
  <1>6. n <= w /\ w # 0
    BY <1>f, <1>5
  <1>7. Top(ses) = w
    BY <1>2 DEF Top, Early
  <1>8. ses.frozen = 1..ses.latest /\ ses.latest # 0
    BY <1>1, <1>2, <1>6
  <1>9. ses.wave <= Top(ses) /\ \A j \in Job : Row(j) => jobs[j].wave <= Top(ses)
    BY <1>2, <1>5, <1>6, <1>7
  <1>10. ses.runs[w] = {} /\ \A v \in Wave : ses.runs[v] # {} => v \in ses.frozen
    BY <1>f, <1>1, <1>2 DEF SessionStaged
  <1>11. SessionStaged(ses)
    BY <1>2, <1>8, <1>9, <1>10 DEF SessionStaged, Early
  <1> QED
    BY <1>11 DEF ses

\* A row saved whole is the session's; the jobs stay.
LEMMA SaveStaged ==
  ASSUME NEW ses, SessionStaged(ses), session' = ses, jobs' = jobs
  PROVE  SessionStaged(session)'
  BY DEF SessionStaged, Done, Row, Top

LEMMA SameStaged ==
  ASSUME session' = session, jobs' = jobs, NEW s
  PROVE  /\ SessionStaged(s)' <=> SessionStaged(s)
         /\ CallStaged(s)' <=> CallStaged(s)
  <1>1. \A ses : SessionStaged(ses)' <=> SessionStaged(ses)
    BY DEF SessionStaged, Done, Row, Top
  <1>2. (Done(session)' <=> Done(session)) /\ \A w : Reaches(w)' <=> Reaches(w)
    BY DEF Done, Reaches, Live, Top
  <1> QED
    BY <1>1, <1>2 DEF CallStaged

\* A job that is saved is of a wave the session has reached.
LEMMA JobSavedStaged ==
  ASSUME LInv, OneMove, session' = session, NEW j \in Job, NEW row, jobs' = [jobs EXCEPT ![j] = row],
         Row(j) => row.wave = jobs[j].wave, ~Row(j) => Reaches(row.wave)
  PROVE  SessionStaged(session)'
  <1>f. SessionStaged(session) /\ jobs \in [Job -> JobRow]
    BY LoopFacts
  <1>1. Done(session) => Done(session)'
    BY DoneStays
  <1>2. ASSUME Live, NEW k \in Job, Row(k)'
        PROVE  jobs'[k].wave <= Top(session)
    <2>1. CASE k # j
      BY <1>f, <1>2, <2>1 DEF SessionStaged, Live, Row
    <2>2. CASE k = j
      BY <1>f, <1>2, <2>2 DEF SessionStaged, Live, Reaches
    <2> QED
      BY <2>1, <2>2
  <1> QED
    BY <1>f, <1>1, <1>2 DEF SessionStaged, Top, Live, Row

-----------------------------------------------------------------------------
(* Staged rows: the steps of a call *)

LEMMA HoldStaged ==
  ASSUME LInv, NEW s, Hold(Me, s), SessionStaged(session)', CallStaged(s)'
  PROVE  KStaged'
  <1>1. call'[Me] = s
    BY LoopFacts, TheCaller DEF Hold
  <1>2. CallStaged(call[Me])'
    BY <1>1 DEF CallStaged, SessionStaged, Reaches, Done, Row, Top
  <1> QED
    BY <1>2 DEF KStaged

LEMMA ReadStaged ==
  ASSUME LInv, StoreUnchanged, NEW s, Hold(Me, s), CallStaged(s)
  PROVE  KStaged'
  <1>1. session' = session /\ jobs' = jobs
    BY DEF StoreUnchanged, store
  <1>2. SessionStaged(session)' /\ CallStaged(s)'
    BY <1>1, SameStaged, LoopFacts
  <1> QED
    BY <1>2, HoldStaged

\* Most steps leave a call where it promises nothing about the wave it writes.
LEMMA PlainStaged ==
  ASSUME LInv, SessionStaged(session)', call'[Me].pc \notin Watched
  PROVE  KStaged'
  BY DEF KStaged, CallStaged, Watched

LEMMA PlainRead ==
  ASSUME LInv, NEW from, NEW to, Reads(Me, from, to), to \cap Watched = {}
  PROVE  KStaged'
  <1>1. session' = session /\ jobs' = jobs
    BY DEF Reads, StoreUnchanged, store
  <1>2. SessionStaged(session)'
    BY <1>1, SameStaged, LoopFacts
  <1> QED
    BY <1>2, PlainStaged DEF Reads

\* A call that goes on with the wave it has, the session not having passed it.
LEMMA KeepStaged ==
  ASSUME LInv, OneMove, SessionStaged(session)', session'.latest = session.latest,
         session'.status = session.status \/ (session.status \in Early /\ session'.status \in Early),
         NEW t \in CallState, t = call'[Me],
         t.row.wave = call[Me].row.wave, t.wave = call[Me].wave,
         t.pc \notin {"advance_save", "save_session"},
         \A P \in {HoldsNewRow, HoldsCommittee, Freezes, Decides} : t.pc \in P => call[Me].pc \in P
  PROVE  KStaged'
  <1>1. PICK s \in CallState : s = call[Me]
    BY LoopFacts
  <1>2. CallStaged(s)
    BY <1>1, LoopFacts
  <1>3. Live' => Live
    BY DEF Live, Early, TerminalSession
  <1>4. Top(session)' = Top(session)
    BY DEF Top
  <1>5. \A w : Reaches(w) => Reaches(w)'
    BY <1>3, <1>4 DEF Reaches
  <1>6. Done(session) => Done(session)'
    BY DoneStays
  <1>7. CallStaged(t)'
    BY <1>1, <1>2, <1>5, <1>6 DEF CallStaged
  <1>8. CallStaged(call[Me])'
    BY <1>7 DEF CallStaged, SessionStaged, Reaches, Done, Row, Top
  <1> QED
    BY <1>8 DEF KStaged

\* What is known of the call in progress: its row is a job's, or a new one of a wave reached.
LEMMA HeldFacts ==
  ASSUME LInv
  PROVE  \E s \in CallState :
            /\ s = call[Me] /\ CallStaged(s) /\ SessionCurrent(s) /\ JobCurrent(s) /\ CallOK(s)
            /\ s.row \in JobRow /\ s.row.wave \in Nat
            /\ s.pc \in HoldsRow => s.job \in Job /\ (Row(s.job) => s.row.wave = jobs[s.job].wave)
  <1>1. PICK s \in CallState : s = call[Me]
    BY LoopFacts
  <1>2. CallStaged(s) /\ SessionCurrent(s) /\ JobCurrent(s) /\ CallOK(s)
    BY <1>1, LoopFacts
  <1>3. s.row \in JobRow /\ s.row.wave \in Nat
    BY DEF CallState, JobRow, Wave
  <1>4. s.pc \in HoldsRow => s.job \in Job /\ (Row(s.job) => s.row.wave = jobs[s.job].wave)
    BY <1>2 DEF CallOK, JobOK
  <1> QED
    BY <1>1, <1>2, <1>3, <1>4

\* The saves of one job row.
LEMMA JobSavesStaged ==
  ASSUME LInv, OneMove,
         \/ CreateJobSaveJob(Me) \/ SaveJobRow(Me) \/ CompleteJobStart(Me) \/ CompleteJobSave(Me)
         \/ CommitteeSaveJob(Me) \/ CommitteeFail(Me) \/ RecordAnalysisSave(Me)
  PROVE  SessionStaged(session)'
  <1>p. PICK s \in CallState :
            /\ s = call[Me] /\ CallStaged(s) /\ SessionCurrent(s) /\ JobCurrent(s) /\ CallOK(s)
            /\ s.row \in JobRow /\ s.row.wave \in Nat
            /\ s.pc \in HoldsRow => s.job \in Job /\ (Row(s.job) => s.row.wave = jobs[s.job].wave)
    BY HeldFacts
  <1>1. PICK row \in JobRow :
            /\ row.wave = s.row.wave /\ jobs' = [jobs EXCEPT ![s.job] = row] /\ session' = session
    <2>1. CASE CreateJobSaveJob(Me) \/ SaveJobRow(Me) \/ CommitteeSaveJob(Me) \/ CommitteeFail(Me)
                \/ RecordAnalysisSave(Me)
      BY <1>p, <2>1 DEF CreateJobSaveJob, SaveJobRow, CommitteeSaveJob, CommitteeFail, RecordAnalysisSave, SaveJob
    <2>2. CASE CompleteJobStart(Me)
      <3> DEFINE row == [s.row EXCEPT !.result = "none"]
      <3>1. row \in JobRow /\ row.wave = s.row.wave
        BY <1>p DEF JobRow
      <3>2. jobs' = [jobs EXCEPT ![s.job] = row] /\ session' = session
        BY <1>p, <2>2 DEF CompleteJobStart, SaveJob
      <3> QED
        BY <3>1, <3>2
    <2>3. CASE CompleteJobSave(Me)
      <3> DEFINE row == Status(s.row, "completed")
      <3>1. row \in JobRow /\ row.wave = s.row.wave
        BY <1>p DEF JobRow, Status, JobStatus
      <3>2. jobs' = [jobs EXCEPT ![s.job] = row] /\ session' = session
        BY <1>p, <2>3 DEF CompleteJobSave, SaveJob
      <3> QED
        BY <3>1, <3>2
    <2> QED
      BY <2>1, <2>2, <2>3
  <1>2. /\ s.pc \in {"create_save_job", "save_job", "complete_start", "complete_save", "committee_save_job",
                     "committee_fail", "analysis_save"}
    BY <1>p DEF CreateJobSaveJob, SaveJobRow, CompleteJobStart, CompleteJobSave, CommitteeSaveJob, CommitteeFail,
                RecordAnalysisSave, At
  <1>3. s.job \in Job /\ (Row(s.job) => row.wave = jobs[s.job].wave)
    BY <1>p, <1>1, <1>2 DEF HoldsRow
  <1>4. ~Row(s.job) => Reaches(row.wave)
    <2>1. CASE s.pc \in {"create_save_job", "committee_save_job"}
      BY <1>p, <1>1, <2>1 DEF CallStaged, HoldsNewRow
    <2>2. CASE s.pc = "save_job"
      <3>1. s.row.status # "none"
        BY <1>p, <2>2 DEF CallOK, JobOK, HoldsRow
      <3> QED
        BY <1>p, <2>2, <3>1 DEF JobCurrent, Row, OpenJob
    <2>3. CASE s.pc \in {"complete_start", "complete_save", "committee_fail", "analysis_save"}
      BY <1>p, <2>3 DEF JobCurrent, ChangesOpen, Row, OpenJob
    <2> QED
      BY <1>2, <2>1, <2>2, <2>3
  <1> QED
    BY <1>1, <1>3, <1>4, JobSavedStaged

\* The saves of the session row.
LEMMA SessionSavesStaged ==
  ASSUME LInv,
         \/ CreateJobSaveSession(Me) \/ CommitteeSaveSession(Me) \/ SaveSessionRow(Me) \/ AdvanceSave(Me)
         \/ SubmitLinkSave(Me) \/ FreezePlan(Me) \/ FreezeResearch(Me) \/ RecordAnalysisTrack(Me)
         \/ FinalizeSynth(Me) \/ FinalizeSave(Me)
  PROVE  SessionStaged(session)'
  <1>p. PICK s \in CallState :
            /\ s = call[Me] /\ CallStaged(s) /\ SessionCurrent(s) /\ JobCurrent(s) /\ CallOK(s)
            /\ s.row \in JobRow /\ s.row.wave \in Nat
            /\ s.pc \in HoldsRow => s.job \in Job /\ (Row(s.job) => s.row.wave = jobs[s.job].wave)
    BY HeldFacts
  <1>f. session \in SessionRow /\ SessionStaged(session)
    BY LoopFacts
  <1>1. CASE CreateJobSaveSession(Me) \/ CommitteeSaveSession(Me)
    <2>1. s.ses = session /\ session' = s.ses /\ jobs' = jobs
      BY <1>p, <1>1 DEF CreateJobSaveSession, CommitteeSaveSession, At, SaveSession, SessionCurrent, ReadsSession
    <2> QED
      BY <1>f, <2>1, SaveStaged
  <1>2. CASE SaveSessionRow(Me) \/ AdvanceSave(Me)
    <2>1. SessionStaged(s.ses) /\ session' = s.ses /\ jobs' = jobs
      BY <1>p, <1>2 DEF SaveSessionRow, AdvanceSave, At, SaveSession, CallStaged
    <2> QED
      BY <2>1, SaveStaged
  <1>3. ASSUME NEW ses, session' = ses, jobs' = jobs,
               ses.frozen = session.frozen, ses.latest = session.latest, ses.wave = session.wave,
               ses.runs = session.runs,
               \/ ses.status = session.status
               \/ ses.status \in Early /\ session.status \in Early
               \/ session.status = "analyzing" /\ ses.status = "synthesizing" /\ Done(session)
        PROVE  SessionStaged(session)'
    BY <1>3, WalkStaged, SaveStaged
  <1>4. CASE SubmitLinkSave(Me)
    <2>1. PICK w \in Wave : s.ses = [session EXCEPT !.dossiers = @ \union {w}]
      BY <1>p, <1>4 DEF SubmitLinkSave, At, SessionCurrent
    <2>2. session' = s.ses /\ jobs' = jobs
      BY <1>p, <1>4 DEF SubmitLinkSave, SaveSession
    <2> QED
      BY <1>f, <1>3, <2>1, <2>2 DEF SessionRow
  <1>5. CASE FreezePlan(Me) \/ FreezeResearch(Me)
    <2>1. session.status \in Early /\ \E st \in Early : s.ses = Status(session, st)
      BY <1>p, <1>5 DEF FreezePlan, FreezeResearch, At, SessionCurrent, Early
    <2>2. session' = s.ses /\ jobs' = jobs
      BY <1>p, <1>5 DEF FreezePlan, FreezeResearch, SaveSession
    <2> QED
      BY <1>f, <1>3, <2>1, <2>2 DEF SessionRow, Status
  <1>6. CASE RecordAnalysisTrack(Me)
    <2>1. s.ses = session /\ s.wave = session.latest
      BY <1>p, <1>6 DEF RecordAnalysisTrack, At, SessionCurrent, ReadsSession
    <2>2. PICK n \in Wave : n = session.latest
      BY <1>p, <1>6, <2>1, LoopFacts DEF RecordAnalysisTrack, At, CallOK, HoldsStored, TypeOK
    <2>3. PICK ses : ses = [session EXCEPT !.status = IF @ = "freezing" THEN "analyzing" ELSE @,
                                           !.runs[n] = @ \union {s.job}]
      OBVIOUS
    <2>4. session' = ses /\ jobs' = jobs
      BY <1>p, <1>6, <2>1, <2>2, <2>3 DEF RecordAnalysisTrack, SaveSession
    <2>5. /\ ses.frozen = session.frozen /\ ses.latest = session.latest /\ ses.wave = session.wave
          /\ ses.status = IF session.status = "freezing" THEN "analyzing" ELSE session.status
          /\ ses.runs = [session.runs EXCEPT ![n] = @ \union {s.job}]
      BY <1>f, <2>3 DEF SessionRow
    <2> QED
      BY <2>2, <2>4, <2>5, FileStaged, SaveStaged
  <1>7. CASE FinalizeSynth(Me)
    <2>1. session.status = "analyzing" /\ s.ses = Status(session, "synthesizing") /\ Done(session)
      BY <1>p, <1>7 DEF FinalizeSynth, At, SessionCurrent, Answers, Answerable, TrioComplete, Done
    <2>2. session' = s.ses /\ jobs' = jobs
      BY <1>p, <1>7 DEF FinalizeSynth, SaveSession
    <2> QED
      BY <1>f, <1>3, <2>1, <2>2 DEF SessionRow, Status
  <1>8. CASE FinalizeSave(Me)
    <2>1. s.ses = [session EXCEPT !.final = s.wave]
      BY <1>p, <1>8 DEF FinalizeSave, At, SessionCurrent
    <2>2. session' = s.ses /\ jobs' = jobs
      BY <1>p, <1>8 DEF FinalizeSave, SaveSession
    <2> QED
      BY <1>f, <1>3, <2>1, <2>2 DEF SessionRow
  <1> QED
    BY <1>1, <1>2, <1>4, <1>5, <1>6, <1>7, <1>8

\* The freeze that is tracked is of the next wave, and the session's wave catches up with it.
LEMMA TrackingStaged ==
  ASSUME LInv, FreezeTrack(Me)
  PROVE  KStaged'
  <1>p. PICK s \in CallState :
            /\ s = call[Me] /\ CallStaged(s) /\ SessionCurrent(s) /\ JobCurrent(s) /\ CallOK(s)
            /\ s.row \in JobRow /\ s.row.wave \in Nat
            /\ s.pc \in HoldsRow => s.job \in Job /\ (Row(s.job) => s.row.wave = jobs[s.job].wave)
    BY HeldFacts
  <1>f. session \in SessionRow
    BY LoopFacts
  <1>1. s.pc = "freeze_track" /\ s.ses = session /\ FreezeReady(session.status, s.wave) /\ s.wave = session.latest + 1
    BY <1>p DEF FreezeTrack, At, SessionCurrent, ReadsSession, CallStaged, Freezes
  <1>2. PICK w \in Wave : w = s.wave
    BY <1>1, LiveIsNext, LoopFacts, <1>p DEF CallOK, HoldsStored, TypeOK
  <1>3. PICK ses : ses = Tracked(session, w)
    OBVIOUS
  <1>4. ses.wave = session.wave /\ [ses EXCEPT !.wave = session.wave] = ses
    BY <1>f, <1>3 DEF Tracked, SessionRow
  <1>5. SessionStaged(ses) /\ SessionStaged([ses EXCEPT !.wave = w])
    BY <1>1, <1>2, <1>3, <1>4, TrackStaged
  <1>6. session' = ses /\ jobs' = jobs
    BY <1>p, <1>1, <1>2, <1>3 DEF FreezeTrack, SaveSession
  <1>7. SessionStaged(session)'
    BY <1>5, <1>6, SaveStaged
  <1>8. CASE Return(Me)
    <2>1. call'[Me].pc = "idle"
      BY <1>8, LoopFacts, TheCaller DEF Return, Hold, Idle
    <2> QED
      BY <1>7, <2>1, PlainStaged DEF Watched, HoldsNewRow, HoldsCommittee, Freezes, Decides
  <1>9. CASE ~Return(Me)
    <2> DEFINE t == [s EXCEPT !.pc = "save_session", !.ses = [ses EXCEPT !.wave = w]]
    <2>1. Hold(Me, t)
      BY <1>p, <1>1, <1>2, <1>3, <1>9 DEF FreezeTrack
    <2>2. t.pc = "save_session" /\ t.ses = [ses EXCEPT !.wave = w]
      BY DEF CallState
    <2> HIDE DEF t
    <2>3. SessionStaged(t.ses)'
      <3>1. SessionStaged(t.ses)
        BY <1>5, <2>2
      <3>2. session'.runs = session.runs
        BY <1>f, <1>3, <1>6 DEF Tracked, SessionRow
      <3> QED
        BY <1>6, <3>1 DEF SessionStaged, Done, Row, Top
    <2>4. CallStaged(t)'
      BY <2>2, <2>3 DEF CallStaged, HoldsNewRow, HoldsCommittee, Freezes, Decides
    <2> QED
      BY <1>7, <2>1, <2>4, HoldStaged
  <1> QED
    BY <1>8, <1>9

LEMMA JobStepStaged ==
  ASSUME LInv, OneMove, ~Quiescent, JobStep(Me)
  PROVE  KStaged'
  <1> USE DEF Watched, HoldsNewRow, HoldsCommittee, Freezes, Decides
  <1>p. PICK s \in CallState :
            /\ s = call[Me] /\ CallStaged(s) /\ SessionCurrent(s) /\ JobCurrent(s) /\ CallOK(s)
            /\ s.row \in JobRow /\ s.row.wave \in Nat
            /\ s.pc \in HoldsRow => s.job \in Job /\ (Row(s.job) => s.row.wave = jobs[s.job].wave)
    BY HeldFacts
  <1>m. Me \in Client /\ RowsCurrent
    BY TheCaller, LoopFacts
  <1>r. Return(Me) => call'[Me].pc = "idle"
    BY LoopFacts, TheCaller DEF Return, Hold, Idle
  <1>1. CASE RetryJobSession(Me)
    <2> DEFINE t == [s EXCEPT !.pc = "create_check", !.ses = session]
    <2>1. Hold(Me, t) /\ StoreUnchanged /\ s.pc = "create_session"
      BY <1>p, <1>1 DEF RetryJobSession, At
    <2>2. t.pc = "create_check" /\ t.row = s.row
      BY DEF CallState
    <2> HIDE DEF t
    <2>3. CallStaged(t)
      BY <1>p, <2>1, <2>2 DEF CallStaged
    <2> QED
      BY <2>1, <2>3, ReadStaged
  <1>2. CASE CreateJobCheck(Me)
    <2>1. StoreUnchanged /\ s.pc = "create_check"
      BY <1>p, <1>2 DEF CreateJobCheck, At
    <2>2. CASE Hold(Me, [s EXCEPT !.pc = "create_save_session", !.job = NewJob])
      <3> DEFINE t == [s EXCEPT !.pc = "create_save_session", !.job = NewJob]
      <3>1. t.pc = "create_save_session" /\ t.row = s.row
        BY DEF CallState
      <3>2. Hold(Me, t)
        BY <2>2
      <3> HIDE DEF t
      <3>3. CallStaged(t)
        BY <1>p, <2>1, <3>1 DEF CallStaged
      <3> QED
        BY <2>1, <3>2, <3>3, ReadStaged
    <2>3. CASE Return(Me)
      <3>1. Reads(Me, "create_check", {"idle"})
        BY <1>p, <1>r, <2>1, <2>3 DEF Reads, At
      <3> QED
        BY <3>1, PlainRead
    <2> QED
      BY <1>2, <1>p, <2>2, <2>3 DEF CreateJobCheck
  <1>3. CASE CreateJobSaveSession(Me)
    <2>1. SessionStaged(session)'
      BY <1>3, SessionSavesStaged
    <2>2. session' = session /\ jobs' = jobs
      BY <1>p, <1>3 DEF CreateJobSaveSession, At, SaveSession, SessionCurrent, ReadsSession
    <2> DEFINE t == [s EXCEPT !.pc = "create_save_job"]
    <2>3. Hold(Me, t) /\ s.pc = "create_save_session"
      BY <1>p, <1>3 DEF CreateJobSaveSession, Goto, Hold, At
    <2>4. t.pc = "create_save_job" /\ t.row = s.row
      BY DEF CallState
    <2> HIDE DEF t
    <2>5. CallStaged(t)
      BY <1>p, <2>3, <2>4 DEF CallStaged
    <2>6. CallStaged(t)'
      BY <2>2, <2>5, SameStaged
    <2> QED
      BY <2>1, <2>3, <2>6, HoldStaged
  <1>4. CASE CreateJobSaveJob(Me) \/ SaveJobRow(Me) \/ CompleteJobStart(Me)
    <2>1. SessionStaged(session)'
      BY <1>4, JobSavesStaged
    <2>2. call'[Me].pc \in {"save_job", "idle", "complete_save"}
      BY <1>4, <1>m, JobFlow DEF WritesJob
    <2> QED
      BY <2>1, <2>2, PlainStaged
  <1>5. CASE SaveSessionRow(Me) \/ AdvanceSave(Me)
    <2>1. SessionStaged(session)'
      BY <1>5, SessionSavesStaged
    <2>2. call'[Me].pc = "idle"
      BY <1>5, <1>m, JobFlow DEF WritesSession
    <2> QED
      BY <2>1, <2>2, PlainStaged
  <1>6. CASE CompleteJobSave(Me)
    <2>1. SessionStaged(session)' /\ session' = session /\ s.pc = "complete_save"
      BY <1>6, <1>p, JobSavesStaged DEF CompleteJobSave, SaveJob, At
    <2> DEFINE t == [s EXCEPT !.pc = "advance_read"]
    <2>2. Hold(Me, t)
      BY <1>p, <1>6 DEF CompleteJobSave, Goto, Hold
    <2>3. t.pc = "advance_read" /\ t.row = s.row
      BY DEF CallState
    <2> HIDE DEF t
    <2>4. s.job \in Job /\ Row(s.job) /\ s.row.wave = jobs[s.job].wave
      BY <1>p, <2>1 DEF JobCurrent, ChangesOpen, Row, OpenJob, HoldsRow
    <2>5. Live => s.row.wave <= Top(session)
      BY <2>4, LoopFacts DEF SessionStaged, Live
    <2>6. CallStaged(t)'
      BY <2>1, <2>3, <2>5 DEF CallStaged, Reaches, Live, Top
    <2> QED
      BY <2>1, <2>2, <2>6, HoldStaged
  <1>7. CASE AdvanceRead(Me)
    <2>1. StoreUnchanged /\ s.pc = "advance_read"
      BY <1>p, <1>7 DEF AdvanceRead, At
    <2>2. CASE /\ s.row.wave > session.wave
               /\ Hold(Me, [s EXCEPT !.pc = "advance_save", !.ses = [session EXCEPT !.wave = s.row.wave]])
      <3> DEFINE t == [s EXCEPT !.pc = "advance_save", !.ses = [session EXCEPT !.wave = s.row.wave]]
      <3>1. t.pc = "advance_save" /\ t.ses = [session EXCEPT !.wave = s.row.wave]
        BY DEF CallState
      <3>2. Hold(Me, t)
        BY <2>2
      <3> HIDE DEF t
      <3>3. Reaches(s.row.wave)
        BY <1>p, <2>1 DEF CallStaged
      <3>4. SessionStaged(t.ses)
        BY <1>p, <2>2, <3>1, <3>3, CatchUpStaged
      <3>5. CallStaged(t)
        BY <3>1, <3>4 DEF CallStaged
      <3> QED
        BY <2>1, <3>2, <3>5, ReadStaged
    <2>3. CASE Return(Me)
      <3>1. Reads(Me, "advance_read", {"idle"})
        BY <1>p, <1>r, <2>1, <2>3 DEF Reads, At
      <3> QED
        BY <3>1, PlainRead
    <2> QED
      BY <1>7, <1>p, <2>2, <2>3 DEF AdvanceRead
  <1>8. ~StartJobRead(Me) /\ ~RetryJobRead(Me) /\ ~RunResearch(Me) /\ ~CompleteJobRead(Me)
        /\ ~CloseJobRead(Me) /\ ~TouchJobRead(Me) /\ ~CancelResearchRead(Me)
    BY DEF StartJobRead, RetryJobRead, RunResearch, CompleteJobRead, CloseJobRead, TouchJobRead, CancelResearchRead,
           Begin, Quiescent
  <1> QED
    BY <1>1, <1>2, <1>3, <1>4, <1>5, <1>6, <1>7, <1>8 DEF JobStep

LEMMA EvidenceStepStaged ==
  ASSUME LInv, OneMove, ~Quiescent, EvidenceStep(Me)
  PROVE  KStaged'
  <1> USE DEF Watched, HoldsNewRow, HoldsCommittee, Freezes, Decides
  <1>p. PICK s \in CallState :
            /\ s = call[Me] /\ CallStaged(s) /\ SessionCurrent(s) /\ JobCurrent(s) /\ CallOK(s)
            /\ s.row \in JobRow /\ s.row.wave \in Nat
            /\ s.pc \in HoldsRow => s.job \in Job /\ (Row(s.job) => s.row.wave = jobs[s.job].wave)
    BY HeldFacts
  <1>m. Me \in Client /\ RowsCurrent /\ session \in SessionRow
    BY TheCaller, LoopFacts
  <1>r. Return(Me) => call'[Me].pc = "idle"
    BY LoopFacts, TheCaller DEF Return, Hold, Idle
  <1>1. CASE RecordEvidenceGate(Me) \/ SubmitSession(Me) \/ SubmitLinkRead(Me)
    <2>1. \E to \in {{"evidence_save", "idle"}, {"submit_dossier", "idle"}, {"complete_save", "submit_link"}} :
              \E from : Reads(Me, from, to)
      BY <1>1, <1>m, EvidenceFlow
    <2> QED
      BY <2>1, PlainRead
  <1>2. CASE RecordEvidenceSave(Me) \/ SubmitDossier(Me)
    <2>1. session' = session /\ jobs' = jobs
      BY <1>2 DEF RecordEvidenceSave, SubmitDossier
    <2>2. SessionStaged(session)'
      BY <2>1, SameStaged, LoopFacts
    <2>3. call'[Me].pc \in {"idle", "submit_read"}
      BY <1>2, <1>r, LoopFacts, <1>m DEF RecordEvidenceSave, SubmitDossier, Goto, CallState
    <2> QED
      BY <2>2, <2>3, PlainStaged
  <1>3. CASE SubmitLinkSave(Me)
    <2>1. SessionStaged(session)'
      BY <1>3, SessionSavesStaged
    <2>2. call'[Me].pc = "complete_save"
      BY <1>3, <1>m, EvidenceFlow DEF WritesSession
    <2> QED
      BY <2>1, <2>2, PlainStaged
  <1>4. ASSUME NEW t \in CallState, Hold(Me, t), t.wave = s.wave, t.row = s.row, s.pc \in Freezes, t.pc \in Freezes,
               SessionStaged(session)', session'.latest = session.latest,
               session'.status = session.status \/ (session.status \in Early /\ session'.status \in Early)
        PROVE  KStaged'
    <2>1. t = call'[Me]
      BY <1>4, LoopFacts, <1>m DEF Hold
    <2>2. \A P \in {HoldsNewRow, HoldsCommittee, Freezes, Decides} : t.pc \in P => s.pc \in P
      BY <1>4
    <2> QED
      BY <1>4, <1>p, <2>1, <2>2, KeepStaged
  <1>5. CASE FreezePlan(Me) \/ FreezeResearch(Me)
    <2>1. SessionStaged(session)'
      BY <1>5, SessionSavesStaged
    <2>2. /\ s.pc \in {"freeze_planning", "freeze_researching"} /\ session.status \in Early
          /\ \E st \in Early : s.ses = Status(session, st)
      BY <1>p, <1>5 DEF FreezePlan, FreezeResearch, At, SessionCurrent, Early
    <2>3. session' = s.ses
      BY <1>p, <1>5 DEF FreezePlan, FreezeResearch, SaveSession
    <2>4. session'.latest = session.latest /\ session'.status \in Early
      BY <1>m, <2>2, <2>3 DEF Status, SessionRow
    <2>5. PICK t : Hold(Me, t) /\ (t = [s EXCEPT !.pc = "freeze_researching", !.ses.status = "researching"]
                                    \/ t = [s EXCEPT !.pc = "freeze_list"])
      BY <1>p, <1>5 DEF FreezePlan, FreezeResearch, Goto, Hold
    <2>6. t.wave = s.wave /\ t.row = s.row /\ t.pc \in {"freeze_researching", "freeze_list"}
      BY <2>5 DEF CallState
    <2>7. t \in CallState
      <3>1. t = call'[Me]
        BY <2>5, LoopFacts, <1>m DEF Hold
      <3>2. call' \in [Client -> CallState]
        BY <1>m, <1>5, TheCaller, NextInv DEF Next, EvidenceStep, RowsCurrent, Inv, SnapshotsGrounded, TypeOK
      <3> QED
        BY <1>m, <3>1, <3>2
    <2> QED
      BY <1>4, <2>1, <2>2, <2>4, <2>5, <2>6, <2>7
  <1>6. CASE FreezeList(Me) \/ FreezeOpenJobs(Me) \/ FreezeSave(Me)
    <2>1. session' = session /\ jobs' = jobs /\ s.pc \in {"freeze_list", "freeze_open", "freeze_save"}
      BY <1>p, <1>6 DEF FreezeList, FreezeOpenJobs, FreezeSave, StoreUnchanged, store, At
    <2>2. SessionStaged(session)'
      BY <2>1, SameStaged, LoopFacts
    <2>3. CASE Return(Me)
      BY <2>2, <2>3, <1>r, PlainStaged
    <2>4. CASE ~Return(Me)
      <3>1. PICK sn \in SUBSET Evidence, l \in {"freeze_open", "freeze_save", "freeze_track"} :
                Hold(Me, [s EXCEPT !.pc = l, !.seen = sn])
        <4>1. FreezeList(Me) => Hold(Me, [s EXCEPT !.pc = "freeze_open", !.seen = WaveRecords(s.wave)])
          BY <1>p DEF FreezeList
        <4>2. FreezeOpenJobs(Me) => Hold(Me, [s EXCEPT !.pc = "freeze_save", !.seen = s.seen])
          <5>1. [s EXCEPT !.pc = "freeze_save", !.seen = s.seen] = [s EXCEPT !.pc = "freeze_save"]
            BY DEF CallState
          <5> QED
            BY <1>p, <2>4, <5>1 DEF FreezeOpenJobs, Goto, Hold
        <4>3. FreezeSave(Me) => Hold(Me, [s EXCEPT !.pc = "freeze_track", !.seen = s.seen])
          <5>1. [s EXCEPT !.pc = "freeze_track", !.seen = s.seen] = [s EXCEPT !.pc = "freeze_track"]
            BY DEF CallState
          <5> QED
            BY <1>p, <5>1 DEF FreezeSave, Goto, Hold
        <4>4. WaveRecords(s.wave) \in SUBSET Evidence /\ s.seen \in SUBSET Evidence
          BY DEF WaveRecords, CallState
        <4> QED
          BY <1>6, <4>1, <4>2, <4>3, <4>4
      <3> DEFINE t == [s EXCEPT !.pc = l, !.seen = sn]
      <3>2. t \in CallState /\ t.wave = s.wave /\ t.row = s.row /\ t.pc = l
        BY DEF CallState, Label
      <3>3. Hold(Me, t)
        BY <3>1
      <3> HIDE DEF t
      <3> QED
        BY <1>4, <2>1, <2>2, <3>2, <3>3
    <2> QED
      BY <2>3, <2>4
  <1>7. CASE FreezeTrack(Me)
    BY <1>7, TrackingStaged
  <1>8. ~RecordEvidenceRead(Me) /\ ~SubmitRead(Me) /\ ~FreezeRead(Me)
    BY DEF RecordEvidenceRead, SubmitRead, FreezeRead, Begin, Quiescent
  <1> QED
    BY <1>1, <1>2, <1>3, <1>5, <1>6, <1>7, <1>8 DEF EvidenceStep

LEMMA CommitteeStepStaged ==
  ASSUME LInv, OneMove, ~Quiescent, CommitteeStep(Me)
  PROVE  KStaged'
  <1> USE DEF Watched, HoldsNewRow, HoldsCommittee, Freezes, Decides
  <1>p. PICK s \in CallState :
            /\ s = call[Me] /\ CallStaged(s) /\ SessionCurrent(s) /\ JobCurrent(s) /\ CallOK(s)
            /\ s.row \in JobRow /\ s.row.wave \in Nat
            /\ s.pc \in HoldsRow => s.job \in Job /\ (Row(s.job) => s.row.wave = jobs[s.job].wave)
    BY HeldFacts
  <1>m. Me \in Client /\ RowsCurrent /\ session \in SessionRow
    BY TheCaller, LoopFacts
  <1>r. Return(Me) => call'[Me].pc = "idle"
    BY LoopFacts, TheCaller DEF Return, Hold, Idle
  <1>1. CASE CommitteeSession(Me)
    <2> DEFINE t == [s EXCEPT !.pc = "committee_check", !.ses = session]
    <2>1. Hold(Me, t) /\ StoreUnchanged /\ s.pc = "committee_session"
      BY <1>p, <1>1 DEF CommitteeSession, At
    <2>2. t.pc = "committee_check" /\ t.wave = s.wave
      BY DEF CallState
    <2> HIDE DEF t
    <2>3. CallStaged(t)
      BY <1>p, <2>1, <2>2 DEF CallStaged
    <2> QED
      BY <2>1, <2>3, ReadStaged
  <1>2. CASE CommitteeCheck(Me)
    <2>1. StoreUnchanged /\ s.pc = "committee_check"
      BY <1>p, <1>2 DEF CommitteeCheck, At
    <2>2. PICK role : role = NextRole(s.todo)
      OBVIOUS
    <2>3. PICK row : row = [NoRow EXCEPT !.type = role, !.wave = s.wave, !.status = "running"]
      OBVIOUS
    <2>4. CASE Hold(Me, [s EXCEPT !.pc = "committee_save_session", !.job = NewJob, !.todo = @ \ {role}, !.row = row])
      <3> DEFINE t == [s EXCEPT !.pc = "committee_save_session", !.job = NewJob, !.todo = @ \ {role}, !.row = row]
      <3>1. t.pc = "committee_save_session" /\ t.wave = s.wave /\ t.row = row
        BY DEF CallState
      <3>2. row.wave = s.wave
        BY <2>3 DEF NoRow
      <3>3. Hold(Me, t)
        BY <2>4
      <3> HIDE DEF t
      <3>4. CallStaged(t)
        BY <1>p, <2>1, <3>1, <3>2 DEF CallStaged
      <3> QED
        BY <2>1, <3>3, <3>4, ReadStaged
    <2>5. CASE Return(Me) \/ Goto(Me, "committee_rollback")
      <3>1. call'[Me].pc \in {"idle", "committee_rollback"}
        BY <2>5, <1>r, <1>m, LoopFacts DEF Goto, CallState
      <3>2. Reads(Me, "committee_check", {"idle", "committee_rollback"})
        BY <1>p, <2>1, <3>1 DEF Reads, At
      <3> QED
        BY <3>2, PlainRead
    <2> QED
      BY <1>2, <1>p, <2>2, <2>3, <2>4, <2>5 DEF CommitteeCheck
  <1>3. CASE CommitteeSaveSession(Me)
    <2>1. SessionStaged(session)'
      BY <1>3, SessionSavesStaged
    <2>2. session' = session /\ jobs' = jobs
      BY <1>p, <1>3 DEF CommitteeSaveSession, At, SaveSession, SessionCurrent, ReadsSession
    <2> DEFINE t == [s EXCEPT !.pc = "committee_save_job"]
    <2>3. Hold(Me, t) /\ s.pc = "committee_save_session"
      BY <1>p, <1>3 DEF CommitteeSaveSession, Goto, Hold, At
    <2>4. t.pc = "committee_save_job" /\ t.row = s.row /\ t.wave = s.wave
      BY DEF CallState
    <2> HIDE DEF t
    <2>5. CallStaged(t)
      BY <1>p, <2>3, <2>4 DEF CallStaged
    <2>6. CallStaged(t)'
      BY <2>2, <2>5, SameStaged
    <2> QED
      BY <2>1, <2>3, <2>6, HoldStaged
  <1>4. CASE CommitteeSaveJob(Me)
    <2>1. SessionStaged(session)' /\ session' = session /\ s.pc = "committee_save_job"
      BY <1>4, <1>p, JobSavesStaged DEF CommitteeSaveJob, SaveJob, At
    <2> DEFINE t == [s EXCEPT !.pc = "committee_check", !.mine = @ \union {s.job}]
    <2>2. Hold(Me, t)
      BY <1>p, <1>4 DEF CommitteeSaveJob
    <2>3. t.pc = "committee_check" /\ t.wave = s.wave
      BY DEF CallState
    <2> HIDE DEF t
    <2>4. Reaches(s.wave)
      BY <1>p, <2>1 DEF CallStaged
    <2>5. CallStaged(t)'
      BY <2>1, <2>3, <2>4 DEF CallStaged, Reaches, Live, Top
    <2> QED
      BY <2>1, <2>2, <2>5, HoldStaged
  <1>5. CASE CommitteeFail(Me) \/ RecordAnalysisSave(Me)
    <2>1. SessionStaged(session)'
      BY <1>5, JobSavesStaged
    <2>2. call'[Me].pc \in {"committee_rollback", "analysis_track"}
      BY <1>5, <1>m, CommitteeFlow DEF WritesJob
    <2> QED
      BY <2>1, <2>2, PlainStaged
  <1>6. CASE CommitteeRollback(Me) \/ RecordAnalysisGate(Me)
    <2>1. \E to \in {{"committee_fail", "committee_rollback", "idle"}, {"analysis_save", "idle"}} :
              \E from : Reads(Me, from, to)
      BY <1>6, <1>m, CommitteeFlow
    <2> QED
      BY <2>1, PlainRead
  <1>7. CASE RecordAnalysisTrack(Me)
    <2>1. SessionStaged(session)'
      BY <1>7, SessionSavesStaged
    <2>2. call'[Me].pc = "idle"
      BY <1>7, <1>m, CommitteeFlow DEF WritesSession
    <2> QED
      BY <2>1, <2>2, PlainStaged
  <1>8. ~CommitteeRoles(Me) /\ ~RecordAnalysisRead(Me)
    BY DEF CommitteeRoles, RecordAnalysisRead, Begin, Quiescent
  <1> QED
    BY <1>1, <1>2, <1>3, <1>4, <1>5, <1>6, <1>7, <1>8 DEF CommitteeStep

\* A gate that moves the session saves it on its next wave, or waiting for its answer.
LEMMA DirectorStepStaged ==
  ASSUME LInv, OneMove, ~Quiescent, DirectorStep(Me)
  PROVE  KStaged'
  <1> USE DEF Watched, HoldsNewRow, HoldsCommittee, Freezes, Decides
  <1>p. PICK s \in CallState :
            /\ s = call[Me] /\ CallStaged(s) /\ SessionCurrent(s) /\ JobCurrent(s) /\ CallOK(s)
            /\ s.row \in JobRow /\ s.row.wave \in Nat
            /\ s.pc \in HoldsRow => s.job \in Job /\ (Row(s.job) => s.row.wave = jobs[s.job].wave)
    BY HeldFacts
  <1>m. Me \in Client /\ RowsCurrent /\ session \in SessionRow
    BY TheCaller, LoopFacts
  <1>r. Return(Me) => call'[Me].pc = "idle"
    BY LoopFacts, TheCaller DEF Return, Hold, Idle
  <1>1. CASE DecideGate(Me)
    <2>1. PICK authorized \in BOOLEAN : Hold(Me, [s EXCEPT !.pc = "decide_settle", !.yes = authorized])
      BY <1>p, <1>1 DEF DecideGate
    <2> DEFINE t == [s EXCEPT !.pc = "decide_settle", !.yes = authorized]
    <2>2. StoreUnchanged /\ s.pc = "decide_gate"
      BY <1>p, <1>1 DEF DecideGate, At
    <2>3. t.pc = "decide_settle"
      BY DEF CallState
    <2>4. Hold(Me, t)
      BY <2>1
    <2> HIDE DEF t
    <2>5. CallStaged(t)
      BY <1>p, <2>2, <2>3 DEF CallStaged
    <2> QED
      BY <2>2, <2>4, <2>5, ReadStaged
  <1>2. CASE DecideSettle(Me)
    <2>1. StoreUnchanged /\ s.pc = "decide_settle" /\ Done(session)
      BY <1>p, <1>2 DEF DecideSettle, At, CallStaged
    <2>2. CASE Return(Me)
      <3>1. Reads(Me, "decide_settle", {"idle"})
        BY <1>p, <1>r, <2>1, <2>2 DEF Reads, At
      <3> QED
        BY <3>1, PlainRead
    <2>3. CASE ~Return(Me)
      <3>1. session.status = "analyzing"
        BY <1>2, <2>3 DEF DecideSettle
      <3>2. PICK ses : /\ SessionStaged(ses)
                       /\ Hold(Me, [Idle EXCEPT !.pc = "save_session", !.ses = ses])
        BY <1>2, <2>1, <2>3, <3>1, SettleStaged DEF DecideSettle
      <3> DEFINE t == [Idle EXCEPT !.pc = "save_session", !.ses = ses]
      <3>3. t.pc = "save_session" /\ t.ses = ses
        BY DEF Idle
      <3>4. Hold(Me, t)
        BY <3>2
      <3> HIDE DEF t
      <3>5. CallStaged(t)
        BY <3>2, <3>3 DEF CallStaged
      <3> QED
        BY <2>1, <3>4, <3>5, ReadStaged
    <2> QED
      BY <2>2, <2>3
  <1>3. CASE FinalizeTrio(Me) \/ FinalizeOpenJobs(Me) \/ FinalizeWalk(Me) \/ FinalizeResult(Me)
    <2>1. \E to \in {{"final_open", "idle"}, {"final_walk", "idle"}, {"final_synth", "final_result"}, {"final_save"}} :
              \E from : Reads(Me, from, to)
      BY <1>3, <1>m, DirectorFlow
    <2> QED
      BY <2>1, PlainRead
  <1>4. CASE FinalizeSynth(Me)
    <2>1. SessionStaged(session)'
      BY <1>4, SessionSavesStaged
    <2>2. call'[Me].pc = "final_result"
      BY <1>4, <1>m, DirectorFlow DEF WritesSession
    <2> QED
      BY <2>1, <2>2, PlainStaged
  <1>5. CASE FinalizeSave(Me)
    <2>1. SessionStaged(session)'
      BY <1>5, SessionSavesStaged
    <2>2. CASE Return(Me)
      BY <1>r, <2>1, <2>2, PlainStaged
    <2>3. CASE ~Return(Me)
      <3> DEFINE t == [s EXCEPT !.pc = "save_session", !.ses.status = "completed"]
      <3>1. Hold(Me, t)
        BY <1>p, <1>5, <2>3 DEF FinalizeSave
      <3>2. t.pc = "save_session" /\ t.ses.status = "completed" /\ t.ses.frozen = s.ses.frozen /\ t.ses.latest = s.ses.latest
            /\ t.ses.runs = s.ses.runs
        BY DEF CallState, SessionRow
      <3> HIDE DEF t
      <3>3. s.ses = [session EXCEPT !.final = s.wave]
        BY <1>p, <1>5 DEF FinalizeSave, At, SessionCurrent
      <3>4. s.ses.frozen = 1..s.ses.latest /\ \A w \in Wave : s.ses.runs[w] # {} => w \in s.ses.frozen
        BY <1>m, <3>3, LoopFacts DEF SessionRow, SessionStaged
      <3>5. SessionStaged(t.ses)'
        BY <3>2, <3>4 DEF SessionStaged, Early, TerminalSession
      <3>6. CallStaged(t)'
        BY <3>2, <3>5 DEF CallStaged
      <3> QED
        BY <2>1, <3>1, <3>6, HoldStaged
    <2> QED
      BY <2>2, <2>3
  <1>6. ~DecideRead(Me) /\ ~FinalizeRead(Me)
    BY DEF DecideRead, FinalizeRead, Begin, Quiescent
  <1> QED
    BY <1>1, <1>2, <1>3, <1>4, <1>5, <1>6 DEF DirectorStep


-----------------------------------------------------------------------------
(* Staged rows: the calls the Director and its children begin *)

LEMMA QuietStaged ==
  ASSUME LInv, KernelQuiet
  PROVE  KStaged'
  <1>1. session' = session /\ jobs' = jobs /\ call' = call
    BY DEF KernelQuiet, vars
  <1>2. SessionStaged(session)' /\ CallStaged(call[Me])'
    <2>1. PICK s : s = call[Me]
      OBVIOUS
    <2>2. CallStaged(s)' /\ SessionStaged(session)'
      BY <1>1, <2>1, SameStaged, LoopFacts
    <2> QED
      BY <1>1, <2>1, <2>2 DEF CallStaged, SessionStaged, Reaches, Done, Row, Top
  <1> QED
    BY <1>2 DEF KStaged

LEMMA GivesUpStaged ==
  ASSUME LInv, Return(Me), StoreUnchanged
  PROVE  KStaged'
  <1>1. call'[Me].pc \notin Watched
    BY LoopFacts, TheCaller DEF Return, Hold, Idle, Watched, HoldsNewRow, HoldsCommittee, Freezes, Decides
  <1>2. SessionStaged(session)'
    BY SameStaged, LoopFacts DEF StoreUnchanged, store
  <1> QED
    BY <1>1, <1>2, PlainStaged

\* A call that promises nothing of the wave it writes.
LEMMA PlainBeginStaged ==
  ASSUME LInv,
         FinalizeRead(Me) \/ RecordEvidenceRead(Me) \/ SubmitRead(Me) \/ RecordAnalysisRead(Me) \/ CloseJobRead(Me)
  PROVE  KStaged'
  <1>1. \E to \in {{"final_trio"}, {"evidence_job"}, {"submit_session"}, {"analysis_job"}, {"save_job"}} :
            \E from : Reads(Me, from, to)
    BY LoopFacts, TheCaller, DirectorFlow, EvidenceFlow, CommitteeFlow, JobFlow
  <1> QED
    BY <1>1, PlainRead DEF Watched, HoldsNewRow, HoldsCommittee, Freezes, Decides

LEMMA StartStaged ==
  ASSUME LInv, NEW w, Reaches(w), StartJobRead(Me), call'[Me].wave = w
  PROVE  KStaged'
  <1>1. PICK v \in Wave : Hold(Me, [Idle EXCEPT !.pc = "create_check", !.wave = v, !.ses = session, !.yes = TRUE,
                                             !.row = [NoRow EXCEPT !.wave = v, !.status = "queued"]])
    BY DEF StartJobRead
  <1> DEFINE t == [Idle EXCEPT !.pc = "create_check", !.wave = v, !.ses = session, !.yes = TRUE,
                                             !.row = [NoRow EXCEPT !.wave = v, !.status = "queued"]]
  <1>2. t.pc = "create_check" /\ t.wave = v /\ t.row.wave = v
    BY DEF Idle, NoRow
  <1>3. Hold(Me, t)
    BY <1>1
  <1> HIDE DEF t
  <1>4. call'[Me] = t
    BY <1>3, LoopFacts, TheCaller DEF Hold
  <1>5. CallStaged(t)
    BY <1>2, <1>4 DEF CallStaged, HoldsNewRow, HoldsCommittee, Freezes, Decides
  <1> QED
    BY <1>3, <1>5, ReadStaged DEF StartJobRead

LEMMA CommitteeBeginStaged ==
  ASSUME LInv, NEW w, Reaches(w), CommitteeRoles(Me), call'[Me].wave = w
  PROVE  KStaged'
  <1>1. PICK v \in Wave : Hold(Me, [Idle EXCEPT !.pc = "committee_session", !.wave = v, !.todo = MissingRoles(v)])
    BY DEF CommitteeRoles
  <1> DEFINE t == [Idle EXCEPT !.pc = "committee_session", !.wave = v, !.todo = MissingRoles(v)]
  <1>2. t.pc = "committee_session" /\ t.wave = v
    BY DEF Idle
  <1>3. Hold(Me, t)
    BY <1>1
  <1> HIDE DEF t
  <1>4. call'[Me] = t
    BY <1>3, LoopFacts, TheCaller DEF Hold
  <1>5. CallStaged(t)
    BY <1>2, <1>4 DEF CallStaged, HoldsNewRow, HoldsCommittee, Freezes, Decides
  <1> QED
    BY <1>3, <1>5, ReadStaged DEF CommitteeRoles

LEMMA FreezeBeginStaged ==
  ASSUME LInv, FreezeRead(Me), call'[Me].wave = session.latest + 1
  PROVE  KStaged'
  <1>1. PICK v \in Wave, l \in {"freeze_planning", "freeze_researching", "freeze_list"},
           ses \in {session, Status(session, "planning"), Status(session, "researching")} :
            Hold(Me, [Idle EXCEPT !.pc = l, !.wave = v, !.ses = ses])
    BY DEF FreezeRead
  <1> DEFINE t == [Idle EXCEPT !.pc = l, !.wave = v, !.ses = ses]
  <1>2. t.pc = l /\ t.wave = v
    BY DEF Idle
  <1>3. Hold(Me, t)
    BY <1>1
  <1> HIDE DEF t
  <1>4. call'[Me] = t
    BY <1>3, LoopFacts, TheCaller DEF Hold
  <1>5. CallStaged(t)
    BY <1>1, <1>2, <1>4 DEF CallStaged, HoldsNewRow, HoldsCommittee, Freezes, Decides
  <1> QED
    BY <1>3, <1>5, ReadStaged DEF FreezeRead

LEMMA DecideBeginStaged ==
  ASSUME LInv, DecideRead(Me), Done(session)
  PROVE  KStaged' /\ call'[Me].pc = "decide_gate" /\ session' = session
  <1> DEFINE t == [Idle EXCEPT !.pc = "decide_gate", !.ses = session]
  <1>1. t.pc = "decide_gate" /\ Hold(Me, t)
    BY DEF Idle, DecideRead
  <1> HIDE DEF t
  <1>2. CallStaged(t)
    BY <1>1 DEF CallStaged, HoldsNewRow, HoldsCommittee, Freezes, Decides
  <1>3. call'[Me] = t
    BY <1>1, LoopFacts, TheCaller DEF Hold
  <1> QED
    BY <1>1, <1>2, <1>3, ReadStaged DEF DecideRead, StoreUnchanged, store

LEMMA CancelBeginStaged ==
  ASSUME LInv, CancelResearchRead(Me)
  PROVE  KStaged'
  <1> DEFINE ses == [session EXCEPT !.status = "cancelled"]
  <1> DEFINE t == [Idle EXCEPT !.pc = "save_session", !.ses = ses]
  <1>1. /\ ses.frozen = session.frozen /\ ses.latest = session.latest /\ ses.status = "cancelled"
        /\ ses.runs = session.runs /\ ses.wave = session.wave
    BY LoopFacts DEF SessionRow
  <1>2. t.pc = "save_session" /\ t.ses = ses
    BY DEF Idle
  <1>3. Hold(Me, t)
    BY DEF CancelResearchRead
  <1> HIDE DEF ses, t
  <1>4. SessionStaged(ses)
    BY <1>1, WalkStaged DEF TerminalSession
  <1>5. CallStaged(t)
    BY <1>2, <1>4 DEF CallStaged, HoldsNewRow, HoldsCommittee, Freezes, Decides
  <1> QED
    BY <1>3, <1>5, ReadStaged DEF CancelResearchRead

\* A wave that is frozen, or comes after the latest freeze of a session that researches it.
LEMMA DriveStaged ==
  ASSUME LInv, NEW w
  PROVE  /\ Freeze(w) /\ (w \in Wave => w = session.latest + 1) => KStaged'
         /\ Seed(w) /\ Reaches(w) => KStaged'
         /\ Drive(w) /\ w = session.latest + 1 /\ Reaches(w) => KStaged'
  <1>1. Freeze(w) /\ (w \in Wave => w = session.latest + 1) => KStaged'
    BY QuietStaged, FreezeBeginStaged DEF Freeze
  <1>2. Seed(w) /\ Reaches(w) => KStaged'
    BY CommitteeBeginStaged DEF Seed
  <1>3. Drive(w) /\ w = session.latest + 1 /\ Reaches(w) => KStaged'
    BY <1>1, QuietStaged, StartStaged DEF Drive
  <1> QED
    BY <1>1, <1>2, <1>3

-----------------------------------------------------------------------------
(* Staged rows: the steps of the Director *)

\* A frozen wave, and the wave after the latest freeze while it is researched, are reached.
LEMMA WavesReached ==
  ASSUME LInv
  PROVE  /\ \A w \in session.frozen \union {session.latest} : Reaches(w)
         /\ session.status = "targeted_research" => Reaches(session.latest + 1)
  <1>1. session.latest \in Nat /\ session.frozen = 1..session.latest
    BY LiveIsNext
  <1>2. Top(session) \in Nat /\ session.latest <= Top(session)
    BY <1>1 DEF Top
  <1>3. \A w \in session.frozen \union {session.latest} : w \in Nat /\ w <= session.latest
    BY <1>1
  <1>4. \A w \in session.frozen \union {session.latest} : w <= Top(session)
    BY <1>1, <1>2, <1>3
  <1>5. session.status = "targeted_research" => session.latest + 1 <= Top(session)
    BY <1>1 DEF Top
  <1> QED
    BY <1>4, <1>5 DEF Reaches

LEMMA AdvanceStaged ==
  ASSUME LInv, Advance
  PROVE  KStaged' /\ LoopStaged'
  <1>l. PICK l \in LoopState : l = loop
    BY LoopFacts
  <1>t. \A p, j : Turn(p, j) => loop'.at = "turn"
    BY <1>l DEF Turn, LoopState
  <1>a. \A a, w : Await(a, w) => loop'.at = a /\ loop'.wave = w
    BY <1>l DEF Await, LoopState
  <1>n. loop'.at # "deciding" => LoopStaged'
    BY DEF LoopStaged
  <1>1. CASE AdvanceOver
    BY <1>1, <1>l, <1>n, QuietStaged DEF AdvanceOver, LoopState
  <1>2. CASE AdvanceFetch \/ AdvanceStopped
    BY <1>2, <1>t, <1>n, QuietStaged DEF AdvanceFetch, AdvanceStopped
  <1>3. CASE AdvanceFirst
    <2>1. session.latest + 1 = 1
      BY <1>3, LiveIsNext DEF AdvanceFirst
    <2>2. Freeze(1) => KStaged'
      BY <2>1, DriveStaged
    <2>3. loop'.at # "deciding"
      BY <1>3, <1>t, <1>a DEF AdvanceFirst, Freeze
    <2> QED
      BY <1>3, <1>n, <2>2, <2>3, QuietStaged DEF AdvanceFirst
  <1>4. CASE AdvanceCommittee
    <2>1. KStaged'
      BY <1>4, WavesReached, DriveStaged DEF AdvanceCommittee
    <2> QED
      BY <1>4, <1>n, <1>a, <2>1 DEF AdvanceCommittee, Seed
  <1>5. CASE AdvanceDecide
    <2>1. Live /\ TrioDone /\ ActiveWave = session.latest + 1
      BY <1>5, HeardStatus, LiveActive DEF AdvanceDecide, TrioHeard
    <2>2. KStaged' /\ call'[Me].pc = "decide_gate" /\ session' = session
      BY <1>5, <2>1, DoneIsHeard, DecideBeginStaged DEF AdvanceDecide
    <2>3. loop'.wave = session.latest + 1
      BY <1>5, <1>a, <2>1 DEF AdvanceDecide
    <2> QED
      BY <2>2, <2>3 DEF LoopStaged, Decides
  <1>6. CASE AdvanceDrive
    <2>1. Live /\ session.status = "targeted_research"
      BY <1>6, HeardStatus DEF AdvanceDrive, TrioHeard
    <2>2. ActiveWave = session.latest + 1 /\ Reaches(ActiveWave)
      BY <2>1, LiveActive, WavesReached
    <2>3. KStaged'
      BY <1>6, <2>2, DriveStaged DEF AdvanceDrive
    <2>4. loop'.at # "deciding"
      BY <1>6, <1>t, <1>a DEF AdvanceDrive, Drive, Freeze
    <2> QED
      BY <1>n, <2>3, <2>4
  <1> QED
    BY <1>1, <1>2, <1>3, <1>4, <1>5, <1>6 DEF Advance

LEMMA AnswerStaged ==
  ASSUME LInv, Answer
  PROVE  KStaged' /\ LoopStaged'
  <1>l. PICK l \in LoopState : l = loop
    BY LoopFacts
  <1>t. \A p, j : Turn(p, j) => loop'.at = "turn"
    BY <1>l DEF Turn, LoopState
  <1>a. \A a, w : Await(a, w) => loop'.at = a
    BY <1>l DEF Await, LoopState
  <1>r. Recorded => loop'.at # "deciding"
    BY <1>l DEF Recorded, LoopState
  <1>n. loop'.at # "deciding" => LoopStaged'
    BY DEF LoopStaged
  <1>1. CASE FreezeAnswer
    <2>1. KStaged'
      BY <1>1, WavesReached, DriveStaged, QuietStaged DEF FreezeAnswer
    <2> QED
      BY <1>1, <1>n, <1>t, <1>a, <2>1 DEF FreezeAnswer, Seed
  <1>2. CASE SeedAnswer \/ StartAnswer
    <2>1. loop'.at = "turn"
      BY <1>2, <1>t DEF SeedAnswer, StartAnswer
    <2> QED
      BY <1>2, <1>n, <2>1, QuietStaged DEF SeedAnswer, StartAnswer
  <1>3. CASE DecideAnswer
    <2>1. loop.wave = session.latest + 1
      BY <1>3, LoopFacts DEF DecideAnswer, Answered, LoopStaged
    <2>2. KStaged'
      BY <1>3, <2>1, WavesReached, DriveStaged, QuietStaged DEF DecideAnswer
    <2>3. loop'.at # "deciding"
      BY <1>3, <1>t, <1>a DEF DecideAnswer, Drive, Freeze
    <2> QED
      BY <1>n, <2>2, <2>3
  <1>4. CASE PlanAnswer \/ CallAnswer \/ FailAnswer
    <2>1. loop'.at # "deciding"
      BY <1>4, <1>l, <1>r DEF PlanAnswer, CallAnswer, FailAnswer, LoopState
    <2> QED
      BY <1>4, <1>n, <2>1, QuietStaged DEF PlanAnswer, CallAnswer, FailAnswer
  <1>5. CASE FileAnswer \/ CloseAnswer
    <2>1. loop'.at # "deciding"
      BY <1>5, <1>l, <1>r DEF FileAnswer, CloseAnswer, FailJob, LoopState
    <2>2. KStaged'
      BY <1>5, PlainBeginStaged, QuietStaged DEF FileAnswer, CloseAnswer, FailJob
    <2> QED
      BY <1>n, <2>1, <2>2
  <1> QED
    BY <1>1, <1>2, <1>3, <1>4, <1>5 DEF Answer

LEMMA TurnsStaged ==
  ASSUME LInv, EndTurn \/ Obey \/ Cancel \/ Record \/ ChildRecords \/ ChildSubmits \/ ChildrenEnd
  PROVE  KStaged' /\ LoopStaged'
  <1>l. PICK l \in LoopState : l = loop
    BY LoopFacts
  <1>n. loop'.at # "deciding" => LoopStaged'
    BY DEF LoopStaged
  <1>1. CASE EndTurn \/ ChildrenEnd
    <2>1. loop'.at # "deciding"
      BY <1>1, <1>l DEF EndTurn, ChildrenEnd, LoopState
    <2> QED
      BY <1>1, <1>n, <2>1, QuietStaged DEF EndTurn, ChildrenEnd
  <1>2. CASE PlanSource
    <2>1. Reaches(ActiveWave)
      BY <1>2, SourceReaches DEF PlanSource
    <2>2. KStaged'
      BY <1>2, <2>1, StartStaged DEF PlanSource
    <2>3. loop'.at = "planning"
      BY <1>2, <1>l DEF PlanSource, LoopState
    <2> QED
      BY <1>n, <2>2, <2>3
  <1>3. CASE PlanTrio
    <2>1. KStaged'
      BY <1>3, WavesReached, CommitteeBeginStaged DEF PlanTrio
    <2>2. loop'.at = "planning"
      BY <1>3, <1>l DEF PlanTrio, Await, LoopState
    <2> QED
      BY <1>n, <2>1, <2>2
  <1>4. CASE Finalize
    <2>1. loop'.at = "calling"
      BY <1>4, <1>l DEF Finalize, LoopState
    <2> QED
      BY <1>4, <1>n, <2>1, PlainBeginStaged DEF Finalize
  <1>5. CASE Cancel
    <2>1. loop'.at = "calling"
      BY <1>5, <1>l DEF Cancel, LoopState
    <2> QED
      BY <1>5, <1>n, <2>1, CancelBeginStaged DEF Cancel
  <1>6. CASE Record
    <2>1. PICK j \in Job : FileAnalysis(j) \/ CloseChild(j) \/ ChildDone(j)
      BY <1>6 DEF Record
    <2>2. KStaged'
      BY <2>1, PlainBeginStaged, QuietStaged DEF FileAnalysis, CloseChild, ChildDone
    <2>3. loop'.at # "deciding"
      BY <2>1, <1>l DEF FileAnalysis, CloseChild, ChildDone, Recorded, LoopState
    <2> QED
      BY <1>n, <2>2, <2>3
  <1>7. CASE ChildRecords \/ ChildSubmits
    <2>1. KStaged'
      BY <1>7, PlainBeginStaged DEF ChildRecords, ChildSubmits
    <2>2. loop'.at # "deciding"
      BY <1>7 DEF ChildRecords, ChildSubmits, Child
    <2> QED
      BY <1>n, <2>1, <2>2
  <1> QED
    BY <1>1, <1>2, <1>3, <1>4, <1>5, <1>6, <1>7 DEF Obey

LEMMA FailuresStaged ==
  ASSUME LInv, BridgeDies \/ AnswerLost \/ InspectFails \/ HostDies
  PROVE  KStaged' /\ LoopStaged'
  <1>l. PICK l \in LoopState : l = loop
    BY LoopFacts
  <1>n. loop'.at # "deciding" => LoopStaged'
    BY DEF LoopStaged
  <1>1. CASE BridgeDies
    <2>1. KStaged' /\ session' = session
      BY <1>1, GivesUpStaged DEF BridgeDies, Crash, StoreUnchanged, store
    <2>2. loop'.at = loop.at /\ loop'.wave = loop.wave
      BY <1>1, <1>l DEF BridgeDies, LoopState
    <2>3. call'[Me].pc = "idle"
      BY <1>1, LoopFacts, TheCaller DEF BridgeDies, Crash, Return, Hold, Idle
    <2> QED
      BY <2>1, <2>2, <2>3, LoopFacts DEF LoopStaged
  <1>2. CASE AnswerLost
    <2>1. KStaged' /\ session' = session /\ call' = call
      BY <1>2, QuietStaged DEF AnswerLost, KernelQuiet, vars
    <2>2. loop'.at = loop.at /\ loop'.wave = loop.wave
      BY <1>2, <1>l DEF AnswerLost, LoopState
    <2> QED
      BY <2>1, <2>2, LoopFacts DEF LoopStaged
  <1>3. CASE InspectFails
    <2>1. loop'.at = "turn"
      BY <1>3, <1>l DEF InspectFails, LoopState
    <2> QED
      BY <1>3, <1>n, <2>1, QuietStaged DEF InspectFails
  <1>4. CASE HostDies
    <2>1. loop'.at = "advance"
      BY <1>4, <1>l DEF HostDies, LoopState
    <2> QED
      BY <1>4, <1>n, <2>1, GivesUpStaged DEF HostDies
  <1> QED
    BY <1>1, <1>2, <1>3, <1>4

\* While a decision is made no other call is: the gate freezes nothing.
LEMMA DecisionFreezesNothing ==
  ASSUME LInv, KernelStep, call[Me].pc \in Decides \union {"save_session"}
  PROVE  session'.latest = session.latest /\ call'[Me].pc \in Decides \union {"idle", "save_session"}
  <1>m. Me \in Client /\ RowsCurrent /\ session \in SessionRow /\ call[Me] \in CallState
    BY TheCaller, LoopFacts
  <1>q. call[Me].pc \notin {"idle"}
    BY DEF Decides
  <1>1. ~EvidenceStep(Me) /\ ~CommitteeStep(Me)
    <2>1. ~EvidenceStep(Me)
      BY <1>q DEF Decides, At, Begin, EvidenceStep, RecordEvidenceRead, RecordEvidenceGate, RecordEvidenceSave,
                  SubmitRead, SubmitSession, SubmitDossier, SubmitLinkRead, SubmitLinkSave, FreezeRead, FreezePlan,
                  FreezeResearch, FreezeList, FreezeOpenJobs, FreezeSave, FreezeTrack
    <2>2. ~CommitteeStep(Me)
      BY <1>q DEF Decides, At, Begin, CommitteeStep, CommitteeRoles, CommitteeSession, CommitteeCheck,
                  CommitteeSaveSession, CommitteeSaveJob, CommitteeRollback, CommitteeFail, RecordAnalysisRead,
                  RecordAnalysisGate, RecordAnalysisSave, RecordAnalysisTrack
    <2> QED
      BY <2>1, <2>2
  <1>2. CASE JobStep(Me)
    <2>1. SaveSessionRow(Me)
      BY <1>2, <1>q DEF Decides, At, Begin, JobStep, StartJobRead, RetryJobRead, RetryJobSession, CreateJobCheck,
                  CreateJobSaveSession, CreateJobSaveJob, SaveJobRow, RunResearch, CompleteJobRead, CompleteJobStart,
                  CompleteJobSave, AdvanceRead, AdvanceSave, CloseJobRead, TouchJobRead, CancelResearchRead
    <2>2. call'[Me].pc = "idle"
      BY <2>1, <1>m, JobFlow DEF WritesSession
    <2>3. session' = call[Me].ses /\ call[Me].pc = "save_session"
      BY <2>1 DEF SaveSessionRow, SaveSession, At
    <2>4. PICK ses : ses = call[Me].ses
      OBVIOUS
    <2>5. Cancels(ses) \/ CatchesUp(ses) \/ Settles(ses) \/ Ends(ses)
      BY <2>3, <2>4, LoopFacts DEF SessionCurrent
    <2>6. ses.latest = session.latest
      BY <2>5, <1>m DEF Cancels, CatchesUp, Settles, Ends, Status, SessionRow
    <2> QED
      BY <2>2, <2>3, <2>4, <2>6
  <1>3. CASE DirectorStep(Me)
    <2>1. DecideGate(Me) \/ DecideSettle(Me)
      BY <1>3, <1>q DEF Decides, At, Begin, DirectorStep, DecideRead, FinalizeRead, FinalizeTrio, FinalizeOpenJobs,
                  FinalizeWalk, FinalizeSynth, FinalizeResult, FinalizeSave
    <2>2. session' = session
      BY <2>1 DEF DecideGate, DecideSettle, StoreUnchanged, store
    <2>3. call'[Me].pc \in {"decide_settle", "save_session", "idle"}
      BY <2>1, <1>m, DirectorFlow DEF Reads
    <2> QED
      BY <2>2, <2>3 DEF Decides
  <1> QED
    BY <1>1, <1>2, <1>3 DEF KernelStep

LEMMA KernelStepStaged ==
  ASSUME LInv, OneMove, KernelStep
  PROVE  KStaged' /\ LoopStaged'
  <1>1. KStaged'
    BY JobStepStaged, EvidenceStepStaged, CommitteeStepStaged, DirectorStepStaged DEF KernelStep
  <1>2. loop' = loop /\ ~Quiescent
    BY DEF KernelStep
  <1>3. CASE loop.at = "deciding"
    <2>1. loop.wave = session.latest + 1 /\ call[Me].pc \in Decides \union {"save_session"}
      BY <1>2, <1>3, LoopFacts DEF LoopStaged, Quiescent, At
    <2>2. session'.latest = session.latest /\ call'[Me].pc \in Decides \union {"idle", "save_session"}
      BY <2>1, DecisionFreezesNothing
    <2> QED
      BY <1>1, <1>2, <2>1, <2>2 DEF LoopStaged
  <1>4. CASE loop.at # "deciding"
    BY <1>1, <1>2, <1>4 DEF LoopStaged
  <1> QED
    BY <1>3, <1>4

LEMMA StaysStaged ==
  ASSUME LInv, [LoopNext]_loopVars
  PROVE  Staged'
  <1>1. OneMove
    BY LoopKeepsRows DEF LInv
  <1>2. CASE UNCHANGED loopVars
    <2>1. KernelQuiet /\ loop' = loop
      BY <1>2 DEF loopVars, KernelQuiet
    <2>2. KStaged'
      BY <2>1, QuietStaged
    <2>3. LoopStaged'
      BY <2>1, LoopFacts DEF LoopStaged, KernelQuiet, vars
    <2> QED
      BY <2>2, <2>3, TheCaller DEF Staged, KStaged
  <1>3. CASE LoopNext
    <2>1. KStaged' /\ LoopStaged'
      BY <1>1, <1>3, KernelStepStaged, AdvanceStaged, AnswerStaged, TurnsStaged, FailuresStaged DEF LoopNext
    <2> QED
      BY <2>1, TheCaller DEF Staged, KStaged
  <1> QED
    BY <1>2, <1>3

\* A new session, and one that a runner left behind, has frozen nothing.
LEMMA LoopInitStaged == LoopInit => Staged
  <1> SUFFICES ASSUME LoopInit PROVE Staged
    OBVIOUS
  <1>1. /\ session.frozen = {} /\ session.latest = 0 /\ session.status \in Early /\ session.wave \in {0, 1}
        /\ \A j \in Job : Row(j) => jobs[j].wave = 1
        /\ \A w \in Wave : session.runs[w] = {}
        /\ call = [c \in Client |-> Idle] /\ loop.at # "deciding"
    <2>1. CASE StartResearch
      BY <2>1 DEF StartResearch, Init, NewSession, NoRow, Row, Early
    <2>2. CASE ResumeRunner
      <3>1. session.frozen = {} /\ session.latest = 0 /\ session.status = "researching" /\ session.wave = 1
            /\ \A w \in Wave : session.runs[w] = {}
        BY <2>2 DEF ResumeRunner, NewSession
      <3>2. PICK row \in {[NoRow EXCEPT !.status = "running"], [NoRow EXCEPT !.status = "completed", !.result = "outcome"]} :
                jobs = [j \in Job |-> IF j = 1 THEN row ELSE NoRow]
        BY <2>2 DEF ResumeRunner
      <3>3. row.wave = 1 /\ NoRow.wave = 1
        BY <3>2 DEF NoRow
      <3> QED
        BY <2>2, <3>1, <3>2, <3>3 DEF ResumeRunner, Early
    <2> QED
      BY <2>1, <2>2 DEF LoopInit
  <1>2. SessionStaged(session)
    <2>1. Top(session) = 1 /\ 1..0 = {}
      BY <1>1 DEF Top
    <2> QED
      BY <1>1, <2>1 DEF SessionStaged, Early
  <1>3. CallStaged(Idle)
    BY DEF CallStaged, Idle, HoldsNewRow, HoldsCommittee, Freezes, Decides
  <1> QED
    BY <1>1, <1>2, <1>3 DEF Staged, LoopStaged

LEMMA LoopInitTyped == LoopInit => LoopTypeOK
  <1> SUFFICES ASSUME LoopInit PROVE LoopTypeOK
    OBVIOUS
  <1>1. TypeOK
    BY LoopInitCurrent DEF RowsCurrent, Inv, SnapshotsGrounded
  <1>2. noted \subseteq Evidence
    BY DEF LoopInit, StartResearch, ResumeRunner
  <1>3. loop \in LoopState /\ loop.at \in {"turn", "advance"}
    <2>1. 0 \in 0..MaxJobs /\ 1 \in 0..MaxJobs /\ 0 \in 0..MaxWaves + 1 /\ 0 \in 0..MaxOutages /\ 0 \in 0..MaxStrays
      BY BoundsAssumption, OneCaller
    <2>2. StartResearch => loop \in LoopState /\ loop.at = "turn"
      BY <2>1 DEF StartResearch, LoopState, Stage
    <2>3. ResumeRunner => loop \in LoopState /\ loop.at = "advance"
      BY <2>1 DEF ResumeRunner, LoopState, Stage
    <2> QED
      BY <2>2, <2>3 DEF LoopInit
  <1> QED
    BY <1>1, <1>2, <1>3 DEF LoopTypeOK

LEMMA LoopInvariant == LoopSpec => []LInv
  <1>1. LoopInit => LInv
    BY LoopInitCurrent, LoopInitStaged, LoopInitTyped DEF LInv
  <1>2. LInv /\ [LoopNext]_loopVars => LInv'
    BY LoopKeepsRows, LoopKeepsTypes, StaysStaged DEF LInv
  <1> QED
    BY <1>1, <1>2, PTL DEF LoopSpec

\* The Director waits for, prompts and records only what has its type, and a batch it
\* records is never empty (research-director.ts, recordTaskResult).
THEOREM DirectorStaysTyped == LoopSpec => []LoopTypeOK
  <1>1. LInv => LoopTypeOK
    BY DEF LInv
  <1> QED
    BY <1>1, LoopInvariant, PTL

\* Waves are frozen one after the other, no job is ahead of the wave that is researched,
\* and no call will write a row that is (research-director.ts, advanceOnAgentEnd).
THEOREM SessionStaysStaged == LoopSpec => []Staged
  <1>1. LInv => Staged
    BY DEF LInv
  <1> QED
    BY <1>1, LoopInvariant, PTL

\* The stage gate mirrored in the Director and the gate of the kernel agree on a live
\* session whenever the Director looks at it (research-director.ts, stage.py).
THEOREM GatesAgree == LoopSpec => []StagesAgree
  <1>1. LInv => StagesAgree
    BY StagedAgree DEF StagesAgree
  <1> QED
    BY <1>1, LoopInvariant, PTL

-----------------------------------------------------------------------------
(* What a prompt rests on *)

Carries == HoldsRow \union {"create_session", "create_check"}

\* Only source jobs wait in the queue: a committee job is created running, and retried by nobody.
QueuesSource ==
    /\ \A j \in Job : jobs[j].status = "queued" => jobs[j].type = "source_agent"
    /\ call[Me].pc \in Carries /\ call[Me].row.status = "queued" => call[Me].row.type = "source_agent"

\* How far the call the Director waits for has brought the session.
Starts == {"create_check", "create_save_session", "create_save_job", "save_job"}
Settled == {"targeted_research", "synthesizing"}
IsDeciding(s) ==
    /\ s.pc \in Decides => session.status = "analyzing"
    /\ s.pc = "save_session" => s.ses.status \in Settled
    /\ s.pc = "idle" => session.status \in Settled
IsFreezing(s) ==
    \/ s.pc \in Freezes \union {"idle"} /\ loop.wave = session.latest + 1
    \/ /\ s.pc \in {"save_session", "idle"} /\ loop.wave = session.latest /\ session.status = "freezing"
       /\ s.pc = "save_session" => s.ses.status = "freezing"
IsStarting(s) ==
    /\ s.pc \in Starts \union {"idle"}
    /\ session.status = "targeted_research" /\ loop.wave = session.latest + 1
IsSeeding(s) ==
    /\ s.pc \in InCommittee \union {"idle"}
    /\ session.status \in {"freezing", "analyzing"} /\ ~Done(session)
Waits ==
    /\ loop.at = "turn" => Quiescent
    /\ loop.at = "deciding" => /\ loop.stage = "FINAL" /\ SourceJobs(loop.wave) = {}
                               /\ ~loop.lost => IsDeciding(call[Me])
    /\ loop.at = "starting" => IsStarting(call[Me])
    /\ loop.at = "freezing" => IsFreezing(call[Me])
    /\ loop.at = "seeding" => IsSeeding(call[Me])


\* The job a session starts with is the first source job of its first wave.
FirstJob == Row(1) /\ jobs[1].type = "source_agent" /\ jobs[1].wave = 1

PInv == LInv /\ FirstJob /\ QueuesSource /\ Waits /\ PromptServable

LEMMA FirstJobStays ==
  ASSUME LInv, FirstJob, [LoopNext]_loopVars
  PROVE  FirstJob'
  <1>1. 1 \in Job
    BY BoundsAssumption DEF Job
  <1>2. CASE Next
    <2>1. Grows
      BY <1>2, LoopFacts, ActionsAreSteps, StoreGrows DEF Next, RowsCurrent
    <2> QED
      BY <1>1, <2>1 DEF Grows, FirstJob, Row
  <1>3. CASE UNCHANGED vars \/ GivesUp
    BY <1>3 DEF vars, GivesUp, StoreUnchanged, store, FirstJob, Row
  <1> QED
    BY <1>2, <1>3, LoopMoves DEF KernelMove

\* What the first prompt, and a fetch before the first freeze, ask: job 1 if it is open.
LEMMA FirstJobIsFirst ==
  ASSUME LInv, FirstJob
  PROVE  1 \in Job /\ 1 \in SourceJobs(1) /\ First(SourceJobs(1)) = 1
  <1>1. 1 \in Job
    BY BoundsAssumption DEF Job
  <1>2. 1 \in SourceJobs(1) /\ SourceJobs(1) \in SUBSET Job
    BY <1>1 DEF SourceJobs, FirstJob
  <1>3. PICK j \in Job : j = First(SourceJobs(1)) /\ j <= 1
    BY <1>2, FirstIsLeast
  <1>4. j = 1
    BY <1>3 DEF Job
  <1> QED
    BY <1>1, <1>2, <1>3, <1>4

\* A step keeps the queue if the job it saves, and the row it carries on, is no committee
\* job that waits.
LEMMA QueueStep ==
  ASSUME LInv, QueuesSource,
         call'[Me].pc \in Carries =>
             \/ call'[Me].row.status # "queued"
             \/ call'[Me].row.type = "source_agent"
             \/ call[Me].pc \in Carries /\ call'[Me].row = call[Me].row,
         \/ jobs' = jobs
         \/ \E j \in Job, row \in JobRow : /\ jobs' = [jobs EXCEPT ![j] = row]
                                           /\ row.status = "queued" => row.type = "source_agent"
  PROVE  QueuesSource'
  <1>1. ASSUME NEW k \in Job, jobs'[k].status = "queued"
        PROVE  jobs'[k].type = "source_agent"
    BY <1>1, LoopFacts DEF QueuesSource
  <1>2. call'[Me].pc \in Carries /\ call'[Me].row.status = "queued" => call'[Me].row.type = "source_agent"
    BY DEF QueuesSource
  <1> QED
    BY <1>1, <1>2 DEF QueuesSource

LEMMA PlainQueue ==
  ASSUME LInv, QueuesSource, call'[Me].pc \notin Carries, jobs' = jobs
  PROVE  QueuesSource'
  BY QueueStep

LEMMA JobStepQueues ==
  ASSUME LInv, QueuesSource, ~Quiescent, JobStep(Me)
  PROVE  QueuesSource'
  <1> USE DEF Carries, HoldsRow
  <1>p. PICK s \in CallState :
            /\ s = call[Me] /\ CallStaged(s) /\ SessionCurrent(s) /\ JobCurrent(s) /\ CallOK(s)
            /\ s.row \in JobRow /\ s.row.wave \in Nat
            /\ s.pc \in HoldsRow => s.job \in Job /\ (Row(s.job) => s.row.wave = jobs[s.job].wave)
    BY HeldFacts
  <1>m. Me \in Client /\ RowsCurrent /\ call \in [Client -> CallState]
    BY TheCaller, LoopFacts
  <1>q. s.pc \in Carries /\ s.row.status = "queued" => s.row.type = "source_agent"
    BY <1>p DEF QueuesSource
  <1>r. \A t : Hold(Me, t) => call'[Me] = t
    BY <1>m DEF Hold
  <1>1. CASE RetryJobSession(Me)
    <2>1. call'[Me] = [s EXCEPT !.pc = "create_check", !.ses = session] /\ s.pc = "create_session" /\ jobs' = jobs
      BY <1>p, <1>1, <1>r DEF RetryJobSession, At, StoreUnchanged, store
    <2>2. call'[Me].row = s.row
      BY <2>1 DEF CallState
    <2> QED
      BY <1>p, <2>1, <2>2, QueueStep
  <1>2. CASE CreateJobCheck(Me)
    <2>1. s.pc = "create_check" /\ jobs' = jobs
      BY <1>p, <1>2 DEF CreateJobCheck, At, StoreUnchanged, store
    <2>2. CASE Return(Me)
      <3>1. call'[Me].pc = "idle"
        BY <1>r, <2>2 DEF Return, Idle
      <3> QED
        BY <2>1, <3>1, PlainQueue
    <2>3. CASE Hold(Me, [s EXCEPT !.pc = "create_save_session", !.job = NewJob])
      <3>1. call'[Me].row = s.row
        BY <1>r, <2>3 DEF CallState
      <3> QED
        BY <1>p, <2>1, <3>1, QueueStep
    <2> QED
      BY <1>2, <1>p, <2>2, <2>3 DEF CreateJobCheck
  <1>3. CASE CreateJobSaveSession(Me)
    <2>1. call'[Me] = [s EXCEPT !.pc = "create_save_job"] /\ s.pc = "create_save_session" /\ jobs' = jobs
      BY <1>p, <1>3, <1>m DEF CreateJobSaveSession, At, Goto, SaveSession
    <2>2. call'[Me].row = s.row
      BY <2>1 DEF CallState
    <2> QED
      BY <1>p, <2>1, <2>2, QueueStep
  <1>4. CASE CreateJobSaveJob(Me)
    <2>1. s.pc = "create_save_job" /\ jobs' = [jobs EXCEPT ![s.job] = s.row]
      BY <1>p, <1>4 DEF CreateJobSaveJob, At, SaveJob
    <2>2. call'[Me].pc = "idle" \/ call'[Me].row.status = "running"
      <3>1. CASE Return(Me)
        BY <1>r, <3>1 DEF Return, Idle
      <3>2. CASE Hold(Me, [s EXCEPT !.pc = "save_job", !.row.status = "running"])
        <4> DEFINE u == [s EXCEPT !.pc = "save_job", !.row.status = "running"]
        <4>1. u.row = [s.row EXCEPT !.status = "running"]
          BY DEF CallState
        <4>2. u.row.status = "running"
          BY <1>p, <4>1 DEF JobRow
        <4>3. call'[Me] = u
          BY <1>r, <3>2
        <4> HIDE DEF u
        <4> QED
          BY <4>2, <4>3
      <3> QED
        BY <1>p, <1>4, <3>1, <3>2 DEF CreateJobSaveJob
    <2> QED
      BY <1>p, <1>q, <2>1, <2>2, QueueStep
  <1>5. CASE SaveJobRow(Me)
    <2>1. s.pc = "save_job" /\ jobs' = [jobs EXCEPT ![s.job] = s.row] /\ call'[Me].pc = "idle"
      BY <1>p, <1>5, <1>r DEF SaveJobRow, At, SaveJob, Return, Idle
    <2> QED
      BY <1>p, <1>q, <2>1, QueueStep
  <1>6. CASE SaveSessionRow(Me) \/ AdvanceSave(Me)
    <2>1. jobs' = jobs /\ call'[Me].pc = "idle"
      BY <1>6, <1>r DEF SaveSessionRow, AdvanceSave, SaveSession, Return, Idle
    <2> QED
      BY <2>1, PlainQueue
  <1>7. CASE CompleteJobStart(Me)
    <2>1. s.pc = "complete_start" /\ call'[Me] = [s EXCEPT !.pc = "complete_save"]
          /\ jobs' = [jobs EXCEPT ![s.job] = [s.row EXCEPT !.result = "none"]]
      BY <1>p, <1>7, <1>m DEF CompleteJobStart, At, SaveJob, Goto
    <2>2. call'[Me].row = s.row
      BY <2>1 DEF CallState
    <2> DEFINE row == [s.row EXCEPT !.result = "none"]
    <2>3. row \in JobRow /\ row.status = s.row.status /\ row.type = s.row.type
      BY <1>p DEF JobRow
    <2>4. jobs' = [jobs EXCEPT ![s.job] = row]
      BY <2>1
    <2> HIDE DEF row
    <2>5. s.job \in Job /\ s.pc \in Carries
      BY <1>p, <2>1
    <2>6. row.status = "queued" => row.type = "source_agent"
      BY <1>q, <2>3, <2>5
    <2> QED
      BY <1>p, <2>2, <2>3, <2>4, <2>5, <2>6, QueueStep
  <1>8. CASE CompleteJobSave(Me)
    <2>1. s.pc = "complete_save" /\ jobs' = [jobs EXCEPT ![s.job] = Status(s.row, "completed")]
      BY <1>p, <1>8 DEF CompleteJobSave, At, SaveJob
    <2>2. call'[Me].pc = "advance_read"
      BY <1>8, <1>m, JobFlow DEF WritesJob
    <2> DEFINE row == Status(s.row, "completed")
    <2>3. row \in JobRow /\ row.status = "completed"
      BY <1>p DEF JobRow, Status, JobStatus
    <2>4. jobs' = [jobs EXCEPT ![s.job] = row]
      BY <2>1
    <2> HIDE DEF row
    <2> QED
      BY <1>p, <2>1, <2>2, <2>3, <2>4, QueueStep
  <1>9. CASE AdvanceRead(Me)
    <2>1. jobs' = jobs /\ call'[Me].pc \in {"advance_save", "idle"}
      BY <1>9, <1>m, JobFlow DEF Reads, StoreUnchanged, store
    <2> QED
      BY <2>1, PlainQueue
  <1>10. ~StartJobRead(Me) /\ ~RetryJobRead(Me) /\ ~RunResearch(Me) /\ ~CompleteJobRead(Me)
         /\ ~CloseJobRead(Me) /\ ~TouchJobRead(Me) /\ ~CancelResearchRead(Me)
    BY DEF StartJobRead, RetryJobRead, RunResearch, CompleteJobRead, CloseJobRead, TouchJobRead, CancelResearchRead,
           Begin, Quiescent
  <1> QED
    BY <1>1, <1>2, <1>3, <1>4, <1>5, <1>6, <1>7, <1>8, <1>9, <1>10 DEF JobStep

\* Nothing of the evidence, the freezes or the decision is a job that waits.
LEMMA EvidenceStepQueues ==
  ASSUME LInv, QueuesSource, ~Quiescent, EvidenceStep(Me)
  PROVE  QueuesSource'
  <1> USE DEF Carries, HoldsRow
  <1>p. PICK s \in CallState :
            /\ s = call[Me] /\ CallStaged(s) /\ SessionCurrent(s) /\ JobCurrent(s) /\ CallOK(s)
            /\ s.row \in JobRow /\ s.row.wave \in Nat
            /\ s.pc \in HoldsRow => s.job \in Job /\ (Row(s.job) => s.row.wave = jobs[s.job].wave)
    BY HeldFacts
  <1>m. Me \in Client /\ RowsCurrent /\ call \in [Client -> CallState]
    BY TheCaller, LoopFacts
  <1>r. Return(Me) => call'[Me].pc = "idle"
    BY <1>m DEF Return, Hold, Idle
  <1>g. \A l : Goto(Me, l) => call'[Me].row = s.row
    BY <1>p, <1>m DEF Goto, CallState
  <1>j. jobs' = jobs
    BY <1>m, EvidenceFlow
       DEF EvidenceStep, Reads, WritesSession, StoreUnchanged, store, RecordEvidenceSave, SubmitDossier, FreezeSave
  <1>1. CASE RecordEvidenceGate(Me) \/ RecordEvidenceSave(Me)
    <2>1. call'[Me].pc \in {"evidence_save", "idle"}
      BY <1>1, <1>m, <1>r, EvidenceFlow DEF Reads, RecordEvidenceSave
    <2> QED
      BY <1>j, <2>1, PlainQueue
  <1>2. CASE SubmitSession(Me) \/ SubmitDossier(Me) \/ SubmitLinkSave(Me)
    <2>1. CASE Return(Me)
      BY <1>j, <1>r, <2>1, PlainQueue
    <2>2. CASE ~Return(Me)
      <3>1. call'[Me].row = s.row /\ s.pc \in {"submit_session", "submit_dossier", "submit_link"}
        BY <1>2, <1>g, <1>p, <2>2 DEF SubmitSession, SubmitDossier, SubmitLinkSave, At
      <3> QED
        BY <1>p, <1>j, <3>1, QueueStep
    <2> QED
      BY <2>1, <2>2
  <1>3. CASE SubmitLinkRead(Me)
    <2> DEFINE t == [s EXCEPT !.pc = "submit_link", !.ses = [session EXCEPT !.dossiers = @ \union {s.row.wave}]]
    <2>1. t.row = s.row
      BY DEF CallState
    <2>2. Hold(Me, t) => call'[Me].row = s.row
      <3> HIDE DEF t
      <3> QED
        BY <1>m, <2>1 DEF Hold
    <2>3. s.pc = "submit_read" /\ call'[Me].row = s.row
      BY <1>3, <1>p, <1>g, <2>2 DEF SubmitLinkRead, At
    <2> QED
      BY <1>p, <1>j, <2>3, QueueStep
  <1>4. CASE FreezePlan(Me) \/ FreezeResearch(Me) \/ FreezeList(Me) \/ FreezeOpenJobs(Me) \/ FreezeSave(Me) \/ FreezeTrack(Me)
    <2>1. call'[Me].pc \in {"freeze_researching", "freeze_list", "freeze_open", "freeze_save", "freeze_track",
                            "save_session", "idle"}
      <3>1. FreezeSave(Me) => call'[Me].pc = "freeze_track"
        BY <1>p, <1>m DEF FreezeSave, Goto, CallState
      <3> QED
        BY <1>4, <1>m, <3>1, EvidenceFlow DEF Reads, WritesSession
    <2> QED
      BY <1>j, <2>1, PlainQueue
  <1>5. ~RecordEvidenceRead(Me) /\ ~SubmitRead(Me) /\ ~FreezeRead(Me)
    BY DEF RecordEvidenceRead, SubmitRead, FreezeRead, Begin, Quiescent
  <1> QED
    BY <1>1, <1>2, <1>3, <1>4, <1>5 DEF EvidenceStep

\* A committee job is saved running, failed or completed.
LEMMA CommitteeStepQueues ==
  ASSUME LInv, QueuesSource, ~Quiescent, CommitteeStep(Me)
  PROVE  QueuesSource'
  <1> USE DEF Carries, HoldsRow
  <1>p. PICK s \in CallState :
            /\ s = call[Me] /\ CallStaged(s) /\ SessionCurrent(s) /\ JobCurrent(s) /\ CallOK(s)
            /\ s.row \in JobRow /\ s.row.wave \in Nat
            /\ s.pc \in HoldsRow => s.job \in Job /\ (Row(s.job) => s.row.wave = jobs[s.job].wave)
    BY HeldFacts
  <1>m. Me \in Client /\ RowsCurrent /\ call \in [Client -> CallState] /\ jobs \in [Job -> JobRow]
    BY TheCaller, LoopFacts
  <1>q. s.pc \in Carries /\ s.row.status = "queued" => s.row.type = "source_agent"
    BY <1>p DEF QueuesSource
  <1>h. \A t : Hold(Me, t) => call'[Me] = t
    BY <1>m DEF Hold
  <1>r. Return(Me) => call'[Me].pc = "idle"
    BY <1>m DEF Return, Hold, Idle
  <1>1. CASE CommitteeSession(Me) \/ RecordAnalysisTrack(Me)
    <2>1. jobs' = jobs /\ call'[Me].pc \in {"committee_check", "idle"}
      BY <1>1, <1>m, CommitteeFlow DEF Reads, WritesSession, StoreUnchanged, store
    <2> QED
      BY <2>1, PlainQueue
  <1>2. CASE CommitteeCheck(Me)
    <2>1. jobs' = jobs
      BY <1>2 DEF CommitteeCheck, StoreUnchanged, store
    <2>2. PICK role, row : role = NextRole(s.todo)
                           /\ row = [NoRow EXCEPT !.type = role, !.wave = s.wave, !.status = "running"]
      OBVIOUS
    <2> DEFINE t == [s EXCEPT !.pc = "committee_save_session", !.job = NewJob, !.todo = @ \ {role}, !.row = row]
    <2>3. t.row.status = "running"
      BY <2>2 DEF CallState, NoRow
    <2>4. Hold(Me, t) => call'[Me].row.status = "running"
      <3> HIDE DEF t
      <3> QED
        BY <1>h, <2>3
    <2>5. Goto(Me, "committee_rollback") => call'[Me].pc = "committee_rollback"
      BY <1>p, <1>m DEF Goto, CallState
    <2>6. Return(Me) \/ Goto(Me, "committee_rollback") \/ Hold(Me, t)
      BY <1>2, <1>p, <2>2 DEF CommitteeCheck
    <2>7. call'[Me].pc \in {"idle", "committee_rollback"} \/ call'[Me].row.status = "running"
      BY <1>r, <2>4, <2>5, <2>6
    <2> QED
      BY <2>1, <2>7, QueueStep
  <1>3. CASE CommitteeSaveSession(Me)
    <2>1. call'[Me].row = s.row /\ s.pc = "committee_save_session" /\ jobs' = jobs
      BY <1>p, <1>3, <1>m DEF CommitteeSaveSession, At, Goto, SaveSession, CallState
    <2> QED
      BY <1>p, <2>1, QueueStep
  <1>4. CASE CommitteeSaveJob(Me) \/ CommitteeFail(Me) \/ RecordAnalysisSave(Me)
    <2>1. call'[Me].pc \in {"committee_check", "committee_rollback", "analysis_track"}
      BY <1>4, <1>m, CommitteeFlow DEF WritesJob
    <2>2. s.pc \in HoldsRow /\ jobs' = [jobs EXCEPT ![s.job] = s.row]
      BY <1>4, <1>p DEF CommitteeSaveJob, CommitteeFail, RecordAnalysisSave, SaveJob, At
    <2> QED
      BY <1>p, <1>q, <2>1, <2>2, QueueStep
  <1>5. CASE CommitteeRollback(Me)
    <2>1. jobs' = jobs
      BY <1>5 DEF CommitteeRollback, StoreUnchanged, store
    <2>2. ASSUME NEW j \in Job, Hold(Me, [s EXCEPT !.pc = "committee_fail", !.job = j, !.mine = @ \ {j},
                                                   !.row = Status(jobs[j], "failed")])
          PROVE  call'[Me].row.status = "failed"
      <3>1. PICK row : row = Status(jobs[j], "failed")
        OBVIOUS
      <3>2. row.status = "failed"
        BY <1>m, <3>1 DEF Status, JobRow
      <3> DEFINE t == [s EXCEPT !.pc = "committee_fail", !.job = j, !.mine = @ \ {j}, !.row = row]
      <3>3. t.row = row
        BY DEF CallState
      <3>4. Hold(Me, t)
        BY <2>2, <3>1
      <3> HIDE DEF t
      <3> QED
        BY <1>h, <3>2, <3>3, <3>4
    <2>3. ASSUME NEW j \in Job, Hold(Me, [s EXCEPT !.mine = @ \ {j}]), s.pc = "committee_rollback"
          PROVE  call'[Me].pc = "committee_rollback"
      BY <1>h, <2>3 DEF CallState
    <2>4. call'[Me].pc \in {"idle", "committee_rollback"} \/ call'[Me].row.status = "failed"
      <3>1. CASE Return(Me)
        BY <1>r, <3>1
      <3>2. CASE ~Return(Me)
        <4>1. PICK j \in Job : \/ Hold(Me, [s EXCEPT !.pc = "committee_fail", !.job = j, !.mine = @ \ {j},
                                                     !.row = Status(jobs[j], "failed")])
                               \/ Hold(Me, [s EXCEPT !.mine = @ \ {j}])
          BY <1>5, <1>p, <3>2 DEF CommitteeRollback, CallState
        <4>2. s.pc = "committee_rollback"
          BY <1>5, <1>p DEF CommitteeRollback, At
        <4> QED
          BY <2>2, <2>3, <4>1, <4>2
      <3> QED
        BY <3>1, <3>2
    <2> QED
      BY <2>1, <2>4, QueueStep
  <1>6. CASE RecordAnalysisGate(Me)
    <2>1. jobs' = jobs /\ s.pc = "analysis_job"
      BY <1>6, <1>p DEF RecordAnalysisGate, At, StoreUnchanged, store
    <2>2. PICK row, old : /\ old = jobs[s.job]
                          /\ row = [old EXCEPT !.status = "completed", !.result = "analysis"]
      OBVIOUS
    <2>3. row.status = "completed"
      BY <1>p, <1>m, <2>1, <2>2 DEF CallOK, HoldsJob, JobRow
    <2> DEFINE t == [s EXCEPT !.pc = "analysis_save", !.wave = old.wave, !.row = row]
    <2>4. t.row = row
      BY DEF CallState
    <2>5. Return(Me) \/ Hold(Me, t)
      BY <1>6, <1>p, <2>2 DEF RecordAnalysisGate
    <2> HIDE DEF t
    <2>6. call'[Me].pc = "idle" \/ call'[Me].row.status = "completed"
      BY <1>h, <1>r, <2>3, <2>4, <2>5
    <2> QED
      BY <2>1, <2>6, QueueStep
  <1>7. ~CommitteeRoles(Me) /\ ~RecordAnalysisRead(Me)
    BY DEF CommitteeRoles, RecordAnalysisRead, Begin, Quiescent
  <1> QED
    BY <1>1, <1>2, <1>3, <1>4, <1>5, <1>6, <1>7 DEF CommitteeStep

LEMMA DirectorStepQueues ==
  ASSUME LInv, QueuesSource, ~Quiescent, DirectorStep(Me)
  PROVE  QueuesSource'
  <1>m. Me \in Client /\ RowsCurrent
    BY TheCaller, LoopFacts
  <1>1. ~DecideRead(Me) /\ ~FinalizeRead(Me)
    BY DEF DecideRead, FinalizeRead, Begin, Quiescent
  <1>2. jobs' = jobs
    BY <1>m, <1>1, DirectorFlow DEF DirectorStep, Reads, WritesSession, StoreUnchanged, store
  <1>3. call'[Me].pc \in {"decide_settle", "save_session", "idle", "final_open", "final_walk", "final_synth",
                          "final_result", "final_save"}
    BY <1>m, <1>1, DirectorFlow DEF DirectorStep, Reads, WritesSession
  <1> QED
    BY <1>2, <1>3, PlainQueue DEF Carries, HoldsRow

\* So does whatever the Director or a child begins, or gives up.
LEMMA BeginQueues ==
  ASSUME LInv, QueuesSource,
         \/ StartJobRead(Me) \/ CloseJobRead(Me) \/ CancelResearchRead(Me) \/ RecordEvidenceRead(Me) \/ SubmitRead(Me)
         \/ FreezeRead(Me) \/ CommitteeRoles(Me) \/ RecordAnalysisRead(Me) \/ DecideRead(Me) \/ FinalizeRead(Me)
  PROVE  QueuesSource'
  <1> USE DEF Carries, HoldsRow
  <1>m. Me \in Client /\ RowsCurrent /\ call \in [Client -> CallState] /\ jobs \in [Job -> JobRow]
    BY TheCaller, LoopFacts
  <1>h. \A t : Hold(Me, t) => call'[Me] = t
    BY <1>m DEF Hold
  <1>j. jobs' = jobs
    BY DEF StartJobRead, CloseJobRead, CancelResearchRead, RecordEvidenceRead, SubmitRead, FreezeRead, CommitteeRoles,
           RecordAnalysisRead, DecideRead, FinalizeRead, StoreUnchanged, store
  <1>1. CASE StartJobRead(Me)
    <2>1. PICK w \in Wave : Hold(Me, [Idle EXCEPT !.pc = "create_check", !.wave = w, !.ses = session, !.yes = TRUE,
                                                  !.row = [NoRow EXCEPT !.wave = w, !.status = "queued"]])
      BY <1>1 DEF StartJobRead
    <2>2. PICK row : row = [NoRow EXCEPT !.wave = w, !.status = "queued"]
      OBVIOUS
    <2>3. row.type = "source_agent"
      BY <2>2 DEF NoRow
    <2>4. call'[Me].row = row
      BY <1>h, <2>1, <2>2 DEF Idle
    <2> QED
      BY <1>j, <2>3, <2>4, QueueStep
  <1>2. CASE CloseJobRead(Me)
    <2>1. PICK j \in Job, new \in {"failed", "cancelled"} :
              Hold(Me, [Idle EXCEPT !.pc = "save_job", !.job = j, !.row = Status(jobs[j], new)])
      BY <1>2 DEF CloseJobRead, ActiveJobs
    <2>2. PICK row : row = Status(jobs[j], new)
      OBVIOUS
    <2>3. row.status = new
      BY <1>m, <2>2 DEF Status, JobRow
    <2>4. call'[Me].row = row
      BY <1>h, <2>1, <2>2 DEF Idle
    <2> QED
      BY <1>j, <2>3, <2>4, QueueStep
  <1>3. CASE SubmitRead(Me)
    <2>1. PICK j \in Job : /\ jobs[j].status = "running"
                           /\ Hold(Me, [Idle EXCEPT !.pc = "submit_session", !.job = j,
                                                    !.row = [jobs[j] EXCEPT !.result = "outcome"]])
      BY <1>3 DEF SubmitRead
    <2>2. PICK row : row = [jobs[j] EXCEPT !.result = "outcome"]
      OBVIOUS
    <2>3. row.status = "running"
      BY <1>m, <2>1, <2>2 DEF JobRow
    <2>4. call'[Me].row = row
      BY <1>h, <2>1, <2>2 DEF Idle
    <2> QED
      BY <1>j, <2>3, <2>4, QueueStep
  <1>4. CASE \/ CancelResearchRead(Me) \/ RecordEvidenceRead(Me) \/ FreezeRead(Me) \/ CommitteeRoles(Me)
             \/ RecordAnalysisRead(Me) \/ DecideRead(Me) \/ FinalizeRead(Me)
    <2>1. call'[Me].pc \in {"save_session", "evidence_job", "freeze_planning", "freeze_researching", "freeze_list",
                            "committee_session", "analysis_job", "decide_gate", "final_trio"}
      BY <1>4, <1>m, JobFlow, EvidenceFlow, CommitteeFlow, DirectorFlow DEF Reads
    <2> QED
      BY <1>j, <2>1, PlainQueue
  <1> QED
    BY <1>1, <1>2, <1>3, <1>4

LEMMA QuietQueues ==
  ASSUME LInv, QueuesSource, KernelQuiet \/ (Return(Me) /\ StoreUnchanged)
  PROVE  QueuesSource'
  <1>1. CASE KernelQuiet
    BY <1>1 DEF KernelQuiet, vars, QueuesSource
  <1>2. CASE Return(Me) /\ StoreUnchanged
    <2>1. call'[Me].pc = "idle" /\ jobs' = jobs
      BY <1>2, TheCaller, LoopFacts DEF Return, Hold, Idle, StoreUnchanged, store
    <2> QED
      BY <2>1, PlainQueue DEF Carries, HoldsRow
  <1> QED
    BY <1>1, <1>2

-----------------------------------------------------------------------------
(* The steps of the call the Director waits for *)

\* A session that is not heard is not heard by a step that files nothing.
LEMMA NotDoneStays ==
  ASSUME LInv, OneMove, session'.latest = session.latest, session'.runs = session.runs, ~Done(session)
  PROVE  ~Done(session)'
  <1> SUFFICES ASSUME Done(session)' PROVE FALSE
    OBVIOUS
  <1>1. /\ session.latest # 0 /\ session.latest \in Wave
        /\ session.runs[session.latest] \subseteq Job
    BY HeardIsDone, LoopFacts DEF Done, SessionRow
  <1>2. ASSUME NEW j \in session.runs[session.latest]
        PROVE  jobs'[j] = jobs[j]
    <2>1. j \in Job /\ jobs[j].status \in TerminalJob
      BY <1>1, LoopFacts DEF RowsCurrent, JobsDone, TerminalJob
    <2>2. CASE JobMove
      BY <2>1, <2>2, LoopFacts DEF JobMove
    <2>3. CASE SessionMove
      BY <2>3 DEF SessionMove
    <2> QED
      BY <2>2, <2>3 DEF OneMove
  <1>3. \A r \in Role : \E j \in session.runs[session.latest] : jobs'[j].type = r /\ jobs'[j].status = "completed"
    BY DEF Done
  <1> QED
    BY <1>1, <1>2, <1>3 DEF Done

\* The steps of a call, by where it is.
LEMMA StepsOfEvidence ==
  ASSUME EvidenceStep(Me), call[Me].pc # "idle"
  PROVE  /\ call[Me].pc \in Freezes \union {"evidence_job", "evidence_save", "submit_session", "submit_dossier",
                                            "submit_read", "submit_link"}
         /\ call[Me].pc \in Freezes => \/ FreezePlan(Me) \/ FreezeResearch(Me) \/ FreezeList(Me)
                                       \/ FreezeOpenJobs(Me) \/ FreezeSave(Me) \/ FreezeTrack(Me)
  BY DEF Freezes, At, Begin, EvidenceStep, RecordEvidenceRead, RecordEvidenceGate, RecordEvidenceSave,
         SubmitRead, SubmitSession, SubmitDossier, SubmitLinkRead, SubmitLinkSave, FreezeRead, FreezePlan,
         FreezeResearch, FreezeList, FreezeOpenJobs, FreezeSave, FreezeTrack

LEMMA StepsOfCommittee ==
  ASSUME CommitteeStep(Me), call[Me].pc # "idle"
  PROVE  /\ call[Me].pc \in InCommittee \union {"analysis_job", "analysis_save", "analysis_track"}
         /\ call[Me].pc \in InCommittee => \/ CommitteeSession(Me) \/ CommitteeCheck(Me) \/ CommitteeSaveSession(Me)
                                           \/ CommitteeSaveJob(Me) \/ CommitteeRollback(Me) \/ CommitteeFail(Me)
  BY DEF InCommittee, At, Begin, CommitteeStep, CommitteeRoles, CommitteeSession, CommitteeCheck,
         CommitteeSaveSession, CommitteeSaveJob, CommitteeRollback, CommitteeFail, RecordAnalysisRead,
         RecordAnalysisGate, RecordAnalysisSave, RecordAnalysisTrack

LEMMA StepsOfJobs ==
  ASSUME JobStep(Me), call[Me].pc # "idle"
  PROVE  /\ call[Me].pc \in Starts \union {"create_session", "save_session", "complete_start", "complete_save",
                                           "advance_read", "advance_save"}
         /\ call[Me].pc = "save_session" => SaveSessionRow(Me)
         /\ call[Me].pc \in Starts => \/ CreateJobCheck(Me) \/ CreateJobSaveSession(Me) \/ CreateJobSaveJob(Me)
                                      \/ SaveJobRow(Me)
  BY DEF Starts, At, Begin, JobStep, StartJobRead, RetryJobRead, RetryJobSession, CreateJobCheck,
         CreateJobSaveSession, CreateJobSaveJob, SaveJobRow, SaveSessionRow, RunResearch, CompleteJobRead,
         CompleteJobStart, CompleteJobSave, AdvanceRead, AdvanceSave, CloseJobRead, TouchJobRead, CancelResearchRead

LEMMA StepsOfDirector ==
  ASSUME DirectorStep(Me), call[Me].pc # "idle"
  PROVE  /\ call[Me].pc \in Decides \union {"final_trio", "final_open", "final_walk", "final_synth", "final_result",
                                            "final_save"}
         /\ call[Me].pc \in Decides => DecideGate(Me) \/ DecideSettle(Me)
  BY DEF Decides, At, Begin, DirectorStep, DecideRead, DecideGate, DecideSettle, FinalizeRead, FinalizeTrio,
         FinalizeOpenJobs, FinalizeWalk, FinalizeSynth, FinalizeResult, FinalizeSave

LEMMA StepsOfCall ==
  ASSUME KernelStep
  PROVE  /\ call[Me].pc = "save_session" => SaveSessionRow(Me)
         /\ call[Me].pc \in Starts => \/ CreateJobCheck(Me) \/ CreateJobSaveSession(Me) \/ CreateJobSaveJob(Me)
                                      \/ SaveJobRow(Me)
         /\ call[Me].pc \in Freezes => \/ FreezePlan(Me) \/ FreezeResearch(Me) \/ FreezeList(Me)
                                       \/ FreezeOpenJobs(Me) \/ FreezeSave(Me) \/ FreezeTrack(Me)
         /\ call[Me].pc \in InCommittee => \/ CommitteeSession(Me) \/ CommitteeCheck(Me) \/ CommitteeSaveSession(Me)
                                           \/ CommitteeSaveJob(Me) \/ CommitteeRollback(Me) \/ CommitteeFail(Me)
         /\ call[Me].pc \in Decides => DecideGate(Me) \/ DecideSettle(Me)
         /\ call[Me].pc # "idle"
  <1>1. call[Me].pc # "idle"
    BY DEF KernelStep, Quiescent, At
  <1> USE DEF Freezes, InCommittee, Starts, Decides
  <1>2. CASE JobStep(Me)
    BY <1>1, <1>2, StepsOfJobs
  <1>3. CASE EvidenceStep(Me)
    BY <1>1, <1>3, StepsOfEvidence
  <1>4. CASE CommitteeStep(Me)
    BY <1>1, <1>4, StepsOfCommittee
  <1>5. CASE DirectorStep(Me)
    BY <1>1, <1>5, StepsOfDirector
  <1> QED
    BY <1>2, <1>3, <1>4, <1>5 DEF KernelStep

\* The gate settles an analyzing session: it is saved researching its next wave, or waiting for its answer.
LEMMA DecidingSteps ==
  ASSUME LInv, KernelStep, call[Me].pc \in Decides \union {"save_session"}
  PROVE  jobs' = jobs /\ (IsDeciding(call[Me]) => IsDeciding(call[Me])')
  <1>p. PICK s \in CallState : s = call[Me] /\ s.pc \in Decides \union {"save_session"}
    BY LoopFacts
  <1>m. Me \in Client /\ RowsCurrent /\ session \in SessionRow /\ call \in [Client -> CallState]
    BY TheCaller, LoopFacts
  <1>h. \A t : Hold(Me, t) => call'[Me] = t
    BY <1>m DEF Hold
  <1>1. CASE DecideGate(Me)
    <2>1. call'[Me].pc = "decide_settle" /\ session' = session /\ jobs' = jobs /\ s.pc = "decide_gate"
      BY <1>1, <1>m, <1>p, DirectorFlow DEF Reads, StoreUnchanged, store, At
    <2> QED
      BY <1>p, <2>1 DEF IsDeciding, Decides
  <1>2. CASE DecideSettle(Me)
    <2>1. session' = session /\ jobs' = jobs /\ s.pc = "decide_settle"
      BY <1>2, <1>p DEF DecideSettle, StoreUnchanged, store, At
    <2>2. CASE session.status = "analyzing"
      <3>1. PICK ses : /\ ses \in {[session EXCEPT !.status = "targeted_research", !.wave = NextWave(session)],
                                   Status(session, "synthesizing")}
                       /\ Hold(Me, [Idle EXCEPT !.pc = "save_session", !.ses = ses])
        BY <1>2, <2>2 DEF DecideSettle
      <3>2. ses.status \in Settled
        BY <1>m, <3>1 DEF Status, SessionRow, Settled
      <3>3. call'[Me].pc = "save_session" /\ call'[Me].ses = ses
        BY <1>h, <3>1 DEF Idle
      <3> QED
        BY <2>1, <3>2, <3>3 DEF IsDeciding, Decides
    <2> QED
      BY <1>p, <2>1, <2>2 DEF IsDeciding, Decides
  <1>3. CASE SaveSessionRow(Me)
    <2>1. session' = s.ses /\ jobs' = jobs /\ s.pc = "save_session" /\ call'[Me].pc = "idle"
      BY <1>3, <1>p, <1>h DEF SaveSessionRow, SaveSession, Return, Idle, At
    <2> QED
      BY <1>p, <2>1 DEF IsDeciding, Decides
  <1> QED
    BY <1>1, <1>2, <1>3, StepsOfCall

\* Opening a source job, or the committee, saves the session as it is.
LEMMA OpeningSteps ==
  ASSUME LInv, KernelStep, call[Me].pc \in Starts \union InCommittee
  PROVE  /\ session' = session
         /\ call[Me].pc \in Starts => call'[Me].pc \in Starts \union {"idle"}
         /\ call[Me].pc \in InCommittee => call'[Me].pc \in InCommittee \union {"idle"}
  <1> USE DEF Starts, InCommittee
  <1>m. Me \in Client /\ RowsCurrent /\ SessionCurrent(call[Me])
    BY TheCaller, LoopFacts
  <1>1. CASE CreateJobCheck(Me) \/ CommitteeSession(Me) \/ CommitteeCheck(Me) \/ CommitteeRollback(Me)
    BY <1>1, <1>m, JobFlow, CommitteeFlow DEF Reads, StoreUnchanged, store, At
  <1>2. CASE CreateJobSaveSession(Me) \/ CommitteeSaveSession(Me)
    <2>1. session' = session
      BY <1>2, <1>m DEF CreateJobSaveSession, CommitteeSaveSession, SaveSession, At, SessionCurrent, ReadsSession
    <2> QED
      BY <1>2, <1>m, <2>1, JobFlow, CommitteeFlow DEF WritesSession, At
  <1>3. CASE CreateJobSaveJob(Me) \/ SaveJobRow(Me) \/ CommitteeSaveJob(Me) \/ CommitteeFail(Me)
    BY <1>3, <1>m, JobFlow, CommitteeFlow DEF WritesJob, At
  <1> QED
    BY <1>1, <1>2, <1>3, StepsOfCall

\* A freeze leaves the session before it, or freezing on the wave that was asked.
LEMMA FreezingSteps ==
  ASSUME LInv, KernelStep, IsFreezing(call[Me])
  PROVE  IsFreezing(call[Me])'
  <1>p. PICK s \in CallState : s = call[Me] /\ CallStaged(s) /\ SessionCurrent(s) /\ s.ses \in SessionRow
    BY LoopFacts DEF CallState
  <1>m. Me \in Client /\ RowsCurrent /\ session \in SessionRow /\ call \in [Client -> CallState] /\ loop' = loop
    BY TheCaller, LoopFacts DEF KernelStep
  <1>h. \A t : Hold(Me, t) => call'[Me] = t
    BY <1>m DEF Hold
  <1>1. CASE s.pc = "save_session"
    <2>1. session' = s.ses /\ call'[Me].pc = "idle"
      BY <1>1, <1>p, <1>h, StepsOfCall DEF SaveSessionRow, SaveSession, Return, Idle
    <2>2. Cancels(s.ses) \/ CatchesUp(s.ses) \/ Settles(s.ses) \/ Ends(s.ses)
      BY <1>p, <1>1 DEF SessionCurrent
    <2>3. s.ses.latest = session.latest
      BY <2>2, <1>m DEF Cancels, CatchesUp, Settles, Ends, Status, SessionRow
    <2> QED
      BY <1>1, <1>p, <1>m, <2>1, <2>3 DEF IsFreezing, Freezes
  <1>2. CASE s.pc \in Freezes
    <2>f. loop.wave = session.latest + 1 /\ s.wave = session.latest + 1
      BY <1>2, <1>p DEF IsFreezing, Freezes, CallStaged
    <2>1. CASE FreezePlan(Me) \/ FreezeResearch(Me)
      <3>1. call'[Me].pc \in Freezes
        BY <2>1, <1>m, EvidenceFlow DEF WritesSession, Freezes
      <3>2. session' = s.ses /\ s.ses \in {Status(session, "planning"), Status(session, "researching")}
        BY <2>1, <1>p DEF FreezePlan, FreezeResearch, SaveSession, At, SessionCurrent
      <3>3. session'.latest = session.latest
        BY <1>m, <3>2 DEF Status, SessionRow
      <3> QED
        BY <1>m, <2>f, <3>1, <3>3 DEF IsFreezing
    <2>2. CASE FreezeList(Me) \/ FreezeOpenJobs(Me) \/ FreezeSave(Me)
      <3>1. session' = session
        BY <2>2 DEF FreezeList, FreezeOpenJobs, FreezeSave, StoreUnchanged, store
      <3>2. FreezeSave(Me) => call'[Me].pc = "freeze_track"
        BY <1>p, <1>m DEF FreezeSave, Goto, CallState
      <3>3. call'[Me].pc \in Freezes \union {"idle"}
        BY <2>2, <1>m, <3>2, EvidenceFlow DEF Reads, Freezes
      <3> QED
        BY <1>m, <2>f, <3>1, <3>3 DEF IsFreezing
    <2>3. CASE FreezeTrack(Me)
      <3>1. s.pc = "freeze_track" /\ s.ses = session
        BY <2>3, <1>p DEF FreezeTrack, At, SessionCurrent, ReadsSession
      <3>2. PICK ses : ses = Tracked(session, s.wave)
        OBVIOUS
      <3>3. session' = ses
        BY <2>3, <1>p, <3>1, <3>2 DEF FreezeTrack, SaveSession
      <3>4. s.wave \notin session.frozen
        BY <2>f, LiveIsNext
      <3>5. ses.status = "freezing" /\ ses.latest = s.wave
        BY <1>m, <3>2, <3>4 DEF Tracked, SessionRow
      <3>6. CASE Return(Me)
        BY <1>m, <1>h, <2>f, <3>3, <3>5, <3>6 DEF Return, Idle, IsFreezing
      <3>7. CASE ~Return(Me)
        <4>1. PICK walked : walked = [ses EXCEPT !.wave = s.wave]
          OBVIOUS
        <4>2. walked.status = "freezing"
          BY <1>m, <3>2, <4>1 DEF Tracked, SessionRow
        <4> DEFINE t == [s EXCEPT !.pc = "save_session", !.ses = walked]
        <4>3. t.pc = "save_session" /\ t.ses = walked
          BY DEF CallState
        <4>4. Hold(Me, t)
          BY <2>3, <1>p, <3>1, <3>2, <3>7, <4>1 DEF FreezeTrack
        <4> HIDE DEF t
        <4>5. call'[Me] = t
          BY <1>h, <4>4
        <4> QED
          BY <1>m, <2>f, <3>3, <3>5, <4>2, <4>3, <4>5 DEF IsFreezing
      <3> QED
        BY <3>6, <3>7
    <2> QED
      BY <1>2, <1>p, <2>1, <2>2, <2>3, StepsOfCall
  <1> QED
    BY <1>1, <1>2, <1>p, StepsOfCall DEF IsFreezing

LEMMA KernelKeepsWaits ==
  ASSUME LInv, OneMove, Waits, KernelStep
  PROVE  Waits'
  <1>1. loop' = loop /\ ~Quiescent /\ call[Me].pc # "idle"
    BY DEF KernelStep, Quiescent, At
  <1>2. loop.at # "turn"
    BY <1>1 DEF Waits
  <1>3. loop.at = "deciding" => /\ loop.stage = "FINAL" /\ (SourceJobs(loop.wave) = {})'
                                /\ ~loop.lost => IsDeciding(call[Me])'
    <2> SUFFICES ASSUME loop.at = "deciding"
                 PROVE  loop.stage = "FINAL" /\ (SourceJobs(loop.wave) = {})' /\ (~loop.lost => IsDeciding(call[Me])')
      OBVIOUS
    <2>1. call[Me].pc \in Decides \union {"save_session"}
      BY <1>1, LoopFacts DEF LoopStaged
    <2>2. jobs' = jobs /\ (IsDeciding(call[Me]) => IsDeciding(call[Me])')
      BY <2>1, DecidingSteps
    <2> QED
      BY <1>1, <2>2 DEF Waits, SourceJobs, Row
  <1>4. loop.at = "starting" => IsStarting(call[Me])'
    <2> SUFFICES ASSUME loop.at = "starting" PROVE IsStarting(call[Me])'
      OBVIOUS
    <2>1. call[Me].pc \in Starts /\ session.status = "targeted_research" /\ loop.wave = session.latest + 1
      BY <1>1 DEF Waits, IsStarting
    <2> QED
      BY <1>1, <2>1, OpeningSteps DEF IsStarting
  <1>5. loop.at = "freezing" => IsFreezing(call[Me])'
    BY FreezingSteps DEF Waits
  <1>6. loop.at = "seeding" => IsSeeding(call[Me])'
    <2> SUFFICES ASSUME loop.at = "seeding" PROVE IsSeeding(call[Me])'
      OBVIOUS
    <2>1. call[Me].pc \in InCommittee /\ session.status \in {"freezing", "analyzing"} /\ ~Done(session)
      BY <1>1 DEF Waits, IsSeeding
    <2>2. session' = session /\ call'[Me].pc \in InCommittee \union {"idle"}
      BY <2>1, OpeningSteps
    <2>3. ~Done(session)'
      BY <2>1, <2>2, NotDoneStays
    <2> QED
      BY <2>1, <2>2, <2>3 DEF IsSeeding
  <1> QED
    BY <1>1, <1>2, <1>3, <1>4, <1>5, <1>6 DEF Waits

-----------------------------------------------------------------------------
(* What the Director awaits, and what its prompts ask *)

\* A prompt the model can do what it asks, with the stage its session is given.
Servable(p, j, st) ==
    /\ p \in {"fetch", "wave"} => /\ st = "SOURCE" /\ KernelStage = "SOURCE"
                                  /\ Open(j) /\ jobs[j].wave = ActiveWave
    /\ p = "trio" => /\ KernelStage = "COMMITTEE"
                     /\ Eligible # {} \/ MissingRoles(session.latest) # {} \/ Spent
    /\ p = "finalize" => st = "FINAL" /\ KernelStage = "FINAL" /\ session.status = "synthesizing"

\* A committee that is not heard has a role to run, a role to start, or one that is spent.
LEMMA TrioServes ==
  ASSUME LInv, QueuesSource, ~Done(session), session.latest # 0
  PROVE  Eligible # {} \/ MissingRoles(session.latest) # {} \/ Spent
  <1>1. PICK r \in Role : \A j \in session.runs[session.latest] : ~(jobs[j].type = r /\ jobs[j].status = "completed")
    BY DEF Done
  <1> SUFFICES ASSUME MissingRoles(session.latest) = {}, ~Spent
               PROVE  Eligible # {}
    OBVIOUS
  <1>2. PICK j \in Job : Row(j) /\ jobs[j].type = r /\ jobs[j].wave = session.latest
    BY DEF MissingRoles
  <1>3. Open(j)
    BY <1>1, <1>2 DEF Spent
  <1>4. jobs[j].status = "running"
    BY <1>2, <1>3 DEF Open, OpenJob, QueuesSource, Role
  <1>5. j \notin session.runs[session.latest]
    BY <1>4, HeardIsDone, LoopFacts DEF RowsCurrent, JobsDone
  <1> QED
    BY <1>2, <1>4, <1>5 DEF Eligible

\* What is derived from rows that stay as they are stays as it is.
LEMMA SameStages ==
  ASSUME session' = session, jobs' = jobs
  PROVE  /\ KernelStage' = KernelStage /\ ActiveWave' = ActiveWave /\ Eligible' = Eligible
         /\ (Spent' <=> Spent) /\ (Done(session)' <=> Done(session))
         /\ MissingRoles(session.latest)' = MissingRoles(session.latest)
  <1>1. TrioDone' <=> TrioDone
    BY DEF TrioDone
  <1>2. KernelStage' = KernelStage
    BY <1>1 DEF KernelStage
  <1>3. ActiveWave' = ActiveWave
    BY DEF ActiveWave, LiveWave
  <1>4. Eligible' = Eligible
    BY DEF Eligible
  <1>5. Spent' <=> Spent
    BY DEF Spent, Row, Open
  <1>6. Done(session)' <=> Done(session)
    BY DEF Done
  <1>7. MissingRoles(session.latest)' = MissingRoles(session.latest)
    BY DEF MissingRoles, Row
  <1> QED
    BY <1>2, <1>3, <1>4, <1>5, <1>6, <1>7

\* A turn that starts on the rows as they are.
LEMMA TurnServes ==
  ASSUME LInv, Quiescent, KernelQuiet, noted' = noted, NEW p, NEW j, Turn(p, j),
         ~(p = "fetch" /\ noted = {} /\ session.frozen # {}) => Servable(p, j, Seen)
  PROVE  Waits' /\ PromptServable'
  <1>1. loop'.at = "turn" /\ loop'.prompt = p /\ loop'.job = j /\ loop'.stage = Seen
    BY LoopFacts DEF Turn, LoopState
  <1>2. session' = session /\ jobs' = jobs /\ call' = call
    BY DEF KernelQuiet, vars
  <1>3. Waits'
    BY <1>1, <1>2 DEF Waits, Quiescent, At
  <1>4. PICK st : st = Seen
    OBVIOUS
  <1>5. ~(p = "fetch" /\ noted = {} /\ session.frozen # {}) => Servable(p, j, st)
    BY <1>4
  <1>6. PromptServable'
    BY <1>1, <1>2, <1>4, <1>5, SameStages DEF PromptServable, RepeatedFetch, Servable, Open
  <1> QED
    BY <1>3, <1>6

LEMMA TextServes ==
  ASSUME LInv, Quiescent, KernelQuiet, noted' = noted, Turn("text", 0)
  PROVE  Waits' /\ PromptServable'
  BY TurnServes DEF Servable

\* Elsewhere nothing is awaited and nothing is asked.
LEMMA ElsewhereServes ==
  ASSUME loop'.at \notin {"turn", "deciding", "starting", "freezing", "seeding"}
  PROVE  Waits' /\ PromptServable'
  BY DEF Waits, PromptServable

LEMMA FreezeServes ==
  ASSUME LInv, Quiescent, noted' = noted, NEW w, w \in Wave => w = session.latest + 1, Freeze(w)
  PROVE  Waits' /\ PromptServable'
  <1>1. CASE FreezeRead(Me) /\ w \in Wave /\ Await("freezing", w)
    <2>1. loop'.at = "freezing" /\ loop'.wave = w
      BY <1>1, LoopFacts DEF Await, LoopState
    <2>2. call'[Me].pc \in Freezes /\ session' = session
      BY <1>1, TheCaller, LoopFacts, EvidenceFlow DEF Reads, StoreUnchanged, store, Freezes
    <2>3. IsFreezing(call[Me])'
      BY <1>1, <2>1, <2>2 DEF IsFreezing
    <2> QED
      BY <2>1, <2>3 DEF Waits, PromptServable
  <1> QED
    BY <1>1, TextServes DEF Freeze

LEMMA SeedServes ==
  ASSUME LInv, NEW w, session.status \in {"freezing", "analyzing"}, ~Done(session), Seed(w)
  PROVE  Waits' /\ PromptServable'
  <1>1. loop'.at = "seeding"
    BY LoopFacts DEF Seed, Await, LoopState
  <1>2. call'[Me].pc = "committee_session" /\ session' = session /\ jobs' = jobs
    BY TheCaller, LoopFacts, CommitteeFlow DEF Seed, Reads, StoreUnchanged, store
  <1>3. IsSeeding(call[Me])'
    BY <1>2, SameStages DEF IsSeeding, InCommittee
  <1> QED
    BY <1>1, <1>3 DEF Waits, PromptServable

\* Where the wave after the latest freeze is researched, both stage gates say SOURCE.
LEMMA TargetedStage ==
  ASSUME LInv, session.status = "targeted_research"
  PROVE  MirrorStage = "SOURCE" /\ KernelStage = "SOURCE" /\ ActiveWave = session.latest + 1
  <1>1. Live
    BY DEF Live, TerminalSession
  <1>2. KernelStage = "SOURCE"
    BY DEF KernelStage
  <1> QED
    BY <1>1, <1>2, StagedAgree, LiveActive

LEMMA WaveServes ==
  ASSUME LInv, Quiescent, noted' = noted, session.status = "targeted_research", Inspected,
         NEW j \in Job, jobs[j].wave = session.latest + 1, Open(j), Turn("wave", j), KernelQuiet
  PROVE  Waits' /\ PromptServable'
  <1>1. Seen = "SOURCE"
    BY TargetedStage DEF Seen
  <1>2. Servable("wave", j, Seen)
    BY <1>1, TargetedStage DEF Servable
  <1> QED
    BY <1>2, TurnServes

LEMMA DriveServes ==
  ASSUME LInv, Quiescent, noted' = noted, session.status = "targeted_research", NEW w, w = session.latest + 1,
         Inspected \/ SourceJobs(w) = {}, Drive(w)
  PROVE  Waits' /\ PromptServable'
  <1>1. CASE StartJobRead(Me) /\ Await("starting", w)
    <2>1. loop'.at = "starting" /\ loop'.wave = w
      BY <1>1, LoopFacts DEF Await, LoopState
    <2>2. call'[Me].pc = "create_check" /\ session' = session
      BY <1>1, TheCaller, LoopFacts, JobFlow DEF Reads, StoreUnchanged, store
    <2>3. IsStarting(call[Me])'
      BY <2>1, <2>2 DEF IsStarting, Starts
    <2> QED
      BY <2>1, <2>3 DEF Waits, PromptServable
  <1>2. CASE SourceOpen(w) /\ Turn("wave", First(SourceJobs(w))) /\ KernelQuiet
    <2>1. SourceJobs(w) # {} /\ SourceJobs(w) \in SUBSET Job
      BY <1>2 DEF SourceOpen, SourceJobs
    <2>2. PICK j \in Job : j = First(SourceJobs(w)) /\ j \in SourceJobs(w)
      BY <2>1, FirstIsLeast
    <2>3. jobs[j].wave = w /\ Open(j)
      BY <1>2, <2>2 DEF SourceOpen, SourceJobs
    <2> QED
      BY <1>2, <2>1, <2>2, <2>3, WaveServes
  <1>3. CASE Freeze(w)
    BY <1>3, FreezeServes
  <1> QED
    BY <1>1, <1>2, <1>3 DEF Drive

-----------------------------------------------------------------------------
(* What a prompt rests on stays there *)

\* Before the first freeze the wave to fetch for is the first.
LEMMA FetchServes ==
  ASSUME LInv, Quiescent, noted' = noted, FirstJob, Live, session.frozen = {}, Inspected, Open(1),
         Turn("fetch", 1), KernelQuiet
  PROVE  Waits' /\ PromptServable'
  <1>1. session.latest = 0
    BY LiveIsNext
  <1>2. session.status \in Early
    BY <1>1, LoopFacts DEF SessionStaged, Live, Early, SessionStatus, TerminalSession
  <1>3. KernelStage = "SOURCE"
    BY <1>2 DEF KernelStage, Early
  <1>4. Seen = "SOURCE" /\ ActiveWave = 1
    BY <1>1, <1>3, StagedAgree, LiveActive DEF Seen
  <1>5. Servable("fetch", 1, Seen)
    BY <1>3, <1>4 DEF Servable, FirstJob
  <1> QED
    BY <1>5, TurnServes

LEMMA AdvanceServes ==
  ASSUME LInv, FirstJob, QueuesSource, Advance
  PROVE  Waits' /\ PromptServable'
  <1>a. loop.at = "advance" /\ Quiescent /\ noted' = noted /\ Inspected /\ Seen = MirrorStage
    BY DEF Advance, AdvanceOver, AdvanceFetch, AdvanceFirst, AdvanceCommittee, AdvanceStopped, AdvanceDecide,
           AdvanceDrive, TrioHeard, Snapshot, Inspected, Seen
  <1>l. loop \in LoopState /\ SessionStaged(session) /\ session.status \in SessionStatus
    BY LoopFacts
  <1>1. CASE AdvanceOver
    <2>1. loop'.at = "over"
      BY <1>1, <1>l DEF AdvanceOver, LoopState
    <2> QED
      BY <2>1, ElsewhereServes
  <1>2. CASE AdvanceFetch
    <2>1. Live /\ NoEvidenceYet /\ Turn("fetch", 1) /\ KernelQuiet
      BY <1>2 DEF AdvanceFetch, Finished, Live
    <2>2. CASE session.frozen = {}
      <3>1. ActiveWave = 1
        BY <2>1, <2>2, LiveActive, LiveIsNext
      <3>2. Open(1)
        BY <2>1, <3>1, FirstJobIsFirst DEF NoEvidenceYet, SourceOpen
      <3> QED
        BY <1>a, <2>1, <2>2, <3>2, FetchServes
    <2>3. CASE session.frozen # {}
      <3>1. noted = {}
        BY <2>1 DEF NoEvidenceYet
      <3> QED
        BY <1>a, <2>1, <2>3, <3>1, TurnServes
    <2> QED
      BY <2>2, <2>3
  <1>3. CASE AdvanceFirst
    <2>1. session.latest = 0 /\ session.frozen = {} /\ Live
      BY <1>3, LiveIsNext DEF AdvanceFirst, Finished, Live
    <2>2. CASE Open(1) /\ Turn("fetch", 1) /\ KernelQuiet
      BY <1>a, <2>1, <2>2, FetchServes
    <2>3. CASE Freeze(1)
      BY <1>a, <2>1, <2>3, FreezeServes
    <2> QED
      BY <1>3, <2>2, <2>3 DEF AdvanceFirst
  <1>4. CASE AdvanceCommittee
    <2>1. session.latest # 0 /\ ~Done(session) /\ Live
      BY <1>4, LiveIsNext, DoneIsHeard DEF AdvanceCommittee, Finished, Live
    <2>2. session.status \in {"freezing", "analyzing"}
      BY <1>l, <2>1 DEF SessionStaged, Live, Early, SessionStatus, TerminalSession
    <2> QED
      BY <1>4, <2>1, <2>2, SeedServes DEF AdvanceCommittee
  <1>5. CASE AdvanceStopped
    <2>1. session.status = "synthesizing"
      BY <1>5 DEF AdvanceStopped, TrioHeard, Finished, GateStopped
    <2>2. MirrorStage = "FINAL" /\ KernelStage = "FINAL"
      BY <2>1 DEF MirrorStage, KernelStage
    <2>3. Servable("finalize", 0, Seen)
      BY <1>a, <2>1, <2>2 DEF Servable
    <2> QED
      BY <1>5, <1>a, <2>3, TurnServes DEF AdvanceStopped
  <1>6. CASE AdvanceDecide
    <2>1. TrioDone /\ Done(session) /\ Live /\ session.latest # 0 /\ session.status \notin Early /\ ~NextWaveActive
          /\ session.status # "synthesizing"
      BY <1>6, HeardStatus, DoneIsHeard DEF AdvanceDecide, TrioHeard, GateStopped
    <2>2. session.status = "analyzing"
      <3>1. session.status # "targeted_research"
        BY <2>1, LiveIsNext DEF SessionStaged, NextWaveActive, LInv, Staged
      <3>2. session.status # "freezing"
        BY <1>l, <2>1 DEF SessionStaged, Done, Role
      <3> QED
        BY <1>l, <2>1, <3>1, <3>2 DEF Live, Early, SessionStatus, TerminalSession
    <2>3. Seen = "FINAL"
      BY <1>a, <2>1, <2>2 DEF MirrorStage
    <2>4. loop'.at = "deciding" /\ loop'.wave = ActiveWave /\ loop'.stage = "FINAL"
      BY <1>6, <1>l, <2>3 DEF AdvanceDecide, Await, LoopState
    <2>5. call'[Me].pc = "decide_gate" /\ session' = session /\ jobs' = jobs
      BY <1>6, TheCaller, LoopFacts, DirectorFlow DEF AdvanceDecide, Reads, StoreUnchanged, store
    <2>6. IsDeciding(call[Me])'
      BY <2>2, <2>5 DEF IsDeciding
    <2>7. SourceJobs(ActiveWave) = {}
      <3>1. ActiveWave = session.latest + 1 /\ session.latest \in Nat
        BY <2>1, LiveActive, LiveIsNext
      <3>2. ActiveWave > session.latest
        BY <3>1
      <3>3. ActiveWave \in Wave => SourceJobs(ActiveWave) = {}
        BY <2>1, <3>2 DEF NextWaveActive
      <3>4. \A j \in Job : jobs[j].wave \in Wave
        BY LoopFacts DEF JobRow
      <3> QED
        BY <3>3, <3>4 DEF SourceJobs
    <2>8. (SourceJobs(loop.wave) = {})'
      <3>1. PICK w : w = ActiveWave
        OBVIOUS
      <3> QED
        BY <2>4, <2>5, <2>7, <3>1 DEF SourceJobs, Row
    <2> QED
      BY <2>4, <2>6, <2>8 DEF Waits, PromptServable
  <1>7. CASE AdvanceDrive
    <2>1. Live /\ session.status = "targeted_research"
      BY <1>7, HeardStatus DEF AdvanceDrive, TrioHeard
    <2> QED
      BY <1>7, <1>a, <2>1, LiveActive, DriveServes DEF AdvanceDrive
  <1> QED
    BY <1>1, <1>2, <1>3, <1>4, <1>5, <1>6, <1>7 DEF Advance

LEMMA AnswerServes ==
  ASSUME LInv, QueuesSource, Waits, Answer
  PROVE  Waits' /\ PromptServable'
  <1>l. loop \in LoopState /\ SessionStaged(session) /\ session.status \in SessionStatus
    BY LoopFacts
  <1>q. Quiescent /\ call[Me].pc = "idle" /\ noted' = noted
    BY DEF Answer, FreezeAnswer, SeedAnswer, DecideAnswer, StartAnswer, PlanAnswer, CallAnswer, FileAnswer,
           CloseAnswer, FailAnswer, Answered, Quiescent, At
  <1>r. Recorded => loop'.at \in {"advance", "recording"}
    BY <1>l DEF Recorded, LoopState
  <1>1. CASE FreezeAnswer
    <2>1. CASE ~loop.lost /\ loop.wave \in session.frozen /\ Seed(loop.wave)
      <3>1. IsFreezing(call[Me])
        BY <1>1 DEF FreezeAnswer, Answered, Waits
      <3>2. session.latest + 1 \notin session.frozen
        BY LiveIsNext
      <3>3. session.status = "freezing"
        BY <2>1, <3>1, <3>2 DEF IsFreezing
      <3>4. ~Done(session)
        BY <1>l, <3>3 DEF SessionStaged, Done, Role
      <3> QED
        BY <2>1, <3>3, <3>4, SeedServes
    <2> QED
      BY <1>1, <1>q, <2>1, TextServes DEF FreezeAnswer
  <1>2. CASE SeedAnswer
    <2>1. session.status \in {"freezing", "analyzing"} /\ ~Done(session)
      BY <1>2 DEF SeedAnswer, Answered, Waits, IsSeeding
    <2>2. ~TrioDone /\ session.latest # 0
      BY <1>l, <2>1, DoneIsHeard DEF SessionStaged
    <2>3. KernelStage = "COMMITTEE"
      BY <2>1, <2>2 DEF KernelStage
    <2>4. Servable("trio", 0, Seen)
      BY <2>1, <2>2, <2>3, TrioServes DEF Servable
    <2>5. Turn("trio", 0) /\ KernelQuiet
      BY <1>2, <2>2 DEF SeedAnswer
    <2> QED
      BY <1>q, <2>4, <2>5, TurnServes
  <1>3. CASE DecideAnswer
    <2>1. /\ loop.at = "deciding" /\ loop.stage = "FINAL" /\ SourceJobs(loop.wave) = {} /\ loop.wave = session.latest + 1
          /\ ~loop.lost => session.status \in Settled
      BY <1>3, <1>q, LoopFacts DEF DecideAnswer, Answered, Waits, IsDeciding, LoopStaged
    <2>2. CASE loop.lost /\ Turn("text", 0) /\ KernelQuiet
      BY <1>q, <2>2, TextServes
    <2>3. CASE ~loop.lost /\ session.status # "targeted_research" /\ Turn("finalize", 0) /\ KernelQuiet
      <3>1. session.status = "synthesizing" /\ Seen = "FINAL"
        BY <2>1, <2>3 DEF Settled, Seen, Inspected
      <3>2. Servable("finalize", 0, Seen)
        BY <3>1 DEF Servable, KernelStage
      <3> QED
        BY <1>q, <2>3, <3>2, TurnServes
    <2>4. CASE session.status = "targeted_research" /\ Drive(loop.wave)
      BY <1>q, <2>1, <2>4, DriveServes
    <2> QED
      BY <1>3, <2>2, <2>3, <2>4 DEF DecideAnswer
  <1>4. CASE StartAnswer
    <2> DEFINE mine == {j \in SourceJobs(loop.wave) : Open(j)}
    <2>1. session.status = "targeted_research" /\ loop.wave = session.latest + 1 /\ loop.at = "starting"
      BY <1>4 DEF StartAnswer, Answered, Waits, IsStarting
    <2>2. CASE loop.lost \/ mine = {}
      BY <1>4, <1>q, <2>2, TextServes DEF StartAnswer
    <2>3. CASE ~loop.lost /\ mine # {}
      <3>1. Inspected
        BY <2>1, <2>3 DEF Inspected
      <3>2. mine \in SUBSET Job
        BY DEF SourceJobs
      <3>3. PICK j \in Job : j = First(mine) /\ j \in mine
        BY <2>3, <3>2, FirstIsLeast
      <3>4. Open(j) /\ jobs[j].wave = session.latest + 1
        BY <2>1, <3>3 DEF SourceJobs
      <3>5. Turn("wave", j) /\ KernelQuiet
        BY <1>4, <2>3, <3>3 DEF StartAnswer
      <3> QED
        BY <1>q, <2>1, <3>1, <3>4, <3>5, WaveServes
    <2> QED
      BY <2>2, <2>3
  <1>5. CASE PlanAnswer \/ CallAnswer \/ FailAnswer
    <2>1. loop'.at \in {"advance", "children", "recording"}
      BY <1>5, <1>l, <1>r DEF PlanAnswer, CallAnswer, FailAnswer, LoopState
    <2> QED
      BY <2>1, ElsewhereServes
  <1>6. CASE FileAnswer \/ CloseAnswer
    <2>1. loop'.at \in {"advance", "recording", "failing"}
      BY <1>6, <1>l, <1>r DEF FileAnswer, CloseAnswer, FailJob, LoopState
    <2> QED
      BY <2>1, ElsewhereServes
  <1> QED
    BY <1>1, <1>2, <1>3, <1>4, <1>5, <1>6 DEF Answer

LEMMA TurnsServe ==
  ASSUME LInv, EndTurn \/ Obey \/ Cancel \/ Record \/ ChildRecords \/ ChildSubmits \/ ChildrenEnd
  PROVE  Waits' /\ PromptServable'
  <1>l. loop \in LoopState
    BY LoopFacts
  <1>1. CASE EndTurn \/ Cancel \/ ChildrenEnd
    <2>1. loop'.at \in {"advance", "calling", "recording"}
      BY <1>1, <1>l DEF EndTurn, Cancel, ChildrenEnd, LoopState
    <2> QED
      BY <2>1, ElsewhereServes
  <1>2. CASE Obey
    <2>1. loop'.at \in {"planning", "calling"}
      BY <1>2, <1>l DEF Obey, PlanSource, PlanTrio, Await, Finalize, LoopState
    <2> QED
      BY <2>1, ElsewhereServes
  <1>3. CASE Record
    <2>1. loop'.at \in {"filing", "closing", "advance", "recording"}
      BY <1>3, <1>l DEF Record, FileAnalysis, CloseChild, ChildDone, Recorded, LoopState
    <2> QED
      BY <2>1, ElsewhereServes
  <1>4. CASE ChildRecords \/ ChildSubmits
    <2>1. loop'.at = "children"
      BY <1>4 DEF ChildRecords, ChildSubmits, Child
    <2> QED
      BY <2>1, ElsewhereServes
  <1> QED
    BY <1>1, <1>2, <1>3, <1>4

\* A call given up, or an answer lost, leaves the wait where it is.
LEMMA WaitsStill ==
  ASSUME LInv, Waits, loop.at # "turn", session' = session, jobs' = jobs, call' = call \/ call'[Me].pc = "idle",
         loop'.at = loop.at, loop'.wave = loop.wave, loop'.stage = loop.stage,
         loop'.lost = TRUE
  PROVE  Waits' /\ PromptServable'
  <1>1. (SourceJobs(loop.wave) = {})' <=> SourceJobs(loop.wave) = {}
    BY DEF SourceJobs, Row
  <1>2. IsStarting(call[Me]) => IsStarting(call[Me])'
    BY DEF IsStarting
  <1>3. IsFreezing(call[Me]) => IsFreezing(call[Me])'
    BY DEF IsFreezing
  <1>4. IsSeeding(call[Me]) => IsSeeding(call[Me])'
    BY SameStages DEF IsSeeding
  <1> QED
    BY <1>1, <1>2, <1>3, <1>4 DEF Waits, PromptServable

LEMMA FailuresServe ==
  ASSUME LInv, Waits, BridgeDies \/ AnswerLost \/ InspectFails \/ HostDies
  PROVE  Waits' /\ PromptServable'
  <1>l. loop \in LoopState
    BY LoopFacts
  <1>1. CASE BridgeDies
    <2>1. loop'.at = loop.at /\ loop'.wave = loop.wave /\ loop'.stage = loop.stage /\ loop'.lost = (loop.at \in Waiting)
      BY <1>1, <1>l DEF BridgeDies, LoopState
    <2>2. session' = session /\ jobs' = jobs /\ call'[Me].pc = "idle" /\ ~Quiescent
      BY <1>1, LoopFacts, TheCaller
         DEF BridgeDies, Crash, Return, Hold, Idle, StoreUnchanged, store, Quiescent
    <2>3. loop.at # "turn"
      BY <2>2 DEF Waits
    <2>4. CASE loop.at \in Waiting
      BY <2>1, <2>2, <2>3, <2>4, WaitsStill
    <2>5. CASE loop.at \notin Waiting
      BY <2>1, <2>3, <2>5, ElsewhereServes DEF Waiting
    <2> QED
      BY <2>4, <2>5
  <1>2. CASE AnswerLost
    <2>1. loop'.at = loop.at /\ loop'.wave = loop.wave /\ loop'.stage = loop.stage /\ loop'.lost = TRUE
      BY <1>2, <1>l DEF AnswerLost, LoopState
    <2>2. session' = session /\ jobs' = jobs /\ call' = call /\ loop.at # "turn"
      BY <1>2 DEF AnswerLost, KernelQuiet, vars, Waiting
    <2> QED
      BY <2>1, <2>2, WaitsStill
  <1>3. CASE InspectFails
    <2>1. loop'.at = "turn" /\ loop'.prompt = "text" /\ call' = call /\ Quiescent
      BY <1>3, <1>l DEF InspectFails, LoopState, KernelQuiet, vars
    <2> QED
      BY <2>1 DEF Waits, PromptServable, Quiescent, At
  <1>4. CASE HostDies
    <2>1. loop'.at = "advance"
      BY <1>4, <1>l DEF HostDies, LoopState
    <2> QED
      BY <2>1, ElsewhereServes
  <1> QED
    BY <1>1, <1>2, <1>3, <1>4

LEMMA LoopKeepsQueues ==
  ASSUME LInv, QueuesSource, LoopNext
  PROVE  QueuesSource'
  <1>1. CASE KernelStep
    BY <1>1, JobStepQueues, EvidenceStepQueues, CommitteeStepQueues, DirectorStepQueues DEF KernelStep
  <1>f. \A w : Freeze(w) \/ Seed(w) \/ Drive(w) => QueuesSource'
    BY BeginQueues, QuietQueues DEF Freeze, Seed, Drive
  <1>2. CASE Advance
    BY <1>2, <1>f, BeginQueues, QuietQueues
       DEF Advance, AdvanceOver, AdvanceFetch, AdvanceFirst, AdvanceCommittee, AdvanceStopped, AdvanceDecide, AdvanceDrive
  <1>3. CASE Answer
    BY <1>3, <1>f, BeginQueues, QuietQueues
       DEF Answer, FreezeAnswer, SeedAnswer, DecideAnswer, StartAnswer, PlanAnswer, CallAnswer, FileAnswer,
           CloseAnswer, FailAnswer, FailJob
  <1>4. CASE EndTurn \/ Obey \/ Cancel \/ Record \/ ChildRecords \/ ChildSubmits \/ ChildrenEnd
    BY <1>4, BeginQueues, QuietQueues
       DEF EndTurn, Obey, PlanSource, PlanTrio, Finalize, Cancel, Record, FileAnalysis, CloseChild, ChildDone,
           ChildRecords, ChildSubmits, ChildrenEnd
  <1>5. CASE BridgeDies \/ AnswerLost \/ InspectFails \/ HostDies
    BY <1>5, QuietQueues DEF BridgeDies, Crash, AnswerLost, InspectFails, HostDies
  <1> QED
    BY <1>1, <1>2, <1>3, <1>4, <1>5 DEF LoopNext

LEMMA LoopKeepsServing ==
  ASSUME PInv, [LoopNext]_loopVars
  PROVE  PInv'
  <1>1. LInv'
    BY LoopKeepsRows, LoopKeepsTypes, StaysStaged DEF LInv, PInv
  <1>2. OneMove /\ LInv /\ FirstJob /\ FirstJob' /\ QueuesSource /\ Waits /\ PromptServable
    BY LoopKeepsRows, FirstJobStays DEF LInv, PInv
  <1>3. CASE UNCHANGED loopVars
    <2>1. session' = session /\ jobs' = jobs /\ call' = call /\ noted' = noted /\ loop' = loop /\ KernelQuiet
      BY <1>3 DEF loopVars, vars, KernelQuiet
    <2>2. QueuesSource'
      BY <1>2, <2>1, QuietQueues
    <2>3. PromptServable'
      BY <1>2, <2>1, SameStages DEF PromptServable, RepeatedFetch, Open
    <2>4. Waits'
      BY <1>2, <2>1, SameStages
         DEF Waits, Quiescent, At, SourceJobs, Row, IsDeciding, IsStarting, IsFreezing, IsSeeding
    <2> QED
      BY <1>1, <1>2, <2>2, <2>3, <2>4 DEF PInv
  <1>4. CASE LoopNext
    <2>1. QueuesSource'
      BY <1>2, <1>4, LoopKeepsQueues
    <2>2. CASE KernelStep
      <3>1. loop.at # "turn" /\ loop' = loop
        BY <1>2, <2>2 DEF KernelStep, Waits
      <3> QED
        BY <1>1, <1>2, <2>1, <2>2, <3>1, KernelKeepsWaits DEF PInv, PromptServable
    <2>3. CASE ~KernelStep
      BY <1>1, <1>2, <1>4, <2>1, <2>3, AdvanceServes, AnswerServes, TurnsServe, FailuresServe DEF LoopNext, PInv
    <2> QED
      BY <2>2, <2>3
  <1> QED
    BY <1>3, <1>4

LEMMA LoopInitServes == LoopInit => PInv
  <1> SUFFICES ASSUME LoopInit PROVE PInv
    OBVIOUS
  <1>1. LInv
    BY LoopInitCurrent, LoopInitStaged, LoopInitTyped DEF LInv
  <1>2. call[Me].pc = "idle"
    BY TheCaller DEF LoopInit, StartResearch, Init, ResumeRunner, Idle
  <1>3. QueuesSource
    <2>1. ASSUME NEW j \in Job
          PROVE  jobs[j].status # "queued"
      <3>1. CASE StartResearch
        BY <3>1 DEF StartResearch, Init, NoRow
      <3>2. CASE ResumeRunner
        <4>1. PICK row \in {[NoRow EXCEPT !.status = "running"], [NoRow EXCEPT !.status = "completed", !.result = "outcome"]} :
                  jobs = [k \in Job |-> IF k = 1 THEN row ELSE NoRow]
          BY <3>2 DEF ResumeRunner
        <4>2. row.status # "queued" /\ NoRow.status # "queued"
          BY <4>1 DEF NoRow
        <4> QED
          BY <4>1, <4>2
      <3> QED
        BY <3>1, <3>2 DEF LoopInit
    <2> QED
      BY <1>2, <2>1 DEF QueuesSource, Carries, HoldsRow
  <1>4. FirstJob
    <2>1. 1 \in Job
      BY BoundsAssumption DEF Job
    <2>2. CASE StartResearch
      BY <2>1, <2>2 DEF StartResearch, Init, NoRow, FirstJob, Row
    <2>3. CASE ResumeRunner
      <3>1. PICK row \in {[NoRow EXCEPT !.status = "running"], [NoRow EXCEPT !.status = "completed", !.result = "outcome"]} :
                jobs = [k \in Job |-> IF k = 1 THEN row ELSE NoRow]
        BY <2>3 DEF ResumeRunner
      <3>2. row.status # "none" /\ row.type = "source_agent" /\ row.wave = 1
        BY <3>1 DEF NoRow
      <3> QED
        BY <2>1, <3>1, <3>2 DEF FirstJob, Row
    <2> QED
      BY <2>2, <2>3 DEF LoopInit
  <1>5. Waits /\ PromptServable
    <2>1. CASE StartResearch
      <3>1. session.status = "created" /\ jobs[1].status = "running"
        BY <2>1, BoundsAssumption DEF StartResearch, Init, NewSession, NoRow, Job
      <3>2. loop.at = "turn" /\ loop.prompt = "fetch" /\ loop.job = 1 /\ loop.stage = "SOURCE"
        BY <2>1 DEF StartResearch
      <3>3. Live /\ session.latest = 0
        BY <2>1, <3>1 DEF StartResearch, Init, NewSession, Live, TerminalSession
      <3>4. ActiveWave = 1
        BY <1>1, <3>3, LiveActive
      <3>5. KernelStage = "SOURCE"
        BY <2>1, <3>1 DEF KernelStage, StartResearch, Init, NewSession
      <3>6. Open(1)
        BY <3>1 DEF Open, OpenJob
      <3> QED
        BY <1>2, <1>4, <3>2, <3>4, <3>5, <3>6 DEF Waits, PromptServable, FirstJob, Quiescent, At
    <2>2. CASE ResumeRunner
      BY <2>2 DEF ResumeRunner, Waits, PromptServable
    <2> QED
      BY <2>1, <2>2 DEF LoopInit
  <1> QED
    BY <1>1, <1>3, <1>4, <1>5 DEF PInv

\* In new sessions and resumed ones, and whatever call died or answer was lost before, a turn
\* starts with a prompt that can be obeyed, but for the fetch the Director repeats after a
\* freeze while no evidence is noted: both stage gates pass it, its source job is open and of
\* the live wave, its committee has a role to run, and a session told to finalize waits for
\* its answer (research-director.ts, advanceOnAgentEnd).
THEOREM PromptsStayServable == LoopSpec => []PromptServable
  <1>1. PInv => PromptServable
    BY DEF PInv
  <1> QED
    BY <1>1, LoopInitServes, LoopKeepsServing, PTL DEF LoopSpec

=============================================================================
