---------------------------- MODULE ResearchKernel ----------------------------
(***************************************************************************)
(* The research kernel of app/research: one research session, its jobs,   *)
(* its evidence ledger, its freezes and its dossiers, as rows of          *)
(* research.sqlite, and the service operations that read and write them.  *)
(*                                                                         *)
(* Every session binding runs its own bridge process, and a bridge runs   *)
(* four tool calls at a time; each service call opens one connection per  *)
(* store operation (repository.py: "one connection per call").  So a      *)
(* client below is one service call in progress, a step of it is one      *)
(* store operation, and between two steps of one call any step of another *)
(* call may come.  save_session and save_job upsert the WHOLE row: what   *)
(* a call writes is the row it read, with its own fields changed.         *)
(*                                                                         *)
(* Sessions share nothing but the file, so one session is modelled.  A    *)
(* deadline is not: default_budget leaves deadline_seconds None.          *)
(***************************************************************************)
EXTENDS Naturals, FiniteSets

CONSTANTS
    Client,             \* service calls that may be in progress at a time
    MaxJobs,            \* size of the job pool (a bound of the model)
    MaxWaves,           \* policy research.max_waves
    Evidence,           \* findings the source agents may record
    MaxParallel,        \* policy research.max_parallel (6 by default)
    CommitteeParallel,  \* policy committee.max_parallel (3 by default)
    MaxWaveCounter,     \* bound of the model on current_wave, which no code bounds
    Calls,              \* the operations the clients call
    MayCrash            \* may a bridge process die inside a call?

ASSUME BoundsAssumption == MaxJobs \in Nat \ {0} /\ MaxWaves \in Nat \ {0}
ASSUME CallsAssumption == MayCrash \in BOOLEAN

Job == 1..MaxJobs
Wave == 1..MaxWaves
Role == {"stockbot", "bullbot", "bearbot"}
JobType == Role \union {"source_agent"}

(***************************************************************************)
(* Rows.  A freeze id is "<session>:<wave>:freeze", so freeze_ids is the  *)
(* set of frozen waves plus the one appended last; committee_runs is the  *)
(* set of recorded job ids per freeze; final is the wave of the freeze    *)
(* the final result cites (0: no final result yet).                       *)
(***************************************************************************)
SessionStatus == {"created", "planning", "researching", "freezing", "analyzing",
                  "targeted_research", "synthesizing", "completed", "failed", "cancelled"}
TerminalSession == {"completed", "failed", "cancelled"}

SessionRow == [status : SessionStatus, wave : Nat,
               frozen : SUBSET Wave, latest : 0..MaxWaves,
               runs : [Wave -> SUBSET Job],
               dossiers : SUBSET Wave, final : 0..MaxWaves]

JobStatus == {"none", "queued", "running", "completed", "failed", "cancelled"}
OpenJob == {"queued", "running"}
TerminalJob == {"completed", "failed", "cancelled"}
JobRow == [type : JobType, wave : Wave, status : JobStatus,
           result : {"none", "outcome", "analysis"}]

Label == {"idle",
          "create_session", "create_check", "create_save_session", "create_save_job",
          "save_job", "save_session",
          "complete_start", "complete_save", "advance_read", "advance_save",
          "evidence_job", "evidence_save",
          "submit_session", "submit_dossier", "submit_read", "submit_link",
          "freeze_planning", "freeze_researching", "freeze_list", "freeze_open",
          "freeze_save", "freeze_track",
          "committee_session", "committee_check", "committee_save_session",
          "committee_save_job", "committee_rollback", "committee_fail",
          "analysis_job", "analysis_save", "analysis_track",
          "decide_gate", "decide_settle",
          "final_trio", "final_open", "final_walk", "final_synth",
          "final_result", "final_save"}

VARIABLES
    session,    \* the row of table sessions
    jobs,       \* table jobs; status "none" is a job that has no row
    ledger,     \* table evidence: the wave a finding was recorded for, 0 if none
    freezes,    \* table freezes: the frozen waves and the ids each one holds
    dossiers,   \* table dossiers: the waves that have one, and the latest verdict
    call        \* per client: the step it is at and the rows it has read

store == <<session, jobs, ledger, freezes, dossiers>>
vars == <<session, jobs, ledger, freezes, dossiers, call>>

NoRow == [type |-> "source_agent", wave |-> 1, status |-> "none", result |-> "none"]
NewSession == [status |-> "created", wave |-> 0, frozen |-> {}, latest |-> 0,
               runs |-> [w \in Wave |-> {}], dossiers |-> {}, final |-> 0]

\* The locals of a call: job, wave, the session row and the job row it has
\* read, the ledger rows it has listed, the roles still to create, the jobs it
\* has started, and a yes or no (start the created job?  wave authorized?).
Idle == [pc |-> "idle", job |-> 0, wave |-> 0, ses |-> NewSession, row |-> NoRow,
         seen |-> {}, todo |-> {}, mine |-> {}, yes |-> FALSE]
CallState == [pc : Label, job : 0..MaxJobs, wave : 0..MaxWaves, ses : SessionRow, row : JobRow,
              seen : SUBSET Evidence, todo : SUBSET Role, mine : SUBSET Job, yes : BOOLEAN]

TypeOK ==
    /\ session \in SessionRow
    /\ jobs \in [Job -> JobRow]
    /\ ledger \in [Evidence -> 0..MaxWaves]
    /\ freezes \in [stored : SUBSET Wave, ids : [Wave -> SUBSET Evidence]]
    /\ dossiers \in [stored : SUBSET Wave, latest : {"none", "residual", "drained"}]
    /\ call \in [Client -> CallState]

\* create_research: the session and its first running source job, one transaction.
Init ==
    /\ session = NewSession
    /\ jobs = [j \in Job |-> IF j = 1 THEN [NoRow EXCEPT !.status = "running"] ELSE NoRow]
    /\ ledger = [e \in Evidence |-> 0]
    /\ freezes = [stored |-> {}, ids |-> [w \in Wave |-> {}]]
    /\ dossiers = [stored |-> {}, latest |-> "none"]
    /\ call = [c \in Client |-> Idle]

-----------------------------------------------------------------------------
(* Helpers *)

At(c, l) == call[c].pc = l
Begin(c, op) == op \in Calls /\ At(c, "idle")

Goto(c, l) == call' = [call EXCEPT ![c].pc = l]
Hold(c, state) == call' = [call EXCEPT ![c] = state]
Return(c) == Hold(c, Idle)

StoreUnchanged == UNCHANGED store
SaveSession(row) == session' = row /\ UNCHANGED <<jobs, ledger, freezes, dossiers>>
SaveJob(j, row) == jobs' = [jobs EXCEPT ![j] = row] /\ UNCHANGED <<session, ledger, freezes, dossiers>>

ActiveJobs == {j \in Job : jobs[j].status \in OpenJob}
FreshJobs == {j \in Job : jobs[j].status = "none" /\ \A d \in Client : call[d].job # j}
NewJob == CHOOSE j \in FreshJobs : TRUE     \* new_job_id: an id no row and no other call has

\* create_job's ceilings, against the jobs listed just before.
Admit(type) ==
    /\ FreshJobs # {}
    /\ Cardinality(ActiveJobs) < MaxParallel
    /\ type \in Role => Cardinality({j \in ActiveJobs : jobs[j].type \in Role}) < CommitteeParallel

Row(j) == jobs[j].status # "none"
Status(row, new) == [row EXCEPT !.status = new]

WaveRecords(w) == {e \in Evidence : 0 < ledger[e] /\ ledger[e] <= w}
OpenSourceJobs(w) == {j \in ActiveJobs : jobs[j].type = "source_agent" /\ jobs[j].wave = w}

\* The wave evidence may be recorded for: max(current_wave, len(freeze_ids) + 1, 1).
LiveWave(ses) == LET next == Cardinality(ses.frozen) + 1
                 IN  IF ses.wave > next THEN ses.wave ELSE next

\* The latest freeze has a recorded run of all three roles, every job of it
\* completed with its analysis (_committee_results_by_role).
TrioComplete(ses) ==
    /\ ses.latest # 0
    /\ \A r \in Role : \E j \in ses.runs[ses.latest] :
           jobs[j].type = r /\ jobs[j].status = "completed" /\ jobs[j].result = "analysis"

-----------------------------------------------------------------------------
(* Starting, retrying and running jobs *)

StartJobRead(c) ==
    /\ Begin(c, "start_job")
    /\ \E w \in Wave : Hold(c, [Idle EXCEPT !.pc = "create_check", !.wave = w, !.ses = session, !.yes = TRUE,
                                             !.row = [NoRow EXCEPT !.wave = w, !.status = "queued"]])
    /\ StoreUnchanged

\* retry_job replaces a failed or cancelled job by a queued one of its type and wave.
RetryJobRead(c) ==
    /\ Begin(c, "retry_job")
    /\ \E j \in Job :
           /\ jobs[j].status \in {"failed", "cancelled"}
           /\ Hold(c, [Idle EXCEPT !.pc = "create_session", !.wave = jobs[j].wave,
                                   !.row = [jobs[j] EXCEPT !.status = "queued", !.result = "none"]])
    /\ StoreUnchanged

RetryJobSession(c) ==
    /\ At(c, "create_session")
    /\ Hold(c, [call[c] EXCEPT !.pc = "create_check", !.ses = session])
    /\ StoreUnchanged

\* list_jobs, then create_job's ceilings: a refused call raises and writes nothing.
CreateJobCheck(c) ==
    /\ At(c, "create_check")
    /\ \/ Admit(call[c].row.type) /\ Hold(c, [call[c] EXCEPT !.pc = "create_save_session", !.job = NewJob])
       \/ ~Admit(call[c].row.type) /\ Return(c)
    /\ StoreUnchanged

CreateJobSaveSession(c) ==
    /\ At(c, "create_save_session")
    /\ SaveSession(call[c].ses)
    /\ Goto(c, "create_save_job")

\* The queued row is saved first; start_job saves it once more, running.
CreateJobSaveJob(c) ==
    /\ At(c, "create_save_job")
    /\ SaveJob(call[c].job, call[c].row)
    /\ \/ call[c].yes /\ Hold(c, [call[c] EXCEPT !.pc = "save_job", !.row.status = "running"])
       \/ ~call[c].yes /\ Return(c)

\* The last store operation of every call that ends by saving one row.
SaveJobRow(c) ==
    /\ At(c, "save_job")
    /\ SaveJob(call[c].job, call[c].row)
    /\ Return(c)

SaveSessionRow(c) ==
    /\ At(c, "save_session")
    /\ SaveSession(call[c].ses)
    /\ Return(c)

\* run_research starts the oldest queued job when none is running.
RunResearch(c) ==
    /\ Begin(c, "run_research")
    /\ \A j \in Job : jobs[j].status # "running"
    /\ \E j \in Job :
           /\ jobs[j].status = "queued"
           /\ \A k \in 1..(j - 1) : jobs[k].status # "queued"
           /\ Hold(c, [Idle EXCEPT !.pc = "save_job", !.job = j, !.row = Status(jobs[j], "running")])
    /\ StoreUnchanged

-----------------------------------------------------------------------------
(* Completing, failing, cancelling and touching jobs *)

\* complete_job of an open job; a terminal one is returned as it is.
CompleteJobRead(c) ==
    /\ Begin(c, "complete_job")
    /\ \E j \in ActiveJobs :
           Hold(c, [Idle EXCEPT !.pc = IF jobs[j].status = "queued" THEN "complete_start" ELSE "complete_save",
                                !.job = j, !.row = [jobs[j] EXCEPT !.status = "running", !.result = "outcome"]])
    /\ StoreUnchanged

CompleteJobStart(c) ==
    /\ At(c, "complete_start")
    /\ SaveJob(call[c].job, [call[c].row EXCEPT !.result = "none"])
    /\ Goto(c, "complete_save")

CompleteJobSave(c) ==
    /\ At(c, "complete_save")
    /\ SaveJob(call[c].job, Status(call[c].row, "completed"))
    /\ Goto(c, "advance_read")

\* transition_job_completed: the session's current_wave catches up with the job's.
AdvanceRead(c) ==
    /\ At(c, "advance_read")
    /\ \/ /\ call[c].row.wave > session.wave
          /\ Hold(c, [call[c] EXCEPT !.pc = "advance_save", !.ses = [session EXCEPT !.wave = call[c].row.wave]])
       \/ call[c].row.wave <= session.wave /\ Return(c)
    /\ StoreUnchanged

AdvanceSave(c) ==
    /\ At(c, "advance_save")
    /\ SaveSession(call[c].ses)
    /\ Return(c)

\* Mutant: no early return for a terminal job.
CloseAnyJobRead(c) ==
    /\ Begin(c, "close_job")
    /\ \E j \in Job, new \in {"failed", "cancelled"} :
           Row(j) /\ Hold(c, [Idle EXCEPT !.pc = "save_job", !.job = j, !.row = Status(jobs[j], new)])
    /\ StoreUnchanged

\* fail_job and cancel_job of an open job; a terminal one is returned as it is.
CloseJobRead(c) ==
    /\ Begin(c, "close_job")
    /\ \E j \in ActiveJobs, new \in {"failed", "cancelled"} :
           Hold(c, [Idle EXCEPT !.pc = "save_job", !.job = j, !.row = Status(jobs[j], new)])
    /\ StoreUnchanged

\* heartbeat_job and attach_job_runtime: the row is read and saved whole, in any
\* status; the fields they change (heartbeat time, diagnostics) are not modelled.
TouchJobRead(c) ==
    /\ Begin(c, "touch_job")
    /\ \E j \in Job : Row(j) /\ Hold(c, [Idle EXCEPT !.pc = "save_job", !.job = j, !.row = jobs[j]])
    /\ StoreUnchanged

CancelResearchRead(c) ==
    /\ Begin(c, "cancel_research")
    /\ session.status \notin TerminalSession
    /\ Hold(c, [Idle EXCEPT !.pc = "save_session", !.ses = [session EXCEPT !.status = "cancelled"]])
    /\ StoreUnchanged

-----------------------------------------------------------------------------
(* Recording evidence and submitting a source result *)

\* record_evidence reads the session first, then the job.
RecordEvidenceRead(c) ==
    /\ Begin(c, "record_evidence")
    /\ \E j \in Job : Row(j) /\ Hold(c, [Idle EXCEPT !.pc = "evidence_job", !.job = j, !.ses = session])
    /\ StoreUnchanged

\* Mutant: the job's wave is not compared with the live one.
MayRecordAnyWave(ses, row) ==
    /\ row.status = "running" /\ row.type = "source_agent"
    /\ ses.status \notin TerminalSession
    /\ row.wave \notin ses.frozen

\* A running source job of the live wave, in a live session that has not frozen it.
MayRecord(ses, row) ==
    /\ row.status = "running" /\ row.type = "source_agent"
    /\ ses.status \notin TerminalSession
    /\ row.wave = LiveWave(ses) /\ row.wave \notin ses.frozen

RecordEvidenceGate(c) ==
    /\ At(c, "evidence_job")
    /\ LET row == jobs[call[c].job]
       IN  \/ MayRecord(call[c].ses, row) /\ Hold(c, [call[c] EXCEPT !.pc = "evidence_save", !.row = row])
           \/ ~MayRecord(call[c].ses, row) /\ Return(c)
    /\ StoreUnchanged

\* Insert-once: a finding the ledger holds is answered as a duplicate.
RecordEvidenceSave(c) ==
    /\ At(c, "evidence_save")
    /\ \E e \in Evidence : ledger' = [ledger EXCEPT ![e] = IF @ = 0 THEN call[c].row.wave ELSE @]
    /\ Return(c)
    /\ UNCHANGED <<session, jobs, freezes, dossiers>>

SubmitRead(c) ==
    /\ Begin(c, "submit")
    /\ \E j \in Job :
           /\ jobs[j].status = "running" /\ jobs[j].type = "source_agent"
           /\ Hold(c, [Idle EXCEPT !.pc = "submit_session", !.job = j,
                                   !.row = [jobs[j] EXCEPT !.result = "outcome"]])
    /\ StoreUnchanged

SubmitSession(c) ==
    /\ At(c, "submit_session")
    /\ \/ session.status \in TerminalSession /\ Return(c)
       \/ session.status \notin TerminalSession /\ Goto(c, "submit_dossier")
    /\ StoreUnchanged

\* One dossier per wave: the second submission of a wave keeps the first one's.
SubmitDossier(c) ==
    /\ At(c, "submit_dossier")
    /\ \E verdict \in {"residual", "drained"} :
           dossiers' = IF call[c].row.wave \in dossiers.stored THEN dossiers
                       ELSE [stored |-> dossiers.stored \union {call[c].row.wave}, latest |-> verdict]
    /\ Goto(c, "submit_read")
    /\ UNCHANGED <<session, jobs, ledger, freezes>>

\* Mutant: the dossier is linked under the session's wave, 0 before the first advance.
SubmitLinkCurrentWave(c) ==
    /\ At(c, "submit_read")
    /\ Hold(c, [call[c] EXCEPT !.pc = "submit_link", !.ses = [session EXCEPT !.dossiers = @ \union {session.wave}]])
    /\ StoreUnchanged

SubmitLinkRead(c) ==
    /\ At(c, "submit_read")
    /\ \/ /\ call[c].row.wave \in session.dossiers
          /\ Goto(c, "complete_save")
       \/ /\ call[c].row.wave \notin session.dossiers
          /\ Hold(c, [call[c] EXCEPT !.pc = "submit_link",
                                     !.ses = [session EXCEPT !.dossiers = @ \union {call[c].row.wave}]])
    /\ StoreUnchanged

\* Then the job is completed and the session's wave advanced, as complete_job does.
SubmitLinkSave(c) ==
    /\ At(c, "submit_link")
    /\ SaveSession(call[c].ses)
    /\ Goto(c, "complete_save")

-----------------------------------------------------------------------------
(* Freezing a wave *)

\* Mutant: an analyzing session may be frozen again.
FreezeReadyAnalyzing(status, w) == status \in {"researching", "targeted_research", "analyzing"}

FreezeReady(status, w) == status = "researching" \/ (w >= 2 /\ status = "targeted_research")

FreezeRead(c) ==
    /\ Begin(c, "freeze")
    /\ \E w \in Wave :
           \/ /\ session.status = "created"
              /\ Hold(c, [Idle EXCEPT !.pc = "freeze_planning", !.wave = w, !.ses = Status(session, "planning")])
           \/ /\ session.status = "planning"
              /\ Hold(c, [Idle EXCEPT !.pc = "freeze_researching", !.wave = w, !.ses = Status(session, "researching")])
           \/ /\ FreezeReady(session.status, w)
              /\ Hold(c, [Idle EXCEPT !.pc = "freeze_list", !.wave = w, !.ses = session])
    /\ StoreUnchanged

\* create_research leaves CREATED: the first freeze walks to RESEARCHING.
FreezePlan(c) ==
    /\ At(c, "freeze_planning")
    /\ SaveSession(call[c].ses)
    /\ Hold(c, [call[c] EXCEPT !.pc = "freeze_researching", !.ses.status = "researching"])

FreezeResearch(c) ==
    /\ At(c, "freeze_researching")
    /\ SaveSession(call[c].ses)
    /\ Goto(c, "freeze_list")

\* Mutant: the rows the ledger holds as discoveries, never accepted, are frozen too.
FreezeListDiscovery(c) ==
    /\ At(c, "freeze_list")
    /\ Hold(c, [call[c] EXCEPT !.pc = "freeze_open", !.seen = Evidence])
    /\ StoreUnchanged

FreezeList(c) ==
    /\ At(c, "freeze_list")
    /\ Hold(c, [call[c] EXCEPT !.pc = "freeze_open", !.seen = WaveRecords(call[c].wave)])
    /\ StoreUnchanged

\* Mutant: the freeze is tracked by the session without having been saved.
FreezeOpenJobsUnsaved(c) ==
    /\ At(c, "freeze_open")
    /\ \/ OpenSourceJobs(call[c].wave) # {} /\ Return(c)
       \/ OpenSourceJobs(call[c].wave) = {} /\ Goto(c, "freeze_track")
    /\ StoreUnchanged

FreezeOpenJobs(c) ==
    /\ At(c, "freeze_open")
    /\ \/ OpenSourceJobs(call[c].wave) # {} /\ Return(c)
       \/ OpenSourceJobs(call[c].wave) = {} /\ Goto(c, "freeze_save")
    /\ StoreUnchanged

\* Mutant: a second freeze of the wave replaces the first.
FreezeSaveReplace(c) ==
    /\ At(c, "freeze_save")
    /\ LET w == call[c].wave
       IN  freezes' = [stored |-> freezes.stored \union {w}, ids |-> [freezes.ids EXCEPT ![w] = call[c].seen]]
    /\ Goto(c, "freeze_track")
    /\ UNCHANGED <<session, jobs, ledger, dossiers>>

\* Insert-once: a freeze stored for the wave already stays, and the call goes on.
FreezeSave(c) ==
    /\ At(c, "freeze_save")
    /\ LET w == call[c].wave
       IN  freezes' = IF w \in freezes.stored THEN freezes
                      ELSE [stored |-> freezes.stored \union {w}, ids |-> [freezes.ids EXCEPT ![w] = call[c].seen]]
    /\ Goto(c, "freeze_track")
    /\ UNCHANGED <<session, jobs, ledger, dossiers>>

\* The row read at the start is saved FREEZING, with the freeze id attached.
Tracked(ses, w) == [ses EXCEPT !.status = "freezing", !.frozen = @ \union {w},
                               !.latest = IF w \in ses.frozen THEN @ ELSE w]

FreezeTrack(c) ==
    /\ At(c, "freeze_track")
    /\ LET ses == Tracked(call[c].ses, call[c].wave)
       IN  /\ SaveSession(ses)
           /\ \/ /\ call[c].wave > ses.wave
                 /\ Hold(c, [call[c] EXCEPT !.pc = "save_session", !.ses = [ses EXCEPT !.wave = call[c].wave]])
              \/ call[c].wave <= ses.wave /\ Return(c)

-----------------------------------------------------------------------------
(* The committee: three jobs created together, their analyses recorded *)

\* A role is missing when the wave has no job of it, whatever became of that job.
MissingRoles(w) == {r \in Role : \A j \in Job : ~(Row(j) /\ jobs[j].type = r /\ jobs[j].wave = w)}

CommitteeRoles(c) ==
    /\ Begin(c, "create_committee")
    /\ \E w \in Wave : Hold(c, [Idle EXCEPT !.pc = "committee_session", !.wave = w, !.todo = MissingRoles(w)])
    /\ StoreUnchanged

CommitteeSession(c) ==
    /\ At(c, "committee_session")
    /\ Hold(c, [call[c] EXCEPT !.pc = "committee_check", !.ses = session])
    /\ StoreUnchanged

NextRole(todo) == IF "stockbot" \in todo THEN "stockbot"
                  ELSE IF "bullbot" \in todo THEN "bullbot" ELSE "bearbot"

CommitteeReturns(c) == At(c, "committee_check") /\ call[c].todo = {}

\* One role at a time; a role the ceilings refuse rolls the started ones back.
CommitteeCheck(c) ==
    /\ At(c, "committee_check")
    /\ LET role == NextRole(call[c].todo)
       IN  \/ CommitteeReturns(c) /\ Return(c)
           \/ /\ call[c].todo # {} /\ Admit(role)
              /\ Hold(c, [call[c] EXCEPT !.pc = "committee_save_session", !.job = NewJob, !.todo = @ \ {role},
                              !.row = [NoRow EXCEPT !.type = role, !.wave = call[c].wave, !.status = "running"]])
           \/ call[c].todo # {} /\ ~Admit(role) /\ Goto(c, "committee_rollback")
    /\ StoreUnchanged

CommitteeSaveSession(c) ==
    /\ At(c, "committee_save_session")
    /\ SaveSession(call[c].ses)
    /\ Goto(c, "committee_save_job")

CommitteeSaveJob(c) ==
    /\ At(c, "committee_save_job")
    /\ SaveJob(call[c].job, call[c].row)
    /\ Hold(c, [call[c] EXCEPT !.pc = "committee_check", !.mine = @ \union {call[c].job}])

\* Mutant: a refused role raises without failing the started ones.
CommitteeKeepPartial(c) ==
    /\ At(c, "committee_rollback")
    /\ Return(c)
    /\ StoreUnchanged

\* _fail_partial_trio: the jobs this call started, if still open, are failed.
CommitteeRollback(c) ==
    /\ At(c, "committee_rollback")
    /\ \/ call[c].mine = {} /\ Return(c)
       \/ \E j \in call[c].mine :
              /\ \A k \in call[c].mine : j <= k
              /\ \/ /\ jobs[j].status \in OpenJob
                    /\ Hold(c, [call[c] EXCEPT !.pc = "committee_fail", !.job = j, !.mine = @ \ {j},
                                               !.row = Status(jobs[j], "failed")])
                 \/ /\ jobs[j].status \notin OpenJob
                    /\ Hold(c, [call[c] EXCEPT !.mine = @ \ {j}])
    /\ StoreUnchanged

CommitteeFail(c) ==
    /\ At(c, "committee_fail")
    /\ SaveJob(call[c].job, call[c].row)
    /\ Goto(c, "committee_rollback")

RecordAnalysisRead(c) ==
    /\ Begin(c, "record_analysis")
    /\ \E j \in Job : Row(j) /\ Hold(c, [Idle EXCEPT !.pc = "analysis_job", !.job = j, !.ses = session])
    /\ StoreUnchanged

\* Mutant: the job is not compared with the latest freeze.
MayAnalyseAnyWave(ses, row) == row.status = "running" /\ row.type \in Role

\* A running committee job of the wave the session froze last.
MayAnalyse(ses, row) ==
    /\ row.status = "running" /\ row.type \in Role
    /\ ses.latest \in freezes.stored /\ row.wave = ses.latest

RecordAnalysisGate(c) ==
    /\ At(c, "analysis_job")
    /\ LET row == jobs[call[c].job]
       IN  \/ /\ MayAnalyse(call[c].ses, row)
              /\ Hold(c, [call[c] EXCEPT !.pc = "analysis_save", !.wave = row.wave,
                                         !.row = [row EXCEPT !.status = "completed", !.result = "analysis"]])
           \/ ~MayAnalyse(call[c].ses, row) /\ Return(c)
    /\ StoreUnchanged

RecordAnalysisSave(c) ==
    /\ At(c, "analysis_save")
    /\ SaveJob(call[c].job, call[c].row)
    /\ Goto(c, "analysis_track")

\* Mutant: the run of the freeze is replaced, not extended.
RecordAnalysisTrackLast(c) ==
    /\ At(c, "analysis_track")
    /\ SaveSession([call[c].ses EXCEPT !.status = IF @ = "freezing" THEN "analyzing" ELSE @,
                                       !.runs[call[c].wave] = {call[c].job}])
    /\ Return(c)

\* The session row read at the start is saved with the job in this freeze's run.
RecordAnalysisTrack(c) ==
    /\ At(c, "analysis_track")
    /\ SaveSession([call[c].ses EXCEPT !.status = IF @ = "freezing" THEN "analyzing" ELSE @,
                                       !.runs[call[c].wave] = @ \union {call[c].job}])
    /\ Return(c)

-----------------------------------------------------------------------------
(* Deciding the next wave and finalizing *)

DecideRead(c) ==
    /\ Begin(c, "decide_wave")
    /\ Hold(c, [Idle EXCEPT !.pc = "decide_gate", !.ses = session])
    /\ StoreUnchanged

\* What the director may authorize: a wave under the ceiling, after a freeze, on
\* the latest dossier's residuals or on requests of a complete trio.
MayAuthorize(ses) ==
    /\ ses.latest \in freezes.stored
    /\ Cardinality(ses.frozen) < MaxWaves /\ 1 < MaxWaves
    /\ dossiers.latest = "residual" \/ TrioComplete(ses)
    /\ ses.wave < MaxWaveCounter

DecideGate(c) ==
    /\ At(c, "decide_gate")
    /\ \E authorized \in BOOLEAN :
           /\ authorized => MayAuthorize(call[c].ses)
           /\ Hold(c, [call[c] EXCEPT !.pc = "decide_settle", !.yes = authorized])
    /\ StoreUnchanged

NextWave(ses) == IF ses.wave > Cardinality(ses.frozen) THEN ses.wave + 1 ELSE Cardinality(ses.frozen) + 1

\* The session is read once more; a decision only moves an ANALYZING session.
DecideSettle(c) ==
    /\ At(c, "decide_settle")
    /\ LET authorized == [session EXCEPT !.status = "targeted_research", !.wave = NextWave(session)]
           settled == Status(session, "synthesizing")
       IN  \/ /\ session.status = "analyzing"
              /\ Hold(c, [Idle EXCEPT !.pc = "save_session", !.ses = IF call[c].yes THEN authorized ELSE settled])
           \/ session.status # "analyzing" /\ Return(c)
    /\ StoreUnchanged

FinalizeRead(c) ==
    /\ Begin(c, "finalize")
    /\ session.status \notin TerminalSession
    /\ Hold(c, [Idle EXCEPT !.pc = "final_trio", !.ses = session])
    /\ StoreUnchanged

\* Mutant: a freeze is enough, whoever was heard on it.
FinalizeUnheard(c) ==
    /\ At(c, "final_trio")
    /\ call[c].ses.latest \in freezes.stored
    /\ Hold(c, [call[c] EXCEPT !.pc = "final_open", !.wave = call[c].ses.latest])
    /\ StoreUnchanged

FinalizeTrio(c) ==
    /\ At(c, "final_trio")
    /\ LET ready == call[c].ses.latest \in freezes.stored /\ TrioComplete(call[c].ses)
       IN  \/ ready /\ Hold(c, [call[c] EXCEPT !.pc = "final_open", !.wave = call[c].ses.latest])
           \/ ~ready /\ Return(c)
    /\ StoreUnchanged

\* Mutant: open jobs do not stop the answer.
FinalizeOverOpenJobs(c) ==
    /\ At(c, "final_open")
    /\ Goto(c, "final_walk")
    /\ StoreUnchanged

FinalizeOpenJobs(c) ==
    /\ At(c, "final_open")
    /\ \/ ActiveJobs # {} /\ Return(c)
       \/ ActiveJobs = {} /\ Goto(c, "final_walk")
    /\ StoreUnchanged

FinalizeWalk(c) ==
    /\ At(c, "final_walk")
    /\ \/ /\ session.status = "analyzing"
          /\ Hold(c, [call[c] EXCEPT !.pc = "final_synth", !.ses = Status(session, "synthesizing")])
       \/ session.status # "analyzing" /\ Goto(c, "final_result")
    /\ StoreUnchanged

\* Mutant: the session is completed before its result is saved.
FinalizeSynthCompletes(c) ==
    /\ At(c, "final_synth")
    /\ SaveSession(Status(call[c].ses, "completed"))
    /\ Goto(c, "final_result")

FinalizeSynth(c) ==
    /\ At(c, "final_synth")
    /\ SaveSession(call[c].ses)
    /\ Goto(c, "final_result")

FinalizeResult(c) ==
    /\ At(c, "final_result")
    /\ Hold(c, [call[c] EXCEPT !.pc = "final_save", !.ses = [session EXCEPT !.final = call[c].wave]])
    /\ StoreUnchanged

\* The result is saved; only a SYNTHESIZING session then moves to COMPLETED.
FinalizeSave(c) ==
    /\ At(c, "final_save")
    /\ SaveSession(call[c].ses)
    /\ \/ /\ call[c].ses.status = "synthesizing"
          /\ Hold(c, [call[c] EXCEPT !.pc = "save_session", !.ses.status = "completed"])
       \/ call[c].ses.status # "synthesizing" /\ Return(c)

-----------------------------------------------------------------------------
(* The bridge process of a call dies between two store operations. *)
Crash(c) ==
    /\ MayCrash
    /\ ~At(c, "idle")
    /\ Return(c)
    /\ StoreUnchanged

JobStep(c) ==
    \/ StartJobRead(c) \/ RetryJobRead(c) \/ RetryJobSession(c)
    \/ CreateJobCheck(c) \/ CreateJobSaveSession(c) \/ CreateJobSaveJob(c)
    \/ SaveJobRow(c) \/ SaveSessionRow(c) \/ RunResearch(c)
    \/ CompleteJobRead(c) \/ CompleteJobStart(c) \/ CompleteJobSave(c) \/ AdvanceRead(c) \/ AdvanceSave(c)
    \/ CloseJobRead(c) \/ TouchJobRead(c) \/ CancelResearchRead(c)

EvidenceStep(c) ==
    \/ RecordEvidenceRead(c) \/ RecordEvidenceGate(c) \/ RecordEvidenceSave(c)
    \/ SubmitRead(c) \/ SubmitSession(c) \/ SubmitDossier(c) \/ SubmitLinkRead(c) \/ SubmitLinkSave(c)
    \/ FreezeRead(c) \/ FreezePlan(c) \/ FreezeResearch(c) \/ FreezeList(c)
    \/ FreezeOpenJobs(c) \/ FreezeSave(c) \/ FreezeTrack(c)

CommitteeStep(c) ==
    \/ CommitteeRoles(c) \/ CommitteeSession(c) \/ CommitteeCheck(c)
    \/ CommitteeSaveSession(c) \/ CommitteeSaveJob(c) \/ CommitteeRollback(c) \/ CommitteeFail(c)
    \/ RecordAnalysisRead(c) \/ RecordAnalysisGate(c) \/ RecordAnalysisSave(c) \/ RecordAnalysisTrack(c)

DirectorStep(c) ==
    \/ DecideRead(c) \/ DecideGate(c) \/ DecideSettle(c)
    \/ FinalizeRead(c) \/ FinalizeTrio(c) \/ FinalizeOpenJobs(c) \/ FinalizeWalk(c)
    \/ FinalizeSynth(c) \/ FinalizeResult(c) \/ FinalizeSave(c)

Next == \E c \in Client :
    JobStep(c) \/ EvidenceStep(c) \/ CommitteeStep(c) \/ DirectorStep(c) \/ Crash(c)

Spec == Init /\ [][Next]_vars

-----------------------------------------------------------------------------
(* What holds of every interleaving and every crash *)

\* A stored freeze holds only findings accepted into the ledger for its wave or an
\* earlier one (freeze_session lists the ledger; freezes and findings are insert-once).
FreezesFromLedger == \A w \in freezes.stored : freezes.ids[w] \subseteq WaveRecords(w)

\* The session row names only freezes that are stored, though it is written whole
\* from rows read long before: an analysis or an answer never cites a missing freeze.
SessionFreezesStored ==
    /\ session.frozen \subseteq freezes.stored
    /\ session.latest # 0 => session.latest \in session.frozen
    /\ session.final # 0 => session.final \in freezes.stored

\* An analysis is the result of a committee job on the wave of a stored freeze, and
\* committee_runs files a job only under its own wave, frozen by then.
AnalysesGrounded ==
    /\ \A j \in Job : jobs[j].result = "analysis" => jobs[j].type \in Role /\ jobs[j].wave \in freezes.stored
    /\ \A w \in Wave : \A j \in session.runs[w] :
           w \in freezes.stored /\ Row(j) /\ jobs[j].type \in Role /\ jobs[j].wave = w

\* Findings and freezes are never changed or removed, and a job never changes its
\* type or wave, although every service call saves whole rows (repository.py).
RecordsImmutable ==
    [][/\ \A e \in Evidence : ledger[e] # 0 => ledger'[e] = ledger[e]
       /\ \A w \in freezes.stored : w \in freezes'.stored /\ freezes'.ids[w] = freezes.ids[w]
       /\ \A j \in Job : Row(j) => /\ jobs'[j].status # "none"
                                   /\ jobs'[j].type = jobs[j].type /\ jobs'[j].wave = jobs[j].wave]_vars

(***************************************************************************)
(* The inductive invariant behind the four properties above.  What a call *)
(* has read is still true when it writes it: stored freezes, ledger rows  *)
(* and the type and wave of a job only ever appear, so a stale row is     *)
(* grounded though its status may be out of date.                         *)
(***************************************************************************)
SessionOK(ses) ==
    /\ ses.frozen \subseteq freezes.stored
    /\ ses.latest # 0 => ses.latest \in ses.frozen
    /\ ses.final # 0 => ses.final \in freezes.stored
    /\ \A w \in Wave : \A j \in ses.runs[w] :
           w \in freezes.stored /\ Row(j) /\ jobs[j].type \in Role /\ jobs[j].wave = w

Grounded(row) == row.result = "analysis" => row.type \in Role /\ row.wave \in freezes.stored

\* A row a call may save as job j: it is j's row but for status and result.
JobOK(j, row) ==
    /\ j \in Job /\ row.status # "none" /\ Grounded(row)
    /\ Row(j) => row.type = jobs[j].type /\ row.wave = jobs[j].wave

HoldsRow == {"create_save_session", "create_save_job", "save_job", "complete_start", "complete_save",
             "submit_session", "submit_dossier", "submit_read", "submit_link",
             "committee_save_session", "committee_save_job", "committee_fail", "analysis_save"}
HoldsJob == {"evidence_job", "analysis_job", "analysis_track"}
HoldsWave == {"freeze_planning", "freeze_researching", "freeze_list", "freeze_open", "freeze_save",
              "committee_session", "committee_check", "committee_save_session", "committee_save_job",
              "committee_rollback", "committee_fail"}
HoldsStored == {"freeze_track", "final_open", "final_walk", "final_synth", "final_result",
                "analysis_save", "analysis_track"}

CallOK(s) ==
    /\ SessionOK(s.ses)
    /\ s.pc \in HoldsRow => JobOK(s.job, s.row)
    /\ s.pc \in HoldsJob => s.job \in Job /\ Row(s.job)
    /\ s.pc \in HoldsWave => s.wave \in Wave
    /\ s.pc \in HoldsStored => s.wave \in freezes.stored
    /\ s.pc \in {"create_session", "create_check"} => s.row.status = "queued" /\ s.row.result = "none"
    /\ s.pc \in {"freeze_open", "freeze_save"} => s.seen \subseteq WaveRecords(s.wave)
    /\ s.pc = "analysis_save" => s.row.type \in Role /\ s.row.wave = s.wave
    /\ s.pc = "analysis_track" => jobs[s.job].type \in Role /\ jobs[s.job].wave = s.wave

\* Two calls that work on one job work on a job that has a row.
NoSharedFresh == \A c, d \in Client :
    c # d /\ call[c].job # 0 /\ call[c].job = call[d].job => Row(call[c].job)

\* Every snapshot a call of the service holds is grounded in the store, and no two
\* calls are creating the same job (service.py: rows are read, changed and saved whole).
SnapshotsGrounded ==
    /\ TypeOK
    /\ FreezesFromLedger
    /\ SessionOK(session)
    /\ \A j \in Job : Grounded(jobs[j])
    /\ \A c \in Client : CallOK(call[c])
    /\ NoSharedFresh

-----------------------------------------------------------------------------
(* What holds while one call runs at a time *)

Quiet == \A c \in Client : At(c, "idle")

\* "Terminal jobs return current state (no-op)" (complete_job, fail_job, cancel_job)
\* and "terminal reuse fails closed" (submit_source_result).
TerminalJobsStay == [][\A j \in Job : jobs[j].status \in TerminalJob => jobs'[j] = jobs[j]]_vars

\* A session that has frozen a wave holds no accepted finding of it outside the
\* stored freeze: what the committee reads is all that was accepted (freeze_session).
FreezeCoversWave ==
    \A w \in session.frozen : \A e \in Evidence : 0 < ledger[e] /\ ledger[e] <= w => e \in freezes.ids[w]

\* Between calls every recorded analysis is filed in the run of its freeze: a job
\* completed by record_committee_analysis and left out could never be recorded again.
AnalysesFiled ==
    Quiet => \A j \in Job : jobs[j].result = "analysis" => j \in session.runs[jobs[j].wave]

\* The step to COMPLETED is taken on the latest freeze, with its three analyses
\* recorded and no job of the session left open (finalize_session).
CompletedWhole ==
    [][session.status # "completed" /\ session'.status = "completed"
       => ActiveJobs = {} /\ TrioComplete(session) /\ session'.final = session.latest]_vars

\* Between calls no committee of a wave is half there: if a role has no job of the
\* wave, then none of the wave's committee jobs is open (_fail_partial_trio).
NoPartialTrio ==
    Quiet => \A w \in Wave : MissingRoles(w) # {} =>
                 \A j \in ActiveJobs : jobs[j].type \in Role => jobs[j].wave # w

\* The session's life as its user sees it (SessionLifecycle).
Lifecycle == INSTANCE SessionLifecycle WITH
    Waves <- Wave,
    status <- session.status,
    wave <- session.wave,
    frozen <- session.frozen,
    heard <- {w \in Wave : \A r \in Role : \E j \in session.runs[w] :
                               jobs[j].type = r /\ jobs[j].status = "completed"},
    answer <- session.final
ImplementsLifecycle == Lifecycle!LifecycleSpec

=============================================================================
