--------------------------- MODULE SingleCallProofs ---------------------------
(***************************************************************************)
(* Proofs about ResearchKernel while one service call runs at a time: any  *)
(* number of jobs, waves and findings, any order of the calls.  Then what  *)
(* a call has read is not only grounded (ResearchKernelProofs) but still   *)
(* the row of the store, so saving it whole changes only what the call     *)
(* means to change.                                                        *)
(* The bridge of a call may die inside it, between any two of its steps.   *)
(***************************************************************************)
EXTENDS ResearchKernelProofs

OneCall == \A c, d \in Client : c = d

\* The calls that will save the session row they have read, with a field changed.
ReadsSession == {"create_check", "create_save_session", "committee_check", "committee_save_session",
                 "committee_save_job", "evidence_job", "freeze_list", "freeze_open", "freeze_save", "freeze_track",
                 "analysis_job", "analysis_save", "analysis_track", "final_trio"}
\* The calls that create a job, and those that will change an open one.
Creates == {"create_save_session", "create_save_job", "committee_save_session", "committee_save_job"}
ChangesOpen == {"complete_start", "complete_save", "submit_session", "submit_dossier", "submit_read", "submit_link",
                "committee_fail", "analysis_save"}
Completes == {"complete_start", "complete_save", "submit_session", "submit_dossier", "submit_read", "submit_link"}
Answers == {"final_open", "final_walk", "final_synth", "final_result", "final_save"}

\* The session is ready for its answer: the trio of its latest freeze is heard.
Answerable(w) ==
    /\ session.status \notin TerminalSession
    /\ w # 0 /\ w = session.latest /\ TrioComplete(session)

\* The ways a store operation changes the session row.
Cancels(ses) == session.status \notin TerminalSession /\ ses = Status(session, "cancelled")
CatchesUp(ses) == ses.wave > session.wave /\ ses = [session EXCEPT !.wave = ses.wave]
Settles(ses) ==
    /\ session.status = "analyzing"
    /\ \/ ses = Status(session, "synthesizing")
       \/ ses.wave >= session.wave /\ ses = [session EXCEPT !.status = "targeted_research", !.wave = ses.wave]
Ends(ses) ==
    /\ session.status = "synthesizing" /\ ses = Status(session, "completed")
    /\ Answerable(session.final) /\ ActiveJobs = {}

Plans(ses) ==
    \/ session.status = "created" /\ ses = Status(session, "planning")
    \/ session.status = "planning" /\ ses = Status(session, "researching")
LinksDossier(ses) == \E w \in Wave : ses = [session EXCEPT !.dossiers = @ \union {w}]
TracksFreeze(ses) == \E w \in freezes.stored : FreezeReady(session.status, w) /\ ses = Tracked(session, w)
FilesAnalysis(ses) ==
    /\ session.latest # 0
    /\ \E j \in Job :
           /\ jobs[j].status = "completed" /\ jobs[j].result = "analysis"
           /\ ses = [session EXCEPT !.status = IF @ = "freezing" THEN "analyzing" ELSE @,
                                    !.runs[session.latest] = @ \union {j}]
GivesAnswer(ses) == \E w \in Wave : Answerable(w) /\ ses = [session EXCEPT !.final = w]

\* What one step does to the session row and the jobs: it changes at most one row.
SessionMove ==
    /\ jobs' = jobs
    /\ \/ session' = session \/ Plans(session') \/ LinksDossier(session') \/ TracksFreeze(session')
       \/ FilesAnalysis(session') \/ GivesAnswer(session')
       \/ Cancels(session') \/ CatchesUp(session') \/ Settles(session') \/ Ends(session')
JobMove ==
    /\ session' = session
    /\ \E j \in Job, row \in JobRow :
           /\ jobs' = [jobs EXCEPT ![j] = row]
           /\ row = jobs[j] \/ jobs[j].status \notin TerminalJob
           /\ row.result = "analysis" => row.status = "completed"
OneMove == SessionMove \/ JobMove

\* What a call holds is what the store holds, but for the fields the call changes.
SessionCurrent(s) ==
    /\ s.pc \in ReadsSession => s.ses = session
    /\ s.pc = "freeze_planning" => session.status = "created" /\ s.ses = Status(session, "planning")
    /\ s.pc = "freeze_researching" => session.status = "planning" /\ s.ses = Status(session, "researching")
    /\ s.pc \in {"freeze_list", "freeze_open", "freeze_save", "freeze_track"} => FreezeReady(session.status, s.wave)
    /\ s.pc \in {"analysis_save", "analysis_track"} => s.wave = session.latest
    /\ s.pc = "submit_link" => \E w \in Wave : s.ses = [session EXCEPT !.dossiers = @ \union {w}]
    /\ s.pc = "advance_save" => CatchesUp(s.ses)
    /\ s.pc = "save_session" => Cancels(s.ses) \/ CatchesUp(s.ses) \/ Settles(s.ses) \/ Ends(s.ses)
    /\ s.pc = "final_trio" => session.status \notin TerminalSession
    /\ s.pc \in Answers => Answerable(s.wave)
    /\ s.pc \in Answers \ {"final_open"} => ActiveJobs = {}
    /\ s.pc = "final_synth" => session.status = "analyzing" /\ s.ses = Status(session, "synthesizing")
    /\ s.pc = "final_save" => s.ses = [session EXCEPT !.final = s.wave]

JobCurrent(s) ==
    /\ s.pc \in Creates => ~Row(s.job) /\ s.row.status \in OpenJob /\ s.row.result = "none"
    /\ s.pc = "save_job" => \/ s.row = jobs[s.job]
                            \/ jobs[s.job].status \in OpenJob /\ s.row.result # "analysis"
    /\ s.pc \in ChangesOpen => jobs[s.job].status \in OpenJob
    /\ s.pc \in Completes => s.row.status = "running" /\ s.row.result = "outcome"
    /\ s.pc = "committee_fail" => s.row.status = "failed" /\ s.row.result # "analysis"
    /\ s.pc = "analysis_save" => s.row.status = "completed" /\ s.row.result = "analysis"
    /\ s.pc = "analysis_track" => jobs[s.job].status = "completed" /\ jobs[s.job].result = "analysis"

\* An analysis is the result of a completed job, and only analyses are filed.
JobsDone ==
    /\ \A j \in Job : jobs[j].result = "analysis" => jobs[j].status = "completed"
    /\ \A w \in Wave : \A j \in session.runs[w] : jobs[j].result = "analysis"

CallsCurrent == \A c \in Client : SessionCurrent(call[c]) /\ JobCurrent(call[c])

RowsCurrent == Inv /\ JobsDone /\ CallsCurrent

-----------------------------------------------------------------------------
(* Lemmas on calls *)

LEMMA CurrentFacts ==
  ASSUME RowsCurrent, NEW c \in Client
  PROVE  /\ Inv /\ JobsDone /\ SessionCurrent(call[c]) /\ JobCurrent(call[c])
         /\ session \in SessionRow /\ jobs \in [Job -> JobRow]
         /\ call \in [Client -> CallState] /\ call[c] \in CallState /\ CallOK(call[c])
         /\ SessionOK(session)
  BY InvFacts DEF RowsCurrent, CallsCurrent, TypeOK

\* With one call at a time, what the acting call holds is what any call holds.
LEMMA HoldCurrent ==
  ASSUME OneCall, RowsCurrent, NEW c \in Client, NEW s, Hold(c, s),
         SessionCurrent(s)', JobCurrent(s)'
  PROVE  CallsCurrent'
  <1>1. \A d \in Client : d = c
    BY DEF OneCall
  <1>2. call' = [call EXCEPT ![c] = s] /\ call \in [Client -> CallState]
    BY CurrentFacts DEF Hold
  <1>3. call'[c] = s
    BY <1>2
  <1>4. SessionCurrent(call[c])' /\ JobCurrent(call[c])'
    BY <1>3 DEF SessionCurrent, JobCurrent, Answerable, Cancels, CatchesUp, Settles, Ends, Row
  <1> QED
    BY <1>1, <1>4 DEF CallsCurrent

LEMMA SameRowsCurrent ==
  ASSUME session' = session, jobs' = jobs, NEW s, SessionCurrent(s), JobCurrent(s)
  PROVE  SessionCurrent(s)' /\ JobCurrent(s)'
  <1>1. ActiveJobs' = ActiveJobs
    BY DEF ActiveJobs
  <1>2. ASSUME NEW w
        PROVE  Answerable(w)' <=> Answerable(w)
    BY DEF Answerable, TrioComplete
  <1>3. Ends(s.ses)' <=> Ends(s.ses)
    BY <1>1, <1>2 DEF Ends
  <1>4. /\ Cancels(s.ses)' <=> Cancels(s.ses)
        /\ CatchesUp(s.ses)' <=> CatchesUp(s.ses)
        /\ Settles(s.ses)' <=> Settles(s.ses)
    BY DEF Cancels, CatchesUp, Settles
  <1>5. SessionCurrent(s)'
    BY <1>1, <1>2, <1>3, <1>4 DEF SessionCurrent
  <1>6. JobCurrent(s)'
    BY DEF JobCurrent, Row
  <1> QED
    BY <1>5, <1>6

\* A read: the store stays, and the call holds what is current.
LEMMA ReadCurrent ==
  ASSUME OneCall, RowsCurrent, NEW c \in Client, StoreUnchanged, NEW s, Hold(c, s),
         SessionCurrent(s), JobCurrent(s)
  PROVE  CallsCurrent' /\ JobsDone'
  <1>1. session' = session /\ jobs' = jobs
    BY DEF StoreUnchanged, store
  <1>2. SessionCurrent(s)' /\ JobCurrent(s)'
    BY <1>1, SameRowsCurrent
  <1>3. JobsDone'
    BY <1>1 DEF RowsCurrent, JobsDone
  <1> QED
    BY <1>2, <1>3, HoldCurrent

LEMMA IdleCurrent == SessionCurrent(Idle) /\ JobCurrent(Idle)
  BY DEF SessionCurrent, JobCurrent, Idle, ReadsSession, Creates, ChangesOpen, Completes, Answers

\* A call that returns, or crashes, holds nothing.
LEMMA ReturnCurrent ==
  ASSUME OneCall, RowsCurrent, NEW c \in Client, Return(c)
  PROVE  CallsCurrent'
  <1>1. SessionCurrent(Idle)' /\ JobCurrent(Idle)'
    BY DEF SessionCurrent, JobCurrent, Idle, ReadsSession, Creates, ChangesOpen, Completes, Answers
  <1>2. PICK s : s = Idle /\ Hold(c, s)
    BY DEF Return
  <1> QED
    BY <1>1, <1>2, HoldCurrent DEF Return

\* What a call that has just begun holds.
LEMMA BeginCurrent ==
  ASSUME OneCall, RowsCurrent, NEW c \in Client,
         \/ StartJobRead(c) \/ RetryJobRead(c) \/ RunResearch(c) \/ CompleteJobRead(c)
         \/ CloseJobRead(c) \/ TouchJobRead(c) \/ CancelResearchRead(c)
         \/ RecordEvidenceRead(c) \/ SubmitRead(c) \/ CommitteeRoles(c) \/ RecordAnalysisRead(c)
         \/ DecideRead(c) \/ FinalizeRead(c)
  PROVE  CallsCurrent' /\ JobsDone'
  <1> USE DEF ReadsSession, Creates, ChangesOpen, Completes, Answers
  <1>f. /\ JobsDone /\ session \in SessionRow /\ jobs \in [Job -> JobRow]
    BY CurrentFacts
  <1>1. CASE StartJobRead(c)
    <2>1. PICK w \in Wave : Hold(c, [Idle EXCEPT !.pc = "create_check", !.wave = w, !.ses = session, !.yes = TRUE,
                                             !.row = [NoRow EXCEPT !.wave = w, !.status = "queued"]])
      BY <1>1 DEF StartJobRead
    <2> DEFINE s == [Idle EXCEPT !.pc = "create_check", !.wave = w, !.ses = session, !.yes = TRUE,
                                             !.row = [NoRow EXCEPT !.wave = w, !.status = "queued"]]
    <2>2. SessionCurrent(s) /\ JobCurrent(s)
      BY DEF SessionCurrent, JobCurrent, Idle
    <2> QED
      BY <1>1, <2>1, <2>2, ReadCurrent DEF StartJobRead
  <1>2. CASE RetryJobRead(c)
    <2>1. PICK j \in Job : Hold(c, [Idle EXCEPT !.pc = "create_session", !.wave = jobs[j].wave,
                                   !.row = [jobs[j] EXCEPT !.status = "queued", !.result = "none"]])
      BY <1>2 DEF RetryJobRead
    <2> DEFINE s == [Idle EXCEPT !.pc = "create_session", !.wave = jobs[j].wave,
                                   !.row = [jobs[j] EXCEPT !.status = "queued", !.result = "none"]]
    <2>2. SessionCurrent(s) /\ JobCurrent(s)
      BY DEF SessionCurrent, JobCurrent, Idle
    <2> QED
      BY <1>2, <2>1, <2>2, ReadCurrent DEF RetryJobRead
  <1>3. CASE RunResearch(c)
    <2>1. PICK j \in Job : jobs[j].status = "queued" /\
              Hold(c, [Idle EXCEPT !.pc = "save_job", !.job = j, !.row = Status(jobs[j], "running")])
      BY <1>3 DEF RunResearch
    <2> DEFINE s == [Idle EXCEPT !.pc = "save_job", !.job = j, !.row = Status(jobs[j], "running")]
    <2>2. s.pc = "save_job" /\ s.job = j /\ s.row = Status(jobs[j], "running")
      BY DEF Idle
    <2>3. jobs[j].status \in OpenJob /\ Status(jobs[j], "running").result # "analysis"
      BY <1>f, <2>1 DEF OpenJob, Status, JobRow, JobsDone
    <2> HIDE DEF s
    <2>4. SessionCurrent(s) /\ JobCurrent(s)
      BY <2>2, <2>3 DEF SessionCurrent, JobCurrent
    <2> QED
      BY <1>3, <2>1, <2>4, ReadCurrent DEF RunResearch, s
  <1>4. CASE CompleteJobRead(c)
    <2>1. PICK j \in ActiveJobs :
              Hold(c, [Idle EXCEPT !.pc = IF jobs[j].status = "queued" THEN "complete_start" ELSE "complete_save",
                                !.job = j, !.row = [jobs[j] EXCEPT !.status = "running", !.result = "outcome"]])
      BY <1>4 DEF CompleteJobRead
    <2>2. PICK l \in {"complete_start", "complete_save"} :
              l = IF jobs[j].status = "queued" THEN "complete_start" ELSE "complete_save"
      OBVIOUS
    <2> DEFINE s == [Idle EXCEPT !.pc = l, !.job = j, !.row = [jobs[j] EXCEPT !.status = "running", !.result = "outcome"]]
    <2>3. s.pc = l /\ s.job = j /\ s.row = [jobs[j] EXCEPT !.status = "running", !.result = "outcome"]
      BY DEF Idle
    <2>4. jobs[j].status \in OpenJob /\ jobs[j] \in JobRow
      BY <1>f DEF ActiveJobs
    <2>5. s.row.status = "running" /\ s.row.result = "outcome"
      BY <2>3, <2>4 DEF JobRow
    <2>6. Hold(c, s)
      BY <2>1, <2>2
    <2> HIDE DEF s
    <2>7. SessionCurrent(s) /\ JobCurrent(s)
      BY <2>2, <2>3, <2>4, <2>5 DEF SessionCurrent, JobCurrent
    <2> QED
      BY <1>4, <2>6, <2>7, ReadCurrent DEF CompleteJobRead
  <1>5. CASE CloseJobRead(c)
    <2>1. PICK j \in ActiveJobs, new \in {"failed", "cancelled"} :
              Hold(c, [Idle EXCEPT !.pc = "save_job", !.job = j, !.row = Status(jobs[j], new)])
      BY <1>5 DEF CloseJobRead
    <2> DEFINE s == [Idle EXCEPT !.pc = "save_job", !.job = j, !.row = Status(jobs[j], new)]
    <2>2. s.pc = "save_job" /\ s.job = j /\ s.row = Status(jobs[j], new)
      BY DEF Idle
    <2>3. jobs[j].status \in OpenJob /\ Status(jobs[j], new).result # "analysis"
      BY <1>f, <2>1 DEF OpenJob, Status, JobRow, JobsDone, ActiveJobs
    <2> HIDE DEF s
    <2>4. SessionCurrent(s) /\ JobCurrent(s)
      BY <2>2, <2>3 DEF SessionCurrent, JobCurrent
    <2> QED
      BY <1>5, <2>1, <2>4, ReadCurrent DEF CloseJobRead, s
  <1>6. CASE TouchJobRead(c)
    <2>1. PICK j \in Job : Hold(c, [Idle EXCEPT !.pc = "save_job", !.job = j, !.row = jobs[j]])
      BY <1>6 DEF TouchJobRead
    <2> DEFINE s == [Idle EXCEPT !.pc = "save_job", !.job = j, !.row = jobs[j]]
    <2>2. SessionCurrent(s) /\ JobCurrent(s)
      BY DEF SessionCurrent, JobCurrent, Idle
    <2> QED
      BY <1>6, <2>1, <2>2, ReadCurrent DEF TouchJobRead
  <1>7. CASE CancelResearchRead(c)
    <2> DEFINE s == [Idle EXCEPT !.pc = "save_session", !.ses = [session EXCEPT !.status = "cancelled"]]
    <2>1. Cancels([session EXCEPT !.status = "cancelled"])
      BY <1>7 DEF CancelResearchRead, Cancels, Status
    <2>2. SessionCurrent(s) /\ JobCurrent(s)
      BY <2>1 DEF SessionCurrent, JobCurrent, Idle
    <2> QED
      BY <1>7, <2>2, ReadCurrent DEF CancelResearchRead
  <1>8. CASE RecordEvidenceRead(c)
    <2>1. PICK j \in Job : Hold(c, [Idle EXCEPT !.pc = "evidence_job", !.job = j, !.ses = session])
      BY <1>8 DEF RecordEvidenceRead
    <2> DEFINE s == [Idle EXCEPT !.pc = "evidence_job", !.job = j, !.ses = session]
    <2>2. SessionCurrent(s) /\ JobCurrent(s)
      BY DEF SessionCurrent, JobCurrent, Idle
    <2> QED
      BY <1>8, <2>1, <2>2, ReadCurrent DEF RecordEvidenceRead
  <1>9. CASE SubmitRead(c)
    <2>1. PICK j \in Job : /\ jobs[j].status = "running"
                           /\ Hold(c, [Idle EXCEPT !.pc = "submit_session", !.job = j,
                                                   !.row = [jobs[j] EXCEPT !.result = "outcome"]])
      BY <1>9 DEF SubmitRead
    <2> DEFINE s == [Idle EXCEPT !.pc = "submit_session", !.job = j, !.row = [jobs[j] EXCEPT !.result = "outcome"]]
    <2>2. s.pc = "submit_session" /\ s.job = j /\ s.row = [jobs[j] EXCEPT !.result = "outcome"]
      BY DEF Idle
    <2>3. s.row.status = "running" /\ s.row.result = "outcome" /\ jobs[j].status \in OpenJob
      BY <1>f, <2>1, <2>2 DEF OpenJob, JobRow
    <2> HIDE DEF s
    <2>4. SessionCurrent(s) /\ JobCurrent(s)
      BY <2>2, <2>3 DEF SessionCurrent, JobCurrent
    <2> QED
      BY <1>9, <2>1, <2>4, ReadCurrent DEF SubmitRead, s
  <1>10. CASE CommitteeRoles(c)
    <2>1. PICK w \in Wave : Hold(c, [Idle EXCEPT !.pc = "committee_session", !.wave = w, !.todo = MissingRoles(w)])
      BY <1>10 DEF CommitteeRoles
    <2> DEFINE s == [Idle EXCEPT !.pc = "committee_session", !.wave = w, !.todo = MissingRoles(w)]
    <2>2. SessionCurrent(s) /\ JobCurrent(s)
      BY DEF SessionCurrent, JobCurrent, Idle
    <2> QED
      BY <1>10, <2>1, <2>2, ReadCurrent DEF CommitteeRoles
  <1>11. CASE RecordAnalysisRead(c)
    <2>1. PICK j \in Job : Hold(c, [Idle EXCEPT !.pc = "analysis_job", !.job = j, !.ses = session])
      BY <1>11 DEF RecordAnalysisRead
    <2> DEFINE s == [Idle EXCEPT !.pc = "analysis_job", !.job = j, !.ses = session]
    <2>2. SessionCurrent(s) /\ JobCurrent(s)
      BY DEF SessionCurrent, JobCurrent, Idle
    <2> QED
      BY <1>11, <2>1, <2>2, ReadCurrent DEF RecordAnalysisRead
  <1>12. CASE DecideRead(c)
    <2> DEFINE s == [Idle EXCEPT !.pc = "decide_gate", !.ses = session]
    <2>2. SessionCurrent(s) /\ JobCurrent(s)
      BY DEF SessionCurrent, JobCurrent, Idle
    <2> QED
      BY <1>12, <2>2, ReadCurrent DEF DecideRead
  <1>13. CASE FinalizeRead(c)
    <2> DEFINE s == [Idle EXCEPT !.pc = "final_trio", !.ses = session]
    <2>1. session.status \notin TerminalSession
      BY <1>13 DEF FinalizeRead
    <2>2. SessionCurrent(s) /\ JobCurrent(s)
      BY <2>1 DEF SessionCurrent, JobCurrent, Idle
    <2> QED
      BY <1>13, <2>2, ReadCurrent DEF FinalizeRead
  <1> QED
    BY <1>1, <1>2, <1>3, <1>4, <1>5, <1>6, <1>7, <1>8, <1>9, <1>10, <1>11, <1>12, <1>13

\* A read after which the call returns.
LEMMA GivesUpCurrent ==
  ASSUME OneCall, RowsCurrent, NEW c \in Client, StoreUnchanged, Return(c)
  PROVE  CallsCurrent' /\ JobsDone'
  BY IdleCurrent, ReadCurrent DEF Return

\* The reads inside a call that ends by saving one job or one evidence row.
LEMMA JobReadsCurrent ==
  ASSUME OneCall, RowsCurrent, NEW c \in Client,
         \/ RetryJobSession(c) \/ CreateJobCheck(c) \/ AdvanceRead(c)
         \/ RecordEvidenceGate(c) \/ SubmitSession(c) \/ SubmitLinkRead(c)
  PROVE  CallsCurrent' /\ JobsDone'
  <1> USE DEF ReadsSession, Creates, ChangesOpen, Completes, Answers
  <1>f. /\ JobsDone /\ session \in SessionRow /\ jobs \in [Job -> JobRow]
        /\ call \in [Client -> CallState] /\ call[c] \in CallState
        /\ SessionCurrent(call[c]) /\ JobCurrent(call[c]) /\ CallOK(call[c])
    BY CurrentFacts
  <1>p. PICK t \in CallState : t = call[c]
    BY <1>f
  <1>g. SessionCurrent(t) /\ JobCurrent(t) /\ CallOK(t)
    BY <1>f, <1>p
  <1>1. CASE RetryJobSession(c)
    <2> DEFINE s == [t EXCEPT !.pc = "create_check", !.ses = session]
    <2>1. Hold(c, s) /\ StoreUnchanged
      BY <1>1, <1>p DEF RetryJobSession
    <2>2. s.pc = "create_check" /\ s.ses = session
      BY DEF CallState
    <2> HIDE DEF s
    <2>3. SessionCurrent(s) /\ JobCurrent(s)
      BY <2>2 DEF SessionCurrent, JobCurrent
    <2> QED
      BY <2>1, <2>3, ReadCurrent
  <1>2. CASE CreateJobCheck(c)
    <2>1. CASE Return(c)
      BY <1>2, <2>1, GivesUpCurrent DEF CreateJobCheck
    <2>2. CASE ~Return(c)
      <3>1. /\ t.pc = "create_check" /\ FreshJobs # {}
            /\ Hold(c, [t EXCEPT !.pc = "create_save_session", !.job = NewJob]) /\ StoreUnchanged
        BY <1>2, <1>p, <2>2 DEF CreateJobCheck, At, Admit
      <3>2. PICK j \in FreshJobs : j = NewJob
        BY <3>1 DEF NewJob
      <3> DEFINE s == [t EXCEPT !.pc = "create_save_session", !.job = j]
      <3>3. s.pc = "create_save_session" /\ s.ses = t.ses /\ s.job = j /\ s.row = t.row
        BY DEF CallState
      <3>4. t.ses = session /\ t.row.status = "queued" /\ t.row.result = "none" /\ ~Row(j)
        BY <1>g, <3>1, <3>2 DEF SessionCurrent, CallOK, FreshJobs, Row
      <3>5. Hold(c, s)
        BY <3>1, <3>2
      <3> HIDE DEF s
      <3>6. SessionCurrent(s) /\ JobCurrent(s)
        BY <3>3, <3>4 DEF SessionCurrent, JobCurrent, OpenJob
      <3> QED
        BY <3>1, <3>5, <3>6, ReadCurrent
    <2> QED
      BY <2>1, <2>2
  <1>3. CASE AdvanceRead(c)
    <2>1. CASE Return(c)
      BY <1>3, <2>1, GivesUpCurrent DEF AdvanceRead
    <2>2. CASE ~Return(c)
      <3>1. /\ t.row.wave > session.wave /\ StoreUnchanged
            /\ Hold(c, [t EXCEPT !.pc = "advance_save", !.ses = [session EXCEPT !.wave = t.row.wave]])
        BY <1>3, <1>p, <2>2 DEF AdvanceRead
      <3> DEFINE s == [t EXCEPT !.pc = "advance_save", !.ses = [session EXCEPT !.wave = t.row.wave]]
      <3>2. s.pc = "advance_save" /\ s.ses = [session EXCEPT !.wave = t.row.wave]
        BY DEF CallState
      <3>3. CatchesUp([session EXCEPT !.wave = t.row.wave])
        BY <1>f, <3>1 DEF CatchesUp, SessionRow
      <3> HIDE DEF s
      <3>4. SessionCurrent(s) /\ JobCurrent(s)
        BY <3>2, <3>3 DEF SessionCurrent, JobCurrent
      <3> QED
        BY <3>1, <3>4, ReadCurrent DEF s
    <2> QED
      BY <2>1, <2>2
  <1>4. CASE RecordEvidenceGate(c)
    <2>1. CASE Return(c)
      BY <1>4, <2>1, GivesUpCurrent DEF RecordEvidenceGate
    <2>2. CASE ~Return(c)
      <3>1. Hold(c, [t EXCEPT !.pc = "evidence_save", !.row = jobs[t.job]]) /\ StoreUnchanged
        BY <1>4, <1>p, <2>2 DEF RecordEvidenceGate
      <3> DEFINE s == [t EXCEPT !.pc = "evidence_save", !.row = jobs[t.job]]
      <3>2. s.pc = "evidence_save"
        BY DEF CallState
      <3> HIDE DEF s
      <3>3. SessionCurrent(s) /\ JobCurrent(s)
        BY <3>2 DEF SessionCurrent, JobCurrent
      <3> QED
        BY <3>1, <3>3, ReadCurrent DEF s
    <2> QED
      BY <2>1, <2>2
  <1>5. CASE SubmitSession(c)
    <2>1. CASE Return(c)
      BY <1>5, <2>1, GivesUpCurrent DEF SubmitSession
    <2>2. CASE ~Return(c)
      <3>1. t.pc = "submit_session" /\ Goto(c, "submit_dossier") /\ StoreUnchanged
        BY <1>5, <1>p, <2>2 DEF SubmitSession, At
      <3> DEFINE s == [t EXCEPT !.pc = "submit_dossier"]
      <3>2. Hold(c, s)
        BY <1>f, <1>p, <3>1 DEF Goto, Hold
      <3>3. s.pc = "submit_dossier" /\ s.job = t.job /\ s.row = t.row
        BY DEF CallState
      <3>4. jobs[t.job].status \in OpenJob /\ t.row.status = "running" /\ t.row.result = "outcome"
        BY <1>g, <3>1 DEF JobCurrent
      <3> HIDE DEF s
      <3>5. SessionCurrent(s) /\ JobCurrent(s)
        BY <3>3, <3>4 DEF SessionCurrent, JobCurrent
      <3> QED
        BY <3>1, <3>2, <3>5, ReadCurrent
    <2> QED
      BY <2>1, <2>2
  <1>6. CASE SubmitLinkRead(c)
    <2>0. /\ t.pc = "submit_read" /\ StoreUnchanged
          /\ \/ Goto(c, "complete_save")
             \/ Hold(c, [t EXCEPT !.pc = "submit_link", !.ses = [session EXCEPT !.dossiers = @ \union {t.row.wave}]])
      BY <1>6, <1>p DEF SubmitLinkRead, At
    <2>1. jobs[t.job].status \in OpenJob /\ t.row.status = "running" /\ t.row.result = "outcome" /\ t.row.wave \in Wave
      BY <1>g, <2>0 DEF JobCurrent, CallState, JobRow
    <2>2. CASE Goto(c, "complete_save")
      <3> DEFINE s == [t EXCEPT !.pc = "complete_save"]
      <3>1. Hold(c, s)
        BY <1>f, <1>p, <2>2 DEF Goto, Hold
      <3>2. s.pc = "complete_save" /\ s.job = t.job /\ s.row = t.row
        BY DEF CallState
      <3> HIDE DEF s
      <3>3. SessionCurrent(s) /\ JobCurrent(s)
        BY <2>1, <3>2 DEF SessionCurrent, JobCurrent
      <3> QED
        BY <2>0, <3>1, <3>3, ReadCurrent
    <2>3. CASE Hold(c, [t EXCEPT !.pc = "submit_link", !.ses = [session EXCEPT !.dossiers = @ \union {t.row.wave}]])
      <3> DEFINE s == [t EXCEPT !.pc = "submit_link", !.ses = [session EXCEPT !.dossiers = @ \union {t.row.wave}]]
      <3>1. /\ s.pc = "submit_link" /\ s.job = t.job /\ s.row = t.row
            /\ s.ses = [session EXCEPT !.dossiers = @ \union {t.row.wave}]
        BY DEF CallState
      <3>2. \E w \in Wave : s.ses = [session EXCEPT !.dossiers = @ \union {w}]
        BY <2>1, <3>1
      <3> HIDE DEF s
      <3>3. SessionCurrent(s) /\ JobCurrent(s)
        BY <2>1, <3>1, <3>2 DEF SessionCurrent, JobCurrent
      <3> QED
        BY <2>0, <2>3, <3>3, ReadCurrent DEF s
    <2> QED
      BY <2>0, <2>2, <2>3
  <1> QED
    BY <1>1, <1>2, <1>3, <1>4, <1>5, <1>6

\* The reads inside a freeze, a committee and the recording of an analysis.
LEMMA WaveReadsCurrent ==
  ASSUME OneCall, RowsCurrent, NEW c \in Client,
         \/ FreezeRead(c) \/ FreezeList(c) \/ FreezeOpenJobs(c)
         \/ CommitteeSession(c) \/ CommitteeCheck(c) \/ CommitteeRollback(c) \/ RecordAnalysisGate(c)
  PROVE  CallsCurrent' /\ JobsDone'
  <1> USE DEF ReadsSession, Creates, ChangesOpen, Completes, Answers
  <1>f. /\ JobsDone /\ session \in SessionRow /\ jobs \in [Job -> JobRow]
        /\ call \in [Client -> CallState] /\ call[c] \in CallState
        /\ SessionCurrent(call[c]) /\ JobCurrent(call[c]) /\ CallOK(call[c])
    BY CurrentFacts
  <1>p. PICK t \in CallState : t = call[c]
    BY <1>f
  <1>g. SessionCurrent(t) /\ JobCurrent(t) /\ CallOK(t)
    BY <1>f, <1>p
  <1>1. CASE FreezeRead(c)
    <2>0. PICK w \in Wave :
             \/ /\ session.status = "created"
                /\ Hold(c, [Idle EXCEPT !.pc = "freeze_planning", !.wave = w, !.ses = Status(session, "planning")])
             \/ /\ session.status = "planning"
                /\ Hold(c, [Idle EXCEPT !.pc = "freeze_researching", !.wave = w, !.ses = Status(session, "researching")])
             \/ /\ FreezeReady(session.status, w)
                /\ Hold(c, [Idle EXCEPT !.pc = "freeze_list", !.wave = w, !.ses = session])
      BY <1>1 DEF FreezeRead
    <2>r. StoreUnchanged
      BY <1>1 DEF FreezeRead
    <2>1. CASE /\ session.status = "created"
               /\ Hold(c, [Idle EXCEPT !.pc = "freeze_planning", !.wave = w, !.ses = Status(session, "planning")])
      <3> DEFINE s == [Idle EXCEPT !.pc = "freeze_planning", !.wave = w, !.ses = Status(session, "planning")]
      <3>1. SessionCurrent(s) /\ JobCurrent(s)
        BY <2>1 DEF SessionCurrent, JobCurrent, Idle
      <3> QED
        BY <2>r, <2>1, <3>1, ReadCurrent
    <2>2. CASE /\ session.status = "planning"
               /\ Hold(c, [Idle EXCEPT !.pc = "freeze_researching", !.wave = w, !.ses = Status(session, "researching")])
      <3> DEFINE s == [Idle EXCEPT !.pc = "freeze_researching", !.wave = w, !.ses = Status(session, "researching")]
      <3>1. SessionCurrent(s) /\ JobCurrent(s)
        BY <2>2 DEF SessionCurrent, JobCurrent, Idle
      <3> QED
        BY <2>r, <2>2, <3>1, ReadCurrent
    <2>3. CASE /\ FreezeReady(session.status, w)
               /\ Hold(c, [Idle EXCEPT !.pc = "freeze_list", !.wave = w, !.ses = session])
      <3> DEFINE s == [Idle EXCEPT !.pc = "freeze_list", !.wave = w, !.ses = session]
      <3>1. SessionCurrent(s) /\ JobCurrent(s)
        BY <2>3 DEF SessionCurrent, JobCurrent, Idle
      <3> QED
        BY <2>r, <2>3, <3>1, ReadCurrent
    <2> QED
      BY <2>0, <2>1, <2>2, <2>3
  <1>2. CASE FreezeList(c)
    <2>1. t.pc = "freeze_list" /\ StoreUnchanged /\ Hold(c, [t EXCEPT !.pc = "freeze_open", !.seen = WaveRecords(t.wave)])
      BY <1>2, <1>p DEF FreezeList, At
    <2> DEFINE s == [t EXCEPT !.pc = "freeze_open", !.seen = WaveRecords(t.wave)]
    <2>2. s.pc = "freeze_open" /\ s.ses = t.ses /\ s.wave = t.wave
      BY DEF CallState
    <2>3. t.ses = session /\ FreezeReady(session.status, t.wave)
      BY <1>g, <2>1 DEF SessionCurrent
    <2> HIDE DEF s
    <2>4. SessionCurrent(s) /\ JobCurrent(s)
      BY <2>2, <2>3 DEF SessionCurrent, JobCurrent
    <2> QED
      BY <2>1, <2>4, ReadCurrent DEF s
  <1>3. CASE FreezeOpenJobs(c)
    <2>1. CASE Return(c)
      BY <1>3, <2>1, GivesUpCurrent DEF FreezeOpenJobs
    <2>2. CASE ~Return(c)
      <3>1. t.pc = "freeze_open" /\ StoreUnchanged /\ Goto(c, "freeze_save")
        BY <1>3, <1>p, <2>2 DEF FreezeOpenJobs, At
      <3> DEFINE s == [t EXCEPT !.pc = "freeze_save"]
      <3>2. Hold(c, s)
        BY <1>f, <1>p, <3>1 DEF Goto, Hold
      <3>3. s.pc = "freeze_save" /\ s.ses = t.ses /\ s.wave = t.wave
        BY DEF CallState
      <3>4. t.ses = session /\ FreezeReady(session.status, t.wave)
        BY <1>g, <3>1 DEF SessionCurrent
      <3> HIDE DEF s
      <3>5. SessionCurrent(s) /\ JobCurrent(s)
        BY <3>3, <3>4 DEF SessionCurrent, JobCurrent
      <3> QED
        BY <3>1, <3>2, <3>5, ReadCurrent
    <2> QED
      BY <2>1, <2>2
  <1>4. CASE CommitteeSession(c)
    <2>1. StoreUnchanged /\ Hold(c, [t EXCEPT !.pc = "committee_check", !.ses = session])
      BY <1>4, <1>p DEF CommitteeSession
    <2> DEFINE s == [t EXCEPT !.pc = "committee_check", !.ses = session]
    <2>2. s.pc = "committee_check" /\ s.ses = session
      BY DEF CallState
    <2> HIDE DEF s
    <2>3. SessionCurrent(s) /\ JobCurrent(s)
      BY <2>2 DEF SessionCurrent, JobCurrent
    <2> QED
      BY <2>1, <2>3, ReadCurrent DEF s
  <1>5. CASE CommitteeCheck(c)
    <2>0. PICK role : role = NextRole(t.todo)
      OBVIOUS
    <2>1. /\ t.pc = "committee_check" /\ StoreUnchanged
          /\ \/ Return(c)
             \/ /\ FreshJobs # {}
                /\ Hold(c, [t EXCEPT !.pc = "committee_save_session", !.job = NewJob, !.todo = @ \ {role},
                              !.row = [NoRow EXCEPT !.type = role, !.wave = t.wave, !.status = "running"]])
             \/ Goto(c, "committee_rollback")
      BY <1>5, <1>p, <2>0 DEF CommitteeCheck, At, Admit
    <2>2. CASE Return(c)
      BY <2>1, <2>2, GivesUpCurrent
    <2>3. CASE Goto(c, "committee_rollback")
      <3> DEFINE s == [t EXCEPT !.pc = "committee_rollback"]
      <3>1. Hold(c, s)
        BY <1>f, <1>p, <2>3 DEF Goto, Hold
      <3>2. s.pc = "committee_rollback"
        BY DEF CallState
      <3> HIDE DEF s
      <3>3. SessionCurrent(s) /\ JobCurrent(s)
        BY <3>2 DEF SessionCurrent, JobCurrent
      <3> QED
        BY <2>1, <3>1, <3>3, ReadCurrent
    <2>4. CASE /\ FreshJobs # {}
               /\ Hold(c, [t EXCEPT !.pc = "committee_save_session", !.job = NewJob, !.todo = @ \ {role},
                              !.row = [NoRow EXCEPT !.type = role, !.wave = t.wave, !.status = "running"]])
      <3>1. PICK j \in FreshJobs : j = NewJob
        BY <2>4 DEF NewJob
      <3>2. PICK row : row = [NoRow EXCEPT !.type = role, !.wave = t.wave, !.status = "running"]
        OBVIOUS
      <3>3. row.status = "running" /\ row.result = "none"
        BY <3>2 DEF NoRow
      <3> DEFINE s == [t EXCEPT !.pc = "committee_save_session", !.job = j, !.todo = @ \ {role}, !.row = row]
      <3>4. Hold(c, s)
        BY <2>4, <3>1, <3>2
      <3>5. s.pc = "committee_save_session" /\ s.ses = t.ses /\ s.job = j /\ s.row = row
        BY DEF CallState
      <3>6. t.ses = session /\ ~Row(j)
        BY <1>g, <2>1, <3>1 DEF SessionCurrent, FreshJobs, Row
      <3> HIDE DEF s
      <3>7. SessionCurrent(s) /\ JobCurrent(s)
        BY <3>3, <3>5, <3>6 DEF SessionCurrent, JobCurrent, OpenJob
      <3> QED
        BY <2>1, <3>4, <3>7, ReadCurrent
    <2> QED
      BY <2>1, <2>2, <2>3, <2>4
  <1>6. CASE CommitteeRollback(c)
    <2>1. CASE Return(c)
      BY <1>6, <2>1, GivesUpCurrent DEF CommitteeRollback
    <2>2. CASE ~Return(c)
      <3>1. PICK j \in t.mine :
                \/ /\ jobs[j].status \in OpenJob
                   /\ Hold(c, [t EXCEPT !.pc = "committee_fail", !.job = j, !.mine = @ \ {j},
                                        !.row = Status(jobs[j], "failed")])
                \/ /\ jobs[j].status \notin OpenJob
                   /\ Hold(c, [t EXCEPT !.mine = @ \ {j}])
        BY <1>6, <1>p, <2>2 DEF CommitteeRollback
      <3>2. t.pc = "committee_rollback" /\ StoreUnchanged /\ j \in Job
        BY <1>6, <1>p, <3>1 DEF CommitteeRollback, At, CallState
      <3>3. CASE Hold(c, [t EXCEPT !.mine = @ \ {j}])
        <4> DEFINE s == [t EXCEPT !.mine = @ \ {j}]
        <4>1. s.pc = "committee_rollback"
          BY <3>2 DEF CallState
        <4> HIDE DEF s
        <4>2. SessionCurrent(s) /\ JobCurrent(s)
          BY <4>1 DEF SessionCurrent, JobCurrent
        <4> QED
          BY <3>2, <3>3, <4>2, ReadCurrent DEF s
      <3>4. CASE /\ jobs[j].status \in OpenJob
                 /\ Hold(c, [t EXCEPT !.pc = "committee_fail", !.job = j, !.mine = @ \ {j},
                                      !.row = Status(jobs[j], "failed")])
        <4>1. PICK row : row = Status(jobs[j], "failed")
          OBVIOUS
        <4>2. row.status = "failed" /\ row.result # "analysis"
          BY <1>f, <3>2, <3>4, <4>1 DEF Status, JobRow, JobsDone, OpenJob
        <4> DEFINE s == [t EXCEPT !.pc = "committee_fail", !.job = j, !.mine = @ \ {j}, !.row = row]
        <4>3. Hold(c, s)
          BY <3>4, <4>1
        <4>4. s.pc = "committee_fail" /\ s.job = j /\ s.row = row
          BY DEF CallState
        <4> HIDE DEF s
        <4>5. SessionCurrent(s) /\ JobCurrent(s)
          BY <3>4, <4>2, <4>4 DEF SessionCurrent, JobCurrent
        <4> QED
          BY <3>2, <4>3, <4>5, ReadCurrent
      <3> QED
        BY <3>1, <3>3, <3>4
    <2> QED
      BY <2>1, <2>2
  <1>7. CASE RecordAnalysisGate(c)
    <2>1. CASE Return(c)
      BY <1>7, <2>1, GivesUpCurrent DEF RecordAnalysisGate
    <2>2. CASE ~Return(c)
      <3>1. PICK old : old = jobs[t.job]
        OBVIOUS
      <3>2. /\ t.pc = "analysis_job" /\ StoreUnchanged /\ MayAnalyse(t.ses, old)
            /\ Hold(c, [t EXCEPT !.pc = "analysis_save", !.wave = old.wave,
                                 !.row = [old EXCEPT !.status = "completed", !.result = "analysis"]])
        BY <1>7, <1>p, <2>2, <3>1 DEF RecordAnalysisGate, At
      <3>3. t.job \in Job /\ t.ses = session
        BY <1>g, <3>2 DEF SessionCurrent, CallOK, HoldsJob
      <3>4. old \in JobRow /\ old.status = "running" /\ old.wave = session.latest
        BY <1>f, <3>1, <3>2, <3>3 DEF MayAnalyse
      <3>5. PICK row : row = [old EXCEPT !.status = "completed", !.result = "analysis"]
        OBVIOUS
      <3>6. row.status = "completed" /\ row.result = "analysis"
        BY <3>4, <3>5 DEF JobRow
      <3> DEFINE s == [t EXCEPT !.pc = "analysis_save", !.wave = old.wave, !.row = row]
      <3>7. Hold(c, s)
        BY <3>2, <3>5
      <3>8. s.pc = "analysis_save" /\ s.job = t.job /\ s.row = row /\ s.ses = t.ses /\ s.wave = old.wave
        BY DEF CallState
      <3> HIDE DEF s
      <3>9. SessionCurrent(s) /\ JobCurrent(s)
        BY <3>1, <3>3, <3>4, <3>6, <3>8 DEF SessionCurrent, JobCurrent, OpenJob
      <3> QED
        BY <3>2, <3>7, <3>9, ReadCurrent
    <2> QED
      BY <2>1, <2>2
  <1> QED
    BY <1>1, <1>2, <1>3, <1>4, <1>5, <1>6, <1>7

\* The reads inside a decision and an answer.
LEMMA DirectorReadsCurrent ==
  ASSUME OneCall, RowsCurrent, NEW c \in Client,
         \/ DecideGate(c) \/ DecideSettle(c)
         \/ FinalizeTrio(c) \/ FinalizeOpenJobs(c) \/ FinalizeWalk(c) \/ FinalizeResult(c)
  PROVE  CallsCurrent' /\ JobsDone'
  <1> USE DEF ReadsSession, Creates, ChangesOpen, Completes, Answers
  <1>f. /\ JobsDone /\ session \in SessionRow /\ jobs \in [Job -> JobRow]
        /\ call \in [Client -> CallState] /\ call[c] \in CallState
        /\ SessionCurrent(call[c]) /\ JobCurrent(call[c]) /\ CallOK(call[c]) /\ SessionOK(session)
    BY CurrentFacts
  <1>p. PICK t \in CallState : t = call[c]
    BY <1>f
  <1>g. SessionCurrent(t) /\ JobCurrent(t) /\ CallOK(t)
    BY <1>f, <1>p
  <1>1. CASE DecideGate(c)
    <2>1. PICK authorized \in BOOLEAN : StoreUnchanged /\ Hold(c, [t EXCEPT !.pc = "decide_settle", !.yes = authorized])
      BY <1>1, <1>p DEF DecideGate
    <2> DEFINE s == [t EXCEPT !.pc = "decide_settle", !.yes = authorized]
    <2>2. s.pc = "decide_settle"
      BY DEF CallState
    <2> HIDE DEF s
    <2>3. SessionCurrent(s) /\ JobCurrent(s)
      BY <2>2 DEF SessionCurrent, JobCurrent
    <2> QED
      BY <2>1, <2>3, ReadCurrent DEF s
  <1>2. CASE DecideSettle(c)
    <2>1. CASE Return(c)
      BY <1>2, <2>1, GivesUpCurrent DEF DecideSettle
    <2>2. CASE ~Return(c)
      <3>1. PICK n \in Nat : n = NextWave(session) /\ n >= session.wave
        <4>1. Cardinality(session.frozen) \in Nat
          BY <1>f, WaveCardinality DEF SessionRow
        <4> QED
          BY <1>f, <4>1 DEF NextWave, SessionRow
      <3>2. PICK ses : ses = IF t.yes THEN [session EXCEPT !.status = "targeted_research", !.wave = n]
                             ELSE Status(session, "synthesizing")
        OBVIOUS
      <3>3. /\ session.status = "analyzing" /\ StoreUnchanged
            /\ Hold(c, [Idle EXCEPT !.pc = "save_session", !.ses = ses])
        BY <1>2, <1>p, <2>2, <3>1, <3>2 DEF DecideSettle
      <3>4. Settles(ses)
        BY <1>f, <3>1, <3>2, <3>3 DEF Settles, SessionRow
      <3> DEFINE s == [Idle EXCEPT !.pc = "save_session", !.ses = ses]
      <3>5. SessionCurrent(s) /\ JobCurrent(s)
        BY <3>4 DEF SessionCurrent, JobCurrent, Idle
      <3> QED
        BY <3>3, <3>5, ReadCurrent
    <2> QED
      BY <2>1, <2>2
  <1>3. CASE FinalizeTrio(c)
    <2>1. CASE Return(c)
      BY <1>3, <2>1, GivesUpCurrent DEF FinalizeTrio
    <2>2. CASE ~Return(c)
      <3>1. /\ t.pc = "final_trio" /\ StoreUnchanged /\ TrioComplete(t.ses)
            /\ Hold(c, [t EXCEPT !.pc = "final_open", !.wave = t.ses.latest])
        BY <1>3, <1>p, <2>2 DEF FinalizeTrio, At
      <3>2. t.ses = session /\ session.status \notin TerminalSession
        BY <1>g, <3>1 DEF SessionCurrent
      <3>3. Answerable(session.latest)
        BY <3>1, <3>2 DEF Answerable, TrioComplete
      <3> DEFINE s == [t EXCEPT !.pc = "final_open", !.wave = t.ses.latest]
      <3>4. s.pc = "final_open" /\ s.wave = session.latest
        BY <3>2 DEF CallState
      <3> HIDE DEF s
      <3>5. SessionCurrent(s) /\ JobCurrent(s)
        BY <3>3, <3>4 DEF SessionCurrent, JobCurrent
      <3> QED
        BY <3>1, <3>5, ReadCurrent DEF s
    <2> QED
      BY <2>1, <2>2
  <1>4. CASE FinalizeOpenJobs(c)
    <2>1. CASE Return(c)
      BY <1>4, <2>1, GivesUpCurrent DEF FinalizeOpenJobs
    <2>2. CASE ~Return(c)
      <3>1. t.pc = "final_open" /\ StoreUnchanged /\ ActiveJobs = {} /\ Goto(c, "final_walk")
        BY <1>4, <1>p, <2>2 DEF FinalizeOpenJobs, At
      <3> DEFINE s == [t EXCEPT !.pc = "final_walk"]
      <3>2. Hold(c, s)
        BY <1>f, <1>p, <3>1 DEF Goto, Hold
      <3>3. s.pc = "final_walk" /\ s.wave = t.wave
        BY DEF CallState
      <3>4. Answerable(t.wave)
        BY <1>g, <3>1 DEF SessionCurrent
      <3> HIDE DEF s
      <3>5. SessionCurrent(s) /\ JobCurrent(s)
        BY <3>1, <3>3, <3>4 DEF SessionCurrent, JobCurrent
      <3> QED
        BY <3>1, <3>2, <3>5, ReadCurrent
    <2> QED
      BY <2>1, <2>2
  <1>5. CASE FinalizeWalk(c)
    <2>0. /\ t.pc = "final_walk" /\ StoreUnchanged
          /\ \/ /\ session.status = "analyzing"
                /\ Hold(c, [t EXCEPT !.pc = "final_synth", !.ses = Status(session, "synthesizing")])
             \/ Goto(c, "final_result")
      BY <1>5, <1>p DEF FinalizeWalk, At
    <2>1. Answerable(t.wave) /\ ActiveJobs = {}
      BY <1>g, <2>0 DEF SessionCurrent
    <2>2. CASE Goto(c, "final_result")
      <3> DEFINE s == [t EXCEPT !.pc = "final_result"]
      <3>1. Hold(c, s)
        BY <1>f, <1>p, <2>2 DEF Goto, Hold
      <3>2. s.pc = "final_result" /\ s.wave = t.wave
        BY DEF CallState
      <3> HIDE DEF s
      <3>3. SessionCurrent(s) /\ JobCurrent(s)
        BY <2>1, <3>2 DEF SessionCurrent, JobCurrent
      <3> QED
        BY <2>0, <3>1, <3>3, ReadCurrent
    <2>3. CASE /\ session.status = "analyzing"
               /\ Hold(c, [t EXCEPT !.pc = "final_synth", !.ses = Status(session, "synthesizing")])
      <3> DEFINE s == [t EXCEPT !.pc = "final_synth", !.ses = Status(session, "synthesizing")]
      <3>1. s.pc = "final_synth" /\ s.wave = t.wave /\ s.ses = Status(session, "synthesizing")
        BY DEF CallState
      <3> HIDE DEF s
      <3>2. SessionCurrent(s) /\ JobCurrent(s)
        BY <2>1, <2>3, <3>1 DEF SessionCurrent, JobCurrent
      <3> QED
        BY <2>0, <2>3, <3>2, ReadCurrent DEF s
    <2> QED
      BY <2>0, <2>2, <2>3
  <1>6. CASE FinalizeResult(c)
    <2>1. /\ t.pc = "final_result" /\ StoreUnchanged
          /\ Hold(c, [t EXCEPT !.pc = "final_save", !.ses = [session EXCEPT !.final = t.wave]])
      BY <1>6, <1>p DEF FinalizeResult, At
    <2>2. Answerable(t.wave) /\ ActiveJobs = {}
      BY <1>g, <2>1 DEF SessionCurrent
    <2> DEFINE s == [t EXCEPT !.pc = "final_save", !.ses = [session EXCEPT !.final = t.wave]]
    <2>3. s.pc = "final_save" /\ s.wave = t.wave /\ s.ses = [session EXCEPT !.final = t.wave]
      BY DEF CallState
    <2> HIDE DEF s
    <2>4. SessionCurrent(s) /\ JobCurrent(s)
      BY <2>2, <2>3 DEF SessionCurrent, JobCurrent
    <2> QED
      BY <2>1, <2>4, ReadCurrent DEF s
  <1> QED
    BY <1>1, <1>2, <1>3, <1>4, <1>5, <1>6

\* A move keeps the jobs that are done and the runs they are filed in.
LEMMA MoveKeepsDone ==
  ASSUME RowsCurrent, OneMove
  PROVE  JobsDone'
  <1>f. /\ JobsDone /\ session \in SessionRow /\ jobs \in [Job -> JobRow] /\ SessionOK(session)
    BY InvFacts DEF RowsCurrent, Inv, SnapshotsGrounded, TypeOK
  <1>1. CASE JobMove
    <2>1. PICK j \in Job, row \in JobRow :
              /\ jobs' = [jobs EXCEPT ![j] = row]
              /\ row = jobs[j] \/ jobs[j].status \notin TerminalJob
              /\ row.result = "analysis" => row.status = "completed"
      BY <1>1 DEF JobMove
    <2>2. session' = session
      BY <1>1 DEF JobMove
    <2>3. \A k \in Job : jobs'[k] = IF k = j THEN row ELSE jobs[k]
      BY <1>f, <2>1
    <2>4. \A w \in Wave : session.runs[w] \subseteq Job
      BY <1>f DEF SessionRow
    <2>5. ASSUME NEW w \in Wave, NEW k \in session.runs[w]
          PROVE  jobs'[k].result = "analysis"
      <3>1. k \in Job /\ jobs[k].result = "analysis" /\ jobs[k].status = "completed"
        BY <1>f, <2>4, <2>5 DEF JobsDone
      <3> QED
        BY <2>1, <2>3, <3>1 DEF TerminalJob
    <2>6. \A k \in Job : jobs'[k].result = "analysis" => jobs'[k].status = "completed"
      BY <1>f, <2>1, <2>3 DEF JobsDone
    <2> QED
      BY <2>2, <2>5, <2>6 DEF JobsDone
  <1>2. CASE SessionMove
    <2>1. jobs' = jobs
      BY <1>2 DEF SessionMove
    <2>2. CASE FilesAnalysis(session')
      <3>1. PICK j \in Job :
               /\ jobs[j].status = "completed" /\ jobs[j].result = "analysis"
               /\ session' = [session EXCEPT !.status = IF @ = "freezing" THEN "analyzing" ELSE @,
                                        !.runs[session.latest] = @ \union {j}]
        BY <2>2 DEF FilesAnalysis
      <3>2. session'.runs = [session.runs EXCEPT ![session.latest] = @ \union {j}]
        BY <1>f, <3>1 DEF SessionRow
      <3>3. \A w \in Wave : session'.runs[w] \subseteq session.runs[w] \union {j}
        BY <1>f, <3>2 DEF SessionRow
      <3> QED
        BY <1>f, <2>1, <3>1, <3>3 DEF JobsDone
    <2>3. CASE ~FilesAnalysis(session')
      <3>1. session'.runs = session.runs
        BY <1>2, <1>f, <2>3 DEF SessionMove, Plans, LinksDossier, TracksFreeze, Tracked, GivesAnswer, Cancels, CatchesUp,
           Settles, Ends, Status, SessionRow
      <3> QED
        BY <1>f, <2>1, <3>1 DEF JobsDone
    <2> QED
      BY <2>2, <2>3
  <1> QED
    BY <1>1, <1>2 DEF OneMove

\* Saving a job row: the job is new, open, or saved as it is.
LEMMA JobWritesCurrent ==
  ASSUME OneCall, RowsCurrent, NEW c \in Client,
         \/ CreateJobSaveJob(c) \/ SaveJobRow(c) \/ CompleteJobStart(c) \/ CompleteJobSave(c)
         \/ CommitteeSaveJob(c) \/ CommitteeFail(c) \/ RecordAnalysisSave(c)
  PROVE  CallsCurrent' /\ OneMove
  <1> USE DEF ReadsSession, Creates, ChangesOpen, Completes, Answers
  <1>f. /\ JobsDone /\ session \in SessionRow /\ jobs \in [Job -> JobRow]
        /\ call \in [Client -> CallState] /\ call[c] \in CallState
        /\ SessionCurrent(call[c]) /\ JobCurrent(call[c]) /\ CallOK(call[c])
    BY CurrentFacts
  <1>p. PICK t \in CallState : t = call[c]
    BY <1>f
  <1>g. SessionCurrent(t) /\ JobCurrent(t) /\ CallOK(t)
    BY <1>f, <1>p
  <1>1. ASSUME NEW row \in JobRow, SaveJob(t.job, row), t.job \in Job,
               row = jobs[t.job] \/ jobs[t.job].status \notin TerminalJob,
               row.result = "analysis" => row.status = "completed"
        PROVE  OneMove /\ session' = session /\ jobs'[t.job] = row
    <2>1. jobs' = [jobs EXCEPT ![t.job] = row] /\ session' = session
      BY <1>1 DEF SaveJob
    <2> QED
      BY <1>f, <1>1, <2>1 DEF OneMove, JobMove
  <1>2. CASE CreateJobSaveJob(c)
    <2>1. t.pc = "create_save_job" /\ SaveJob(t.job, t.row)
      BY <1>2, <1>p DEF CreateJobSaveJob, At
    <2>2. t.job \in Job /\ ~Row(t.job) /\ t.row.status \in OpenJob /\ t.row.result = "none" /\ t.row \in JobRow
      BY <1>g, <2>1 DEF JobCurrent, CallOK, HoldsRow, JobOK, CallState
    <2>3. OneMove /\ session' = session /\ jobs'[t.job] = t.row
      BY <1>1, <2>1, <2>2 DEF Row, TerminalJob
    <2>4. CASE Return(c)
      BY <2>3, <2>4, ReturnCurrent
    <2>5. CASE ~Return(c)
      <3>1. PICK row : row = [t.row EXCEPT !.status = "running"]
        OBVIOUS
      <3>2. PICK s : s = [t EXCEPT !.pc = "save_job", !.row = row]
        OBVIOUS
      <3>3. Hold(c, s)
        BY <1>2, <1>p, <2>5, <3>1, <3>2 DEF CreateJobSaveJob, CallState
      <3>4. s.pc = "save_job" /\ s.job = t.job /\ s.row = row
        BY <3>2 DEF CallState
      <3>5. row.result # "analysis"
        BY <2>2, <3>1 DEF JobRow
      <3>6. SessionCurrent(s)' /\ JobCurrent(s)'
        BY <2>2, <2>3, <3>4, <3>5 DEF SessionCurrent, JobCurrent
      <3> QED
        BY <2>3, <3>3, <3>6, HoldCurrent
    <2> QED
      BY <2>4, <2>5
  <1>3. CASE SaveJobRow(c)
    <2>1. t.pc = "save_job" /\ SaveJob(t.job, t.row) /\ Return(c)
      BY <1>3, <1>p DEF SaveJobRow, At
    <2>2. /\ t.job \in Job /\ t.row \in JobRow
          /\ t.row = jobs[t.job] \/ (jobs[t.job].status \in OpenJob /\ t.row.result # "analysis")
      BY <1>g, <2>1 DEF JobCurrent, CallOK, HoldsRow, JobOK, CallState
    <2>3. OneMove
      BY <1>1, <1>f, <2>1, <2>2 DEF OpenJob, TerminalJob, JobsDone
    <2> QED
      BY <2>1, <2>3, ReturnCurrent
  <1>4. CASE CompleteJobStart(c)
    <2>1. t.pc = "complete_start" /\ SaveJob(t.job, [t.row EXCEPT !.result = "none"]) /\ Goto(c, "complete_save")
      BY <1>4, <1>p DEF CompleteJobStart, At
    <2>2. /\ t.job \in Job /\ t.row \in JobRow /\ jobs[t.job].status \in OpenJob
          /\ t.row.status = "running" /\ t.row.result = "outcome"
      BY <1>g, <2>1 DEF JobCurrent, CallOK, HoldsRow, JobOK, CallState
    <2>3. PICK row \in JobRow : row = [t.row EXCEPT !.result = "none"]
      BY <2>2 DEF JobRow
    <2>4. row.status = "running" /\ row.result = "none"
      BY <2>2, <2>3 DEF JobRow
    <2>5. OneMove /\ session' = session /\ jobs'[t.job] = row
      BY <1>1, <2>1, <2>2, <2>3, <2>4 DEF OpenJob, TerminalJob
    <2>6. PICK s : s = [t EXCEPT !.pc = "complete_save"]
      OBVIOUS
    <2>7. Hold(c, s)
      BY <1>f, <1>p, <2>1, <2>6 DEF Goto, Hold
    <2>8. s.pc = "complete_save" /\ s.job = t.job /\ s.row = t.row
      BY <2>6 DEF CallState
    <2>9. SessionCurrent(s)' /\ JobCurrent(s)'
      BY <2>2, <2>4, <2>5, <2>8 DEF SessionCurrent, JobCurrent, OpenJob
    <2> QED
      BY <2>5, <2>7, <2>9, HoldCurrent
  <1>5. CASE CompleteJobSave(c)
    <2>1. t.pc = "complete_save" /\ SaveJob(t.job, Status(t.row, "completed")) /\ Goto(c, "advance_read")
      BY <1>5, <1>p DEF CompleteJobSave, At
    <2>2. t.job \in Job /\ t.row \in JobRow /\ jobs[t.job].status \in OpenJob
      BY <1>g, <2>1 DEF JobCurrent, CallOK, HoldsRow, JobOK, CallState
    <2>r. PICK r \in JobRow : r = t.row
      BY <2>2
    <2>s. "completed" \in JobStatus
      BY DEF JobStatus
    <2>u. Status(r, "completed") \in JobRow /\ Status(r, "completed").status = "completed"
      BY <2>s DEF JobRow, Status
    <2>3. PICK row \in JobRow : row = Status(t.row, "completed") /\ row.status = "completed"
      BY <2>r, <2>u
    <2>4. OneMove
      BY <1>1, <2>1, <2>2, <2>3 DEF OpenJob, TerminalJob
    <2>5. PICK s : s = [t EXCEPT !.pc = "advance_read"]
      OBVIOUS
    <2>6. Hold(c, s)
      BY <1>f, <1>p, <2>1, <2>5 DEF Goto, Hold
    <2>7. s.pc = "advance_read"
      BY <2>5 DEF CallState
    <2>8. SessionCurrent(s)' /\ JobCurrent(s)'
      BY <2>7 DEF SessionCurrent, JobCurrent
    <2> QED
      BY <2>4, <2>6, <2>8, HoldCurrent
  <1>6. CASE CommitteeSaveJob(c)
    <2>1. t.pc = "committee_save_job" /\ SaveJob(t.job, t.row)
          /\ Hold(c, [t EXCEPT !.pc = "committee_check", !.mine = @ \union {t.job}])
      BY <1>6, <1>p DEF CommitteeSaveJob, At
    <2>2. t.job \in Job /\ ~Row(t.job) /\ t.row.result = "none" /\ t.row \in JobRow
      BY <1>g, <2>1 DEF JobCurrent, CallOK, HoldsRow, JobOK, CallState
    <2>3. OneMove /\ session' = session
      BY <1>1, <2>1, <2>2 DEF Row, TerminalJob
    <2>4. PICK s : s = [t EXCEPT !.pc = "committee_check", !.mine = @ \union {t.job}]
      OBVIOUS
    <2>5. s.pc = "committee_check" /\ s.ses = t.ses
      BY <2>4 DEF CallState
    <2>6. t.ses = session
      BY <1>g, <1>6, <1>p, <2>1 DEF SessionCurrent
    <2>7. SessionCurrent(s)' /\ JobCurrent(s)'
      BY <2>3, <2>5, <2>6 DEF SessionCurrent, JobCurrent
    <2> QED
      BY <2>1, <2>3, <2>4, <2>7, HoldCurrent
  <1>7. CASE CommitteeFail(c)
    <2>1. t.pc = "committee_fail" /\ SaveJob(t.job, t.row) /\ Goto(c, "committee_rollback")
      BY <1>7, <1>p DEF CommitteeFail, At
    <2>2. t.job \in Job /\ t.row \in JobRow /\ jobs[t.job].status \in OpenJob /\ t.row.result # "analysis"
      BY <1>g, <2>1 DEF JobCurrent, CallOK, HoldsRow, JobOK, CallState
    <2>3. OneMove
      BY <1>1, <2>1, <2>2 DEF OpenJob, TerminalJob
    <2>4. PICK s : s = [t EXCEPT !.pc = "committee_rollback"]
      OBVIOUS
    <2>5. Hold(c, s)
      BY <1>f, <1>p, <2>1, <2>4 DEF Goto, Hold
    <2>6. s.pc = "committee_rollback"
      BY <2>4 DEF CallState
    <2>7. SessionCurrent(s)' /\ JobCurrent(s)'
      BY <2>6 DEF SessionCurrent, JobCurrent
    <2> QED
      BY <2>3, <2>5, <2>7, HoldCurrent
  <1>8. CASE RecordAnalysisSave(c)
    <2>1. t.pc = "analysis_save" /\ SaveJob(t.job, t.row) /\ Goto(c, "analysis_track")
      BY <1>8, <1>p DEF RecordAnalysisSave, At
    <2>2. /\ t.job \in Job /\ t.row \in JobRow /\ jobs[t.job].status \in OpenJob
          /\ t.row.status = "completed" /\ t.row.result = "analysis"
      BY <1>g, <2>1 DEF JobCurrent, CallOK, HoldsRow, JobOK, CallState
    <2>3. OneMove /\ session' = session /\ jobs'[t.job] = t.row
      BY <1>1, <2>1, <2>2 DEF OpenJob, TerminalJob
    <2>4. PICK s : s = [t EXCEPT !.pc = "analysis_track"]
      OBVIOUS
    <2>5. Hold(c, s)
      BY <1>f, <1>p, <2>1, <2>4 DEF Goto, Hold
    <2>6. s.pc = "analysis_track" /\ s.job = t.job /\ s.ses = t.ses /\ s.wave = t.wave
      BY <2>4 DEF CallState
    <2>7. t.ses = session /\ t.wave = session.latest
      BY <1>g, <2>1 DEF SessionCurrent
    <2>8. SessionCurrent(s)' /\ JobCurrent(s)'
      BY <2>2, <2>3, <2>6, <2>7 DEF SessionCurrent, JobCurrent
    <2> QED
      BY <2>3, <2>5, <2>8, HoldCurrent
  <1> QED
    BY <1>2, <1>3, <1>4, <1>5, <1>6, <1>7, <1>8

\* Saving the session row: it is the row of the store with the call's own change.
LEMMA SessionWritesCurrent ==
  ASSUME OneCall, RowsCurrent, NEW c \in Client,
         \/ CreateJobSaveSession(c) \/ CommitteeSaveSession(c) \/ SaveSessionRow(c) \/ AdvanceSave(c)
         \/ SubmitLinkSave(c) \/ FreezePlan(c) \/ FreezeResearch(c) \/ FreezeTrack(c)
         \/ RecordAnalysisTrack(c) \/ FinalizeSynth(c) \/ FinalizeSave(c)
  PROVE  CallsCurrent' /\ OneMove
  <1> USE DEF ReadsSession, Creates, ChangesOpen, Completes, Answers
  <1>f. /\ JobsDone /\ session \in SessionRow /\ jobs \in [Job -> JobRow]
        /\ call \in [Client -> CallState] /\ call[c] \in CallState
        /\ SessionCurrent(call[c]) /\ JobCurrent(call[c]) /\ CallOK(call[c]) /\ SessionOK(session)
    BY CurrentFacts
  <1>p. PICK t \in CallState : t = call[c]
    BY <1>f
  <1>g. SessionCurrent(t) /\ JobCurrent(t) /\ CallOK(t)
    BY <1>f, <1>p
  <1>1. CASE CreateJobSaveSession(c)
    <2>1. t.pc = "create_save_session" /\ SaveSession(t.ses) /\ Goto(c, "create_save_job")
      BY <1>1, <1>p DEF CreateJobSaveSession, At
    <2>2. /\ t.ses = session /\ ~Row(t.job)
          /\ t.row.status \in OpenJob /\ t.row.result = "none"
      BY <1>g, <2>1 DEF SessionCurrent, JobCurrent
    <2>3. session' = session /\ jobs' = jobs
      BY <2>1, <2>2 DEF SaveSession
    <2>4. OneMove
      BY <2>3 DEF OneMove, SessionMove
    <2>5. PICK s : s = [t EXCEPT !.pc = "create_save_job"]
      OBVIOUS
    <2>6. Hold(c, s)
      BY <1>f, <1>p, <2>1, <2>5 DEF Goto, Hold
    <2>7. s.pc = "create_save_job" /\ s.job = t.job /\ s.row = t.row
      BY <2>5 DEF CallState
    <2>8. SessionCurrent(s)' /\ JobCurrent(s)'
      BY <2>2, <2>3, <2>7 DEF SessionCurrent, JobCurrent, Row
    <2> QED
      BY <2>4, <2>6, <2>8, HoldCurrent
  <1>2. CASE CommitteeSaveSession(c)
    <2>1. t.pc = "committee_save_session" /\ SaveSession(t.ses) /\ Goto(c, "committee_save_job")
      BY <1>2, <1>p DEF CommitteeSaveSession, At
    <2>2. /\ t.ses = session /\ ~Row(t.job)
          /\ t.row.status \in OpenJob /\ t.row.result = "none"
      BY <1>g, <2>1 DEF SessionCurrent, JobCurrent
    <2>3. session' = session /\ jobs' = jobs
      BY <2>1, <2>2 DEF SaveSession
    <2>4. OneMove
      BY <2>3 DEF OneMove, SessionMove
    <2>5. PICK s : s = [t EXCEPT !.pc = "committee_save_job"]
      OBVIOUS
    <2>6. Hold(c, s)
      BY <1>f, <1>p, <2>1, <2>5 DEF Goto, Hold
    <2>7. s.pc = "committee_save_job" /\ s.job = t.job /\ s.row = t.row /\ s.ses = t.ses
      BY <2>5 DEF CallState
    <2>8. SessionCurrent(s)' /\ JobCurrent(s)'
      BY <2>2, <2>3, <2>7 DEF SessionCurrent, JobCurrent, Row
    <2> QED
      BY <2>4, <2>6, <2>8, HoldCurrent
  <1>3. CASE SaveSessionRow(c)
    <2>1. t.pc = "save_session" /\ SaveSession(t.ses) /\ Return(c)
      BY <1>3, <1>p DEF SaveSessionRow, At
    <2>2. Cancels(t.ses) \/ CatchesUp(t.ses) \/ Settles(t.ses) \/ Ends(t.ses)
      BY <1>g, <2>1 DEF SessionCurrent
    <2>3. OneMove
      BY <2>1, <2>2 DEF SaveSession, OneMove, SessionMove
    <2> QED
      BY <2>1, <2>3, ReturnCurrent
  <1>4. CASE AdvanceSave(c)
    <2>1. t.pc = "advance_save" /\ SaveSession(t.ses) /\ Return(c)
      BY <1>4, <1>p DEF AdvanceSave, At
    <2>2. CatchesUp(t.ses)
      BY <1>g, <2>1 DEF SessionCurrent
    <2>3. OneMove
      BY <2>1, <2>2 DEF SaveSession, OneMove, SessionMove
    <2> QED
      BY <2>1, <2>3, ReturnCurrent
  <1>5. CASE SubmitLinkSave(c)
    <2>1. t.pc = "submit_link" /\ SaveSession(t.ses) /\ Goto(c, "complete_save")
      BY <1>5, <1>p DEF SubmitLinkSave, At
    <2>2. LinksDossier(t.ses) /\ jobs[t.job].status \in OpenJob /\ t.row.status = "running" /\ t.row.result = "outcome"
      BY <1>g, <2>1 DEF SessionCurrent, JobCurrent, LinksDossier
    <2>3. jobs' = jobs /\ OneMove
      BY <2>1, <2>2 DEF SaveSession, OneMove, SessionMove
    <2>4. PICK s : s = [t EXCEPT !.pc = "complete_save"]
      OBVIOUS
    <2>5. Hold(c, s)
      BY <1>f, <1>p, <2>1, <2>4 DEF Goto, Hold
    <2>6. s.pc = "complete_save" /\ s.job = t.job /\ s.row = t.row
      BY <2>4 DEF CallState
    <2>7. SessionCurrent(s)' /\ JobCurrent(s)'
      BY <2>2, <2>3, <2>6 DEF SessionCurrent, JobCurrent
    <2> QED
      BY <2>3, <2>5, <2>7, HoldCurrent
  <1>6. CASE FreezePlan(c)
    <2>1. t.pc = "freeze_planning" /\ SaveSession(t.ses)
          /\ Hold(c, [t EXCEPT !.pc = "freeze_researching", !.ses.status = "researching"])
      BY <1>6, <1>p DEF FreezePlan, At
    <2>2. session.status = "created" /\ t.ses = Status(session, "planning")
      BY <1>g, <2>1 DEF SessionCurrent
    <2>3. session' = t.ses /\ jobs' = jobs /\ OneMove
      BY <2>1, <2>2 DEF SaveSession, OneMove, SessionMove, Plans
    <2>4. PICK ses : ses = [t.ses EXCEPT !.status = "researching"]
      OBVIOUS
    <2>5. PICK s : s = [t EXCEPT !.pc = "freeze_researching", !.ses = ses]
      OBVIOUS
    <2>6. Hold(c, s)
      BY <2>1, <2>4, <2>5 DEF CallState
    <2>7. s.pc = "freeze_researching" /\ s.ses = Status(session', "researching")
      BY <2>3, <2>4, <2>5 DEF CallState, Status
    <2>8. session'.status = "planning"
      BY <1>f, <2>2, <2>3 DEF Status, SessionRow
    <2>9. SessionCurrent(s)' /\ JobCurrent(s)'
      BY <2>7, <2>8 DEF SessionCurrent, JobCurrent
    <2> QED
      BY <2>3, <2>6, <2>9, HoldCurrent
  <1>7. CASE FreezeResearch(c)
    <2>1. t.pc = "freeze_researching" /\ SaveSession(t.ses) /\ Goto(c, "freeze_list")
      BY <1>7, <1>p DEF FreezeResearch, At
    <2>2. session.status = "planning" /\ t.ses = Status(session, "researching")
      BY <1>g, <2>1 DEF SessionCurrent
    <2>3. session' = t.ses /\ OneMove
      BY <2>1, <2>2 DEF SaveSession, OneMove, SessionMove, Plans
    <2>4. PICK s : s = [t EXCEPT !.pc = "freeze_list"]
      OBVIOUS
    <2>5. Hold(c, s)
      BY <1>f, <1>p, <2>1, <2>4 DEF Goto, Hold
    <2>6. s.pc = "freeze_list" /\ s.ses = session'
      BY <2>3, <2>4 DEF CallState
    <2>7. session'.status = "researching"
      BY <1>f, <2>2, <2>3 DEF Status, SessionRow
    <2>8. SessionCurrent(s)' /\ JobCurrent(s)'
      BY <2>6, <2>7 DEF SessionCurrent, JobCurrent, FreezeReady
    <2> QED
      BY <2>3, <2>5, <2>8, HoldCurrent
  <1>8. CASE FreezeTrack(c)
    <2>0. PICK ses : ses = Tracked(t.ses, t.wave)
      OBVIOUS
    <2>1. /\ t.pc = "freeze_track" /\ SaveSession(ses)
          /\ \/ /\ t.wave > ses.wave
                /\ Hold(c, [t EXCEPT !.pc = "save_session", !.ses = [ses EXCEPT !.wave = t.wave]])
             \/ Return(c)
      BY <1>8, <1>p, <2>0 DEF FreezeTrack, At
    <2>2. t.ses = session /\ FreezeReady(session.status, t.wave) /\ t.wave \in freezes.stored
      BY <1>g, <2>1 DEF SessionCurrent, CallOK, HoldsStored
    <2>3. session' = ses /\ OneMove
      BY <2>0, <2>1, <2>2 DEF SaveSession, OneMove, SessionMove, TracksFreeze
    <2>4. CASE Return(c)
      BY <2>3, <2>4, ReturnCurrent
    <2>5. CASE /\ t.wave > ses.wave
               /\ Hold(c, [t EXCEPT !.pc = "save_session", !.ses = [ses EXCEPT !.wave = t.wave]])
      <3>1. PICK new : new = [ses EXCEPT !.wave = t.wave]
        OBVIOUS
      <3>2. new.wave = t.wave
        BY <1>f, <2>0, <2>2, <3>1 DEF Tracked, SessionRow
      <3>3. CatchesUp(new)'
        BY <2>3, <2>5, <3>1, <3>2 DEF CatchesUp
      <3>4. PICK s : s = [t EXCEPT !.pc = "save_session", !.ses = new]
        OBVIOUS
      <3>5. s.pc = "save_session" /\ s.ses = new
        BY <3>4 DEF CallState
      <3>6. SessionCurrent(s)' /\ JobCurrent(s)'
        BY <3>3, <3>5 DEF SessionCurrent, JobCurrent
      <3> QED
        BY <2>3, <2>5, <3>1, <3>4, <3>6, HoldCurrent
    <2> QED
      BY <2>1, <2>4, <2>5
  <1>9. CASE RecordAnalysisTrack(c)
    <2>0. PICK ses : ses = [t.ses EXCEPT !.status = IF @ = "freezing" THEN "analyzing" ELSE @,
                                         !.runs[t.wave] = @ \union {t.job}]
      OBVIOUS
    <2>1. t.pc = "analysis_track" /\ SaveSession(ses) /\ Return(c)
      BY <1>9, <1>p, <2>0 DEF RecordAnalysisTrack, At
    <2>2. t.ses = session /\ t.wave = session.latest /\ jobs[t.job].status = "completed" /\ jobs[t.job].result = "analysis"
      BY <1>g, <2>1 DEF SessionCurrent, JobCurrent
    <2>3. t.job \in Job /\ t.wave \in freezes.stored
      BY <1>g, <2>1 DEF CallOK, HoldsJob, HoldsStored
    <2>4. session.latest # 0
      BY <1>f, <2>2, <2>3, CurrentFacts, BoundsAssumption DEF Inv, SnapshotsGrounded, TypeOK, Wave
    <2>5. FilesAnalysis(ses)
      BY <2>0, <2>2, <2>3, <2>4 DEF FilesAnalysis
    <2>6. OneMove
      BY <2>1, <2>5 DEF SaveSession, OneMove, SessionMove
    <2> QED
      BY <2>1, <2>6, ReturnCurrent
  <1>10. CASE FinalizeSynth(c)
    <2>1. t.pc = "final_synth" /\ SaveSession(t.ses) /\ Goto(c, "final_result")
      BY <1>10, <1>p DEF FinalizeSynth, At
    <2>2. /\ session.status = "analyzing" /\ t.ses = Status(session, "synthesizing")
          /\ Answerable(t.wave) /\ ActiveJobs = {}
      BY <1>g, <2>1 DEF SessionCurrent
    <2>3. session' = t.ses /\ jobs' = jobs /\ OneMove
      BY <2>1, <2>2 DEF SaveSession, OneMove, SessionMove, Settles
    <2>4. session'.status = "synthesizing" /\ session'.latest = session.latest /\ session'.runs = session.runs
      BY <1>f, <2>2, <2>3 DEF Status, SessionRow
    <2>5. Answerable(t.wave)' /\ (ActiveJobs = {})'
      BY <1>p, <2>2, <2>3, <2>4 DEF Answerable, TrioComplete, ActiveJobs, TerminalSession
    <2>6. PICK s : s = [t EXCEPT !.pc = "final_result"]
      OBVIOUS
    <2>7. Hold(c, s)
      BY <1>f, <1>p, <2>1, <2>6 DEF Goto, Hold
    <2>8. s.pc = "final_result" /\ s.wave = t.wave
      BY <2>6 DEF CallState
    <2>9. SessionCurrent(s)' /\ JobCurrent(s)'
      BY <2>5, <2>8 DEF SessionCurrent, JobCurrent
    <2> QED
      BY <2>3, <2>7, <2>9, HoldCurrent
  <1>11. CASE FinalizeSave(c)
    <2>1. /\ t.pc = "final_save" /\ SaveSession(t.ses)
          /\ \/ /\ t.ses.status = "synthesizing"
                /\ Hold(c, [t EXCEPT !.pc = "save_session", !.ses.status = "completed"])
             \/ Return(c)
      BY <1>11, <1>p DEF FinalizeSave, At
    <2>2. t.ses = [session EXCEPT !.final = t.wave] /\ Answerable(t.wave) /\ ActiveJobs = {}
      BY <1>g, <2>1 DEF SessionCurrent
    <2>3. t.wave \in Wave
      BY <2>2, <1>f, BoundsAssumption DEF Answerable, SessionRow, Wave
    <2>4. session' = t.ses /\ jobs' = jobs /\ OneMove
      BY <2>1, <2>2, <2>3 DEF SaveSession, OneMove, SessionMove, GivesAnswer
    <2>5. CASE Return(c)
      BY <2>4, <2>5, ReturnCurrent
    <2>6. CASE /\ t.ses.status = "synthesizing"
               /\ Hold(c, [t EXCEPT !.pc = "save_session", !.ses.status = "completed"])
      <3>1. PICK new : new = [t.ses EXCEPT !.status = "completed"]
        OBVIOUS
      <3>2. /\ session'.status = "synthesizing" /\ session'.latest = session.latest
            /\ session'.runs = session.runs /\ session'.final = t.wave
        BY <1>f, <2>2, <2>4, <2>6 DEF SessionRow
      <3>3. Answerable(session.final)' /\ (ActiveJobs = {})'
        BY <2>2, <2>4, <3>2 DEF Answerable, TrioComplete, ActiveJobs, TerminalSession
      <3>4. Ends(new)'
        BY <2>4, <3>1, <3>2, <3>3 DEF Ends, Status
      <3>5. PICK s : s = [t EXCEPT !.pc = "save_session", !.ses = new]
        OBVIOUS
      <3>6. Hold(c, s)
        BY <2>6, <3>1, <3>5 DEF CallState
      <3>7. s.pc = "save_session" /\ s.ses = new
        BY <3>5 DEF CallState
      <3>8. SessionCurrent(s)' /\ JobCurrent(s)'
        BY <3>4, <3>7 DEF SessionCurrent, JobCurrent
      <3> QED
        BY <2>4, <3>6, <3>8, HoldCurrent
    <2> QED
      BY <2>1, <2>5, <2>6
  <1> QED
    BY <1>1, <1>2, <1>3, <1>4, <1>5, <1>6, <1>7, <1>8, <1>9, <1>10, <1>11

\* The findings, dossiers and freezes are tables of their own.
LEMMA TableWritesCurrent ==
  ASSUME OneCall, RowsCurrent, NEW c \in Client,
         RecordEvidenceSave(c) \/ SubmitDossier(c) \/ FreezeSave(c)
  PROVE  CallsCurrent' /\ OneMove
  <1> USE DEF ReadsSession, Creates, ChangesOpen, Completes, Answers
  <1>f. /\ call \in [Client -> CallState] /\ call[c] \in CallState
        /\ SessionCurrent(call[c]) /\ JobCurrent(call[c])
    BY CurrentFacts
  <1>p. PICK t \in CallState : t = call[c]
    BY <1>f
  <1>g. SessionCurrent(t) /\ JobCurrent(t)
    BY <1>f, <1>p
  <1>h. session' = session /\ jobs' = jobs
    BY DEF RecordEvidenceSave, SubmitDossier, FreezeSave
  <1>m. OneMove
    BY <1>h DEF OneMove, SessionMove
  <1>1. CASE RecordEvidenceSave(c)
    BY <1>1, <1>m, ReturnCurrent DEF RecordEvidenceSave
  <1>2. CASE SubmitDossier(c)
    <2>1. t.pc = "submit_dossier" /\ Goto(c, "submit_read")
      BY <1>2, <1>p DEF SubmitDossier, At
    <2>2. jobs[t.job].status \in OpenJob /\ t.row.status = "running" /\ t.row.result = "outcome"
      BY <1>g, <2>1 DEF JobCurrent
    <2>3. PICK s : s = [t EXCEPT !.pc = "submit_read"]
      OBVIOUS
    <2>4. Hold(c, s)
      BY <1>f, <1>p, <2>1, <2>3 DEF Goto, Hold
    <2>5. s.pc = "submit_read" /\ s.job = t.job /\ s.row = t.row
      BY <2>3 DEF CallState
    <2>6. SessionCurrent(s)' /\ JobCurrent(s)'
      BY <1>h, <2>2, <2>5 DEF SessionCurrent, JobCurrent
    <2> QED
      BY <1>m, <2>4, <2>6, HoldCurrent
  <1>3. CASE FreezeSave(c)
    <2>1. t.pc = "freeze_save" /\ Goto(c, "freeze_track")
      BY <1>3, <1>p DEF FreezeSave, At
    <2>2. t.ses = session /\ FreezeReady(session.status, t.wave)
      BY <1>g, <2>1 DEF SessionCurrent
    <2>3. PICK s : s = [t EXCEPT !.pc = "freeze_track"]
      OBVIOUS
    <2>4. Hold(c, s)
      BY <1>f, <1>p, <2>1, <2>3 DEF Goto, Hold
    <2>5. s.pc = "freeze_track" /\ s.ses = t.ses /\ s.wave = t.wave
      BY <2>3 DEF CallState
    <2>6. SessionCurrent(s)' /\ JobCurrent(s)'
      BY <1>h, <2>2, <2>5 DEF SessionCurrent, JobCurrent
    <2> QED
      BY <1>m, <2>4, <2>6, HoldCurrent
  <1> QED
    BY <1>1, <1>2, <1>3

LEMMA StepsAreMoves ==
  ASSUME OneCall, RowsCurrent, [Next]_vars
  PROVE  RowsCurrent' /\ OneMove
  <1>1. Inv'
    BY NextInv DEF RowsCurrent
  <1>2. CASE UNCHANGED vars
    <2>1. session' = session /\ jobs' = jobs /\ call' = call
      BY <1>2 DEF vars
    <2>2. OneMove
      BY <2>1 DEF OneMove, SessionMove
    <2>3. CallsCurrent'
      <3> SUFFICES ASSUME NEW c \in Client
                   PROVE  CallsCurrent'
        BY DEF CallsCurrent
      <3>1. PICK s : s = call[c]
        OBVIOUS
      <3>2. Hold(c, s) /\ StoreUnchanged
        BY <1>2, <2>1, <3>1, CurrentFacts DEF Hold, StoreUnchanged, store, vars
      <3>3. SessionCurrent(s) /\ JobCurrent(s)
        BY <3>1, CurrentFacts
      <3> QED
        BY <3>2, <3>3, ReadCurrent
    <2> QED
      BY <1>1, <2>2, <2>3, MoveKeepsDone DEF RowsCurrent
  <1>3. ASSUME NEW c \in Client, CallsCurrent' /\ OneMove
        PROVE  RowsCurrent' /\ OneMove
    BY <1>1, <1>3, MoveKeepsDone DEF RowsCurrent
  <1>4. ASSUME NEW c \in Client, StoreUnchanged, CallsCurrent' /\ JobsDone'
        PROVE  RowsCurrent' /\ OneMove
    BY <1>1, <1>4 DEF RowsCurrent, OneMove, SessionMove, StoreUnchanged, store
  <1>5. ASSUME NEW c \in Client, JobStep(c)
        PROVE  RowsCurrent' /\ OneMove
    <2>1. CASE \/ StartJobRead(c) \/ RetryJobRead(c) \/ RunResearch(c) \/ CompleteJobRead(c)
               \/ CloseJobRead(c) \/ TouchJobRead(c) \/ CancelResearchRead(c)
      <3>1. StoreUnchanged
        BY <2>1 DEF StartJobRead, RetryJobRead, RunResearch, CompleteJobRead, CloseJobRead, TouchJobRead, CancelResearchRead
      <3> QED
        BY <1>4, <2>1, <3>1, BeginCurrent
    <2>2. CASE RetryJobSession(c) \/ CreateJobCheck(c) \/ AdvanceRead(c)
      <3>1. StoreUnchanged
        BY <2>2 DEF RetryJobSession, CreateJobCheck, AdvanceRead
      <3> QED
        BY <1>4, <2>2, <3>1, JobReadsCurrent
    <2>3. CASE CreateJobSaveJob(c) \/ SaveJobRow(c) \/ CompleteJobStart(c) \/ CompleteJobSave(c)
      BY <1>3, <2>3, JobWritesCurrent
    <2>4. CASE CreateJobSaveSession(c) \/ SaveSessionRow(c) \/ AdvanceSave(c)
      BY <1>3, <2>4, SessionWritesCurrent
    <2> QED
      BY <1>5, <2>1, <2>2, <2>3, <2>4 DEF JobStep
  <1>6. ASSUME NEW c \in Client, EvidenceStep(c)
        PROVE  RowsCurrent' /\ OneMove
    <2>1. CASE RecordEvidenceRead(c) \/ SubmitRead(c)
      <3>1. StoreUnchanged
        BY <2>1 DEF RecordEvidenceRead, SubmitRead
      <3> QED
        BY <1>4, <2>1, <3>1, BeginCurrent
    <2>2. CASE RecordEvidenceGate(c) \/ SubmitSession(c) \/ SubmitLinkRead(c)
      <3>1. StoreUnchanged
        BY <2>2 DEF RecordEvidenceGate, SubmitSession, SubmitLinkRead
      <3> QED
        BY <1>4, <2>2, <3>1, JobReadsCurrent
    <2>3. CASE FreezeRead(c) \/ FreezeList(c) \/ FreezeOpenJobs(c)
      <3>1. StoreUnchanged
        BY <2>3 DEF FreezeRead, FreezeList, FreezeOpenJobs
      <3> QED
        BY <1>4, <2>3, <3>1, WaveReadsCurrent
    <2>4. CASE SubmitLinkSave(c) \/ FreezePlan(c) \/ FreezeResearch(c) \/ FreezeTrack(c)
      BY <1>3, <2>4, SessionWritesCurrent
    <2>5. CASE RecordEvidenceSave(c) \/ SubmitDossier(c) \/ FreezeSave(c)
      BY <1>3, <2>5, TableWritesCurrent
    <2> QED
      BY <1>6, <2>1, <2>2, <2>3, <2>4, <2>5 DEF EvidenceStep
  <1>7. ASSUME NEW c \in Client, CommitteeStep(c)
        PROVE  RowsCurrent' /\ OneMove
    <2>1. CASE CommitteeRoles(c) \/ RecordAnalysisRead(c)
      <3>1. StoreUnchanged
        BY <2>1 DEF CommitteeRoles, RecordAnalysisRead
      <3> QED
        BY <1>4, <2>1, <3>1, BeginCurrent
    <2>2. CASE CommitteeSession(c) \/ CommitteeCheck(c) \/ CommitteeRollback(c) \/ RecordAnalysisGate(c)
      <3>1. StoreUnchanged
        BY <2>2 DEF CommitteeSession, CommitteeCheck, CommitteeRollback, RecordAnalysisGate
      <3> QED
        BY <1>4, <2>2, <3>1, WaveReadsCurrent
    <2>3. CASE CommitteeSaveJob(c) \/ CommitteeFail(c) \/ RecordAnalysisSave(c)
      BY <1>3, <2>3, JobWritesCurrent
    <2>4. CASE CommitteeSaveSession(c) \/ RecordAnalysisTrack(c)
      BY <1>3, <2>4, SessionWritesCurrent
    <2> QED
      BY <1>7, <2>1, <2>2, <2>3, <2>4 DEF CommitteeStep
  <1>8. ASSUME NEW c \in Client, DirectorStep(c)
        PROVE  RowsCurrent' /\ OneMove
    <2>1. CASE DecideRead(c) \/ FinalizeRead(c)
      <3>1. StoreUnchanged
        BY <2>1 DEF DecideRead, FinalizeRead
      <3> QED
        BY <1>4, <2>1, <3>1, BeginCurrent
    <2>2. CASE DecideGate(c) \/ DecideSettle(c)
               \/ FinalizeTrio(c) \/ FinalizeOpenJobs(c) \/ FinalizeWalk(c) \/ FinalizeResult(c)
      <3>1. StoreUnchanged
        BY <2>2 DEF DecideGate, DecideSettle, FinalizeTrio, FinalizeOpenJobs, FinalizeWalk, FinalizeResult
      <3> QED
        BY <1>4, <2>2, <3>1, DirectorReadsCurrent
    <2>3. CASE FinalizeSynth(c) \/ FinalizeSave(c)
      BY <1>3, <2>3, SessionWritesCurrent
    <2> QED
      BY <1>8, <2>1, <2>2, <2>3 DEF DirectorStep
  <1>9. ASSUME NEW c \in Client, Crash(c)
        PROVE  RowsCurrent' /\ OneMove
    <2>1. StoreUnchanged /\ Return(c)
      BY <1>9 DEF Crash
    <2> QED
      BY <1>4, <2>1, GivesUpCurrent
  <1> QED
    BY <1>2, <1>5, <1>6, <1>7, <1>8, <1>9 DEF Next

LEMMA InitCurrent == Init => RowsCurrent
  <1> SUFFICES ASSUME Init PROVE RowsCurrent
    OBVIOUS
  <1>1. Inv
    BY InitInv
  <1>2. JobsDone
    BY DEF Init, JobsDone, NewSession, NoRow
  <1>3. \A c \in Client : call[c] = Idle
    BY DEF Init
  <1> QED
    BY <1>1, <1>2, <1>3, IdleCurrent DEF RowsCurrent, CallsCurrent

-----------------------------------------------------------------------------
(* One call at a time, which may die at any step *)

\* While one call runs at a time, every row a call is about to save is the row of
\* the store with the call's own fields changed (service.py: read, change, save whole).
THEOREM RowsStayCurrent == ASSUME OneCall PROVE Spec => []RowsCurrent
  <1>1. Init => RowsCurrent
    BY InitCurrent
  <1>2. RowsCurrent /\ [Next]_vars => RowsCurrent'
    BY StepsAreMoves
  <1> QED
    BY <1>1, <1>2, PTL DEF Spec

\* No step changes a job that is completed, failed or cancelled (complete_job,
\* fail_job, cancel_job, submit_source_result), one call running at a time.
THEOREM TerminalJobsNeverChange == ASSUME OneCall PROVE Spec => TerminalJobsStay
  <1>1. ASSUME RowsCurrent, [Next]_vars
        PROVE  \A j \in Job : jobs[j].status \in TerminalJob => jobs'[j] = jobs[j]
    <2>1. OneMove /\ jobs \in [Job -> JobRow]
      BY <1>1, StepsAreMoves DEF RowsCurrent, Inv, SnapshotsGrounded, TypeOK
    <2>2. CASE SessionMove
      BY <2>2 DEF SessionMove
    <2>3. CASE JobMove
      BY <2>1, <2>3 DEF JobMove
    <2> QED
      BY <2>1, <2>2, <2>3 DEF OneMove
  <1>2. RowsCurrent /\ [Next]_vars =>
            [\A j \in Job : jobs[j].status \in TerminalJob => jobs'[j] = jobs[j]]_vars
    BY <1>1
  <1> QED
    BY <1>2, RowsStayCurrent, PTL DEF Spec, TerminalJobsStay

\* A session is completed only on its latest freeze, its three analyses recorded and
\* no job left open (finalize_session), one call running at a time.
THEOREM CompletionIsWhole == ASSUME OneCall PROVE Spec => CompletedWhole
  <1> DEFINE Whole == session.status # "completed" /\ session'.status = "completed"
                      => ActiveJobs = {} /\ TrioComplete(session) /\ session'.final = session.latest
  <1>1. ASSUME RowsCurrent, [Next]_vars
        PROVE  Whole
    <2>1. OneMove /\ session \in SessionRow
      BY <1>1, StepsAreMoves DEF RowsCurrent, Inv, SnapshotsGrounded, TypeOK
    <2>2. CASE session' = session
      BY <2>2
    <2>3. CASE Ends(session')
      <3>1. /\ session'.final = session.final /\ ActiveJobs = {}
            /\ session.final = session.latest /\ TrioComplete(session)
        BY <2>1, <2>3 DEF Ends, Answerable, Status, SessionRow
      <3> QED
        BY <3>1
    <2>4. CASE Plans(session') \/ LinksDossier(session') \/ TracksFreeze(session') \/ FilesAnalysis(session')
      BY <2>1, <2>4 DEF Plans, LinksDossier, TracksFreeze, FilesAnalysis, Tracked, Status, SessionRow
    <2>5. CASE GivesAnswer(session') \/ Cancels(session') \/ CatchesUp(session') \/ Settles(session')
      BY <2>1, <2>5 DEF GivesAnswer, Cancels, CatchesUp, Settles, Status, SessionRow
    <2> QED
      BY <2>1, <2>2, <2>3, <2>4, <2>5 DEF OneMove, SessionMove, JobMove
  <1>2. RowsCurrent /\ [Next]_vars => [Whole]_vars
    BY <1>1
  <1> QED
    BY <1>2, RowsStayCurrent, PTL DEF Spec, CompletedWhole

-----------------------------------------------------------------------------
(* The refinement of SessionLifecycle *)

Heard == {w \in Wave : \A r \in Role : \E j \in session.runs[w] :
                           jobs[j].type = r /\ jobs[j].status = "completed"}

\* A job row that is saved is no row of a filed job, so what is heard stays.
LEMMA JobMoveHears ==
  ASSUME RowsCurrent, JobMove
  PROVE  Heard' = Heard
  <1>f. JobsDone /\ session \in SessionRow /\ jobs \in [Job -> JobRow]
    BY DEF RowsCurrent, Inv, SnapshotsGrounded, TypeOK
  <1>1. PICK j \in Job, row \in JobRow :
            /\ jobs' = [jobs EXCEPT ![j] = row]
            /\ row = jobs[j] \/ jobs[j].status \notin TerminalJob
    BY DEF JobMove
  <1>2. ASSUME NEW w \in Wave, NEW k \in session.runs[w]
        PROVE  jobs'[k] = jobs[k]
    <2>1. k \in Job /\ jobs[k].status = "completed"
      BY <1>f, <1>2 DEF SessionRow, JobsDone
    <2> QED
      BY <1>f, <1>1, <2>1 DEF TerminalJob
  <1> QED
    BY <1>2 DEF Heard, JobMove

LEMMA SameRunsHear ==
  ASSUME jobs' = jobs, session'.runs = session.runs
  PROVE  Heard' = Heard
  BY DEF Heard

\* An analysis that is filed is heard on the latest freeze only.
LEMMA FilingHears ==
  ASSUME RowsCurrent, jobs' = jobs, FilesAnalysis(session')
  PROVE  /\ session.latest \in session.frozen /\ session.latest \in Wave
         /\ Heard' = Heard \/ Heard' = Heard \union {session.latest}
         /\ session'.status = IF session.status = "freezing" THEN "analyzing" ELSE session.status
         /\ session'.wave = session.wave /\ session'.frozen = session.frozen /\ session'.final = session.final
  <1>f. session \in SessionRow /\ SessionOK(session)
    BY DEF RowsCurrent, Inv, SnapshotsGrounded, TypeOK
  <1>1. PICK j \in Job : session' = [session EXCEPT !.status = IF @ = "freezing" THEN "analyzing" ELSE @,
                                                   !.runs[session.latest] = @ \union {j}]
    BY DEF FilesAnalysis
  <1>2. session.latest \in session.frozen /\ session.latest \in Wave
    BY <1>f DEF FilesAnalysis, SessionOK, SessionRow
  <1>3. session'.runs = [session.runs EXCEPT ![session.latest] = @ \union {j}]
    BY <1>f, <1>1 DEF SessionRow
  <1>4. /\ \A w \in Wave \ {session.latest} : session'.runs[w] = session.runs[w]
        /\ session.runs[session.latest] \subseteq session'.runs[session.latest]
    BY <1>f, <1>2, <1>3 DEF SessionRow
  <1>5. Heard \subseteq Heard' /\ Heard' \subseteq Heard \union {session.latest}
    BY <1>4 DEF Heard
  <1>6. Heard' = Heard \/ Heard' = Heard \union {session.latest}
    BY <1>5
  <1>7. /\ session'.status = IF session.status = "freezing" THEN "analyzing" ELSE session.status
        /\ session'.wave = session.wave /\ session'.frozen = session.frozen /\ session'.final = session.final
    BY <1>f, <1>1 DEF SessionRow
  <1> QED
    BY <1>2, <1>6, <1>7

\* Along the edges of the status alone the freezes, runs and answer stay.
LEMMA WalkKeeps ==
  ASSUME session \in SessionRow, Plans(session') \/ Cancels(session') \/ Settles(session')
  PROVE  /\ session'.wave >= session.wave /\ session'.frozen = session.frozen
         /\ session'.final = session.final /\ session'.runs = session.runs
  <1>1. session.wave \in Nat /\ session.wave >= session.wave
    BY DEF SessionRow
  <1>2. ASSUME NEW st, session' = Status(session, st)
        PROVE  /\ session'.wave = session.wave /\ session'.frozen = session.frozen
               /\ session'.final = session.final /\ session'.runs = session.runs
    BY <1>2 DEF Status, SessionRow
  <1>3. CASE Plans(session') \/ Cancels(session') \/ session' = Status(session, "synthesizing")
    BY <1>1, <1>2, <1>3 DEF Plans, Cancels
  <1>4. CASE session'.wave >= session.wave
             /\ session' = [session EXCEPT !.status = "targeted_research", !.wave = session'.wave]
    <2>1. PICK n : n = session'.wave
      OBVIOUS
    <2>2. session' = [session EXCEPT !.status = "targeted_research", !.wave = n]
      BY <1>4, <2>1
    <2> QED
      BY <1>4, <2>2 DEF SessionRow
  <1> QED
    BY <1>3, <1>4 DEF Settles

LEMMA MoveRefines ==
  ASSUME RowsCurrent, RowsCurrent', OneMove
  PROVE  [Lifecycle!LifecycleNext]_(Lifecycle!lifecycle)
  <1>f. session \in SessionRow /\ session' \in SessionRow /\ SessionOK(session) /\ freezes.stored \subseteq Wave
    BY DEF RowsCurrent, Inv, SnapshotsGrounded, TypeOK
  <1> USE DEF Lifecycle!LifecycleNext, Lifecycle!lifecycle, Lifecycle!Edge, Lifecycle!Forward, Lifecycle!Live,
              Lifecycle!Terminal
  <1>1. CASE JobMove \/ (jobs' = jobs /\ session' = session)
    <2>1. Heard' = Heard /\ session' = session
      BY <1>1, JobMoveHears, SameRunsHear DEF JobMove
    <2> QED
      BY <2>1 DEF Heard
  <1>2. CASE jobs' = jobs /\ LinksDossier(session')
    <2>1. PICK w \in Wave : session' = [session EXCEPT !.dossiers = @ \union {w}]
      BY <1>2 DEF LinksDossier
    <2>2. /\ session'.status = session.status /\ session'.wave = session.wave /\ session'.frozen = session.frozen
          /\ session'.final = session.final /\ session'.runs = session.runs
      BY <1>f, <2>1 DEF SessionRow
    <2>3. Heard' = Heard
      BY <1>2, <2>2, SameRunsHear
    <2> QED
      BY <2>2, <2>3 DEF Heard
  <1>3. CASE jobs' = jobs /\ (Plans(session') \/ Cancels(session') \/ Settles(session'))
    <2>1. /\ session'.wave >= session.wave /\ session'.frozen = session.frozen
          /\ session'.final = session.final /\ session'.runs = session.runs
      BY <1>f, <1>3, WalkKeeps
    <2>2. \/ session.status = "created" /\ session'.status = "planning"
          \/ session.status = "planning" /\ session'.status = "researching"
          \/ session.status \notin TerminalSession /\ session'.status = "cancelled"
          \/ session.status = "analyzing" /\ session'.status \in {"synthesizing", "targeted_research"}
      BY <1>f, <1>3 DEF Plans, Cancels, Settles, Status, SessionRow
    <2>3. session.status \in SessionStatus
      BY <1>f DEF SessionRow
    <2>4. <<session.status, session'.status>> \in Lifecycle!Edge /\ session'.status \notin {"freezing", "completed"}
      BY <2>2, <2>3 DEF SessionStatus, TerminalSession
    <2>5. Heard' = Heard
      BY <1>3, <2>1, SameRunsHear
    <2>6. Lifecycle!Walk
      BY <2>1, <2>4, <2>5 DEF Lifecycle!Walk, Heard
    <2> QED
      BY <2>6
  <1>4. CASE jobs' = jobs /\ CatchesUp(session')
    <2>1. /\ session'.status = session.status /\ session'.wave > session.wave /\ session'.frozen = session.frozen
          /\ session'.final = session.final /\ session'.runs = session.runs
      BY <1>f, <1>4 DEF CatchesUp, SessionRow
    <2>2. Heard' = Heard
      BY <1>4, <2>1, SameRunsHear
    <2>3. Lifecycle!Advance
      BY <2>1, <2>2 DEF Lifecycle!Advance, Heard
    <2> QED
      BY <2>3
  <1>5. CASE jobs' = jobs /\ Ends(session')
    <2>1. /\ session.status = "synthesizing" /\ session'.status = "completed" /\ session'.wave = session.wave
          /\ session'.frozen = session.frozen /\ session'.final = session.final /\ session'.runs = session.runs
      BY <1>f, <1>5 DEF Ends, Status, SessionRow
    <2>2. session.final # 0
      BY <1>5 DEF Ends, Answerable
    <2>3. Heard' = Heard
      BY <1>5, <2>1, SameRunsHear
    <2>4. Lifecycle!Complete
      BY <2>1, <2>2, <2>3 DEF Lifecycle!Complete, Heard
    <2> QED
      BY <2>4
  <1>6. CASE jobs' = jobs /\ TracksFreeze(session')
    <2>1. PICK w \in Wave : FreezeReady(session.status, w) /\ session' = Tracked(session, w)
      BY <1>6, <1>f DEF TracksFreeze
    <2>2. /\ session'.status = "freezing" /\ session'.wave = session.wave /\ session'.frozen = session.frozen \union {w}
          /\ session'.final = session.final /\ session'.runs = session.runs
      BY <1>f, <2>1 DEF Tracked, SessionRow
    <2>3. <<session.status, "freezing">> \in Lifecycle!Edge
      BY <2>1 DEF FreezeReady
    <2>4. Heard' = Heard
      BY <1>6, <2>2, SameRunsHear
    <2>5. Lifecycle!Freeze(w)
      BY <2>2, <2>3, <2>4 DEF Lifecycle!Freeze, Heard
    <2> QED
      BY <2>5
  <1>7. CASE jobs' = jobs /\ GivesAnswer(session')
    <2>1. PICK w \in Wave : Answerable(w) /\ session' = [session EXCEPT !.final = w]
      BY <1>7 DEF GivesAnswer
    <2>2. /\ session'.status = session.status /\ session'.wave = session.wave /\ session'.frozen = session.frozen
          /\ session'.final = w /\ session'.runs = session.runs
      BY <1>f, <2>1 DEF SessionRow
    <2>3. session.status \notin TerminalSession /\ w \in Heard
      BY <2>1 DEF Answerable, TrioComplete, Heard
    <2>4. Heard' = Heard
      BY <1>7, <2>2, SameRunsHear
    <2>5. Lifecycle!Answer(w)
      BY <2>2, <2>3, <2>4 DEF Lifecycle!Answer, Heard, TerminalSession
    <2> QED
      BY <2>5
  <1>8. CASE jobs' = jobs /\ FilesAnalysis(session')
    <2>1. PICK w \in Wave : w = session.latest
      BY <1>8, FilingHears
    <2>2. /\ w \in session.frozen
          /\ Heard' = Heard \/ Heard' = Heard \union {w}
          /\ session'.status = IF session.status = "freezing" THEN "analyzing" ELSE session.status
          /\ session'.wave = session.wave /\ session'.frozen = session.frozen /\ session'.final = session.final
      BY <1>8, <2>1, FilingHears
    <2>3. CASE Heard' = Heard \union {w}
      <3>1. Lifecycle!Hear(w)
        BY <2>2, <2>3 DEF Lifecycle!Hear, Heard
      <3> QED
        BY <3>1
    <2>4. CASE Heard' = Heard /\ session.status = "freezing"
      <3>1. session.wave \in Nat
        BY <1>f DEF SessionRow
      <3>2. Lifecycle!Walk
        BY <2>2, <2>4, <3>1 DEF Lifecycle!Walk, Heard
      <3> QED
        BY <3>2
    <2>5. CASE Heard' = Heard /\ session.status # "freezing"
      BY <2>2, <2>5 DEF Heard
    <2> QED
      BY <2>2, <2>3, <2>4, <2>5
  <1> QED
    BY <1>1, <1>2, <1>3, <1>4, <1>5, <1>6, <1>7, <1>8 DEF OneMove, SessionMove

\* One call at a time, the rows of the kernel live the life SessionLifecycle promises:
\* the edges of session.py TRANSITIONS, the wave counter, the freezes, the answer.
THEOREM KernelImplementsLifecycle == ASSUME OneCall PROVE Spec => ImplementsLifecycle
  <1>1. Init => Lifecycle!LifecycleInit
    BY DEF Init, Lifecycle!LifecycleInit, NewSession, Role
  <1>2. RowsCurrent /\ [Next]_vars => [Lifecycle!LifecycleNext]_(Lifecycle!lifecycle)
    BY StepsAreMoves, MoveRefines
  <1> QED
    BY <1>1, <1>2, RowsStayCurrent, PTL DEF Spec, ImplementsLifecycle, Lifecycle!LifecycleSpec

=============================================================================
