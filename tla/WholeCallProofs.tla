--------------------------- MODULE WholeCallProofs ----------------------------
(***************************************************************************)
(* Proofs about ResearchKernel while one service call runs at a time and  *)
(* every call runs to its end: no bridge dies inside one.  Then what the  *)
(* tables say together is whole between the calls, though a call writes   *)
(* them one row at a time: a freeze and its wave, an analysis and the run *)
(* that files it, the three jobs of a committee.                          *)
(***************************************************************************)
EXTENDS SingleCallProofs

\* A stored freeze holds all the findings of its wave, and the wave of the session
\* has reached every frozen wave, or the call is about to say so.
FreezeHeld(s) ==
    /\ \A w \in freezes.stored \ session.frozen : s.pc = "freeze_track" /\ w = s.wave
    /\ \A w \in session.frozen : w <= session.wave \/ (s.pc = "save_session" /\ w <= s.ses.wave)
    /\ s.pc \in {"freeze_open", "freeze_save"} => s.seen = WaveRecords(s.wave)
    /\ s.pc = "evidence_save" => \A w \in freezes.stored : w < s.row.wave
FreezesWhole ==
    /\ \A w \in freezes.stored : WaveRecords(w) \subseteq freezes.ids[w]
    /\ \A c \in Client : FreezeHeld(call[c])

\* An analysis is filed in the run of its freeze, or the call is about to file it.
FiledOrFiling ==
    \A j \in Job : jobs[j].result = "analysis" =>
        \/ j \in session.runs[jobs[j].wave]
        \/ \E c \in Client : call[c].pc = "analysis_track" /\ call[c].job = j

\* The open jobs the committee being created answers for.
InCommittee == {"committee_session", "committee_check", "committee_save_session", "committee_save_job",
                "committee_rollback", "committee_fail"}
CreatesSource == {"create_session", "create_check", "create_save_session", "create_save_job"}
Started(s) == IF s.pc \notin InCommittee THEN {}
              ELSE IF s.pc = "committee_fail" THEN s.mine \union {s.job} ELSE s.mine

\* An open job of an incomplete committee was started by the call in progress, which
\* holds every role that still has no job.
TrioHeld(s) ==
    /\ s.pc \in {"committee_session", "committee_check"} => MissingRoles(s.wave) \subseteq s.todo
    /\ s.pc \in {"committee_save_session", "committee_save_job"} =>
           /\ s.row.type \in Role /\ s.row.wave = s.wave
           /\ MissingRoles(s.wave) \subseteq s.todo \union {s.row.type}
    /\ s.pc \in CreatesSource => s.row.type = "source_agent"
TrioOrStarting ==
    /\ \A w \in Wave : MissingRoles(w) # {} =>
           \A j \in ActiveJobs : jobs[j].type \in Role /\ jobs[j].wave = w =>
               \E c \in Client : j \in Started(call[c]) /\ call[c].wave = w
    /\ \A c \in Client : TrioHeld(call[c])

-----------------------------------------------------------------------------
(* The steps of a call: where it is, where it goes, and which table it writes *)

Reads(c, from, to) == StoreUnchanged /\ At(c, from) /\ call'[c].pc \in to
WritesSession(c, from, to) ==
    UNCHANGED <<jobs, ledger, freezes, dossiers>> /\ At(c, from) /\ call'[c].pc \in to
WritesJob(c, from, to) ==
    UNCHANGED <<session, ledger, freezes, dossiers>> /\ At(c, from) /\ call'[c].pc \in to

LEMMA JobFlow ==
  ASSUME RowsCurrent, NEW c \in Client
  PROVE  /\ StartJobRead(c) => Reads(c, "idle", {"create_check"})
         /\ RetryJobRead(c) => Reads(c, "idle", {"create_session"})
         /\ RetryJobSession(c) => Reads(c, "create_session", {"create_check"})
         /\ CreateJobCheck(c) => Reads(c, "create_check", {"create_save_session", "idle"})
         /\ RunResearch(c) => Reads(c, "idle", {"save_job"})
         /\ CompleteJobRead(c) => Reads(c, "idle", {"complete_start", "complete_save"})
         /\ AdvanceRead(c) => Reads(c, "advance_read", {"advance_save", "idle"})
         /\ CloseJobRead(c) => Reads(c, "idle", {"save_job"})
         /\ TouchJobRead(c) => Reads(c, "idle", {"save_job"})
         /\ CancelResearchRead(c) => Reads(c, "idle", {"save_session"})
         /\ CreateJobSaveSession(c) => WritesSession(c, "create_save_session", {"create_save_job"})
         /\ SaveSessionRow(c) => WritesSession(c, "save_session", {"idle"})
         /\ AdvanceSave(c) => WritesSession(c, "advance_save", {"idle"})
         /\ CreateJobSaveJob(c) => WritesJob(c, "create_save_job", {"save_job", "idle"})
         /\ SaveJobRow(c) => WritesJob(c, "save_job", {"idle"})
         /\ CompleteJobStart(c) => WritesJob(c, "complete_start", {"complete_save"})
         /\ CompleteJobSave(c) => WritesJob(c, "complete_save", {"advance_read"})
  <1> USE DEF Begin, At, CallState, Reads, WritesSession, WritesJob
  <1>f. call \in [Client -> CallState] /\ call[c] \in CallState
    BY CurrentFacts
  <1>r. Return(c) => call'[c].pc = "idle"
    BY <1>f DEF Return, Hold, Idle
  <1>1. StartJobRead(c) => Reads(c, "idle", {"create_check"})
    BY <1>f DEF StartJobRead, StoreUnchanged, store, Goto, Return, Hold, Idle
  <1>2. RetryJobRead(c) => Reads(c, "idle", {"create_session"})
    BY <1>f DEF RetryJobRead, StoreUnchanged, store, Goto, Return, Hold, Idle
  <1>3. RetryJobSession(c) => Reads(c, "create_session", {"create_check"})
    BY <1>f DEF RetryJobSession, StoreUnchanged, store, Goto, Return, Hold, Idle
  <1>4. CreateJobCheck(c) => Reads(c, "create_check", {"create_save_session", "idle"})
    <2>1. Hold(c, [call[c] EXCEPT !.pc = "create_save_session", !.job = NewJob]) => call'[c].pc = "create_save_session"
      BY <1>f DEF Hold, Idle
    <2> QED
      BY <1>f, <1>r, <2>1 DEF CreateJobCheck, StoreUnchanged, store
  <1>5. RunResearch(c) => Reads(c, "idle", {"save_job"})
    BY <1>f DEF RunResearch, StoreUnchanged, store, Goto, Return, Hold, Idle
  <1>6. CompleteJobRead(c) => Reads(c, "idle", {"complete_start", "complete_save"})
    BY <1>f DEF CompleteJobRead, StoreUnchanged, store, Goto, Return, Hold, Idle
  <1>7. AdvanceRead(c) => Reads(c, "advance_read", {"advance_save", "idle"})
    <2>1. Hold(c, [call[c] EXCEPT !.pc = "advance_save", !.ses = [session EXCEPT !.wave = call[c].row.wave]]) => call'[c].pc = "advance_save"
      BY <1>f DEF Hold, Idle
    <2> QED
      BY <1>f, <1>r, <2>1 DEF AdvanceRead, StoreUnchanged, store
  <1>8. CloseJobRead(c) => Reads(c, "idle", {"save_job"})
    BY <1>f DEF CloseJobRead, StoreUnchanged, store, Goto, Return, Hold, Idle
  <1>9. TouchJobRead(c) => Reads(c, "idle", {"save_job"})
    BY <1>f DEF TouchJobRead, StoreUnchanged, store, Goto, Return, Hold, Idle
  <1>10. CancelResearchRead(c) => Reads(c, "idle", {"save_session"})
    BY <1>f DEF CancelResearchRead, StoreUnchanged, store, Goto, Return, Hold, Idle
  <1>11. CreateJobSaveSession(c) => WritesSession(c, "create_save_session", {"create_save_job"})
    BY <1>f DEF CreateJobSaveSession, SaveSession, Goto, Return, Hold, Idle
  <1>12. SaveSessionRow(c) => WritesSession(c, "save_session", {"idle"})
    BY <1>f DEF SaveSessionRow, SaveSession, Goto, Return, Hold, Idle
  <1>13. AdvanceSave(c) => WritesSession(c, "advance_save", {"idle"})
    BY <1>f DEF AdvanceSave, SaveSession, Goto, Return, Hold, Idle
  <1>14. CreateJobSaveJob(c) => WritesJob(c, "create_save_job", {"save_job", "idle"})
    <2>1. Hold(c, [call[c] EXCEPT !.pc = "save_job", !.row.status = "running"]) => call'[c].pc = "save_job"
      BY <1>f DEF Hold, Idle
    <2> QED
      BY <1>f, <1>r, <2>1 DEF CreateJobSaveJob, SaveJob
  <1>15. SaveJobRow(c) => WritesJob(c, "save_job", {"idle"})
    BY <1>f DEF SaveJobRow, SaveJob, Goto, Return, Hold, Idle
  <1>16. CompleteJobStart(c) => WritesJob(c, "complete_start", {"complete_save"})
    BY <1>f DEF CompleteJobStart, SaveJob, Goto, Return, Hold, Idle
  <1>17. CompleteJobSave(c) => WritesJob(c, "complete_save", {"advance_read"})
    BY <1>f DEF CompleteJobSave, SaveJob, Goto, Return, Hold, Idle
  <1> QED
    BY <1>1, <1>2, <1>3, <1>4, <1>5, <1>6, <1>7, <1>8, <1>9, <1>10, <1>11, <1>12, <1>13, <1>14, <1>15, <1>16, <1>17

LEMMA EvidenceFlow ==
  ASSUME RowsCurrent, NEW c \in Client
  PROVE  /\ RecordEvidenceRead(c) => Reads(c, "idle", {"evidence_job"})
         /\ RecordEvidenceGate(c) => Reads(c, "evidence_job", {"evidence_save", "idle"})
         /\ SubmitRead(c) => Reads(c, "idle", {"submit_session"})
         /\ SubmitSession(c) => Reads(c, "submit_session", {"submit_dossier", "idle"})
         /\ SubmitLinkRead(c) => Reads(c, "submit_read", {"complete_save", "submit_link"})
         /\ FreezeRead(c) => Reads(c, "idle", {"freeze_planning", "freeze_researching", "freeze_list"})
         /\ FreezeList(c) => Reads(c, "freeze_list", {"freeze_open"})
         /\ FreezeOpenJobs(c) => Reads(c, "freeze_open", {"freeze_save", "idle"})
         /\ SubmitLinkSave(c) => WritesSession(c, "submit_link", {"complete_save"})
         /\ FreezePlan(c) => WritesSession(c, "freeze_planning", {"freeze_researching"})
         /\ FreezeResearch(c) => WritesSession(c, "freeze_researching", {"freeze_list"})
         /\ FreezeTrack(c) => WritesSession(c, "freeze_track", {"save_session", "idle"})
  <1> USE DEF Begin, At, CallState, Reads, WritesSession, WritesJob
  <1>f. call \in [Client -> CallState] /\ call[c] \in CallState
    BY CurrentFacts
  <1>r. Return(c) => call'[c].pc = "idle"
    BY <1>f DEF Return, Hold, Idle
  <1>1. RecordEvidenceRead(c) => Reads(c, "idle", {"evidence_job"})
    BY <1>f DEF RecordEvidenceRead, StoreUnchanged, store, Goto, Return, Hold, Idle
  <1>2. RecordEvidenceGate(c) => Reads(c, "evidence_job", {"evidence_save", "idle"})
    <2>1. Hold(c, [call[c] EXCEPT !.pc = "evidence_save", !.row = jobs[call[c].job]]) => call'[c].pc = "evidence_save"
      BY <1>f DEF Hold, Idle
    <2> QED
      BY <1>f, <1>r, <2>1 DEF RecordEvidenceGate, StoreUnchanged, store
  <1>3. SubmitRead(c) => Reads(c, "idle", {"submit_session"})
    BY <1>f DEF SubmitRead, StoreUnchanged, store, Goto, Return, Hold, Idle
  <1>4. SubmitSession(c) => Reads(c, "submit_session", {"submit_dossier", "idle"})
    BY <1>f DEF SubmitSession, StoreUnchanged, store, Goto, Return, Hold, Idle
  <1>5. SubmitLinkRead(c) => Reads(c, "submit_read", {"complete_save", "submit_link"})
    BY <1>f DEF SubmitLinkRead, StoreUnchanged, store, Goto, Return, Hold, Idle
  <1>6. FreezeRead(c) => Reads(c, "idle", {"freeze_planning", "freeze_researching", "freeze_list"})
    <2>1. \A w \in Wave : Hold(c, [Idle EXCEPT !.pc = "freeze_planning", !.wave = w, !.ses = Status(session, "planning")]) => call'[c].pc = "freeze_planning"
      BY <1>f DEF Hold, Idle
    <2>2. \A w \in Wave : Hold(c, [Idle EXCEPT !.pc = "freeze_researching", !.wave = w, !.ses = Status(session, "researching")]) => call'[c].pc = "freeze_researching"
      BY <1>f DEF Hold, Idle
    <2>3. \A w \in Wave : Hold(c, [Idle EXCEPT !.pc = "freeze_list", !.wave = w, !.ses = session]) => call'[c].pc = "freeze_list"
      BY <1>f DEF Hold, Idle
    <2> QED
      BY <1>f, <1>r, <2>1, <2>2, <2>3 DEF FreezeRead, StoreUnchanged, store
  <1>7. FreezeList(c) => Reads(c, "freeze_list", {"freeze_open"})
    BY <1>f DEF FreezeList, StoreUnchanged, store, Goto, Return, Hold, Idle
  <1>8. FreezeOpenJobs(c) => Reads(c, "freeze_open", {"freeze_save", "idle"})
    BY <1>f DEF FreezeOpenJobs, StoreUnchanged, store, Goto, Return, Hold, Idle
  <1>9. SubmitLinkSave(c) => WritesSession(c, "submit_link", {"complete_save"})
    BY <1>f DEF SubmitLinkSave, SaveSession, Goto, Return, Hold, Idle
  <1>10. FreezePlan(c) => WritesSession(c, "freeze_planning", {"freeze_researching"})
    BY <1>f DEF FreezePlan, SaveSession, Goto, Return, Hold, Idle
  <1>11. FreezeResearch(c) => WritesSession(c, "freeze_researching", {"freeze_list"})
    BY <1>f DEF FreezeResearch, SaveSession, Goto, Return, Hold, Idle
  <1>12. FreezeTrack(c) => WritesSession(c, "freeze_track", {"save_session", "idle"})
    <2>1. Hold(c, [call[c] EXCEPT !.pc = "save_session",
                                 !.ses = [Tracked(call[c].ses, call[c].wave) EXCEPT !.wave = call[c].wave]]) => call'[c].pc = "save_session"
      BY <1>f DEF Hold, Idle
    <2> QED
      BY <1>f, <1>r, <2>1 DEF FreezeTrack, SaveSession
  <1> QED
    BY <1>1, <1>2, <1>3, <1>4, <1>5, <1>6, <1>7, <1>8, <1>9, <1>10, <1>11, <1>12

LEMMA CommitteeFlow ==
  ASSUME RowsCurrent, NEW c \in Client
  PROVE  /\ CommitteeRoles(c) => Reads(c, "idle", {"committee_session"})
         /\ CommitteeSession(c) => Reads(c, "committee_session", {"committee_check"})
         /\ CommitteeCheck(c) => Reads(c, "committee_check", {"committee_save_session", "committee_rollback", "idle"})
         /\ CommitteeRollback(c) => Reads(c, "committee_rollback", {"committee_fail", "committee_rollback", "idle"})
         /\ RecordAnalysisRead(c) => Reads(c, "idle", {"analysis_job"})
         /\ RecordAnalysisGate(c) => Reads(c, "analysis_job", {"analysis_save", "idle"})
         /\ CommitteeSaveSession(c) => WritesSession(c, "committee_save_session", {"committee_save_job"})
         /\ RecordAnalysisTrack(c) => WritesSession(c, "analysis_track", {"idle"})
         /\ CommitteeSaveJob(c) => WritesJob(c, "committee_save_job", {"committee_check"})
         /\ CommitteeFail(c) => WritesJob(c, "committee_fail", {"committee_rollback"})
         /\ RecordAnalysisSave(c) => WritesJob(c, "analysis_save", {"analysis_track"})
  <1> USE DEF Begin, At, CallState, Reads, WritesSession, WritesJob
  <1>f. call \in [Client -> CallState] /\ call[c] \in CallState
    BY CurrentFacts
  <1>r. Return(c) => call'[c].pc = "idle"
    BY <1>f DEF Return, Hold, Idle
  <1>1. CommitteeRoles(c) => Reads(c, "idle", {"committee_session"})
    BY <1>f DEF CommitteeRoles, StoreUnchanged, store, Goto, Return, Hold, Idle
  <1>2. CommitteeSession(c) => Reads(c, "committee_session", {"committee_check"})
    BY <1>f DEF CommitteeSession, StoreUnchanged, store, Goto, Return, Hold, Idle
  <1>3. CommitteeCheck(c) => Reads(c, "committee_check", {"committee_save_session", "committee_rollback", "idle"})
    <2>1. Hold(c, [call[c] EXCEPT !.pc = "committee_save_session", !.job = NewJob,
                                 !.todo = @ \ {NextRole(call[c].todo)},
                                 !.row = [NoRow EXCEPT !.type = NextRole(call[c].todo), !.wave = call[c].wave,
                                                       !.status = "running"]]) => call'[c].pc = "committee_save_session"
      BY <1>f DEF Hold, Idle
    <2>2. Goto(c, "committee_rollback") => call'[c].pc = "committee_rollback"
      BY <1>f DEF Goto, Idle
    <2> QED
      BY <1>f, <1>r, <2>1, <2>2 DEF CommitteeCheck, StoreUnchanged, store
  <1>4. CommitteeRollback(c) => Reads(c, "committee_rollback", {"committee_fail", "committee_rollback", "idle"})
    <2>1. \A j \in Job : Hold(c, [call[c] EXCEPT !.pc = "committee_fail", !.job = j, !.mine = @ \ {j},
                                              !.row = Status(jobs[j], "failed")]) => call'[c].pc = "committee_fail"
      BY <1>f DEF Hold, Idle
    <2>2. At(c, "committee_rollback") => \A j \in Job : Hold(c, [call[c] EXCEPT !.mine = @ \ {j}]) => call'[c].pc = "committee_rollback"
      BY <1>f DEF Hold, Idle
    <2> QED
      BY <1>f, <1>r, <2>1, <2>2 DEF CommitteeRollback, StoreUnchanged, store
  <1>5. RecordAnalysisRead(c) => Reads(c, "idle", {"analysis_job"})
    BY <1>f DEF RecordAnalysisRead, StoreUnchanged, store, Goto, Return, Hold, Idle
  <1>6. RecordAnalysisGate(c) => Reads(c, "analysis_job", {"analysis_save", "idle"})
    <2>1. Hold(c, [call[c] EXCEPT !.pc = "analysis_save", !.wave = jobs[call[c].job].wave,
                                 !.row = [jobs[call[c].job] EXCEPT !.status = "completed", !.result = "analysis"]]) => call'[c].pc = "analysis_save"
      BY <1>f DEF Hold, Idle
    <2> QED
      BY <1>f, <1>r, <2>1 DEF RecordAnalysisGate, StoreUnchanged, store
  <1>7. CommitteeSaveSession(c) => WritesSession(c, "committee_save_session", {"committee_save_job"})
    BY <1>f DEF CommitteeSaveSession, SaveSession, Goto, Return, Hold, Idle
  <1>8. RecordAnalysisTrack(c) => WritesSession(c, "analysis_track", {"idle"})
    BY <1>f DEF RecordAnalysisTrack, SaveSession, Goto, Return, Hold, Idle
  <1>9. CommitteeSaveJob(c) => WritesJob(c, "committee_save_job", {"committee_check"})
    BY <1>f DEF CommitteeSaveJob, SaveJob, Goto, Return, Hold, Idle
  <1>10. CommitteeFail(c) => WritesJob(c, "committee_fail", {"committee_rollback"})
    BY <1>f DEF CommitteeFail, SaveJob, Goto, Return, Hold, Idle
  <1>11. RecordAnalysisSave(c) => WritesJob(c, "analysis_save", {"analysis_track"})
    BY <1>f DEF RecordAnalysisSave, SaveJob, Goto, Return, Hold, Idle
  <1> QED
    BY <1>1, <1>2, <1>3, <1>4, <1>5, <1>6, <1>7, <1>8, <1>9, <1>10, <1>11

LEMMA DirectorFlow ==
  ASSUME RowsCurrent, NEW c \in Client
  PROVE  /\ DecideRead(c) => Reads(c, "idle", {"decide_gate"})
         /\ DecideGate(c) => Reads(c, "decide_gate", {"decide_settle"})
         /\ DecideSettle(c) => Reads(c, "decide_settle", {"save_session", "idle"})
         /\ FinalizeRead(c) => Reads(c, "idle", {"final_trio"})
         /\ FinalizeTrio(c) => Reads(c, "final_trio", {"final_open", "idle"})
         /\ FinalizeOpenJobs(c) => Reads(c, "final_open", {"final_walk", "idle"})
         /\ FinalizeWalk(c) => Reads(c, "final_walk", {"final_synth", "final_result"})
         /\ FinalizeResult(c) => Reads(c, "final_result", {"final_save"})
         /\ FinalizeSynth(c) => WritesSession(c, "final_synth", {"final_result"})
         /\ FinalizeSave(c) => WritesSession(c, "final_save", {"save_session", "idle"})
  <1> USE DEF Begin, At, CallState, Reads, WritesSession, WritesJob
  <1>f. call \in [Client -> CallState] /\ call[c] \in CallState
    BY CurrentFacts
  <1>r. Return(c) => call'[c].pc = "idle"
    BY <1>f DEF Return, Hold, Idle
  <1>1. DecideRead(c) => Reads(c, "idle", {"decide_gate"})
    BY <1>f DEF DecideRead, StoreUnchanged, store, Goto, Return, Hold, Idle
  <1>2. DecideGate(c) => Reads(c, "decide_gate", {"decide_settle"})
    BY <1>f DEF DecideGate, StoreUnchanged, store, Goto, Return, Hold, Idle
  <1>3. DecideSettle(c) => Reads(c, "decide_settle", {"save_session", "idle"})
    <2>1. \A ses : Hold(c, [Idle EXCEPT !.pc = "save_session", !.ses = ses]) => call'[c].pc = "save_session"
      BY <1>f DEF Hold, Idle
    <2> QED
      BY <1>f, <1>r, <2>1 DEF DecideSettle, StoreUnchanged, store
  <1>4. FinalizeRead(c) => Reads(c, "idle", {"final_trio"})
    BY <1>f DEF FinalizeRead, StoreUnchanged, store, Goto, Return, Hold, Idle
  <1>5. FinalizeTrio(c) => Reads(c, "final_trio", {"final_open", "idle"})
    <2>1. Hold(c, [call[c] EXCEPT !.pc = "final_open", !.wave = call[c].ses.latest]) => call'[c].pc = "final_open"
      BY <1>f DEF Hold, Idle
    <2> QED
      BY <1>f, <1>r, <2>1 DEF FinalizeTrio, StoreUnchanged, store
  <1>6. FinalizeOpenJobs(c) => Reads(c, "final_open", {"final_walk", "idle"})
    BY <1>f DEF FinalizeOpenJobs, StoreUnchanged, store, Goto, Return, Hold, Idle
  <1>7. FinalizeWalk(c) => Reads(c, "final_walk", {"final_synth", "final_result"})
    BY <1>f DEF FinalizeWalk, StoreUnchanged, store, Goto, Return, Hold, Idle
  <1>8. FinalizeResult(c) => Reads(c, "final_result", {"final_save"})
    BY <1>f DEF FinalizeResult, StoreUnchanged, store, Goto, Return, Hold, Idle
  <1>9. FinalizeSynth(c) => WritesSession(c, "final_synth", {"final_result"})
    BY <1>f DEF FinalizeSynth, SaveSession, Goto, Return, Hold, Idle
  <1>10. FinalizeSave(c) => WritesSession(c, "final_save", {"save_session", "idle"})
    <2>1. Hold(c, [call[c] EXCEPT !.pc = "save_session", !.ses.status = "completed"]) => call'[c].pc = "save_session"
      BY <1>f DEF Hold, Idle
    <2> QED
      BY <1>f, <1>r, <2>1 DEF FinalizeSave, SaveSession
  <1> QED
    BY <1>1, <1>2, <1>3, <1>4, <1>5, <1>6, <1>7, <1>8, <1>9, <1>10

-----------------------------------------------------------------------------
(* A freeze and its wave *)

\* Only the call that tracks a freeze changes the frozen waves; none sets the wave back.
LEMMA FrozenStays ==
  ASSUME RowsCurrent, RowsCurrent', OneMove, freezes.stored \subseteq session.frozen
  PROVE  session'.frozen = session.frozen /\ session'.wave >= session.wave
  <1>f. session \in SessionRow /\ session.wave \in Nat /\ session.wave >= session.wave
    BY DEF RowsCurrent, Inv, SnapshotsGrounded, TypeOK, SessionRow
  <1>1. CASE session' = session
    BY <1>f, <1>1
  <1>2. CASE Plans(session') \/ Cancels(session') \/ Settles(session')
    BY <1>f, <1>2, WalkKeeps
  <1>3. CASE Ends(session')
    BY <1>f, <1>3 DEF Ends, Status, SessionRow
  <1>4. CASE LinksDossier(session')
    BY <1>f, <1>4 DEF LinksDossier, SessionRow
  <1>5. CASE TracksFreeze(session')
    <2>1. PICK w \in freezes.stored : session' = Tracked(session, w)
      BY <1>5 DEF TracksFreeze
    <2>2. session'.frozen = session.frozen \union {w} /\ session'.wave = session.wave
      BY <1>f, <2>1 DEF Tracked, SessionRow
    <2> QED
      BY <1>f, <2>1, <2>2
  <1>6. CASE FilesAnalysis(session')
    <2>1. PICK j \in Job : session' = [session EXCEPT !.status = IF @ = "freezing" THEN "analyzing" ELSE @,
                                                     !.runs[session.latest] = @ \union {j}]
      BY <1>6 DEF FilesAnalysis
    <2> QED
      BY <1>f, <2>1 DEF SessionRow
  <1>7. CASE GivesAnswer(session')
    BY <1>f, <1>7 DEF GivesAnswer, SessionRow
  <1>8. CASE CatchesUp(session')
    <2>1. PICK n : n = session'.wave
      OBVIOUS
    <2>2. session' = [session EXCEPT !.wave = n] /\ session'.wave > session.wave
      BY <1>8, <2>1 DEF CatchesUp
    <2>3. RowsCurrent' => session'.wave \in Nat
      BY DEF RowsCurrent, Inv, SnapshotsGrounded, TypeOK, SessionRow
    <2> QED
      BY <1>f, <2>2, <2>3 DEF SessionRow
  <1> QED
    BY <1>1, <1>2, <1>3, <1>4, <1>5, <1>6, <1>7, <1>8 DEF OneMove, SessionMove, JobMove

LEMMA FreezesPrimed ==
  ASSUME OneCall, NEW c \in Client,
         \A w \in freezes'.stored : WaveRecords(w)' \subseteq freezes'.ids[w],
         \A w \in freezes'.stored \ session'.frozen : call'[c].pc = "freeze_track" /\ w = call'[c].wave,
         \A w \in session'.frozen : w <= session'.wave \/ (call'[c].pc = "save_session" /\ w <= call'[c].ses.wave),
         (call[c].pc \in {"freeze_open", "freeze_save"} => call[c].seen = WaveRecords(call[c].wave))',
         call'[c].pc = "evidence_save" => \A w \in freezes'.stored : w < call'[c].row.wave
  PROVE  FreezesWhole'
  <1>1. \A d \in Client : d = c
    BY DEF OneCall
  <1>2. FreezeHeld(call[c])'
    BY DEF FreezeHeld
  <1> QED
    BY <1>1, <1>2 DEF FreezesWhole

\* A step that neither freezes nor records a finding, nor is about to.
LEMMA FreezesKept ==
  ASSUME OneCall, RowsCurrent, OneMove, FreezesWhole, NEW c \in Client,
         RowsCurrent', ledger' = ledger, freezes' = freezes,
         call[c].pc \notin {"freeze_track", "save_session"},
         call'[c].pc \notin {"freeze_open", "freeze_save", "evidence_save"}
  PROVE  FreezesWhole'
  <1>1. /\ \A w \in freezes.stored : WaveRecords(w) \subseteq freezes.ids[w]
        /\ freezes.stored \subseteq session.frozen
        /\ \A w \in session.frozen : w <= session.wave
    BY DEF FreezesWhole, FreezeHeld
  <1>2. session'.frozen = session.frozen /\ session'.wave >= session.wave
    BY <1>1, FrozenStays
  <1>3. /\ session.frozen \subseteq Nat /\ session.wave \in Nat /\ session'.wave \in Nat
    BY DEF RowsCurrent, Inv, SnapshotsGrounded, TypeOK, SessionRow, Wave
  <1>4. \A w : WaveRecords(w)' = WaveRecords(w)
    BY DEF WaveRecords
  <1> QED
    BY <1>1, <1>2, <1>3, <1>4, FreezesPrimed

\* What FreezesWhole says of the call that acts, when it is not about to track a freeze.
LEMMA FrozenFacts ==
  ASSUME RowsCurrent, FreezesWhole, NEW c \in Client
  PROVE  /\ freezes \in [stored : SUBSET Wave, ids : [Wave -> SUBSET Evidence]]
         /\ session.frozen \subseteq freezes.stored /\ session.wave \in Nat
         /\ \A w \in freezes.stored : w \in Nat /\ WaveRecords(w) \subseteq freezes.ids[w]
         /\ call[c].pc # "freeze_track" => freezes.stored = session.frozen
         /\ call[c].pc # "save_session" => \A w \in session.frozen : w <= session.wave
         /\ FreezeHeld(call[c])
  <1>1. /\ freezes \in [stored : SUBSET Wave, ids : [Wave -> SUBSET Evidence]]
        /\ session.frozen \subseteq freezes.stored /\ session.wave \in Nat
    BY DEF RowsCurrent, Inv, SnapshotsGrounded, TypeOK, SessionOK, SessionRow
  <1>2. \A w \in freezes.stored : w \in Nat
    BY <1>1 DEF Wave
  <1>3. FreezeHeld(call[c]) /\ \A w \in freezes.stored : WaveRecords(w) \subseteq freezes.ids[w]
    BY DEF FreezesWhole
  <1> QED
    BY <1>1, <1>2, <1>3 DEF FreezeHeld

LEMMA TrackWhole ==
  ASSUME OneCall, RowsCurrent, RowsCurrent', FreezesWhole, NEW c \in Client, FreezeTrack(c)
  PROVE  FreezesWhole'
  <1>f. /\ call \in [Client -> CallState] /\ call[c] \in CallState
        /\ SessionCurrent(call[c]) /\ CallOK(call[c])
    BY CurrentFacts
  <1>p. PICK t \in CallState : t = call[c]
    BY <1>f
  <1>1. t.pc = "freeze_track" /\ t.ses = session /\ t.wave \in freezes.stored
    BY <1>f, <1>p DEF FreezeTrack, At, SessionCurrent, ReadsSession, CallOK, HoldsStored
  <1>2. freezes' = freezes /\ ledger' = ledger /\ session' = Tracked(session, t.wave)
    BY <1>p, <1>1 DEF FreezeTrack, SaveSession
  <1>3. session \in SessionRow
    BY CurrentFacts
  <1>4. session'.frozen = session.frozen \union {t.wave} /\ session'.wave = session.wave
    BY <1>2, <1>3 DEF Tracked, SessionRow
  <1>5. freezes.stored \subseteq session.frozen \union {t.wave}
    BY <1>p, <1>1, FrozenFacts DEF FreezeHeld
  <1>6. \A w \in session.frozen : w <= session.wave
    BY <1>p, <1>1, FrozenFacts
  <1>7. CASE t.wave > session.wave
    <2>1. PICK ses \in SessionRow : ses = [session' EXCEPT !.wave = t.wave]
      <3>1. session' \in SessionRow /\ t.wave \in Nat
        BY <1>1, FrozenFacts DEF RowsCurrent, Inv, SnapshotsGrounded, TypeOK
      <3> QED
        BY <3>1 DEF SessionRow
    <2>2. ses.wave = t.wave
      BY <1>2, <1>3, <2>1 DEF Tracked, SessionRow
    <2>3. call' = [call EXCEPT ![c] = [t EXCEPT !.pc = "save_session", !.ses = ses]]
      BY <1>p, <1>1, <1>2, <1>4, <1>7, <2>1, FrozenFacts DEF FreezeTrack, Hold, SaveSession
    <2>4. call'[c].pc = "save_session" /\ call'[c].ses.wave = t.wave
      BY <1>f, <2>2, <2>3 DEF CallState
    <2>5. \A w \in session'.frozen : w <= session'.wave \/ w <= call'[c].ses.wave
      BY <1>1, <1>4, <1>6, <2>4, FrozenFacts
    <2> QED
      BY <1>2, <1>4, <1>5, <2>4, <2>5, FrozenFacts, FreezesPrimed DEF WaveRecords
  <1>8. CASE ~(t.wave > session.wave)
    <2>1. call' = [call EXCEPT ![c] = Idle]
      BY <1>p, <1>1, <1>2, <1>4, <1>8, FrozenFacts DEF FreezeTrack, Return, Hold, SaveSession
    <2>2. call'[c].pc = "idle"
      BY <1>f, <2>1 DEF Idle
    <2>3. \A w \in session'.frozen : w <= session'.wave
      BY <1>1, <1>4, <1>6, <1>8, FrozenFacts
    <2> QED
      BY <1>2, <1>4, <1>5, <2>2, <2>3, FrozenFacts, FreezesPrimed DEF WaveRecords
  <1> QED
    BY <1>7, <1>8

LEMMA SessionSaveWhole ==
  ASSUME OneCall, RowsCurrent, RowsCurrent', OneMove, FreezesWhole, NEW c \in Client, SaveSessionRow(c)
  PROVE  FreezesWhole'
  <1>f. /\ call \in [Client -> CallState] /\ call[c] \in CallState
    BY CurrentFacts
  <1>p. PICK t \in CallState : t = call[c]
    BY <1>f
  <1>1. t.pc = "save_session" /\ session' = t.ses /\ freezes' = freezes /\ ledger' = ledger
    BY <1>p DEF SaveSessionRow, At, SaveSession
  <1>2. call'[c].pc = "idle"
    BY JobFlow DEF WritesSession
  <1>3. freezes.stored = session.frozen
    BY <1>p, <1>1, FrozenFacts
  <1>4. session'.frozen = session.frozen /\ session'.wave >= session.wave
    BY <1>3, FrozenStays
  <1>5. \A w \in session.frozen : w <= session.wave \/ w <= session'.wave
    BY <1>p, <1>1, FrozenFacts DEF FreezeHeld
  <1>6. session'.wave \in Nat
    BY DEF RowsCurrent, Inv, SnapshotsGrounded, TypeOK, SessionRow
  <1>7. \A w \in session'.frozen : w <= session'.wave
    BY <1>3, <1>4, <1>5, <1>6, FrozenFacts
  <1> QED
    BY <1>1, <1>2, <1>3, <1>4, <1>7, FrozenFacts, FreezesPrimed DEF WaveRecords

LEMMA ListWhole ==
  ASSUME OneCall, RowsCurrent, FreezesWhole, NEW c \in Client, FreezeList(c) \/ FreezeOpenJobs(c)
  PROVE  FreezesWhole'
  <1>f. /\ call \in [Client -> CallState] /\ call[c] \in CallState
    BY CurrentFacts
  <1>p. PICK t \in CallState : t = call[c]
    BY <1>f
  <1>1. session' = session /\ freezes' = freezes /\ ledger' = ledger
    BY DEF FreezeList, FreezeOpenJobs, StoreUnchanged, store
  <1>2. t.pc \in {"freeze_list", "freeze_open"}
    BY <1>p DEF FreezeList, FreezeOpenJobs, At
  <1>3. CASE FreezeList(c)
    <2>1. call' = [call EXCEPT ![c] = [t EXCEPT !.pc = "freeze_open", !.seen = WaveRecords(t.wave)]]
      BY <1>p, <1>3 DEF FreezeList, Hold
    <2>2. call'[c].pc = "freeze_open" /\ call'[c].seen = WaveRecords(t.wave) /\ call'[c].wave = t.wave
      BY <1>f, <2>1 DEF CallState
    <2> QED
      BY <1>1, <1>2, <1>p, <2>2, FrozenFacts, FreezesPrimed DEF WaveRecords
  <1>4. CASE FreezeOpenJobs(c)
    <2>1. t.pc = "freeze_open" /\ t.seen = WaveRecords(t.wave)
      BY <1>p, <1>4, FrozenFacts DEF FreezeOpenJobs, At, FreezeHeld
    <2>2. \/ call' = [call EXCEPT ![c] = Idle]
          \/ call' = [call EXCEPT ![c] = [t EXCEPT !.pc = "freeze_save"]]
      BY <1>p, <1>4 DEF FreezeOpenJobs, Goto, Return, Hold
    <2>3. \/ call'[c].pc = "idle"
          \/ call'[c].pc = "freeze_save" /\ call'[c].seen = t.seen /\ call'[c].wave = t.wave
      BY <1>f, <2>2 DEF CallState, Idle
    <2> QED
      BY <1>1, <1>2, <1>p, <2>1, <2>3, FrozenFacts, FreezesPrimed DEF WaveRecords
  <1> QED
    BY <1>3, <1>4

\* The freeze stored holds the findings listed, and none was recorded since.
LEMMA FreezeWhole ==
  ASSUME OneCall, RowsCurrent, FreezesWhole, NEW c \in Client, FreezeSave(c)
  PROVE  FreezesWhole'
  <1>f. /\ call \in [Client -> CallState] /\ call[c] \in CallState /\ CallOK(call[c])
    BY CurrentFacts
  <1>p. PICK t \in CallState : t = call[c]
    BY <1>f
  <1>1. t.pc = "freeze_save" /\ t.seen = WaveRecords(t.wave) /\ t.wave \in Wave
    BY <1>f, <1>p, FrozenFacts DEF FreezeSave, At, FreezeHeld, CallOK, HoldsWave
  <1>2. session' = session /\ ledger' = ledger
    BY DEF FreezeSave
  <1>3. call'[c].pc = "freeze_track" /\ call'[c].wave = t.wave
    BY <1>f, <1>p DEF FreezeSave, Goto, CallState
  <1>4. freezes.stored = session.frozen /\ \A w \in session.frozen : w <= session.wave
    BY <1>p, <1>1, FrozenFacts
  <1>5. /\ freezes'.stored \subseteq freezes.stored \union {t.wave}
        /\ \A w \in freezes'.stored : WaveRecords(w) \subseteq freezes'.ids[w]
    <2>1. CASE t.wave \in freezes.stored
      BY <1>p, <2>1, FrozenFacts DEF FreezeSave
    <2>2. CASE t.wave \notin freezes.stored
      <3>1. freezes' = [stored |-> freezes.stored \union {t.wave}, ids |-> [freezes.ids EXCEPT ![t.wave] = t.seen]]
        BY <1>p, <2>2 DEF FreezeSave
      <3> QED
        BY <1>1, <3>1, FrozenFacts
    <2> QED
      BY <2>1, <2>2
  <1>6. \A w : WaveRecords(w)' = WaveRecords(w)
    BY <1>2 DEF WaveRecords
  <1> QED
    BY <1>2, <1>3, <1>4, <1>5, <1>6, FreezesPrimed

\* A finding is recorded for a wave past every frozen one.
LEMMA GateWhole ==
  ASSUME OneCall, RowsCurrent, RowsCurrent', FreezesWhole, NEW c \in Client, RecordEvidenceGate(c)
  PROVE  FreezesWhole'
  <1>f. /\ call \in [Client -> CallState] /\ call[c] \in CallState /\ SessionCurrent(call[c])
        /\ session \in SessionRow
    BY CurrentFacts
  <1>p. PICK t \in CallState : t = call[c]
    BY <1>f
  <1>1. t.pc = "evidence_job" /\ t.ses = session
    BY <1>f, <1>p DEF RecordEvidenceGate, At, SessionCurrent, ReadsSession
  <1>2. session' = session /\ freezes' = freezes /\ ledger' = ledger
    BY DEF RecordEvidenceGate, StoreUnchanged, store
  <1>3. freezes.stored = session.frozen /\ \A w \in session.frozen : w <= session.wave
    BY <1>p, <1>1, FrozenFacts
  <1>w. \A w : WaveRecords(w)' = WaveRecords(w)
    BY <1>2 DEF WaveRecords
  <1>4. CASE MayRecord(session, jobs[t.job])
    <2>1. call' = [call EXCEPT ![c] = [t EXCEPT !.pc = "evidence_save", !.row = jobs[t.job]]]
      BY <1>p, <1>1, <1>4 DEF RecordEvidenceGate, Hold
    <2>2. call'[c].pc = "evidence_save" /\ call'[c].row = jobs[t.job]
      BY <1>f, <2>1 DEF CallState
    <2>3. PICK w \in Wave : w = jobs[t.job].wave
      BY <2>2 DEF RowsCurrent, Inv, SnapshotsGrounded, TypeOK, CallState, JobRow
    <2>4. w = LiveWave(session) /\ w \notin session.frozen
      BY <1>4, <2>3 DEF MayRecord
    <2>5. session.wave \in Nat /\ w \in Nat /\ Cardinality(session.frozen) \in Nat
      BY <1>f, <2>3, WaveCardinality DEF SessionRow, Wave
    <2>6. session.wave <= w
      BY <2>4, <2>5 DEF LiveWave
    <2>7. \A v \in session.frozen : v < w
      BY <1>3, <2>4, <2>5, <2>6, FrozenFacts
    <2> QED
      BY <1>2, <1>3, <1>w, <2>2, <2>3, <2>7, FrozenFacts, FreezesPrimed
  <1>5. CASE ~MayRecord(session, jobs[t.job])
    <2>1. call' = [call EXCEPT ![c] = Idle]
      BY <1>p, <1>1, <1>5 DEF RecordEvidenceGate, Hold, Return
    <2>2. call'[c].pc = "idle"
      BY <1>f, <2>1 DEF Idle
    <2> QED
      BY <1>2, <1>3, <1>w, <2>2, FrozenFacts, FreezesPrimed
  <1> QED
    BY <1>4, <1>5

LEMMA RecordWhole ==
  ASSUME OneCall, RowsCurrent, FreezesWhole, NEW c \in Client, RecordEvidenceSave(c)
  PROVE  FreezesWhole'
  <1>f. /\ call \in [Client -> CallState] /\ call[c] \in CallState
        /\ ledger \in [Evidence -> 0..MaxWaves]
    BY CurrentFacts DEF RowsCurrent, Inv, SnapshotsGrounded, TypeOK
  <1>p. PICK t \in CallState : t = call[c]
    BY <1>f
  <1>1. t.pc = "evidence_save" /\ \A w \in freezes.stored : w < t.row.wave
    BY <1>f, <1>p, FrozenFacts DEF RecordEvidenceSave, At, FreezeHeld
  <1>2. session' = session /\ freezes' = freezes
    BY DEF RecordEvidenceSave
  <1>3. call'[c].pc = "idle"
    BY <1>f DEF RecordEvidenceSave, Return, Hold, Idle
  <1>v. PICK v \in Nat : v = t.row.wave
    BY DEF CallState, JobRow, Wave
  <1>4. PICK e \in Evidence : ledger' = [ledger EXCEPT ![e] = IF @ = 0 THEN v ELSE @]
    BY <1>p, <1>v DEF RecordEvidenceSave
  <1>6. ASSUME NEW w \in freezes.stored
        PROVE  WaveRecords(w)' \subseteq WaveRecords(w)
    <2>1. w < v /\ w \in Nat
      BY <1>1, <1>v, <1>6, FrozenFacts
    <2>2. \A x \in Evidence : ledger'[x] = ledger[x] \/ ledger'[x] = v
      BY <1>f, <1>4
    <2>3. \A x \in Evidence : ledger'[x] <= w => ledger'[x] = ledger[x]
      BY <1>v, <2>1, <2>2
    <2> QED
      BY <2>3 DEF WaveRecords
  <1>7. freezes.stored = session.frozen /\ \A w \in session.frozen : w <= session.wave
    BY <1>p, <1>1, FrozenFacts
  <1> QED
    BY <1>2, <1>3, <1>6, <1>7, FrozenFacts, FreezesPrimed

LEMMA StepsKeepFreezes ==
  ASSUME OneCall, ~MayCrash, RowsCurrent, [Next]_vars, FreezesWhole
  PROVE  FreezesWhole'
  <1>m. RowsCurrent' /\ OneMove
    BY StepsAreMoves
  <1>1. CASE UNCHANGED vars
    BY <1>1 DEF vars, FreezesWhole, FreezeHeld, WaveRecords
  <1> USE DEF Reads, WritesSession, WritesJob, StoreUnchanged, store, At
  <1>2. ASSUME NEW c \in Client, JobStep(c)
        PROVE  FreezesWhole'
    <2>1. CASE SaveSessionRow(c)
      BY <1>m, <2>1, SessionSaveWhole
    <2>2. CASE ~SaveSessionRow(c)
      BY <1>m, <1>2, <2>2, JobFlow, FreezesKept DEF JobStep
    <2> QED
      BY <2>1, <2>2
  <1>3. ASSUME NEW c \in Client, EvidenceStep(c)
        PROVE  FreezesWhole'
    <2>1. CASE FreezeTrack(c) \/ FreezeList(c) \/ FreezeOpenJobs(c) \/ FreezeSave(c)
      BY <1>m, <2>1, TrackWhole, ListWhole, FreezeWhole
    <2>2. CASE RecordEvidenceGate(c) \/ RecordEvidenceSave(c)
      BY <1>m, <2>2, GateWhole, RecordWhole
    <2>3. CASE SubmitDossier(c)
      <3>1. At(c, "submit_dossier") /\ ledger' = ledger /\ freezes' = freezes /\ call'[c].pc = "submit_read"
        BY <2>3, CurrentFacts DEF SubmitDossier, Goto, CallState
      <3> QED
        BY <1>m, <3>1, FreezesKept
    <2>4. CASE RecordEvidenceRead(c) \/ SubmitRead(c) \/ SubmitSession(c) \/ SubmitLinkRead(c) \/ SubmitLinkSave(c)
               \/ FreezeRead(c) \/ FreezePlan(c) \/ FreezeResearch(c)
      BY <1>m, <2>4, EvidenceFlow, FreezesKept
    <2> QED
      BY <1>3, <2>1, <2>2, <2>3, <2>4 DEF EvidenceStep
  <1>4. ASSUME NEW c \in Client, CommitteeStep(c)
        PROVE  FreezesWhole'
    BY <1>m, <1>4, CommitteeFlow, FreezesKept DEF CommitteeStep
  <1>5. ASSUME NEW c \in Client, DirectorStep(c)
        PROVE  FreezesWhole'
    BY <1>m, <1>5, DirectorFlow, FreezesKept DEF DirectorStep
  <1>6. \A c \in Client : ~Crash(c)
    BY DEF Crash
  <1> QED
    BY <1>1, <1>2, <1>3, <1>4, <1>5, <1>6 DEF Next

\* Every accepted finding of a frozen wave is in the freeze, which the committee reads
\* (freeze_session, record_evidence), one call at a time and none of them dying.
THEOREM FreezesStayWhole == ASSUME OneCall, ~MayCrash PROVE Spec => []FreezeCoversWave
  <1>1. Init => FreezesWhole
    BY DEF Init, FreezesWhole, FreezeHeld, NewSession, Idle
  <1>2. RowsCurrent /\ FreezesWhole /\ [Next]_vars => FreezesWhole'
    BY StepsKeepFreezes
  <1>3. RowsCurrent /\ FreezesWhole => FreezeCoversWave
    BY DEF RowsCurrent, Inv, SnapshotsGrounded, SessionOK, FreezesWhole, FreezeCoversWave, WaveRecords
  <1> QED
    BY <1>1, <1>2, <1>3, RowsStayCurrent, PTL DEF Spec

-----------------------------------------------------------------------------
(* An analysis and the run that files it *)

\* A run of a freeze only grows.
LEMMA RunsGrow ==
  ASSUME RowsCurrent, OneMove
  PROVE  \A w \in Wave : session.runs[w] \subseteq session'.runs[w]
  <1>f. session \in SessionRow
    BY DEF RowsCurrent, Inv, SnapshotsGrounded, TypeOK
  <1>1. CASE session' = session
    BY <1>1
  <1>2. CASE Plans(session') \/ Cancels(session') \/ Settles(session')
    BY <1>f, <1>2, WalkKeeps
  <1>3. CASE Ends(session')
    BY <1>f, <1>3 DEF Ends, Status, SessionRow
  <1>4. CASE LinksDossier(session')
    BY <1>f, <1>4 DEF LinksDossier, SessionRow
  <1>5. CASE TracksFreeze(session')
    BY <1>f, <1>5 DEF TracksFreeze, Tracked, SessionRow
  <1>6. CASE FilesAnalysis(session')
    <2>1. PICK j \in Job : session' = [session EXCEPT !.status = IF @ = "freezing" THEN "analyzing" ELSE @,
                                                     !.runs[session.latest] = @ \union {j}]
      BY <1>6 DEF FilesAnalysis
    <2>2. session'.runs = [session.runs EXCEPT ![session.latest] = @ \union {j}]
      BY <1>f, <2>1 DEF SessionRow
    <2> QED
      BY <1>f, <2>2 DEF SessionRow
  <1>7. CASE GivesAnswer(session')
    BY <1>f, <1>7 DEF GivesAnswer, SessionRow
  <1>8. CASE CatchesUp(session')
    <2>1. PICK n : n = session'.wave
      OBVIOUS
    <2>2. session' = [session EXCEPT !.wave = n]
      BY <1>8, <2>1 DEF CatchesUp
    <2> QED
      BY <1>f, <2>2 DEF SessionRow
  <1> QED
    BY <1>1, <1>2, <1>3, <1>4, <1>5, <1>6, <1>7, <1>8 DEF OneMove, SessionMove, JobMove

\* Every job but the one a call saves stays as it is, and record_committee_analysis
\* alone saves a new analysis.
LEMMA JobSaves ==
  ASSUME RowsCurrent, NEW c \in Client,
         \/ CreateJobSaveJob(c) \/ SaveJobRow(c) \/ CompleteJobStart(c) \/ CompleteJobSave(c)
         \/ CommitteeSaveJob(c) \/ CommitteeFail(c)
  PROVE  \A j \in Job : jobs'[j].result = "analysis" => jobs'[j] = jobs[j]
  <1>f. /\ call[c] \in CallState /\ jobs \in [Job -> JobRow] /\ JobCurrent(call[c])
    BY CurrentFacts
  <1>p. PICK t \in CallState : t = call[c]
    BY <1>f
  <1>g. JobCurrent(t) /\ t.row \in JobRow
    BY <1>f, <1>p DEF CallState
  <1> USE DEF Creates, ChangesOpen, Completes, At, SaveJob
  <1>1. CASE CreateJobSaveJob(c) \/ CommitteeSaveJob(c)
    BY <1>f, <1>p, <1>g, <1>1 DEF CreateJobSaveJob, CommitteeSaveJob, JobCurrent
  <1>2. CASE SaveJobRow(c)
    BY <1>f, <1>p, <1>g, <1>2 DEF SaveJobRow, JobCurrent
  <1>3. CASE CompleteJobStart(c)
    <2>1. jobs' = [jobs EXCEPT ![t.job] = [t.row EXCEPT !.result = "none"]]
      BY <1>p, <1>3 DEF CompleteJobStart
    <2>2. [t.row EXCEPT !.result = "none"].result = "none"
      BY <1>g DEF JobRow
    <2> QED
      BY <1>f, <2>1, <2>2
  <1>4. CASE CompleteJobSave(c)
    <2>1. jobs' = [jobs EXCEPT ![t.job] = Status(t.row, "completed")] /\ t.row.result = "outcome"
      BY <1>p, <1>g, <1>4 DEF CompleteJobSave, JobCurrent
    <2>2. Status(t.row, "completed").result = "outcome"
      BY <1>g, <2>1 DEF Status, JobRow
    <2> QED
      BY <1>f, <2>1, <2>2
  <1>5. CASE CommitteeFail(c)
    BY <1>f, <1>p, <1>g, <1>5 DEF CommitteeFail, JobCurrent
  <1> QED
    BY <1>1, <1>2, <1>3, <1>4, <1>5

\* A step of a call that has no analysis to file, and saves none.
LEMMA FilingKept ==
  ASSUME OneCall, RowsCurrent, OneMove, FiledOrFiling, NEW c \in Client,
         call[c].pc # "analysis_track",
         \A j \in Job : jobs'[j].result = "analysis" => jobs'[j] = jobs[j]
  PROVE  FiledOrFiling'
  <1>1. ASSUME NEW j \in Job, jobs'[j].result = "analysis"
        PROVE  j \in session'.runs[jobs'[j].wave]
    <2>1. jobs'[j] = jobs[j] /\ jobs[j].wave \in Wave
      BY <1>1, CurrentFacts DEF JobRow
    <2>2. j \in session.runs[jobs[j].wave]
      BY <1>1, <2>1 DEF FiledOrFiling, OneCall
    <2> QED
      BY <2>1, <2>2, RunsGrow
  <1> QED
    BY <1>1 DEF FiledOrFiling

LEMMA AnalysisFiled ==
  ASSUME OneCall, RowsCurrent, FiledOrFiling, NEW c \in Client, RecordAnalysisSave(c) \/ RecordAnalysisTrack(c)
  PROVE  FiledOrFiling'
  <1>f. /\ call \in [Client -> CallState] /\ call[c] \in CallState /\ jobs \in [Job -> JobRow]
        /\ SessionCurrent(call[c]) /\ CallOK(call[c]) /\ session \in SessionRow
    BY CurrentFacts
  <1>p. PICK t \in CallState : t = call[c]
    BY <1>f
  <1>o. \A d \in Client : d = c
    BY DEF OneCall
  <1>1. CASE RecordAnalysisSave(c)
    <2>1. t.pc = "analysis_save" /\ jobs' = [jobs EXCEPT ![t.job] = t.row] /\ session' = session
      BY <1>p, <1>1 DEF RecordAnalysisSave, At, SaveJob
    <2>2. call'[c].pc = "analysis_track" /\ call'[c].job = t.job
      BY <1>f, <1>p, <1>1 DEF RecordAnalysisSave, Goto, CallState
    <2>3. \A j \in Job : jobs[j].result = "analysis" => j \in session.runs[jobs[j].wave]
      BY <1>p, <1>o, <2>1 DEF FiledOrFiling
    <2> QED
      BY <1>f, <1>o, <2>1, <2>2, <2>3 DEF FiledOrFiling
  <1>2. CASE RecordAnalysisTrack(c)
    <2>1. t.pc = "analysis_track" /\ t.ses = session /\ t.wave \in Wave /\ jobs[t.job].wave = t.wave
      BY <1>f, <1>p, <1>2 DEF RecordAnalysisTrack, At, SessionCurrent, ReadsSession, CallOK, HoldsStored,
                              RowsCurrent, Inv, SnapshotsGrounded, TypeOK
    <2>2. /\ session' = [session EXCEPT !.status = IF @ = "freezing" THEN "analyzing" ELSE @,
                                        !.runs[t.wave] = @ \union {t.job}]
          /\ jobs' = jobs
      BY <1>p, <1>2, <2>1 DEF RecordAnalysisTrack, SaveSession
    <2>3. session'.runs = [session.runs EXCEPT ![t.wave] = @ \union {t.job}]
      BY <1>f, <2>2 DEF SessionRow
    <2>4. \A j \in Job : jobs[j].result = "analysis" => j \in session.runs[jobs[j].wave] \/ j = t.job
      BY <1>p, <1>o DEF FiledOrFiling
    <2>5. \A j \in Job : jobs[j].wave \in Wave
      BY <1>f DEF JobRow
    <2>6. session.runs \in [Wave -> SUBSET Job]
      BY <1>f DEF SessionRow
    <2>7. ASSUME NEW j \in Job, jobs[j].result = "analysis"
          PROVE  j \in session'.runs[jobs[j].wave]
      BY <2>1, <2>3, <2>4, <2>5, <2>6, <2>7
    <2> QED
      BY <2>2, <2>7 DEF FiledOrFiling
  <1> QED
    BY <1>1, <1>2

LEMMA StepsKeepFiling ==
  ASSUME OneCall, ~MayCrash, RowsCurrent, [Next]_vars, FiledOrFiling
  PROVE  FiledOrFiling'
  <1>m. RowsCurrent' /\ OneMove
    BY StepsAreMoves
  <1>1. CASE UNCHANGED vars
    BY <1>1 DEF vars, FiledOrFiling
  <1>k. ASSUME NEW c \in Client, jobs' = jobs, call[c].pc # "analysis_track"
        PROVE  FiledOrFiling'
    BY <1>m, <1>k, FilingKept
  <1> USE DEF Reads, WritesSession, WritesJob, StoreUnchanged, store, At
  <1>2. ASSUME NEW c \in Client, JobStep(c)
        PROVE  FiledOrFiling'
    <2>1. CASE CreateJobSaveJob(c) \/ SaveJobRow(c) \/ CompleteJobStart(c) \/ CompleteJobSave(c)
      <3>1. call[c].pc # "analysis_track"
        BY <2>1, JobFlow
      <3> QED
        BY <1>m, <2>1, <3>1, JobSaves, FilingKept
    <2>2. CASE ~(CreateJobSaveJob(c) \/ SaveJobRow(c) \/ CompleteJobStart(c) \/ CompleteJobSave(c))
      BY <1>k, <1>2, <2>2, JobFlow DEF JobStep
    <2> QED
      BY <2>1, <2>2
  <1>3. ASSUME NEW c \in Client, EvidenceStep(c)
        PROVE  FiledOrFiling'
    <2>1. CASE RecordEvidenceSave(c) \/ SubmitDossier(c) \/ FreezeSave(c)
      BY <1>k, <2>1 DEF RecordEvidenceSave, SubmitDossier, FreezeSave
    <2>2. CASE ~(RecordEvidenceSave(c) \/ SubmitDossier(c) \/ FreezeSave(c))
      BY <1>k, <1>3, <2>2, EvidenceFlow DEF EvidenceStep
    <2> QED
      BY <2>1, <2>2
  <1>4. ASSUME NEW c \in Client, CommitteeStep(c)
        PROVE  FiledOrFiling'
    <2>1. CASE RecordAnalysisSave(c) \/ RecordAnalysisTrack(c)
      BY <2>1, AnalysisFiled
    <2>2. CASE CommitteeSaveJob(c) \/ CommitteeFail(c)
      <3>1. call[c].pc # "analysis_track"
        BY <2>2, CommitteeFlow
      <3> QED
        BY <1>m, <2>2, <3>1, JobSaves, FilingKept
    <2>3. CASE ~(RecordAnalysisSave(c) \/ RecordAnalysisTrack(c) \/ CommitteeSaveJob(c) \/ CommitteeFail(c))
      BY <1>k, <1>4, <2>3, CommitteeFlow DEF CommitteeStep
    <2> QED
      BY <2>1, <2>2, <2>3
  <1>5. ASSUME NEW c \in Client, DirectorStep(c)
        PROVE  FiledOrFiling'
    BY <1>k, <1>5, DirectorFlow DEF DirectorStep
  <1>6. \A c \in Client : ~Crash(c)
    BY DEF Crash
  <1> QED
    BY <1>1, <1>2, <1>3, <1>4, <1>5, <1>6 DEF Next

\* Between calls every analysis recorded is in the run of its freeze
\* (record_committee_analysis saves the job, then the session), no call dying.
THEOREM AnalysesStayFiled == ASSUME OneCall, ~MayCrash PROVE Spec => []AnalysesFiled
  <1>1. Init => FiledOrFiling
    BY DEF Init, FiledOrFiling, NoRow
  <1>2. RowsCurrent /\ FiledOrFiling /\ [Next]_vars => FiledOrFiling'
    BY StepsKeepFiling
  <1>3. FiledOrFiling => AnalysesFiled
    <2> SUFFICES ASSUME FiledOrFiling, Quiet, NEW j \in Job, jobs[j].result = "analysis"
                 PROVE  j \in session.runs[jobs[j].wave]
      BY DEF AnalysesFiled
    <2> QED
      BY DEF FiledOrFiling, Quiet, At
  <1> QED
    BY <1>1, <1>2, <1>3, RowsStayCurrent, PTL DEF Spec

-----------------------------------------------------------------------------
(* The three jobs of a committee *)

\* A row saved over the row of a job that is open, or over itself.
LEMMA SavedOver ==
  ASSUME jobs \in [Job -> JobRow], NEW j \in Job, NEW row, jobs' = [jobs EXCEPT ![j] = row], Row(j),
         row.status # "none", row.type = jobs[j].type, row.wave = jobs[j].wave,
         row.status \in OpenJob => jobs[j].status \in OpenJob
  PROVE  /\ ActiveJobs' \subseteq ActiveJobs
         /\ \A k \in Job : jobs'[k].type = jobs[k].type /\ jobs'[k].wave = jobs[k].wave
         /\ \A w : MissingRoles(w)' = MissingRoles(w)
  <1>1. \A k \in Job : /\ jobs'[k].type = jobs[k].type /\ jobs'[k].wave = jobs[k].wave
                       /\ jobs'[k].status # "none" <=> jobs[k].status # "none"
                       /\ jobs'[k].status \in OpenJob => jobs[k].status \in OpenJob
    BY DEF Row
  <1> QED
    BY <1>1 DEF ActiveJobs, MissingRoles, Row

LEMMA SameJobs ==
  ASSUME jobs' = jobs
  PROVE  /\ ActiveJobs' \subseteq ActiveJobs
         /\ \A k \in Job : jobs'[k].type = jobs[k].type /\ jobs'[k].wave = jobs[k].wave
         /\ \A w : MissingRoles(w)' = MissingRoles(w)
  BY DEF ActiveJobs, MissingRoles, Row

\* A step that opens no job, and keeps the ones the call answers for.
LEMMA TrioKept ==
  ASSUME OneCall, RowsCurrent, TrioOrStarting, NEW c \in Client,
         ActiveJobs' \subseteq ActiveJobs,
         \A k \in Job : jobs'[k].type = jobs[k].type /\ jobs'[k].wave = jobs[k].wave,
         \A w : MissingRoles(w)' = MissingRoles(w),
         MissingRoles(call[c].wave) # {} =>
             \A j \in ActiveJobs' : j \in Started(call[c]) =>
                 j \in Started(call[c])' /\ call'[c].wave = call[c].wave,
         TrioHeld(call[c])'
  PROVE  TrioOrStarting'
  <1>o. \A d \in Client : d = c
    BY DEF OneCall
  <1>1. ASSUME NEW w \in Wave, MissingRoles(w)' # {}, NEW j \in ActiveJobs', jobs'[j].type \in Role, jobs'[j].wave = w
        PROVE  j \in Started(call[c])' /\ call'[c].wave = w
    <2>1. j \in ActiveJobs /\ j \in Job
      BY <1>1 DEF ActiveJobs
    <2>2. jobs[j].type \in Role /\ jobs[j].wave = w /\ MissingRoles(w) # {}
      BY <1>1, <2>1
    <2>3. j \in Started(call[c]) /\ call[c].wave = w
      BY <1>o, <2>1, <2>2 DEF TrioOrStarting
    <2> QED
      BY <1>1, <2>2, <2>3
  <1>2. (\A d \in Client : TrioHeld(call[d]))'
    BY <1>o
  <1> QED
    BY <1>1, <1>2 DEF TrioOrStarting

\* A step outside the creation of a committee or a source job.
LEMMA TrioApart ==
  ASSUME OneCall, RowsCurrent, TrioOrStarting, NEW c \in Client,
         ActiveJobs' \subseteq ActiveJobs,
         \A k \in Job : jobs'[k].type = jobs[k].type /\ jobs'[k].wave = jobs[k].wave,
         \A w : MissingRoles(w)' = MissingRoles(w),
         call[c].pc \notin InCommittee, call'[c].pc \notin InCommittee \union CreatesSource
  PROVE  TrioOrStarting'
  <1>1. Started(call[c]) = {}
    BY DEF Started
  <1>2. TrioHeld(call[c])'
    BY DEF TrioHeld, InCommittee, CreatesSource
  <1> QED
    BY <1>1, <1>2, TrioKept

\* start_job creates a source job: it is no job of a committee.
LEMMA SourceTrio ==
  ASSUME OneCall, RowsCurrent, TrioOrStarting, NEW c \in Client, "retry_job" \notin Calls,
         \/ StartJobRead(c) \/ RetryJobRead(c) \/ RetryJobSession(c)
         \/ CreateJobCheck(c) \/ CreateJobSaveSession(c)
  PROVE  TrioOrStarting'
  <1>f. call \in [Client -> CallState] /\ call[c] \in CallState
    BY CurrentFacts
  <1>p. PICK t \in CallState : t = call[c]
    BY <1>f
  <1>g. TrioHeld(t)
    BY <1>p DEF TrioOrStarting
  <1>0. ~RetryJobRead(c)
    BY DEF RetryJobRead, Begin
  <1>1. jobs' = jobs
    BY DEF StartJobRead, RetryJobRead, RetryJobSession, CreateJobCheck, CreateJobSaveSession,
           StoreUnchanged, store, SaveSession
  <1>2. t.pc \notin InCommittee
    BY <1>0, <1>p, JobFlow DEF Reads, WritesSession, At, InCommittee
  <1>3. call'[c].pc \notin InCommittee
    BY <1>0, JobFlow DEF Reads, WritesSession, InCommittee
  <1>4. call'[c].pc \in CreatesSource => call'[c].row.type = "source_agent"
    <2>1. CASE StartJobRead(c)
      <3>1. PICK w \in Wave : Hold(c, [Idle EXCEPT !.pc = "create_check", !.wave = w, !.ses = session, !.yes = TRUE,
                                             !.row = [NoRow EXCEPT !.wave = w, !.status = "queued"]])
        BY <2>1 DEF StartJobRead
      <3>2. call'[c].row = [NoRow EXCEPT !.wave = w, !.status = "queued"]
        BY <1>f, <3>1 DEF Hold, Idle
      <3>3. [NoRow EXCEPT !.wave = w, !.status = "queued"].type = "source_agent"
        BY DEF NoRow
      <3> QED
        BY <3>2, <3>3
    <2>2. CASE RetryJobSession(c)
      <3>1. call' = [call EXCEPT ![c] = [t EXCEPT !.pc = "create_check", !.ses = session]] /\ t.pc = "create_session"
        BY <1>p, <2>2 DEF RetryJobSession, Hold, At
      <3>2. t.row.type = "source_agent"
        BY <1>g, <3>1 DEF TrioHeld, CreatesSource
      <3>3. call'[c].row = t.row
        BY <1>f, <3>1 DEF CallState
      <3> QED
        BY <3>2, <3>3
    <2>3. CASE CreateJobCheck(c)
      <3>1. /\ \/ call' = [call EXCEPT ![c] = [t EXCEPT !.pc = "create_save_session", !.job = NewJob]]
               \/ call' = [call EXCEPT ![c] = Idle]
            /\ t.pc = "create_check"
        BY <1>p, <2>3 DEF CreateJobCheck, Hold, Return, At
      <3>2. t.row.type = "source_agent"
        BY <1>g, <3>1 DEF TrioHeld, CreatesSource
      <3>3. call'[c].row = t.row \/ call'[c].pc = "idle"
        <4>1. CASE call' = [call EXCEPT ![c] = [t EXCEPT !.pc = "create_save_session", !.job = NewJob]]
          BY <1>f, <4>1 DEF CallState
        <4>2. CASE call' = [call EXCEPT ![c] = Idle]
          BY <1>f, <4>2 DEF Idle
        <4> QED
          BY <3>1, <4>1, <4>2
      <3> QED
        BY <3>2, <3>3 DEF CreatesSource
    <2>4. CASE CreateJobSaveSession(c)
      <3>1. call' = [call EXCEPT ![c] = [t EXCEPT !.pc = "create_save_job"]] /\ t.pc = "create_save_session"
        BY <1>p, <2>4 DEF CreateJobSaveSession, Goto, At
      <3>2. t.row.type = "source_agent"
        BY <1>g, <3>1 DEF TrioHeld, CreatesSource
      <3>3. call'[c].row = t.row
        BY <1>f, <3>1 DEF CallState
      <3> QED
        BY <3>2, <3>3
    <2> QED
      BY <1>0, <2>1, <2>2, <2>3, <2>4
  <1>5. TrioHeld(call[c])'
    BY <1>3, <1>4 DEF TrioHeld, InCommittee
  <1>6. Started(call[c]) = {}
    BY <1>p, <1>2 DEF Started
  <1> QED
    BY <1>1, <1>5, <1>6, SameJobs, TrioKept

LEMMA SourceSaved ==
  ASSUME OneCall, RowsCurrent, TrioOrStarting, NEW c \in Client, CreateJobSaveJob(c)
  PROVE  TrioOrStarting'
  <1>f. /\ call \in [Client -> CallState] /\ call[c] \in CallState /\ jobs \in [Job -> JobRow]
        /\ JobCurrent(call[c])
    BY CurrentFacts
  <1>o. \A d \in Client : d = c
    BY DEF OneCall
  <1>p. PICK t \in CallState : t = call[c]
    BY <1>f
  <1>1. t.pc = "create_save_job" /\ jobs' = [jobs EXCEPT ![t.job] = t.row]
    BY <1>p DEF CreateJobSaveJob, At, SaveJob
  <1>2. t.row.type = "source_agent" /\ ~Row(t.job)
    BY <1>f, <1>p, <1>1 DEF TrioOrStarting, TrioHeld, CreatesSource, JobCurrent, Creates
  <1>3. call'[c].pc \in {"save_job", "idle"}
    BY JobFlow DEF WritesJob
  <1>4. \A w : MissingRoles(w)' = MissingRoles(w)
    <2>1. \A k \in Job, r \in Role : (Row(k)' /\ jobs'[k].type = r) <=> (Row(k) /\ jobs[k].type = r)
      BY <1>f, <1>1, <1>2 DEF Row, Role
    <2>2. \A k \in Job : k # t.job => jobs'[k] = jobs[k]
      BY <1>f, <1>1
    <2>3. \A k \in Job, r \in Role : Row(k) /\ jobs[k].type = r => k # t.job
      BY <1>2
    <2> QED
      BY <2>1, <2>2, <2>3 DEF MissingRoles
  <1>5. ASSUME NEW j \in ActiveJobs', jobs'[j].type \in Role
        PROVE  j \in ActiveJobs /\ jobs'[j] = jobs[j]
    BY <1>f, <1>1, <1>2, <1>5 DEF ActiveJobs, Role
  <1>6. ASSUME NEW w \in Wave, MissingRoles(w) # {}, NEW j \in ActiveJobs, jobs[j].type \in Role
        PROVE  jobs[j].wave # w
    <2>1. Started(t) = {}
      BY <1>1 DEF Started, InCommittee
    <2> QED
      BY <1>o, <1>p, <1>6, <2>1 DEF TrioOrStarting
  <1>7. TrioHeld(call[c])'
    BY <1>3 DEF TrioHeld, CreatesSource
  <1>8. ASSUME NEW w \in Wave, MissingRoles(w)' # {}, NEW j \in ActiveJobs', jobs'[j].type \in Role
        PROVE  jobs'[j].wave # w
    BY <1>4, <1>5, <1>6, <1>8
  <1>9. (\A d \in Client : TrioHeld(call[d]))'
    BY <1>o, <1>7
  <1> QED
    BY <1>8, <1>9 DEF TrioOrStarting

\* A job that is saved by a call outside the creation of a committee.
LEMMA JobSavedTrio ==
  ASSUME OneCall, RowsCurrent, TrioOrStarting, NEW c \in Client,
         SaveJobRow(c) \/ CompleteJobStart(c) \/ CompleteJobSave(c) \/ RecordAnalysisSave(c)
  PROVE  TrioOrStarting'
  <1>f. /\ call[c] \in CallState /\ jobs \in [Job -> JobRow] /\ JobCurrent(call[c]) /\ CallOK(call[c])
    BY CurrentFacts
  <1>p. PICK t \in CallState : t = call[c]
    BY <1>f
  <1>g. JobCurrent(t) /\ CallOK(t) /\ t.row \in JobRow
    BY <1>f, <1>p DEF CallState
  <1>1. PICK row : /\ jobs' = [jobs EXCEPT ![t.job] = row] /\ row.type = t.row.type /\ row.wave = t.row.wave
                   /\ \/ row.status # "none" /\ jobs[t.job].status \in OpenJob
                      \/ row = jobs[t.job] /\ row = t.row
                   /\ t.pc \in {"save_job", "complete_start", "complete_save", "analysis_save"}
    <2>1. CASE SaveJobRow(c)
      <3>1. jobs' = [jobs EXCEPT ![t.job] = t.row] /\ t.pc = "save_job"
        BY <1>p, <2>1 DEF SaveJobRow, SaveJob, At
      <3>2. t.row.status # "none" /\ (t.row = jobs[t.job] \/ jobs[t.job].status \in OpenJob)
        BY <1>g, <3>1 DEF JobCurrent, CallOK, HoldsRow, JobOK
      <3> QED
        BY <3>1, <3>2
    <2>2. CASE CompleteJobStart(c)
      <3>1. jobs' = [jobs EXCEPT ![t.job] = [t.row EXCEPT !.result = "none"]] /\ t.pc = "complete_start"
        BY <1>p, <2>2 DEF CompleteJobStart, SaveJob, At
      <3>2. t.row.status = "running" /\ jobs[t.job].status \in OpenJob
        BY <1>g, <3>1 DEF JobCurrent, Completes, ChangesOpen
      <3>3. PICK row : row = [t.row EXCEPT !.result = "none"]
        OBVIOUS
      <3>4. row.type = t.row.type /\ row.wave = t.row.wave /\ row.status # "none"
        BY <1>g, <3>2, <3>3 DEF JobRow
      <3> QED
        BY <3>1, <3>2, <3>3, <3>4
    <2>3. CASE CompleteJobSave(c)
      <3>1. jobs' = [jobs EXCEPT ![t.job] = Status(t.row, "completed")] /\ t.pc = "complete_save"
        BY <1>p, <2>3 DEF CompleteJobSave, SaveJob, At
      <3>2. jobs[t.job].status \in OpenJob
        BY <1>g, <3>1 DEF JobCurrent, ChangesOpen
      <3>3. PICK row : row = Status(t.row, "completed")
        OBVIOUS
      <3>4. row.type = t.row.type /\ row.wave = t.row.wave /\ row.status # "none"
        BY <1>g, <3>3 DEF JobRow, Status
      <3> QED
        BY <3>1, <3>2, <3>3, <3>4
    <2>4. CASE RecordAnalysisSave(c)
      <3>1. jobs' = [jobs EXCEPT ![t.job] = t.row] /\ t.pc = "analysis_save"
        BY <1>p, <2>4 DEF RecordAnalysisSave, SaveJob, At
      <3>2. jobs[t.job].status \in OpenJob /\ t.row.status # "none"
        BY <1>g, <3>1 DEF JobCurrent, ChangesOpen, CallOK, HoldsRow, JobOK
      <3> QED
        BY <3>1, <3>2
    <2> QED
      BY <2>1, <2>2, <2>3, <2>4
  <1>2. t.job \in Job /\ t.row.status # "none"
        /\ (Row(t.job) => t.row.type = jobs[t.job].type /\ t.row.wave = jobs[t.job].wave)
    BY <1>g, <1>1 DEF CallOK, HoldsRow, JobOK
  <1>3. Row(t.job)
    BY <1>1, <1>2 DEF Row, OpenJob
  <1>4. /\ row.status # "none" /\ row.type = jobs[t.job].type /\ row.wave = jobs[t.job].wave
        /\ row.status \in OpenJob => jobs[t.job].status \in OpenJob
    BY <1>1, <1>2, <1>3
  <1>5. /\ ActiveJobs' \subseteq ActiveJobs
        /\ \A k \in Job : jobs'[k].type = jobs[k].type /\ jobs'[k].wave = jobs[k].wave
        /\ \A w : MissingRoles(w)' = MissingRoles(w)
    BY <1>f, <1>1, <1>2, <1>3, <1>4, SavedOver
  <1>6. call[c].pc \notin InCommittee
    BY <1>p, <1>1 DEF InCommittee
  <1>7. call'[c].pc \notin InCommittee \union CreatesSource
    BY JobFlow, CommitteeFlow DEF WritesJob, InCommittee, CreatesSource
  <1> QED
    BY <1>5, <1>6, <1>7, TrioApart

\* create_committee_jobs reads: the roles to create cover the roles that have no job.
LEMMA CommitteeReadsTrio ==
  ASSUME OneCall, RowsCurrent, TrioOrStarting, NEW c \in Client,
         \/ CommitteeRoles(c) \/ CommitteeSession(c) \/ CommitteeCheck(c) \/ CommitteeSaveSession(c)
  PROVE  TrioOrStarting'
  <1>f. /\ call \in [Client -> CallState] /\ call[c] \in CallState
    BY CurrentFacts
  <1>p. PICK t \in CallState : t = call[c]
    BY <1>f
  <1>g. TrioHeld(t)
    BY <1>p DEF TrioOrStarting
  <1>1. jobs' = jobs
    BY DEF CommitteeRoles, CommitteeSession, CommitteeCheck, CommitteeSaveSession, StoreUnchanged, store, SaveSession
  <1>2. \A w : MissingRoles(w)' = MissingRoles(w)
    BY <1>1, SameJobs
  <1>3. CASE CommitteeRoles(c)
    <2>1. PICK w \in Wave : call' = [call EXCEPT ![c] = [Idle EXCEPT !.pc = "committee_session", !.wave = w,
                                                                    !.todo = MissingRoles(w)]]
      BY <1>3 DEF CommitteeRoles, Hold
    <2>2. /\ call'[c].pc = "committee_session" /\ call'[c].todo = MissingRoles(w) /\ call'[c].wave = w
      BY <1>f, <2>1 DEF Idle
    <2>3. TrioHeld(call[c])'
      BY <1>2, <2>2 DEF TrioHeld, CreatesSource
    <2>4. Started(call[c]) = {}
      BY <1>3 DEF CommitteeRoles, Begin, At, Started, InCommittee
    <2> QED
      BY <1>1, <2>3, <2>4, SameJobs, TrioKept
  <1>4. CASE CommitteeSession(c)
    <2>1. t.pc = "committee_session" /\ call' = [call EXCEPT ![c] = [t EXCEPT !.pc = "committee_check", !.ses = session]]
      BY <1>p, <1>4 DEF CommitteeSession, Hold, At
    <2>2. /\ call'[c].pc = "committee_check" /\ call'[c].todo = t.todo /\ call'[c].wave = t.wave /\ call'[c].mine = t.mine
      BY <1>f, <2>1 DEF CallState
    <2>3. TrioHeld(call[c])'
      BY <1>g, <1>2, <2>1, <2>2 DEF TrioHeld, CreatesSource
    <2>4. Started(call[c])' = Started(call[c])
      BY <1>p, <2>1, <2>2 DEF Started, InCommittee
    <2> QED
      BY <1>p, <1>1, <2>2, <2>3, <2>4, SameJobs, TrioKept
  <1>5. CASE CommitteeCheck(c)
    <2>1. t.pc = "committee_check" /\ MissingRoles(t.wave) \subseteq t.todo
      BY <1>p, <1>g, <1>5 DEF CommitteeCheck, At, TrioHeld
    <2>2. CASE CommitteeReturns(c) /\ Return(c)
      <3>1. MissingRoles(t.wave) = {}
        BY <1>p, <2>1, <2>2 DEF CommitteeReturns
      <3>2. call'[c].pc = "idle"
        BY <1>f, <2>2 DEF Return, Hold, Idle
      <3>3. TrioHeld(call[c])'
        BY <3>2 DEF TrioHeld, CreatesSource
      <3> QED
        BY <1>p, <1>1, <3>1, <3>3, SameJobs, TrioKept
    <2>3. CASE Goto(c, "committee_rollback")
      <3>1. call'[c].pc = "committee_rollback" /\ call'[c].wave = t.wave /\ call'[c].mine = t.mine
        BY <1>f, <1>p, <2>3 DEF Goto, CallState
      <3>2. TrioHeld(call[c])'
        BY <3>1 DEF TrioHeld, CreatesSource
      <3>3. Started(call[c])' = Started(call[c])
        BY <1>p, <2>1, <3>1 DEF Started, InCommittee
      <3> QED
        BY <1>p, <1>1, <3>1, <3>2, <3>3, SameJobs, TrioKept
    <2>4. CASE ~Goto(c, "committee_rollback") /\ ~(CommitteeReturns(c) /\ Return(c))
      <3>1. PICK r : r = NextRole(t.todo)
        OBVIOUS
      <3>2. r \in Role
        BY <3>1 DEF NextRole, Role
      <3>3. call' = [call EXCEPT ![c] = [t EXCEPT !.pc = "committee_save_session", !.job = NewJob, !.todo = @ \ {r},
                              !.row = [NoRow EXCEPT !.type = r, !.wave = t.wave, !.status = "running"]]]
        BY <1>p, <1>5, <2>4, <3>1 DEF CommitteeCheck, Hold
      <3>4. /\ call'[c].pc = "committee_save_session" /\ call'[c].todo = t.todo \ {r}
            /\ call'[c].wave = t.wave /\ call'[c].mine = t.mine
            /\ call'[c].row = [NoRow EXCEPT !.type = r, !.wave = t.wave, !.status = "running"]
        BY <1>f, <3>3 DEF CallState
      <3>5. call'[c].row.type = r /\ call'[c].row.wave = t.wave
        BY <3>4 DEF NoRow
      <3>6. TrioHeld(call[c])'
        BY <1>2, <2>1, <3>2, <3>4, <3>5 DEF TrioHeld, CreatesSource
      <3>7. Started(call[c])' = Started(call[c])
        BY <1>p, <2>1, <3>4 DEF Started, InCommittee
      <3> QED
        BY <1>p, <1>1, <3>4, <3>6, <3>7, SameJobs, TrioKept
    <2> QED
      BY <2>2, <2>3, <2>4
  <1>6. CASE CommitteeSaveSession(c)
    <2>1. t.pc = "committee_save_session" /\ call' = [call EXCEPT ![c] = [t EXCEPT !.pc = "committee_save_job"]]
      BY <1>p, <1>6 DEF CommitteeSaveSession, Goto, At
    <2>2. /\ call'[c].pc = "committee_save_job" /\ call'[c].todo = t.todo /\ call'[c].wave = t.wave
          /\ call'[c].mine = t.mine /\ call'[c].row = t.row
      BY <1>f, <2>1 DEF CallState
    <2>3. TrioHeld(call[c])'
      BY <1>g, <1>2, <2>1, <2>2 DEF TrioHeld, CreatesSource
    <2>4. Started(call[c])' = Started(call[c])
      BY <1>p, <2>1, <2>2 DEF Started, InCommittee
    <2> QED
      BY <1>p, <1>1, <2>2, <2>3, <2>4, SameJobs, TrioKept
  <1> QED
    BY <1>3, <1>4, <1>5, <1>6

\* A committee job is created for a role that had none, and the call answers for it.
LEMMA CommitteeSavesTrio ==
  ASSUME OneCall, RowsCurrent, TrioOrStarting, NEW c \in Client, CommitteeSaveJob(c)
  PROVE  TrioOrStarting'
  <1>f. /\ call \in [Client -> CallState] /\ call[c] \in CallState /\ jobs \in [Job -> JobRow]
        /\ JobCurrent(call[c]) /\ CallOK(call[c])
    BY CurrentFacts
  <1>o. \A d \in Client : d = c
    BY DEF OneCall
  <1>p. PICK t \in CallState : t = call[c]
    BY <1>f
  <1>g. TrioHeld(t) /\ JobCurrent(t) /\ CallOK(t)
    BY <1>f, <1>p DEF TrioOrStarting
  <1>1. t.pc = "committee_save_job" /\ jobs' = [jobs EXCEPT ![t.job] = t.row]
    BY <1>p DEF CommitteeSaveJob, At, SaveJob
  <1>2. /\ ~Row(t.job) /\ t.job \in Job /\ t.row.status \in OpenJob
        /\ t.row.type \in Role /\ t.row.wave = t.wave
        /\ MissingRoles(t.wave) \subseteq t.todo \union {t.row.type}
    BY <1>g, <1>1 DEF TrioHeld, JobCurrent, Creates, CallOK, HoldsRow, JobOK
  <1>3. call' = [call EXCEPT ![c] = [t EXCEPT !.pc = "committee_check", !.mine = @ \union {t.job}]]
    BY <1>p DEF CommitteeSaveJob, Hold
  <1>4. /\ call'[c].pc = "committee_check" /\ call'[c].wave = t.wave /\ call'[c].todo = t.todo
        /\ call'[c].mine = t.mine \union {t.job}
    BY <1>f, <1>3 DEF CallState
  <1>5. Started(call[c])' = t.mine \union {t.job} /\ Started(t) = t.mine
    BY <1>1, <1>4 DEF Started, InCommittee
  <1>6. \A k \in Job : k # t.job => jobs'[k] = jobs[k]
    BY <1>f, <1>1
  <1>7. jobs'[t.job] = t.row /\ Row(t.job)'
    BY <1>f, <1>1, <1>2 DEF Row, OpenJob
  <1>8. \A w : MissingRoles(w)' \subseteq MissingRoles(w)
    <2>1. \A k \in Job : Row(k) => k # t.job
      BY <1>2
    <2>2. \A k \in Job : Row(k) => Row(k)' /\ jobs'[k] = jobs[k]
      BY <1>6, <2>1 DEF Row
    <2> QED
      BY <2>2 DEF MissingRoles
  <1>9. t.row.type \notin MissingRoles(t.wave)'
    BY <1>2, <1>7 DEF MissingRoles
  <1>10. TrioHeld(call[c])'
    <2>1. MissingRoles(t.wave)' \subseteq t.todo
      BY <1>2, <1>8, <1>9
    <2> QED
      BY <1>4, <2>1 DEF TrioHeld, CreatesSource
  <1>11. ASSUME NEW w \in Wave, MissingRoles(w)' # {}, NEW j \in ActiveJobs', jobs'[j].type \in Role, jobs'[j].wave = w
         PROVE  j \in Started(call[c])' /\ call'[c].wave = w
    <2>1. CASE j = t.job
      BY <1>2, <1>4, <1>5, <1>7, <1>11, <2>1
    <2>2. CASE j # t.job
      <3>1. j \in ActiveJobs /\ jobs'[j] = jobs[j]
        BY <1>6, <1>11, <2>2 DEF ActiveJobs
      <3>2. MissingRoles(w) # {}
        BY <1>8, <1>11
      <3>3. j \in Started(t) /\ t.wave = w
        BY <1>o, <1>p, <1>11, <3>1, <3>2 DEF TrioOrStarting
      <3> QED
        BY <1>4, <1>5, <3>3
    <2> QED
      BY <2>1, <2>2
  <1>12. (\A d \in Client : TrioHeld(call[d]))'
    BY <1>o, <1>10
  <1> QED
    BY <1>11, <1>12 DEF TrioOrStarting

\* _fail_partial_trio: the call gives up the jobs it answers for only once they are closed.
LEMMA RollbackTrio ==
  ASSUME OneCall, RowsCurrent, TrioOrStarting, NEW c \in Client, CommitteeRollback(c)
  PROVE  TrioOrStarting'
  <1>f. /\ call \in [Client -> CallState] /\ call[c] \in CallState
    BY CurrentFacts
  <1>p. PICK t \in CallState : t = call[c]
    BY <1>f
  <1>1. jobs' = jobs /\ t.pc = "committee_rollback"
    BY <1>p DEF CommitteeRollback, StoreUnchanged, store, At
  <1>2. Started(call[c]) = t.mine
    BY <1>p, <1>1 DEF Started, InCommittee
  <1>3. call'[c].pc \in {"committee_fail", "committee_rollback", "idle"}
    BY CommitteeFlow DEF Reads
  <1>4. TrioHeld(call[c])'
    BY <1>3 DEF TrioHeld, CreatesSource
  <1>5. CASE t.mine = {}
    BY <1>1, <1>2, <1>4, <1>5, SameJobs, TrioKept
  <1>6. CASE t.mine # {}
    <2>1. PICK j \in t.mine :
              \/ call' = [call EXCEPT ![c] = [t EXCEPT !.pc = "committee_fail", !.job = j, !.mine = @ \ {j},
                                                       !.row = Status(jobs[j], "failed")]]
              \/ /\ jobs[j].status \notin OpenJob
                 /\ call' = [call EXCEPT ![c] = [t EXCEPT !.mine = @ \ {j}]]
      BY <1>p, <1>6 DEF CommitteeRollback, Hold
    <2>2. CASE call' = [call EXCEPT ![c] = [t EXCEPT !.pc = "committee_fail", !.job = j, !.mine = @ \ {j},
                                                     !.row = Status(jobs[j], "failed")]]
      <3>1. /\ call'[c].pc = "committee_fail" /\ call'[c].job = j /\ call'[c].mine = t.mine \ {j}
            /\ call'[c].wave = t.wave
        BY <1>f, <2>2 DEF CallState
      <3>2. Started(call[c])' = t.mine
        BY <2>1, <3>1 DEF Started, InCommittee
      <3> QED
        BY <1>p, <1>1, <1>2, <1>4, <3>1, <3>2, SameJobs, TrioKept
    <2>3. CASE /\ jobs[j].status \notin OpenJob
               /\ call' = [call EXCEPT ![c] = [t EXCEPT !.mine = @ \ {j}]]
      <3>1. call'[c].pc = "committee_rollback" /\ call'[c].mine = t.mine \ {j} /\ call'[c].wave = t.wave
        BY <1>f, <1>1, <2>3 DEF CallState
      <3>2. Started(call[c])' = t.mine \ {j}
        BY <3>1 DEF Started, InCommittee
      <3>3. j \notin ActiveJobs'
        BY <1>1, <2>3 DEF ActiveJobs
      <3> QED
        BY <1>p, <1>1, <1>2, <1>4, <3>1, <3>2, <3>3, SameJobs, TrioKept
    <2> QED
      BY <2>1, <2>2, <2>3
  <1> QED
    BY <1>5, <1>6

LEMMA FailTrio ==
  ASSUME OneCall, RowsCurrent, TrioOrStarting, NEW c \in Client, CommitteeFail(c)
  PROVE  TrioOrStarting'
  <1>f. /\ call \in [Client -> CallState] /\ call[c] \in CallState /\ jobs \in [Job -> JobRow]
        /\ JobCurrent(call[c]) /\ CallOK(call[c])
    BY CurrentFacts
  <1>p. PICK t \in CallState : t = call[c]
    BY <1>f
  <1>g. JobCurrent(t) /\ CallOK(t)
    BY <1>f, <1>p
  <1>1. t.pc = "committee_fail" /\ jobs' = [jobs EXCEPT ![t.job] = t.row]
    BY <1>p DEF CommitteeFail, SaveJob, At
  <1>2. /\ t.job \in Job /\ Row(t.job) /\ t.row.status = "failed"
        /\ t.row.type = jobs[t.job].type /\ t.row.wave = jobs[t.job].wave
    BY <1>g, <1>1 DEF JobCurrent, ChangesOpen, CallOK, HoldsRow, JobOK, Row, OpenJob
  <1>3. /\ ActiveJobs' \subseteq ActiveJobs
        /\ \A k \in Job : jobs'[k].type = jobs[k].type /\ jobs'[k].wave = jobs[k].wave
        /\ \A w : MissingRoles(w)' = MissingRoles(w)
    BY <1>f, <1>1, <1>2, SavedOver DEF OpenJob
  <1>4. t.job \notin ActiveJobs'
    BY <1>f, <1>1, <1>2 DEF ActiveJobs, OpenJob
  <1>5. call'[c].pc = "committee_rollback" /\ call'[c].mine = t.mine /\ call'[c].wave = t.wave
    BY <1>f, <1>p DEF CommitteeFail, Goto, CallState
  <1>6. Started(call[c])' = t.mine /\ Started(call[c]) = t.mine \union {t.job}
    BY <1>p, <1>1, <1>5 DEF Started, InCommittee
  <1>7. TrioHeld(call[c])'
    BY <1>5 DEF TrioHeld, CreatesSource
  <1> QED
    BY <1>p, <1>3, <1>4, <1>5, <1>6, <1>7, TrioKept

LEMMA StepsKeepTrio ==
  ASSUME OneCall, ~MayCrash, "retry_job" \notin Calls, RowsCurrent, [Next]_vars, TrioOrStarting
  PROVE  TrioOrStarting'
  <1>1. CASE UNCHANGED vars
    BY <1>1 DEF vars, TrioOrStarting, TrioHeld, MissingRoles, ActiveJobs, Row
  <1>k. ASSUME NEW c \in Client, jobs' = jobs, call[c].pc \notin InCommittee,
               call'[c].pc \notin InCommittee \union CreatesSource
        PROVE  TrioOrStarting'
    BY <1>k, SameJobs, TrioApart
  <1>2. ASSUME NEW c \in Client, JobStep(c)
        PROVE  TrioOrStarting'
    <2>1. CASE SaveJobRow(c) \/ CompleteJobStart(c) \/ CompleteJobSave(c)
      BY <2>1, JobSavedTrio
    <2>2. CASE \/ StartJobRead(c) \/ RetryJobRead(c) \/ RetryJobSession(c)
               \/ CreateJobCheck(c) \/ CreateJobSaveSession(c)
      BY <2>2, SourceTrio
    <2>3. CASE CreateJobSaveJob(c)
      BY <2>3, SourceSaved
    <2>4. CASE \/ SaveSessionRow(c) \/ RunResearch(c) \/ CompleteJobRead(c) \/ AdvanceRead(c) \/ AdvanceSave(c)
               \/ CloseJobRead(c) \/ TouchJobRead(c) \/ CancelResearchRead(c)
      BY <1>k, <2>4, JobFlow DEF Reads, WritesSession, StoreUnchanged, store, At, InCommittee, CreatesSource
    <2> QED
      BY <1>2, <2>1, <2>2, <2>3, <2>4 DEF JobStep
  <1>3. ASSUME NEW c \in Client, EvidenceStep(c)
        PROVE  TrioOrStarting'
    <2>1. CASE RecordEvidenceSave(c) \/ SubmitDossier(c) \/ FreezeSave(c)
      <3>1. jobs' = jobs /\ call[c].pc \in {"evidence_save", "submit_dossier", "freeze_save"}
        BY <2>1 DEF RecordEvidenceSave, SubmitDossier, FreezeSave, At
      <3>2. call'[c].pc \in {"idle", "submit_read", "freeze_track"}
        BY <2>1, CurrentFacts DEF RecordEvidenceSave, SubmitDossier, FreezeSave, Goto, Return, Hold, Idle, CallState
      <3> QED
        BY <1>k, <3>1, <3>2 DEF InCommittee, CreatesSource
    <2>2. CASE ~(RecordEvidenceSave(c) \/ SubmitDossier(c) \/ FreezeSave(c))
      BY <1>k, <1>3, <2>2, EvidenceFlow DEF EvidenceStep, Reads, WritesSession, StoreUnchanged, store, At,
                                            InCommittee, CreatesSource
    <2> QED
      BY <2>1, <2>2
  <1>4. ASSUME NEW c \in Client, CommitteeStep(c)
        PROVE  TrioOrStarting'
    <2>1. CASE \/ CommitteeRoles(c) \/ CommitteeSession(c) \/ CommitteeCheck(c) \/ CommitteeSaveSession(c)
               \/ CommitteeSaveJob(c) \/ CommitteeRollback(c) \/ CommitteeFail(c)
      BY <2>1, CommitteeReadsTrio, CommitteeSavesTrio, RollbackTrio, FailTrio
    <2>2. CASE RecordAnalysisSave(c)
      BY <2>2, JobSavedTrio
    <2>3. CASE RecordAnalysisRead(c) \/ RecordAnalysisGate(c) \/ RecordAnalysisTrack(c)
      BY <1>k, <2>3, CommitteeFlow DEF Reads, WritesSession, StoreUnchanged, store, At, InCommittee, CreatesSource
    <2> QED
      BY <1>4, <2>1, <2>2, <2>3 DEF CommitteeStep
  <1>5. ASSUME NEW c \in Client, DirectorStep(c)
        PROVE  TrioOrStarting'
    BY <1>k, <1>5, DirectorFlow DEF DirectorStep, Reads, WritesSession, StoreUnchanged, store, At,
                                    InCommittee, CreatesSource
  <1>6. \A c \in Client : ~Crash(c)
    BY DEF Crash
  <1> QED
    BY <1>1, <1>2, <1>3, <1>4, <1>5, <1>6 DEF Next

\* Between calls no committee of a wave is half there with a job of it open
\* (create_committee_jobs, _fail_partial_trio), no call dying and no job retried:
\* the retry of a job that was rolled back opens it alone.
THEOREM TriosStayWhole ==
  ASSUME OneCall, ~MayCrash, "retry_job" \notin Calls
  PROVE  Spec => []NoPartialTrio
  <1>1. Init => TrioOrStarting
    <2> SUFFICES ASSUME Init PROVE TrioOrStarting
      OBVIOUS
    <2>1. \A j \in Job : jobs[j].type = "source_agent"
      BY DEF Init, NoRow
    <2>2. \A c \in Client : TrioHeld(call[c])
      BY DEF Init, Idle, TrioHeld, CreatesSource
    <2> QED
      BY <2>1, <2>2 DEF TrioOrStarting, ActiveJobs, Role
  <1>2. RowsCurrent /\ TrioOrStarting /\ [Next]_vars => TrioOrStarting'
    BY StepsKeepTrio
  <1>3. TrioOrStarting => NoPartialTrio
    <2> SUFFICES ASSUME TrioOrStarting, Quiet
                 PROVE  \A w \in Wave : MissingRoles(w) # {} =>
                            \A j \in ActiveJobs : jobs[j].type \in Role => jobs[j].wave # w
      BY DEF NoPartialTrio
    <2>1. \A c \in Client : Started(call[c]) = {}
      BY DEF Quiet, At, Started, InCommittee
    <2> QED
      BY <2>1 DEF TrioOrStarting
  <1> QED
    BY <1>1, <1>2, <1>3, RowsStayCurrent, PTL DEF Spec

=============================================================================
